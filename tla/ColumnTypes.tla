---------------------------- MODULE ColumnTypes ----------------------------
(***************************************************************************)
(* The type of a column and the values in it, from the source's CREATE     *)
(* TABLE to the rows of the target: parseDataType of                       *)
(* internal/dialects/{mysql,oracle,db2}, the mappers of                    *)
(* internal/translate/types_map_*.go, and coerce of                        *)
(* internal/dataxfer/copier.go, which turns what the source's driver       *)
(* returns into what pgx sends to a column of the mapped type.             *)
(*                                                                         *)
(* The sizes of integers are compared only, so that a magnitude is its     *)
(* place among the Edges, the limits that occur: the edge 2^15 stands for  *)
(* 32767 and, negated, for -32768; the edge 10^4 for 9999 and -9999.       *)
(***************************************************************************)
EXTENDS Integers, Sequences, FiniteSets, SequencesExt

CONSTANT TypeSources    \* kind -> [text |-> tokens, values |-> set of values]

VARIABLES tyKind,       \* "mysql", "oracle", "db2" or "db2zos"
          tySrc,        \* a member of TypeSources[tyKind]
          tyNode,       \* the data type of the AST
          tyPG,         \* the typeResult
          tyCopied,     \* the source value last copied
          tyCell,       \* what the column holds for it
          tyPhase

tyVars == <<tyKind, tySrc, tyNode, tyPG, tyCopied, tyCell, tyPhase>>

Edges == <<<<2, 0>>, <<2, 1>>, <<10, 1>>, <<2, 7>>, <<2, 8>>, <<10, 3>>, <<10, 4>>, <<2, 15>>, <<2, 16>>,
           <<10, 5>>, <<2, 23>>, <<2, 24>>, <<10, 9>>, <<2, 31>>, <<2, 32>>, <<10, 10>>, <<2, 53>>,
           <<10, 18>>, <<2, 63>>, <<10, 19>>, <<2, 64>>, <<10, 20>>, <<10, 38>>>>

\* the place of b^e - 1; <<2, 0>> is 0 and <<2, 1>> is 1
Edge(b, e) == CHOOSE i \in 1..Len(Edges) : Edges[i] = <<b, e>>

-----------------------------------------------------------------------------
(* Source text.  A token is a word, or "#" with a number. *)

None == -99

W(w) == [w |-> w, n |-> None]
N(n) == [w |-> "#", n |-> n]

Is(w, ts) == ts # <<>> /\ ts[1].w = w
IsIn(ws, ts) == ts # <<>> /\ ts[1].w \in ws
Past(w, ts) == IF Is(w, ts) THEN Tail(ts) ELSE ts

\* The optional "( n [unit] [, m] )" after a name, or the literals of ENUM and
\* SET: "*" is read as no number (intLit and its callers).
Parens(ts) ==
    IF ~Is("(", ts) THEN [p |-> None, s |-> None, unit |-> "", items |-> 0, rest |-> ts]
    ELSE LET close == CHOOSE i \in 1..Len(ts) : ts[i].w = ")" /\ \A j \in 1..(i - 1) : ts[j].w # ")"
             inner == SubSeq(ts, 2, close - 1)
             nums == SelectSeq(inner, LAMBDA t : t.w \in {"#", "*"})
             units == SelectSeq(inner, LAMBDA t : t.w \notin {"#", "*", ",", "'v'"})
         IN  [p |-> IF nums = <<>> THEN None ELSE nums[1].n,
              s |-> IF Len(nums) < 2 THEN None ELSE nums[2].n,
              unit |-> IF units = <<>> THEN "" ELSE units[1].w,
              items |-> Len(SelectSeq(inner, LAMBDA t : t.w = "'v'")),
              rest |-> SubSeq(ts, close + 1, Len(ts))]

\* The nodes of the AST: kind, name, two numbers and flags.
TypeNode(k, name, p, s, w) == [k |-> k, name |-> name, p |-> p, s |-> s, w |-> w]
NoNode == TypeNode("nil", "", None, None, {})
IntType(name, p, w) == TypeNode("Int", name, p, None, w)
FloatType(name, p, s, w) == TypeNode("Float", name, p, s, w)
DecimalType(p, s, w) == TypeNode("Decimal", "", p, s, w)
CharType(name, p) == TypeNode("Char", name, p, None, {})
BinaryType(name, p) == TypeNode("Binary", name, p, None, {})
Stamp(k, fsp) == TypeNode(k, "", fsp, None, {})
NamedType(k) == TypeNode(k, "", None, None, {})

Read(node, rest) == [node |-> node, rest |-> rest]

RECURSIVE Flags(_, _), consumeCharsetClause(_)

\* the loop over SIGNED, UNSIGNED and ZEROFILL
Flags(ws, ts) ==
    IF IsIn({"UNSIGNED", "SIGNED", "ZEROFILL"}, ts) THEN Flags(ws \cup {ts[1].w}, Tail(ts)) ELSE [w |-> ws, rest |-> ts]

\* UNSIGNED and then ZEROFILL, as for integers
IntFlags(ts) ==
    LET u == Is("UNSIGNED", ts)
        after == Past("UNSIGNED", ts)
    IN  [w |-> (IF u THEN {"UNSIGNED"} ELSE {}) \cup (IF Is("ZEROFILL", after) THEN {"ZEROFILL"} ELSE {}),
         rest |-> Past("ZEROFILL", after)]

consumeCharsetClause(ts) ==
    CASE Is("CHARACTER", ts) -> consumeCharsetClause(SubSeq(ts, 4, Len(ts)))
      [] IsIn({"CHARSET", "COLLATE"}, ts) -> consumeCharsetClause(Tail(Past("=", Tail(ts))))
      [] OTHER -> ts

Ints == {"TINYINT", "SMALLINT", "MEDIUMINT", "INT", "INTEGER", "BIGINT"}

\* parseDataType of mysql: numbers and bits
MySQLNumeric(ts) ==
    LET name == ts[1].w
        a == Parens(IF name = "DOUBLE" THEN Past("PRECISION", Tail(ts)) ELSE Tail(ts))
        f == Flags({}, a.rest)
    IN  CASE name \in Ints ->
                LET g == IntFlags(a.rest) IN Read(IntType(name, a.p, g.w), g.rest)
          [] name \in {"FLOAT", "DOUBLE", "REAL"} -> Read(FloatType(name, a.p, a.s, f.w), f.rest)
          [] name \in {"DECIMAL", "NUMERIC", "DEC"} ->
                Read(DecimalType(a.p, IF a.s = None THEN 0 ELSE a.s, f.w), f.rest)
          [] name = "BIT" -> Read(TypeNode("Bit", "", IF a.p = None THEN 1 ELSE a.p, None, {}), a.rest)

Texts == {"TINYTEXT", "TEXT", "MEDIUMTEXT", "LONGTEXT"}
Blobs == {"TINYBLOB", "BLOB", "MEDIUMBLOB", "LONGBLOB"}

\* parseDataType of mysql: everything else
MySQLOther(ts) ==
    LET name == ts[1].w
        a == Parens(Tail(ts))
        fsp == IF a.p = None THEN 0 ELSE a.p
    IN  CASE name \in {"CHAR", "VARCHAR"} -> Read(CharType(name, a.p), consumeCharsetClause(a.rest))
          [] name \in Texts -> Read(NamedType("Text"), consumeCharsetClause(a.rest))
          [] name \in Blobs -> Read(NamedType("Blob"), Tail(ts))
          [] name \in {"BINARY", "VARBINARY"} -> Read(BinaryType(name, a.p), a.rest)
          [] name = "ENUM" -> Read(TypeNode("Enum", "", a.items, None, {}), a.rest)
          [] name = "SET" -> Read(TypeNode("Set", "", a.items, None, {}), a.rest)
          [] name = "JSON" -> Read(NamedType("JSON"), Tail(ts))
          [] name = "DATE" -> Read(NamedType("Date"), Tail(ts))
          [] name = "TIME" -> Read(Stamp("Time", fsp), a.rest)
          [] name = "DATETIME" -> Read(Stamp("DateTime", fsp), a.rest)
          [] name = "TIMESTAMP" -> Read(Stamp("Timestamp", fsp), a.rest)
          [] name = "YEAR" -> Read(NamedType("Year"), a.rest)
          [] name \in {"GEOMETRY", "POINT"} -> Read(NamedType("Spatial"), Tail(ts))
          [] name = "VECTOR" -> Read(NamedType("Vector"), a.rest)
          [] OTHER -> Read(NoNode, ts)

MySQLDataType(ts) ==
    IF ts[1].w \in Ints \cup {"FLOAT", "DOUBLE", "REAL", "DECIMAL", "NUMERIC", "DEC", "BIT"}
    THEN MySQLNumeric(ts) ELSE MySQLOther(ts)

\* parseDataType of oracle: names that are no keywords, numbers and strings
OracleScalar(ts) ==
    LET name == ts[1].w
        a == Parens(Tail(ts))
        Number(p, s) == TypeNode("Number", "", p, s, {})
    IN  CASE name \in {"NUMBER", "NUMERIC", "DECIMAL", "DEC"} -> Read(Number(a.p, a.s), a.rest)
          [] name \in {"INTEGER", "INT", "SMALLINT"} -> Read(Number(38, None), Tail(ts))
          [] name = "FLOAT" -> Read(FloatType("FLOAT", None, None, {}), a.rest)
          [] name = "REAL" -> Read(FloatType("REAL", None, None, {}), Tail(ts))
          [] name = "DOUBLE" -> Read(FloatType("DOUBLE", None, None, {}), Past("PRECISION", Tail(ts)))
          [] name \in {"BINARY_FLOAT", "BINARY_DOUBLE"} -> Read(NamedType(name), Tail(ts))
          [] name \in {"VARCHAR2", "VARCHAR", "NVARCHAR2"} -> Read(CharType("Varchar2", a.p), a.rest)
          [] name \in {"CHAR", "CHARACTER", "NCHAR"} -> Read(CharType("CHAR", a.p), a.rest)
          [] name \in {"CLOB", "NCLOB"} -> Read(NamedType("Clob"), Tail(ts))
          [] name = "LONG" -> IF Is("RAW", Tail(ts)) THEN Read(NamedType("LongRaw"), Tail(Tail(ts)))
                              ELSE Read(NamedType("Clob"), Tail(ts))
          [] name = "RAW" -> Read(TypeNode("Raw", "", a.p, None, {}), a.rest)

\* parseDataType of oracle: the rest of the keywords
OracleOther(ts) ==
    LET name == ts[1].w
        a == Parens(Tail(ts))
        fsp == IF a.p = None THEN 6 ELSE a.p
    IN  CASE name \in {"BLOB", "BFILE", "ROWID", "BOOLEAN", "XMLTYPE", "JSON"} -> Read(NamedType(name), Tail(ts))
          [] name = "DATE" -> Read(Stamp("DateTime", 0), Tail(ts))
          [] name = "TIMESTAMP" ->
                IF Is("WITH", a.rest)
                THEN Read(Stamp("TimestampTZ", fsp), Past("ZONE", Past("TIME", Past("LOCAL", Tail(a.rest)))))
                ELSE Read(Stamp("Timestamp", fsp), a.rest)
          [] name = "INTERVAL" /\ Is("YEAR", Tail(ts)) ->
                Read(NamedType("IntervalYM"), Past("MONTH", Past("TO", Parens(Tail(Tail(ts))).rest)))
          [] name = "INTERVAL" /\ Is("DAY", Tail(ts)) ->
                Read(NamedType("IntervalDS"), Parens(Past("SECOND", Past("TO", Parens(Tail(Tail(ts))).rest))).rest)
          [] name = "UROWID" -> Read(NamedType("ROWID"), a.rest)
          [] name = "VECTOR" -> Read(NamedType("Vector"), a.rest)
          [] OTHER -> Read(TypeNode("UserDefined", name, None, None, {}), Tail(ts))

OracleDataType(ts) ==
    IF ts[1].w \in {"NUMBER", "NUMERIC", "DECIMAL", "DEC", "INTEGER", "INT", "SMALLINT", "FLOAT", "REAL", "DOUBLE",
                    "BINARY_FLOAT", "BINARY_DOUBLE", "VARCHAR2", "VARCHAR", "NVARCHAR2", "CHAR", "CHARACTER",
                    "NCHAR", "CLOB", "NCLOB", "LONG", "RAW"}
    THEN OracleScalar(ts) ELSE OracleOther(ts)

\* parseCharLengthAndForBit: the length with its unit, FOR BIT DATA, and FOR
\* SBCS or MIXED DATA, which is dropped
parseCharLengthAndForBit(name, ts) ==
    LET a == Parens(ts)
        after == Tail(a.rest)
    IN  CASE Is("FOR", a.rest) /\ Is("BIT", after) ->
                Read(TypeNode("ForBitData", name, a.p, None, {}), Past("DATA", Tail(after)))
          [] Is("FOR", a.rest) /\ ~Is("BIT", after) ->
                Read(CharType(name, a.p), Past("DATA", Past("MIXED", Past("SBCS", after))))
          [] OTHER -> Read(CharType(name, a.p), a.rest)

\* parseDataType of db2 up to BINARY
DB2Scalar(ts) ==
    LET name == ts[1].w
        next == Tail(ts)
        a == Parens(next)
    IN  CASE name \in {"SMALLINT", "INTEGER", "INT", "BIGINT"} -> Read(IntType(name, None, {}), next)
          [] name \in {"DECIMAL", "DEC", "NUMERIC"} -> Read(DecimalType(a.p, IF a.s = None THEN 0 ELSE a.s, {}), a.rest)
          [] name = "DECFLOAT" -> Read(NamedType("DecFloat"), a.rest)
          [] name = "REAL" -> Read(FloatType(name, None, None, {}), next)
          [] name = "DOUBLE" -> Read(FloatType(name, None, None, {}), Past("PRECISION", next))
          [] name = "FLOAT" -> Read(FloatType(name, a.p, None, {}), a.rest)
          [] name \in {"CHAR", "CHARACTER"} /\ Is("VARYING", next) -> parseCharLengthAndForBit("VARCHAR", Tail(next))
          [] name \in {"CHAR", "CHARACTER"} /\ Is("LARGE", next) ->
                Read(NamedType("Clob"), Parens(Past("OBJECT", Tail(next))).rest)
          [] name \in {"CHAR", "CHARACTER"} /\ ~IsIn({"VARYING", "LARGE"}, next) -> parseCharLengthAndForBit("CHAR", next)
          [] name = "VARCHAR" -> parseCharLengthAndForBit("VARCHAR", next)
          [] name \in {"GRAPHIC", "VARGRAPHIC", "DBCLOB"} -> Read(TypeNode("Graphic", name, a.p, None, {}), a.rest)
          [] name = "CLOB" -> Read(NamedType("Clob"), a.rest)
          [] name = "BLOB" -> Read(NamedType("Blob"), a.rest)

\* parseDataType of db2 from BINARY on
DB2Other(ts) ==
    LET name == ts[1].w
        next == Tail(ts)
        a == Parens(next)
        zone == Past("ZONE", Past("TIME", Tail(a.rest)))
    IN  CASE name = "BINARY" /\ Is("LARGE", next) -> Read(NamedType("Blob"), Parens(Past("OBJECT", Tail(next))).rest)
          [] name \in {"BINARY", "VARBINARY"} /\ ~Is("LARGE", next) -> Read(BinaryType(name, a.p), a.rest)
          [] name \in {"DATE", "TIME"} -> Read(Stamp(IF name = "DATE" THEN "Date" ELSE "Time", 0), next)
          [] name = "TIMESTAMP" ->
                LET fsp == IF a.p = None THEN 6 ELSE a.p
                IN  CASE Is("WITH", a.rest) -> Read(Stamp("TimestampTZ", fsp), zone)
                      [] Is("WITHOUT", a.rest) -> Read(Stamp("Timestamp", fsp), zone)
                      [] OTHER -> Read(Stamp("Timestamp", fsp), a.rest)
          [] name \in {"XML", "BOOLEAN", "ROWID"} -> Read(NamedType(name), next)
          [] name = "LONG" ->
                CASE Is("VARCHAR", next) -> Read(CharType("VARCHAR", None), Tail(next))
                  [] Is("VARGRAPHIC", next) -> Read(TypeNode("Graphic", "LONG VARGRAPHIC", None, None, {}), Tail(next))
                  [] OTHER -> Read(NamedType("Clob"), next)
          [] OTHER -> Read(TypeNode("UserDefined", name, None, None, {}), a.rest)

DB2DataType(ts) ==
    IF ts[1].w \in {"SMALLINT", "INTEGER", "INT", "BIGINT", "DECIMAL", "DEC", "NUMERIC", "DECFLOAT", "REAL", "DOUBLE",
                    "FLOAT", "CHAR", "CHARACTER", "VARCHAR", "GRAPHIC", "VARGRAPHIC", "DBCLOB", "CLOB", "BLOB"}
    THEN DB2Scalar(ts) ELSE DB2Other(ts)

parseDataTypeOf(kind, ts) ==
    CASE kind = "mysql" -> MySQLDataType(ts)
      [] kind = "oracle" -> OracleDataType(ts)
      [] OTHER -> DB2DataType(ts)

-----------------------------------------------------------------------------
(* The mappers.  A result is the udt_name of the column with its precision *)
(* and scale, its CHECK with a number, and whether the user is warned.     *)

PG(t, p, s) == [t |-> t, p |-> p, s |-> s, check |-> "", n |-> None, warned |-> FALSE]
Type(t) == PG(t, None, None)
Checked(r, check, n) == [r EXCEPT !.check = check, !.n = n]
WithWarning(r) == [r EXCEPT !.warned = TRUE]

Length(l) == IF l = None THEN 1 ELSE l

mapMySQLInt(x) ==
    LET unsigned == "UNSIGNED" \in x.w
        widened == CASE x.name = "TINYINT" -> Type("int2")
                     [] x.name \in {"SMALLINT", "MEDIUMINT"} -> Type("int4")
                     [] x.name \in {"INT", "INTEGER"} -> Type("int8")
                     [] x.name = "BIGINT" -> PG("numeric", 20, 0)
        same == CASE x.name \in {"TINYINT", "SMALLINT"} -> Type("int2")
                  [] x.name \in {"MEDIUMINT", "INT", "INTEGER"} -> Type("int4")
                  [] x.name = "BIGINT" -> Type("int8")
    IN  IF x.name = "TINYINT" /\ x.p = 1 /\ ~unsigned THEN Type("bool")
        ELSE IF unsigned THEN Checked(widened, "nonneg", None) ELSE same

\* FLOAT(p, s) is a fixed-point number; FLOAT(p) keeps no precision here
mapMySQLFloat(x) ==
    CASE x.name = "FLOAT" /\ x.s # None -> PG("numeric", x.p, x.s)
      [] x.name = "FLOAT" /\ x.s = None -> Type("float4")
      [] OTHER -> Type("float8")

mapMySQLType(x) ==
    CASE x.k = "Int" -> mapMySQLInt(x)
      [] x.k = "Float" -> mapMySQLFloat(x)
      [] x.k = "Decimal" -> IF x.p = None THEN PG("numeric", 10, 0) ELSE PG("numeric", x.p, x.s)
      [] x.k = "Bit" -> IF x.p <= 1 THEN Type("bool") ELSE Checked(Type("bytea"), "octets =", (x.p + 7) \div 8)
      [] x.k = "Char" -> PG(IF x.name = "VARCHAR" THEN "varchar" ELSE "bpchar", Length(x.p), None)
      [] x.k = "Text" -> Type("text")
      [] x.k = "Blob" -> Type("bytea")
      [] x.k = "Binary" -> IF x.name = "BINARY" THEN Checked(Type("bytea"), "octets =", IF x.p = None THEN 0 ELSE x.p)
                           ELSE Type("bytea")
      [] x.k = "Enum" -> Checked(Type("text"), "in", x.p)
      [] x.k = "Set" -> Checked(Type("_text"), "subset", x.p)
      [] x.k = "JSON" -> Type("jsonb")
      [] x.k = "Date" -> Type("date")
      [] x.k = "Time" -> PG("time", IF x.p > 0 THEN x.p ELSE 6, None)
      [] x.k = "DateTime" -> PG("timestamp", IF x.p > 0 THEN x.p ELSE 6, None)
      [] x.k = "Timestamp" -> PG("timestamptz", IF x.p > 0 THEN x.p ELSE 6, None)
      [] x.k = "Year" -> Checked(Type("int2"), "year", None)
      [] x.k = "Vector" -> WithWarning(Type("vector"))
      [] OTHER -> WithWarning(Type("text"))     \* spatial types, and what the parser does not know

\* NUMBER: an integer type when it fits
mapOracleNumber(x) ==
    CASE x.p = None -> PG("numeric", None, None)
      [] x.p # None /\ x.s \notin {None, 0} -> PG("numeric", x.p, x.s)
      [] x.p # None /\ x.s \in {None, 0} ->
            CASE x.p <= 4 -> Type("int2")
              [] x.p \in 5..9 -> Type("int4")
              [] x.p \in 10..18 -> Type("int8")
              [] x.p > 18 -> PG("numeric", x.p, 0)

\* A name that is no keyword: DBMS_METADATA quotes built-in types too.  Types
\* that the dump itself creates are left out.
mapOracleUserType(x) ==
    CASE x.name = "'XMLTYPE'" -> Type("xml")
      [] x.name = "SDO_GEOMETRY" -> WithWarning(Type("text"))    \* without PostGIS
      [] x.name = "SYS_REFCURSOR" -> Type("refcursor")
      [] x.name = "ORDIMAGE" -> WithWarning(Type("bytea"))
      [] x.name = "ANYDATA" -> WithWarning(Type("jsonb"))
      [] OTHER -> WithWarning(Type("text"))

mapOracleType(x) ==
    CASE x.k = "Number" -> mapOracleNumber(x)
      [] x.k = "Char" /\ x.name = "Varchar2" -> PG("varchar", x.p, None)
      [] x.k = "Char" /\ x.name = "CHAR" -> PG("bpchar", Length(x.p), None)
      [] x.k = "Clob" -> Type("text")
      [] x.k = "Raw" -> IF x.p # None THEN Checked(Type("bytea"), "octets <=", x.p) ELSE Type("bytea")
      [] x.k \in {"LongRaw", "BLOB", "BFILE"} -> Type("bytea")
      [] x.k = "ROWID" -> Type("int8")
      [] x.k \in {"IntervalYM", "IntervalDS"} -> Type("interval")
      [] x.k = "TimestampTZ" -> PG("timestamptz", IF x.p > 0 THEN x.p ELSE 6, None)
      [] x.k = "Timestamp" -> PG("timestamp", IF x.p > 0 THEN x.p ELSE 6, None)
      [] x.k = "DateTime" -> PG("timestamp", 0, None)
      [] x.k = "XMLTYPE" -> Type("xml")
      [] x.k = "BINARY_FLOAT" -> Type("float4")
      [] x.k \in {"BINARY_DOUBLE", "Float"} -> Type("float8")
      [] x.k = "JSON" -> Type("jsonb")
      [] x.k = "BOOLEAN" -> Type("bool")
      [] x.k = "Vector" -> WithWarning(Type("vector"))
      [] OTHER -> mapOracleUserType(x)

\* the DB2 types that keep their name
mapDB2Generic(x) ==
    CASE x.k = "Int" -> Type(CASE x.name = "SMALLINT" -> "int2" [] x.name = "BIGINT" -> "int8" [] OTHER -> "int4")
      [] x.k = "Decimal" -> PG("numeric", x.p, IF x.p = None THEN None ELSE x.s)
      [] x.k = "Float" -> CASE x.name = "REAL" -> Type("float4")
                            [] x.name = "FLOAT" /\ x.p \in 1..24 -> Type("float4")
                            [] OTHER -> Type("float8")
      [] x.k = "Char" -> IF x.name = "CHAR" THEN PG("bpchar", Length(x.p), None) ELSE PG("varchar", x.p, None)
      [] x.k = "Clob" -> Type("text")
      [] x.k = "Blob" -> Type("bytea")
      [] x.k = "Binary" -> IF x.p # None THEN Checked(Type("bytea"), "octets <=", x.p) ELSE Type("bytea")
      [] x.k = "Date" -> Type("date")
      [] x.k = "Time" -> PG("time", 0, None)
      [] x.k = "Timestamp" -> PG("timestamp", IF x.p <= 0 \/ x.p > 6 THEN 6 ELSE x.p, None)
      [] OTHER -> WithWarning(Type("text"))

mapDB2Type(x) ==
    CASE x.k = "DecFloat" -> PG("numeric", None, None)
      [] x.k = "Graphic" -> IF x.p # None /\ x.name # "DBCLOB" THEN PG("varchar", x.p, None) ELSE Type("text")
      [] x.k = "ForBitData" -> Type("bytea")
      [] x.k = "ROWID" -> WithWarning(Type("int8"))
      [] x.k = "TimestampTZ" -> PG("timestamptz", IF x.p > 6 THEN 6 ELSE x.p, None)
      [] x.k = "BOOLEAN" -> Type("bool")
      [] x.k = "XML" -> Type("xml")
      [] OTHER -> mapDB2Generic(x)

mapDB2zOSType(x) ==
    CASE x.k = "BOOLEAN" -> Checked(Type("int2"), "0 or 1", None)
      [] x.k = "TimestampTZ" -> WithWarning(PG("timestamp", IF x.p > 6 THEN 6 ELSE x.p, None))
      [] OTHER -> mapDB2Type(x)

MapTypeOf(kind, x) ==
    CASE kind = "mysql" -> mapMySQLType(x)
      [] kind = "oracle" -> mapOracleType(x)
      [] kind = "db2" -> mapDB2Type(x)
      [] kind = "db2zos" -> mapDB2zOSType(x)

-----------------------------------------------------------------------------
(* Values.  A Go value is a Go type and what it stands for. *)

Num(neg, mag, frac) == [f |-> "num", neg |-> neg, mag |-> mag, frac |-> frac]
Bits(octets, b) == [f |-> "bits", len |-> octets, b |-> b]
Bytes(len) == [f |-> "bytes", len |-> len]
Chars(len, nul) == [f |-> "text", len |-> len, nul |-> nul]
Members(i) == [f |-> "members", i |-> i]        \* of an ENUM or a SET
Real(bits) == [f |-> "real", bits |-> bits]
TimeOfDay(fsp, day) == [f |-> "time", fsp |-> fsp, day |-> day]
Moment(fsp) == [f |-> "stamp", fsp |-> fsp]
Span(fsp) == [f |-> "span", fsp |-> fsp]
Bool(b) == [f |-> "bool", b |-> b]
Null == [f |-> "null"]
Rejected == [f |-> "rejected"]

Go(type, v) == [go |-> type, v |-> v]
Nil == Go("nil", Null)

\* what the source's driver may return for a value
Driver(v) ==
    CASE v.f = "num" /\ v.frac = 0 /\ v.mag <= Edge(2, 63) -> {"int64", "[]byte", "string"}
      [] v.f = "num" /\ v.frac = 0 /\ v.mag > Edge(2, 63) ->
            {"[]byte", "string"} \cup (IF v.mag <= Edge(2, 64) /\ ~v.neg THEN {"uint64"} ELSE {})
      [] v.f = "num" /\ v.frac > 0 -> {"[]byte", "string"}
      [] v.f = "text" -> {"[]byte", "string"}
      [] v.f = "real" -> {"float64"}
      [] v.f = "stamp" -> {"time.Time"}
      [] v.f = "span" -> {"string"}
      [] v.f = "bool" -> {"bool"}
      [] OTHER -> {"[]byte"}

\* The bytes of a BIT are no numeral, and what is no numeral is false.
toBool(g) ==
    CASE g.v.f = "bool" -> g
      [] g.v.f = "num" -> Go("bool", Bool(g.v.mag # Edge(2, 0)))
      [] OTHER -> Go("bool", Bool(FALSE))

toBytes(g) == IF g.go \in {"[]byte", "string"} THEN Go("[]byte", g.v) ELSE Nil

toString(g) ==
    IF g.go = "[]byte" /\ g.v.f \in {"bytes", "bits"} THEN Go("string", Chars(8 * g.v.len, FALSE))
    ELSE Go("string", g.v)

stripNUL(g) == IF g.v.f = "text" /\ g.v.nul THEN Go("string", Chars(g.v.len - 1, FALSE)) ELSE g

\* Mutant: the limit itself is out of range.
BugClampEdge(g, hi) ==
    IF g.v.f # "num" \/ g.v.frac > 0 \/ g.v.mag >= hi THEN Nil ELSE Go("int64", g.v)

\* a numeral with a fraction, or beyond int64, does not parse
toIntClamp(g, hi) ==
    IF g.v.f # "num" \/ g.v.frac > 0 \/ g.v.mag > hi THEN Nil ELSE Go("int64", g.v)

normalizeTime(g) == IF g.go \in {"[]byte", "string"} /\ ~g.v.day THEN Nil ELSE g

toTextArray(g) == IF g.go \in {"[]byte", "string"} THEN Go("[]string", g.v) ELSE Nil

\* fractions of a second beyond the sixth digit are cut
toPGInterval(g) == IF g.v.fsp > 6 THEN Go("Interval", Span(6)) ELSE Go("Interval", g.v)

coerce(g, udt) ==
    CASE udt = "bool" -> toBool(g)
      [] udt = "bytea" -> toBytes(g)
      [] udt \in {"text", "varchar", "bpchar", "jsonb"} -> stripNUL(toString(g))
      [] udt = "time" -> normalizeTime(g)
      [] udt \in {"numeric", "xml"} -> toString(g)
      [] udt = "_text" -> toTextArray(g)
      [] udt = "int2" -> toIntClamp(g, Edge(2, 15))
      [] udt = "int4" -> toIntClamp(g, Edge(2, 31))
      [] udt = "int8" -> toIntClamp(g, Edge(2, 63))
      [] udt = "interval" -> toPGInterval(g)
      [] OTHER -> g

\* PostgreSQL: what a column of type r makes of v
Fitted(r, v) ==
    CASE v.f = "num" /\ r.t = "numeric" /\ r.p # None ->
            IF v.mag > Edge(10, r.p - r.s) THEN Rejected ELSE [v EXCEPT !.frac = IF r.s >= 0 /\ v.frac > r.s THEN r.s ELSE @]
      [] v.f = "text" /\ r.t \in {"varchar", "bpchar"} /\ r.p # None -> IF v.len > r.p THEN Rejected ELSE v
      [] v.f = "text" /\ r.t \in {"text", "varchar", "jsonb", "xml"} -> IF v.nul THEN Rejected ELSE v
      [] v.f = "real" /\ r.t = "float4" -> Real(IF v.bits > 24 THEN 24 ELSE v.bits)
      [] v.f = "real" /\ r.t = "float8" -> Real(IF v.bits > 53 THEN 53 ELSE v.bits)
      [] v.f \in {"time", "stamp"} /\ r.t \in {"time", "timestamp", "timestamptz"} ->
            [v EXCEPT !.fsp = IF v.fsp > r.p THEN r.p ELSE @]
      [] OTHER -> v

\* ... and its CHECK constraint
CheckHolds(r, v) ==
    CASE r.check = "octets =" -> v.len = r.n
      [] r.check = "octets <=" -> v.len <= r.n
      [] r.check = "nonneg" -> ~v.neg
      [] r.check = "year" -> v.mag # Edge(2, 0)
      [] r.check \in {"in", "subset"} -> v.i <= r.n
      [] OTHER -> TRUE

Store(r, v) ==
    IF v = Null THEN Null
    ELSE LET w == Fitted(r, v) IN IF w # Rejected /\ CheckHolds(r, w) THEN w ELSE Rejected

-----------------------------------------------------------------------------

TyStart ==
    /\ tyNode = Read(NoNode, <<>>) /\ tyPG = Type("")
    /\ tyCopied = Null /\ tyCell = Null /\ tyPhase = "parse"

TyInit ==
    /\ tyKind \in DOMAIN TypeSources
    /\ tySrc \in TypeSources[tyKind]
    /\ TyStart

parseDataType ==
    /\ tyPhase = "parse"
    /\ tyNode' = parseDataTypeOf(tyKind, tySrc.text)
    /\ tyPhase' = "map"
    /\ UNCHANGED <<tyKind, tySrc, tyPG, tyCopied, tyCell>>

MapType ==
    /\ tyPhase = "map"
    /\ tyPG' = MapTypeOf(tyKind, tyNode.node)
    /\ tyPhase' = "copy"
    /\ UNCHANGED <<tyKind, tySrc, tyNode, tyCopied, tyCell>>

\* sqlRowSource.Next: a row is scanned and its values are coerced; COPY stores
\* them.
CopyValue ==
    /\ tyPhase \in {"copy", "copied"}
    /\ \E v \in tySrc.values : \E go \in Driver(v) :
          /\ tyCopied' = v
          /\ tyCell' = Store(tyPG, coerce(Go(go, v), tyPG.t).v)
    /\ tyPhase' = "copied"
    /\ UNCHANGED <<tyKind, tySrc, tyNode, tyPG>>

TyNext == parseDataType \/ MapType \/ CopyValue

\* What the code loses without a warning.
KnownLoss(v) ==
    \/ v.f = "bits" /\ tyPG.t = "bool"                                        \* BIT(1)
    \/ v.f = "num" /\ tyPG.t = "bool" /\ v.mag > Edge(2, 1)                   \* TINYINT(1) beyond 0 and 1
    \/ v.f = "num" /\ tyPG.check = "year" /\ v.mag = Edge(2, 0)               \* YEAR 0000
    \/ v.f = "time" /\ ~v.day                                                 \* TIME below 0 or beyond a day
    \/ v.f = "text" /\ v.nul                                                  \* NUL characters
    \/ v.f = "real" /\ (v.bits > 53 \/ (tyNode.node.name = "FLOAT" /\ v.bits > 24))  \* FLOAT(p)
    \/ v.f \in {"stamp", "span"} /\ v.fsp > 6                                 \* below microseconds

SameValue(v, cell) ==
    CASE v.f = "num" /\ cell.f = "bool" -> cell.b = (v.mag # Edge(2, 0))
      [] v.f = "bits" /\ cell.f = "bool" -> cell.b = v.b
      [] OTHER -> cell = v

\* The column of the target holds every value that the column of the source
\* can hold: the type is read to its end, its mapping is wide enough at every
\* limit, coerce does not put NULL in the place of a value and the CHECK that
\* comes with the type lets it pass.
ValuesArrive ==
    tyPhase = "copied" /\ ~tyPG.warned /\ ~KnownLoss(tyCopied) =>
        tyNode.rest = <<>> /\ SameValue(tyCopied, tyCell)
=============================================================================

-------------------------------- MODULE Dump --------------------------------
(***************************************************************************)
(* Parse of the three dialects: the loop that reads the text of a source   *)
(* schema one statement after the other, and that after one it cannot read *)
(* goes on behind the next delimiter; and the statements of a routine's    *)
(* body that are SQL.                                                      *)
(*                                                                         *)
(* Dumps holds, for every dialect, what may have been written: statements, *)
(* each with its words and the node it stands for.  Of a statement that is *)
(* not sound only its words matter.                                        *)
(***************************************************************************)
EXTENDS Sequences, SequencesExt, TLC

LOCAL INSTANCE Parsing

CONSTANT Dumps

My == INSTANCE MySQLGrammar
Ora == INSTANCE OracleGrammar
Db == INSTANCE DB2Grammar
Body == INSTANCE Bodies

VARIABLES
    dpKind,    \* the dialect of the source, or that of a body
    dpDump,    \* the statements that were written
    dpParser,  \* the parser
    dpOut      \* the statements that were read

dpVars == <<dpKind, dpDump, dpParser, dpOut>>

\* The text of a dump.
Written(dump) == FlattenSeq([i \in DOMAIN dump |-> dump[i].w])

BodyLang == "mysql body" :> "mysql" @@ "oracle body" :> "oracle"
langOf(kind) == IF kind \in DOMAIN BodyLang THEN BodyLang[kind] ELSE kind
DpStart == dpParser = settle(Parser(langOf(dpKind), Written(dpDump))) /\ dpOut = <<>>
DpInit == \E kind \in DOMAIN Dumps : dpKind = kind /\ dpDump \in Dumps[kind] /\ DpStart

parseStatement(p) ==
    CASE dpKind = "mysql" -> My!parseStatement
      [] dpKind = "oracle" -> Ora!parseStatement
      [] dpKind = "db2" -> Db!parseStatement
      [] dpKind \in DOMAIN BodyLang -> Body!parseStatement(p)
finishStatement(q) ==
    CASE dpKind = "mysql" -> My!versioned(q)
      [] dpKind \in DOMAIN BodyLang -> Body!withQuery(q)
      [] OTHER -> q
ReadStatement(p) == finishStatement(Read(p, parseStatement(p)))

\* MySQL skips only ";" between statements, also while the delimiter is another.
strayDelimiters == [mysql |-> {";"}, oracle |-> {";", "/"}, db2 |-> {";", "/"}]
RECURSIVE consumeAll(_, _)
consumeAll(p, ws) == IF cur(p) \in ws THEN consumeAll(advance(p), ws) ELSE p
consumeStatementEnd(p) ==
    consumeAll(p, IF p.lang = "mysql" /\ p.delim = "//" THEN {"/"} ELSE strayDelimiters[p.lang])

Strays(kind) == IF kind \in DOMAIN BodyLang THEN {} ELSE strayDelimiters[kind]
SkipDelimiter ==
    /\ cur(dpParser) \in Strays(dpKind)
    /\ dpParser' = advance(dpParser)
    /\ UNCHANGED <<dpKind, dpDump, dpOut>>

fresh(p) == [p EXCEPT !.n = <<EmptyNode>>, !.nil = FALSE, !.v = NoValue, !.into = NoInto]
afterStatement(p) == consumeStatementEnd(fresh(IF p.nil THEN syncToDelimiter(p) ELSE p))
\* between the statements of a body is one ";"
afterBodyStatement(p) == fresh(IF cur(p) = ";" THEN advance(p) ELSE p)
Statement ==
    /\ cur(dpParser) \notin Strays(dpKind) \cup {"EOF"}
    /\ LET read == ReadStatement(dpParser)
       IN  /\ dpOut' = IF read.nil THEN dpOut ELSE Append(dpOut, read.n[1])
           /\ dpParser' = IF dpKind \in DOMAIN BodyLang THEN afterBodyStatement(read) ELSE afterStatement(read)
    /\ UNCHANGED <<dpKind, dpDump>>

DpNext == SkipDelimiter \/ Statement

-----------------------------------------------------------------------------
(* Properties. *)

DpDone == dpParser.in = <<>>
Sound == \A i \in DOMAIN dpDump : dpDump[i].sound
Nodes(dump) == [i \in DOMAIN dump |-> dump[i].node]

\* What is written is read: each statement becomes the node with the clauses
\* it was written with, in their order and with nothing else, at the place it
\* had in the dump, and a dump without mistakes reports none.
DumpKept ==
    Sound => /\ dpParser.err = 0
             /\ IsPrefix(dpOut, Nodes(dpDump))
             /\ DpDone => Len(dpOut) = Len(dpDump)

\* A statement that cannot be read costs only itself: the ones before and after
\* it are read as they were written, and if nothing is read of it there is an
\* error in the list that Parse returns.
ErrorsStayLocal ==
    \A i \in DOMAIN dpDump :
       DpDone /\ ~dpDump[i].sound =>
          LET before == Nodes(SubSeq(dpDump, 1, i - 1))
              after == Nodes(SubSeq(dpDump, i + 1, Len(dpDump)))
          IN  /\ IsPrefix(before, dpOut)
              /\ IsSuffix(after, dpOut)
              /\ Len(dpOut) < Len(dpDump) => dpParser.err > 0
=============================================================================

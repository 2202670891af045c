----------------------------- MODULE CodexEdit -----------------------------
(***************************************************************************)
(* How setup edits Codex's config.toml (src/internal/setup/codex.go): line *)
(* by line, by a bracket scanner and one regular expression, where TOML    *)
(* itself (Read, the reference) tells keys and tables apart by a grammar.  *)
(* Blank lines, comment lines and spelling are left out; the lines are     *)
(* those on which the scanner and the grammar may disagree.                *)
(***************************************************************************)
EXTENDS Naturals, SequencesExt

CONSTANTS
  Ports,      \* receiver ports
  Tokens,     \* receiver tokens, model values
  Absent      \* no such value, a model value

Agents == {"claude", "codex"}

\* A value is a pair, so that any two of them can be compared: the exporter
\* table is its port and token, any other value is setup's or the user's; Spread
\* is the user's exporter when it takes more than a line.
Exporter(port, token) == <<port, token>>
Setups == <<"setup", Absent>>
Users  == <<"user", Absent>>
Spread == <<"spread", Absent>>

\* kind: "header" matches tableHeaderRe; "odd" is a header that it misses,
\* "[tui] # note"; "elem" is an array element that it matches, "[3]"; "key" is
\* "key = value", "tight" is "key=value"; "open" starts a value that "close"
\* ends, of the form "array" or "string"; "prose" is "see [1", in a string.
Line(kind, path, key, val, form) ==
  [kind |-> kind, path |-> path, key |-> key, val |-> val, form |-> form]
Header(path)  == Line("header", path, "", Setups, "")
Key(key, val) == Line("key", <<>>, key, val, "")

Otel  == <<"otel">>
Stale == <<"otel", "exporter", "otlp-http">>
Deep  == <<"otel", "exporter", "otlp-http", "headers">>
Tui   == <<"tui">>

UserLines ==
  {Header(path) : path \in {Otel, Stale, Deep, Tui}}
    \cup {Line("odd", Tui, "", Setups, ""), Line("tight", <<>>, "environment", Users, "")}
    \cup {Key("exporter", Users), Key("environment", Users)}
    \cup {Line("open", <<>>, "exporter", Spread, "array")}
    \cup {Line("open", <<>>, "note", Users, form) : form \in {"array", "string"}}
    \cup {Line("close", <<>>, "", Setups, form) : form \in {"array", "string"}}
    \cup {Line(kind, <<>>, "", Setups, "") : kind \in {"elem", "prose"}}
-----------------------------------------------------------------------------
\* What TOML says of the lines: the keys assigned, each in its table, and
\* whether it is a document at all.
Blank == [mode |-> "top", table |-> <<>>, tables |-> {}, keys |-> {}, ok |-> TRUE]

\* A table may not reopen one that has been, nor extend a value.
OpenTable(doc, path) ==
  [doc EXCEPT !.table = path, !.tables = @ \cup {path},
     !.ok = @ /\ path \notin doc.tables
              /\ \A k \in doc.keys : ~ IsPrefix(Append(k.table, k.key), path)]

\* Nor a key one that has been, or a table.
Assign(doc, key, val) ==
  [doc EXCEPT !.keys = @ \cup {[table |-> doc.table, key |-> key, val |-> val]},
     !.ok = /\ @
            /\ \A k \in doc.keys : <<k.table, k.key>> # <<doc.table, key>>
            /\ \A t \in doc.tables : ~ IsPrefix(Append(doc.table, key), t)]

ReadLine(doc, line) ==
  LET closes == line.kind = "close" /\ line.form = doc.mode
  IN CASE doc.mode # "top" /\ closes  -> [doc EXCEPT !.mode = "top"]
       [] doc.mode = "string" /\ ~ closes -> doc
       [] doc.mode = "array" /\ ~ closes  -> [doc EXCEPT !.ok = @ /\ line.kind = "elem"]
       [] doc.mode = "top" ->
            CASE line.kind \in {"header", "odd"} -> OpenTable(doc, line.path)
              [] line.kind \in {"key", "tight"}  -> Assign(doc, line.key, line.val)
              [] line.kind = "open" ->
                   [Assign(doc, line.key, line.val) EXCEPT !.mode = line.form]
              [] OTHER -> [doc EXCEPT !.ok = FALSE]

\* What it has read after each number of lines.
ReadTo(lines) ==
  LET doc[n \in 0 .. Len(lines)] ==
        IF n = 0 THEN Blank ELSE ReadLine(doc[n - 1], lines[n])
  IN doc

Read(lines) == ReadTo(lines)[Len(lines)]
IsToml(lines) == Read(lines).ok /\ Read(lines).mode = "top"
Assigned(lines, table) == {k \in Read(lines).keys : k.table = table}
Value(lines, table, key) ==
  LET found == {k \in Assigned(lines, table) : k.key = key}
  IN IF found = {} THEN <<Absent, Absent>> ELSE (CHOOSE k \in found : TRUE).val
-----------------------------------------------------------------------------
\* The brackets a line opens outside what looks like a string: a line that
\* ends a multi-line string, or is in one, is read as if by itself.
LineDelta(line) ==
  CASE line.kind = "prose"                           -> 1
    [] line.kind = "open" /\ line.form = "array"     -> 1
    [] line.kind = "close" /\ line.form = "array"    -> -1
    [] OTHER                                         -> 0

\* Mutant: an array element is taken for a table.
LineDepths_Flat(lines) == [i \in 1 .. Len(lines) |-> 0]

\* The nesting depth at the start of each line, never below zero.
LineDepths(lines) ==
  LET depth[i \in 1 .. Len(lines)] ==
        IF i = 1 THEN 0
        ELSE LET d == depth[i - 1] + LineDelta(lines[i - 1]) IN IF d < 0 THEN 0 ELSE d
  IN depth

\* The lines at depth 0 in a part of the file.
AtTop(lines, from, to) ==
  LET depths == LineDepths(lines) IN {i \in from .. to : depths[i] = 0}

First(S, otherwise) == IF S = {} THEN otherwise ELSE Min(S)

\* Where the table's header is, 0 if nowhere.
FindTable(lines, path) ==
  First({i \in AtTop(lines, 1, Len(lines)) :
           lines[i].kind = "header" /\ lines[i].path = path}, 0)

\* One past the table's last line.
TableEnd(lines, start) ==
  First({i \in AtTop(lines, start + 1, Len(lines)) : lines[i].kind \in {"header", "elem"}},
        Len(lines) + 1)

\* The first assignment of the key in the table, 0 if there is none.
FindKey(lines, start, key) ==
  First({i \in AtTop(lines, start + 1, TableEnd(lines, start) - 1) :
           lines[i].kind \in {"key", "open"} /\ lines[i].key = key}, 0)

AppendTable(lines, path, line) == lines \o <<Header(path), line>>

\* Adds a key that the table lacks, at its end.
EnsureTableKey(lines, key, val) ==
  LET start == FindTable(lines, Otel)
  IN IF start = 0 THEN AppendTable(lines, Otel, Key(key, val))
     ELSE IF FindKey(lines, start, key) # 0 THEN lines
     ELSE InsertAt(lines, TableEnd(lines, start), Key(key, val))

\* The same, but a value that differs is replaced.
ReplaceOrInsertTableKey(lines, key, val) ==
  LET start == FindTable(lines, Otel)
      at == FindKey(lines, start, key)
  IN IF start = 0 THEN AppendTable(lines, Otel, Key(key, val))
     ELSE IF at # 0 THEN ReplaceAt(lines, at, Key(key, val))
     ELSE InsertAt(lines, TableEnd(lines, start), Key(key, val))

\* The table's header and body are cut out.
RemoveTable(lines, path) ==
  LET start == FindTable(lines, path)
  IN IF start = 0 THEN lines
     ELSE SubSeq(lines, 1, start - 1) \o SubSeq(lines, TableEnd(lines, start), Len(lines))

\* Both spellings of the stale table are the same path.
EnsureCodexExporter(lines, val) ==
  RemoveTable(RemoveTable(ReplaceOrInsertTableKey(lines, "exporter", val), Stale), Stale)

CodexScalars == <<"environment", "metrics_exporter", "trace_exporter", "log_user_prompt">>

EnsureScalars(lines) ==
  LET Ensure(ls, n) == EnsureTableKey(ls, CodexScalars[n], Setups)
  IN Ensure(Ensure(Ensure(Ensure(lines, 1), 2), 3), 4)

EditCodex(lines, port, token) ==
  EnsureCodexExporter(EnsureScalars(lines), Exporter(port, token))

\* The scalars that the edit of these lines inserts.
Added(lines) ==
  {key \in Range(CodexScalars) :
     LET start == FindTable(lines, Otel) IN start = 0 \/ FindKey(lines, start, key) = 0}

\* What is checked of an edit before it is offered: TOML, each scalar that
\* was added, and the exporter.
VerifyCodexEdit(lines, port, token, added) ==
  /\ IsToml(lines)
  /\ \A key \in added : Value(lines, Otel, key) = Setups
  /\ Value(lines, Otel, "exporter") = Exporter(port, token)

\* Lines of which the scanner sees what TOML does.
Regular(lines) ==
  \A i \in DOMAIN lines :
    lines[i].kind \notin {"odd", "tight", "prose"} /\ lines[i].form # "string"

\* The exporter, if there is one, is a line or the stale table: no more than the
\* first line of a longer value is replaced, and no other table of its path cut out.
Editable(lines) ==
  /\ Value(lines, Otel, "exporter") # Spread
  /\ \A t \in Read(lines).tables : IsPrefix(Append(Otel, "exporter"), t) => t = Stale
=============================================================================

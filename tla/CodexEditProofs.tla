-------------------------- MODULE CodexEditProofs --------------------------
(***************************************************************************)
(* What the editor of config.toml and the reference reading of TOML have   *)
(* to do with each other. First the lines: an edit adds only lines of      *)
(* setup's own. Then what TOML reads: by induction on the number of lines, *)
(* through ReadTo. Then what the scanner sees, which depends on the depth  *)
(* of each line, and how each function of the editor keeps it. Then where  *)
(* the two meet: after an edit that TOML still takes for a document, the   *)
(* exporter which TOML reads is the one that setup asked for. Last, the    *)
(* files in which the scanner sees what TOML reads: what each line assigns *)
(* there, what an edit makes of them, and which files it leaves alone.     *)
(***************************************************************************)
EXTENDS CodexEdit, WellFoundedInduction, SequenceTheorems, TLAPS
-----------------------------------------------------------------------------
\* Min (FiniteSetsExt), as the scanner of codex.go uses it for the first line of
\* a kind, is in the set, and the least of it.
LEMMA LeastOf ==
  ASSUME NEW S \in SUBSET Nat, S # {}
  PROVE  Min(S) \in S /\ \A n \in S : Min(S) <= n
<1> DEFINE R == OpToRel(<, Nat)
<1>1. IsWellFoundedOn(R, Nat)
  BY NatLessThanWellFounded
<1>2. PICK x \in S : \A y \in S : ~ (<<y, x>> \in R)
  <2> HIDE DEF R
  <2> QED
    BY <1>1, WFMin
<1>3. \A y \in S : y < x => <<y, x>> \in R
  BY DEF OpToRel
<1> HIDE DEF R
<1>4. \A y \in S : ~ (y < x)
  BY <1>2, <1>3
<1>5. \A y \in S : x <= y
  BY <1>4
<1> QED
  BY <1>5 DEF Min

\* A set of numbers that has 0 and, with each number, the next one, has them all.
LEMMA UpFromZero ==
  ASSUME NEW S \in SUBSET Nat, 0 \in S, \A n \in S : n + 1 \in S
  PROVE  S = Nat
<1> SUFFICES ASSUME Nat \ S # {} PROVE FALSE
  OBVIOUS
<1> DEFINE m == Min(Nat \ S)
<1>1. m \in Nat \ S /\ \A n \in Nat \ S : m <= n
  <2>1. Nat \ S \in SUBSET Nat
    OBVIOUS
  <2> QED
    BY <2>1, LeastOf
<1> HIDE DEF m
<1>2. m # 0 /\ m - 1 \in S
  BY <1>1
<1> QED
  BY <1>1, <1>2

\* First is the first of a set of numbers, or the other value.
LEMMA FirstOf ==
  ASSUME NEW S \in SUBSET Nat, NEW d
  PROVE  First(S, d) \in S \cup {d}
  BY LeastOf DEF First

\* The reader of TOML goes from line to line: what it has read of the first n is
\* defined for every n.
LEMMA ReadToDefined ==
  ASSUME NEW lines, Len(lines) \in Nat
  PROVE  ReadTo(lines) = [n \in 0 .. Len(lines) |->
            IF n = 0 THEN Blank ELSE ReadLine(ReadTo(lines)[n - 1], lines[n])]
<1> DEFINE Reads(f, m) == f = [n \in 0 .. m |->
              IF n = 0 THEN Blank ELSE ReadLine(f[n - 1], lines[n])]
           S == {m \in Nat : \E f : Reads(f, m)}
<1>1. 0 \in S
  <2>1. Reads([n \in 0 .. 0 |-> Blank], 0)
    OBVIOUS
  <2> QED
    BY <2>1
<1>2. ASSUME NEW m \in S PROVE m + 1 \in S
  <2>1. PICK f : Reads(f, m)
    OBVIOUS
  <2> DEFINE g == [n \in 0 .. m + 1 |->
                     IF n = m + 1 THEN ReadLine(f[m], lines[m + 1]) ELSE f[n]]
  <2>2. \A n \in 0 .. m : g[n] = f[n]
    OBVIOUS
  <2>3. ASSUME NEW n \in 0 .. m + 1
        PROVE  g[n] = IF n = 0 THEN Blank ELSE ReadLine(g[n - 1], lines[n])
    <3>1. CASE n = m + 1
      BY <2>2, <3>1
    <3>2. CASE n \in 0 .. m
      <4>1. f[n] = IF n = 0 THEN Blank ELSE ReadLine(f[n - 1], lines[n])
        BY <2>1, <3>2
      <4>2. n # 0 => n - 1 \in 0 .. m
        BY <3>2
      <4> HIDE DEF g
      <4> QED
        BY <2>2, <3>2, <4>1, <4>2
    <3> QED
      BY <3>1, <3>2
  <2>4. Reads(g, m + 1)
    BY <2>3
  <2> HIDE DEF g, Reads
  <2>5. \E h : Reads(h, m + 1)
    BY <2>4
  <2> QED
    BY <2>5
<1>3. Len(lines) \in S
  <2>1. S \in SUBSET Nat
    OBVIOUS
  <2> HIDE DEF S
  <2> QED
    BY <1>1, <1>2, <2>1, UpFromZero
<1>4. ReadTo(lines) = CHOOSE f : Reads(f, Len(lines))
  BY DEF ReadTo
<1>5. Reads(ReadTo(lines), Len(lines))
  BY <1>3, <1>4
<1> QED
  BY <1>5
-----------------------------------------------------------------------------
Kinds == {"header", "odd", "elem", "key", "tight", "open", "close", "prose"}
Forms == {"", "array", "string"}
Paths == {<<>>, Otel, Stale, Deep, Tui}
Keys == {"", "exporter", "note"} \cup {CodexScalars[n] : n \in 1 .. 4}

\* The lines of a config.toml whose exporter has a token of T, if it has one.
Vals(T) == {Setups, Users, Spread} \cup (Ports \X T)
Lines(T) ==
  {line \in [kind : Kinds, path : Paths, key : Keys, val : Vals(T), form : Forms] :
     line.kind = "open" => /\ line.form # "" /\ line.key \in {"note", "exporter"}
                           /\ line.key = "exporter" => line.val = Spread}

\* A line that opens an exporter of more lines has Spread for its value.
LEMMA OpenIs ==
  ASSUME NEW T, NEW line \in Lines(T), line.kind = "open", line.key = "exporter"
  PROVE  line.val = Spread
  BY DEF Lines

\* What the reader of TOML has of such lines.
HasVals(doc, T) ==
  /\ DOMAIN doc = {"mode", "table", "tables", "keys", "ok"}
  /\ doc.mode \in {"top", "string", "array"}
  /\ \A k \in doc.keys : k.val \in Vals(T)

\* A line assigns no value but its own.
LEMMA ReadLineKeepsVals ==
  ASSUME NEW T, NEW doc, HasVals(doc, T), NEW line \in Lines(T)
  PROVE  HasVals(ReadLine(doc, line), T)
<1>1. HasVals(Assign(doc, line.key, line.val), T)
  <2> DEFINE k == [table |-> doc.table, key |-> line.key, val |-> line.val]
  <2>1. k.val \in Vals(T)
    BY DEF Lines
  <2>2. Assign(doc, line.key, line.val).keys = doc.keys \cup {k}
    BY DEF Assign, HasVals
  <2>3. /\ DOMAIN Assign(doc, line.key, line.val) = DOMAIN doc
        /\ Assign(doc, line.key, line.val).mode = doc.mode
    BY DEF Assign, HasVals
  <2> HIDE DEF k
  <2> QED
    BY <2>1, <2>2, <2>3 DEF HasVals
<1>2. HasVals(OpenTable(doc, line.path), T)
  BY DEF OpenTable, HasVals
<1>3. ASSUME NEW d, HasVals(d, T), NEW mode \in {"top", "string", "array"}
      PROVE  HasVals([d EXCEPT !.mode = mode], T)
  BY <1>3 DEF HasVals
<1>4. ASSUME NEW ok PROVE HasVals([doc EXCEPT !.ok = ok], T)
  BY DEF HasVals
<1>5. doc.mode \in {"top", "string", "array"}
  BY DEF HasVals
<1>6. line.kind = "open" => line.form \in {"string", "array"}
  BY DEF Lines, Forms
<1> DEFINE closes == line.kind = "close" /\ line.form = doc.mode
<1>7. CASE doc.mode # "top" /\ closes
  BY <1>3, <1>7 DEF ReadLine
<1>8. CASE doc.mode = "string" /\ ~ closes
  BY <1>8 DEF ReadLine
<1>9. CASE doc.mode = "array" /\ ~ closes
  BY <1>4, <1>9 DEF ReadLine
<1>10. CASE doc.mode = "top"
  <2>1. CASE line.kind \in {"header", "odd"}
    BY <1>2, <1>10, <2>1 DEF ReadLine
  <2>2. CASE line.kind \in {"key", "tight"}
    BY <1>1, <1>10, <2>2 DEF ReadLine
  <2>3. CASE line.kind = "open"
    BY <1>1, <1>3, <1>6, <1>10, <2>3 DEF ReadLine
  <2>4. CASE line.kind \notin {"header", "odd", "key", "tight", "open"}
    BY <1>4, <1>10, <2>4 DEF ReadLine
  <2> QED
    BY <2>1, <2>2, <2>3, <2>4
<1> QED
  BY <1>5, <1>7, <1>8, <1>9, <1>10

\* So TOML reads no token in a config.toml but those of its lines, line by line.
LEMMA ReadKeepsVals ==
  ASSUME NEW T, NEW lines \in Seq(Lines(T))
  PROVE  \A k \in Read(lines).keys : k.val \in Vals(T)
<1> DEFINE doc == ReadTo(lines)
           S == {n \in Nat : n <= Len(lines) => HasVals(doc[n], T)}
<1>1. /\ Len(lines) \in Nat
      /\ \A n \in 0 .. Len(lines) :
           doc[n] = IF n = 0 THEN Blank ELSE ReadLine(doc[n - 1], lines[n])
  <2>1. Len(lines) \in Nat
    OBVIOUS
  <2> QED
    BY <2>1, ReadToDefined
<1> HIDE DEF doc
<1>2. 0 \in S
  <2>1. HasVals(Blank, T)
    BY DEF HasVals, Blank
  <2> QED
    BY <1>1, <2>1
<1>3. ASSUME NEW n \in S PROVE n + 1 \in S
  <2> SUFFICES ASSUME n + 1 <= Len(lines) PROVE HasVals(doc[n + 1], T)
    OBVIOUS
  <2>1. HasVals(doc[n], T)
    BY <1>1
  <2>2. lines[n + 1] \in Lines(T)
    BY <1>1
  <2>3. doc[n + 1] = ReadLine(doc[n], lines[n + 1])
    BY <1>1
  <2> QED
    BY <2>1, <2>2, <2>3, ReadLineKeepsVals
<1>4. S = Nat
  <2>1. S \in SUBSET Nat
    OBVIOUS
  <2> HIDE DEF S
  <2> QED
    BY <1>2, <1>3, <2>1, UpFromZero
<1>5. HasVals(doc[Len(lines)], T)
  BY <1>1, <1>4
<1> QED
  BY <1>5 DEF Read, HasVals, doc

\* And no token but those of its lines is the exporter's.
LEMMA ExporterToken ==
  ASSUME NEW T, NEW lines \in Seq(Lines(T))
  PROVE  Value(lines, Otel, "exporter")[2] \in T \cup {Absent}
<1>1. ASSUME NEW v \in Vals(T) PROVE v[2] \in T \cup {Absent}
  BY DEF Vals, Setups, Users, Spread
<1> DEFINE found == {k \in Assigned(lines, Otel) : k.key = "exporter"}
<1>2. CASE found = {}
  BY <1>2 DEF Value
<1>3. CASE found # {}
  <2>1. PICK k : k = CHOOSE f \in found : TRUE
    OBVIOUS
  <2>2. k \in found
    BY <1>3, <2>1
  <2>3. k.val \in Vals(T)
    BY <2>2, ReadKeepsVals DEF Assigned
  <2>4. Value(lines, Otel, "exporter") = k.val
    BY <1>3, <2>1 DEF Value
  <2> QED
    BY <1>1, <2>3, <2>4
<1> QED
  BY <1>2, <1>3
-----------------------------------------------------------------------------
\* The lines at the top level of a part of the file are of that part.
LEMMA TopIsInFile ==
  ASSUME NEW lines, NEW from \in Nat, NEW to \in Int
  PROVE  \A i \in AtTop(lines, from, to) : i \in from .. to
  BY DEF AtTop

\* FindTable says 0 or a line of the file,
LEMMA TableIsInFile ==
  ASSUME NEW lines, Len(lines) \in Nat, NEW path
  PROVE  FindTable(lines, path) \in 0 .. Len(lines)
<1> DEFINE S == {i \in AtTop(lines, 1, Len(lines)) :
                   lines[i].kind = "header" /\ lines[i].path = path}
<1>1. \A i \in S : i \in 1 .. Len(lines)
  BY TopIsInFile
<1>2. FindTable(lines, path) = First(S, 0)
  BY DEF FindTable
<1> HIDE DEF S
<1>3. S \in SUBSET Nat
  BY <1>1
<1>4. First(S, 0) \in S \cup {0}
  BY <1>3, FirstOf
<1>5. CASE First(S, 0) = 0
  BY <1>2, <1>5
<1>6. CASE First(S, 0) \in S
  BY <1>1, <1>2, <1>6
<1> QED
  BY <1>4, <1>5, <1>6

\* TableEnd a line below the header or one past the last,
LEMMA TableEndIsInFile ==
  ASSUME NEW lines, Len(lines) \in Nat, NEW start \in 0 .. Len(lines)
  PROVE  TableEnd(lines, start) \in start + 1 .. Len(lines) + 1
<1> DEFINE S == {i \in AtTop(lines, start + 1, Len(lines)) :
                   lines[i].kind \in {"header", "elem"}}
<1>1. \A i \in S : i \in start + 1 .. Len(lines)
  BY TopIsInFile
<1>2. TableEnd(lines, start) = First(S, Len(lines) + 1)
  BY DEF TableEnd
<1> HIDE DEF S
<1>3. S \in SUBSET Nat
  BY <1>1
<1>4. First(S, Len(lines) + 1) \in S \cup {Len(lines) + 1}
  BY <1>3, FirstOf
<1>5. CASE First(S, Len(lines) + 1) = Len(lines) + 1
  BY <1>2, <1>5
<1>6. CASE First(S, Len(lines) + 1) \in S
  BY <1>1, <1>2, <1>6
<1> QED
  BY <1>4, <1>5, <1>6

\* and FindKey 0 or a line of the file, too.
LEMMA KeyIsInFile ==
  ASSUME NEW lines, Len(lines) \in Nat, NEW start \in 0 .. Len(lines), NEW key
  PROVE  FindKey(lines, start, key) \in 0 .. Len(lines)
<1> DEFINE S == {i \in AtTop(lines, start + 1, TableEnd(lines, start) - 1) :
                   lines[i].kind \in {"key", "open"} /\ lines[i].key = key}
<1>1. \A i \in S : i \in 1 .. Len(lines)
  BY TopIsInFile, TableEndIsInFile
<1>2. FindKey(lines, start, key) = First(S, 0)
  BY DEF FindKey
<1> HIDE DEF S
<1>3. S \in SUBSET Nat
  BY <1>1
<1>4. First(S, 0) \in S \cup {0}
  BY <1>3, FirstOf
<1>5. CASE First(S, 0) = 0
  BY <1>2, <1>5
<1>6. CASE First(S, 0) \in S
  BY <1>1, <1>2, <1>6
<1> QED
  BY <1>4, <1>5, <1>6

\* The edits of lines: what they put into the file is the line they are given.
LEMMA LineEdits ==
  ASSUME NEW S, NEW lines \in Seq(S), NEW line \in S
  PROVE  /\ \A i \in 1 .. Len(lines) + 1 : InsertAt(lines, i, line) \in Seq(S)
         /\ \A i \in 1 .. Len(lines) : ReplaceAt(lines, i, line) \in Seq(S)
<1>1. ASSUME NEW m \in 1 .. Len(lines) + 1, NEW n \in 0 .. Len(lines)
      PROVE  SubSeq(lines, m, n) \in Seq(S)
  OBVIOUS
<1>2. ASSUME NEW i \in 1 .. Len(lines) + 1
      PROVE  InsertAt(lines, i, line) \in Seq(S)
  <2>1. SubSeq(lines, 1, i - 1) \in Seq(S) /\ SubSeq(lines, i, Len(lines)) \in Seq(S)
    BY <1>1
  <2> QED
    BY <2>1 DEF InsertAt
<1>3. ASSUME NEW i \in 1 .. Len(lines)
      PROVE  ReplaceAt(lines, i, line) \in Seq(S)
  BY DEF ReplaceAt
<1> QED
  BY <1>2, <1>3

\* A header, and an assignment of a value, as setup writes them.
LEMMA NewLines ==
  ASSUME NEW T, NEW key \in Keys, NEW val \in Vals(T), NEW path \in Paths
  PROVE  Key(key, val) \in Lines(T) /\ Header(path) \in Lines(T)
<1>1. <<>> \in Paths /\ "" \in Keys /\ Setups \in Vals(T)
  BY DEF Vals, Paths, Keys
<1>2. ASSUME NEW kind \in {"key", "header"}, NEW p \in Paths, NEW k \in Keys,
             NEW v \in Vals(T)
      PROVE  Line(kind, p, k, v, "") \in Lines(T)
  BY DEF Line, Lines, Kinds, Forms
<1> QED
  BY <1>1, <1>2 DEF Key, Header

\* Adding a key, or replacing it, keeps to the lines that are there and the one
\* that is set.
LEMMA EnsureKeepsLines ==
  ASSUME NEW T, NEW lines \in Seq(Lines(T)), NEW key \in Keys, NEW val \in Vals(T)
  PROVE  /\ EnsureTableKey(lines, key, val) \in Seq(Lines(T))
         /\ ReplaceOrInsertTableKey(lines, key, val) \in Seq(Lines(T))
<1>1. Key(key, val) \in Lines(T) /\ Header(Otel) \in Lines(T)
  <2>1. Otel \in Paths
    BY DEF Paths
  <2> QED
    BY <2>1, NewLines
<1>2. Len(lines) \in Nat
  OBVIOUS
<1>3. AppendTable(lines, Otel, Key(key, val)) \in Seq(Lines(T))
  BY <1>1 DEF AppendTable
<1>4. ASSUME NEW start \in 0 .. Len(lines)
      PROVE  InsertAt(lines, TableEnd(lines, start), Key(key, val)) \in Seq(Lines(T))
  <2>1. TableEnd(lines, start) \in 1 .. Len(lines) + 1
    BY <1>2, TableEndIsInFile
  <2> QED
    BY <1>1, <2>1, LineEdits
<1>5. ASSUME NEW at \in 1 .. Len(lines)
      PROVE  ReplaceAt(lines, at, Key(key, val)) \in Seq(Lines(T))
  BY <1>1, <1>5, LineEdits
<1> DEFINE start == FindTable(lines, Otel)
           at == FindKey(lines, start, key)
<1>6. start \in 0 .. Len(lines)
  BY <1>2, TableIsInFile
<1>7. at \in 0 .. Len(lines)
  <2> HIDE DEF start
  <2> QED
    BY <1>2, <1>6, KeyIsInFile
<1>8. EnsureTableKey(lines, key, val) \in
        {AppendTable(lines, Otel, Key(key, val)), lines,
         InsertAt(lines, TableEnd(lines, start), Key(key, val))}
  BY DEF EnsureTableKey
<1>9. \/ ReplaceOrInsertTableKey(lines, key, val) \in
           {AppendTable(lines, Otel, Key(key, val)),
            InsertAt(lines, TableEnd(lines, start), Key(key, val))}
      \/ at # 0 /\ ReplaceOrInsertTableKey(lines, key, val) = ReplaceAt(lines, at, Key(key, val))
  BY DEF ReplaceOrInsertTableKey
<1> HIDE DEF start, at
<1> QED
  BY <1>3, <1>4, <1>5, <1>6, <1>7, <1>8, <1>9

\* Cutting a table out leaves lines that were there.
LEMMA RemoveKeepsLines ==
  ASSUME NEW S, NEW lines \in Seq(S), NEW path
  PROVE  RemoveTable(lines, path) \in Seq(S)
<1> DEFINE start == FindTable(lines, path)
<1>1. Len(lines) \in Nat
  OBVIOUS
<1>2. start \in 0 .. Len(lines)
  BY <1>1, TableIsInFile
<1>3. RemoveTable(lines, path) = IF start = 0 THEN lines
        ELSE SubSeq(lines, 1, start - 1) \o SubSeq(lines, TableEnd(lines, start), Len(lines))
  BY DEF RemoveTable
<1> HIDE DEF start
<1>4. TableEnd(lines, start) \in 1 .. Len(lines) + 1
  BY <1>1, <1>2, TableEndIsInFile
<1>5. start # 0 => SubSeq(lines, 1, start - 1) \in Seq(S)
  BY <1>2
<1>6. SubSeq(lines, TableEnd(lines, start), Len(lines)) \in Seq(S)
  BY <1>4
<1> QED
  BY <1>3, <1>5, <1>6

\* So the plan's text has no token but those of the file and the one setup has.
LEMMA EditKeepsLines ==
  ASSUME NEW T, NEW lines \in Seq(Lines(T)), NEW port \in Ports, NEW token \in T
  PROVE  EditCodex(lines, port, token) \in Seq(Lines(T))
<1>1. ASSUME NEW ls \in Seq(Lines(T)), NEW key \in Keys
      PROVE  EnsureTableKey(ls, key, Setups) \in Seq(Lines(T))
  <2>1. Setups \in Vals(T)
    BY DEF Vals
  <2> QED
    BY <2>1, EnsureKeepsLines
<1>2. /\ CodexScalars[1] \in Keys /\ CodexScalars[2] \in Keys
      /\ CodexScalars[3] \in Keys /\ CodexScalars[4] \in Keys
      /\ "exporter" \in Keys
  BY DEF Keys
<1>3. EnsureScalars(lines) \in Seq(Lines(T))
  BY <1>1, <1>2 DEF EnsureScalars
<1>4. Exporter(port, token) \in Vals(T)
  BY DEF Exporter, Vals
<1>5. ReplaceOrInsertTableKey(EnsureScalars(lines), "exporter", Exporter(port, token))
        \in Seq(Lines(T))
  BY <1>2, <1>3, <1>4, EnsureKeepsLines
<1> QED
  BY <1>5, RemoveKeepsLines DEF EditCodex, EnsureCodexExporter
-----------------------------------------------------------------------------
\* No depth is negative.
Clamp(d) == IF d < 0 THEN 0 ELSE d

\* The depth at the start of each line, and at the end of the file.
Depth(lines) ==
  [i \in 1 .. Len(lines) + 1 |->
     IF i <= Len(lines) THEN LineDepths(lines)[i]
     ELSE IF Len(lines) = 0 THEN 0
     ELSE Clamp(LineDepths(lines)[Len(lines)] + LineDelta(lines[Len(lines)]))]

EndDepth(lines) == Depth(lines)[Len(lines) + 1]

\* A line opens or closes at most one bracket.
LEMMA DeltaIsSmall == \A line : LineDelta(line) \in {-1, 0, 1}
  BY DEF LineDelta

\* The scanner's depths are defined for every line.
LEMMA LineDepthsDefined ==
  ASSUME NEW lines, Len(lines) \in Nat
  PROVE  LineDepths(lines) = [i \in 1 .. Len(lines) |->
            IF i = 1 THEN 0 ELSE Clamp(LineDepths(lines)[i - 1] + LineDelta(lines[i - 1]))]
<1> DEFINE Scans(f, m) == f = [i \in 1 .. m |->
              IF i = 1 THEN 0 ELSE Clamp(f[i - 1] + LineDelta(lines[i - 1]))]
           S == {m \in Nat : \E f : Scans(f, m)}
<1>1. 0 \in S
  <2>1. Scans([i \in 1 .. 0 |-> 0], 0)
    OBVIOUS
  <2> QED
    BY <2>1
<1>2. ASSUME NEW m \in S PROVE m + 1 \in S
  <2>1. PICK f : Scans(f, m)
    OBVIOUS
  <2> DEFINE g == [i \in 1 .. m + 1 |->
                     IF i = m + 1 THEN IF i = 1 THEN 0 ELSE Clamp(f[m] + LineDelta(lines[m]))
                     ELSE f[i]]
  <2>2. \A i \in 1 .. m : g[i] = f[i]
    OBVIOUS
  <2>3. ASSUME NEW i \in 1 .. m + 1
        PROVE  g[i] = IF i = 1 THEN 0 ELSE Clamp(g[i - 1] + LineDelta(lines[i - 1]))
    <3>1. CASE i = m + 1
      BY <2>2, <3>1
    <3>2. CASE i \in 1 .. m
      <4>1. f[i] = IF i = 1 THEN 0 ELSE Clamp(f[i - 1] + LineDelta(lines[i - 1]))
        BY <2>1, <3>2
      <4>2. i # 1 => i - 1 \in 1 .. m
        BY <3>2
      <4> HIDE DEF g
      <4> QED
        BY <2>2, <3>2, <4>1, <4>2
    <3> QED
      BY <3>1, <3>2
  <2>4. Scans(g, m + 1)
    BY <2>3
  <2> HIDE DEF g, Scans
  <2>5. \E h : Scans(h, m + 1)
    BY <2>4
  <2> QED
    BY <2>5
<1>3. Len(lines) \in S
  <2>1. S \in SUBSET Nat
    OBVIOUS
  <2> HIDE DEF S
  <2> QED
    BY <1>1, <1>2, <2>1, UpFromZero
<1>4. LineDepths(lines) = CHOOSE f : Scans(f, Len(lines))
  BY DEF LineDepths, Clamp
<1>5. Scans(LineDepths(lines), Len(lines))
  BY <1>3, <1>4
<1> QED
  BY <1>5

\* From one line to the next the depth changes by what the line opens.
LEMMA DepthNext ==
  ASSUME NEW lines, Len(lines) \in Nat
  PROVE  /\ Depth(lines)[1] = 0
         /\ \A i \in 1 .. Len(lines) + 1 : Depth(lines)[i] \in Nat
         /\ \A i \in 1 .. Len(lines) :
              Depth(lines)[i + 1] = Clamp(Depth(lines)[i] + LineDelta(lines[i]))
<1> DEFINE f == LineDepths(lines)
           n == Len(lines)
<1>1. \A i \in 1 .. n : f[i] = IF i = 1 THEN 0 ELSE Clamp(f[i - 1] + LineDelta(lines[i - 1]))
  BY LineDepthsDefined
<1> HIDE DEF f
<1>2. \A i \in 1 .. n + 1 : Depth(lines)[i] =
        IF i <= n THEN f[i] ELSE IF n = 0 THEN 0 ELSE Clamp(f[n] + LineDelta(lines[n]))
  BY DEF Depth, f
<1>3. Depth(lines)[1] = 0
  BY <1>1, <1>2
<1>4. ASSUME NEW i \in 1 .. n
      PROVE  Depth(lines)[i + 1] = Clamp(Depth(lines)[i] + LineDelta(lines[i]))
  <2>1. CASE i + 1 <= n
    BY <1>1, <1>2, <2>1
  <2>2. CASE i = n
    BY <1>2, <2>2
  <2> QED
    BY <2>1, <2>2
<1> DEFINE S == {m \in Nat : m <= n => Depth(lines)[m + 1] \in Nat}
<1>5. 0 \in S
  BY <1>3
<1>6. ASSUME NEW m \in S PROVE m + 1 \in S
  <2> SUFFICES ASSUME m + 1 <= n PROVE Depth(lines)[m + 2] \in Nat
    OBVIOUS
  <2>1. Depth(lines)[m + 1] \in Nat /\ m + 1 \in 1 .. n
    OBVIOUS
  <2>2. Depth(lines)[m + 2] = Clamp(Depth(lines)[m + 1] + LineDelta(lines[m + 1]))
    BY <1>4, <2>1
  <2>3. LineDelta(lines[m + 1]) \in Int
    BY DeltaIsSmall
  <2> QED
    BY <2>1, <2>2, <2>3 DEF Clamp
<1>7. S = Nat
  <2>1. S \in SUBSET Nat
    OBVIOUS
  <2> HIDE DEF S
  <2> QED
    BY <1>5, <1>6, <2>1, UpFromZero
<1> HIDE DEF S
<1>8. ASSUME NEW i \in 1 .. n + 1 PROVE Depth(lines)[i] \in Nat
  <2>1. i - 1 \in S
    BY <1>7
  <2> QED
    BY <2>1 DEF S
<1> QED
  BY <1>3, <1>4, <1>8

\* Lines of one file that open the same as lines of another, from the same depth.
OpensAlike(L, M, a, b, n) ==
  /\ a \in 1 .. Len(L) + 1 /\ b \in 1 .. Len(M) + 1
  /\ n \in Nat /\ a + n <= Len(L) + 1 /\ b + n <= Len(M) + 1
  /\ Depth(L)[a] = Depth(M)[b]
  /\ \A j \in 0 .. n - 1 : LineDelta(L[a + j]) = LineDelta(M[b + j])

\* Such lines have the same depths, wherever in each of the files they are.
LEMMA SameDepths ==
  ASSUME NEW L, Len(L) \in Nat, NEW M, Len(M) \in Nat, NEW a, NEW b, NEW n, OpensAlike(L, M, a, b, n)
  PROVE  \A j \in 0 .. n : Depth(L)[a + j] = Depth(M)[b + j]
<1>0. /\ a \in 1 .. Len(L) + 1 /\ b \in 1 .. Len(M) + 1
      /\ n \in Nat /\ a + n <= Len(L) + 1 /\ b + n <= Len(M) + 1
      /\ Depth(L)[a] = Depth(M)[b]
      /\ \A j \in 0 .. n - 1 : LineDelta(L[a + j]) = LineDelta(M[b + j])
  BY DEF OpensAlike
<1> DEFINE S == {j \in Nat : j <= n => Depth(L)[a + j] = Depth(M)[b + j]}
<1>1. 0 \in S
  BY <1>0
<1>2. ASSUME NEW j \in S PROVE j + 1 \in S
  <2> SUFFICES ASSUME j + 1 <= n PROVE Depth(L)[a + (j + 1)] = Depth(M)[b + (j + 1)]
    OBVIOUS
  <2>1. Depth(L)[a + j] = Depth(M)[b + j] /\ LineDelta(L[a + j]) = LineDelta(M[b + j])
    BY <1>0
  <2>2. a + j \in 1 .. Len(L) /\ b + j \in 1 .. Len(M)
    BY <1>0
  <2>3. /\ Depth(L)[(a + j) + 1] = Clamp(Depth(L)[a + j] + LineDelta(L[a + j]))
        /\ Depth(M)[(b + j) + 1] = Clamp(Depth(M)[b + j] + LineDelta(M[b + j]))
    BY <2>2, DepthNext
  <2>4. (a + j) + 1 = a + (j + 1) /\ (b + j) + 1 = b + (j + 1)
    BY <1>0
  <2> QED
    BY <2>1, <2>3, <2>4
<1>3. S = Nat
  <2>1. S \in SUBSET Nat
    OBVIOUS
  <2> HIDE DEF S
  <2> QED
    BY <1>1, <1>2, <2>1, UpFromZero
<1> HIDE DEF S
<1>4. \A j \in 0 .. n : j \in S
  BY <1>0, <1>3
<1> QED
  BY <1>4 DEF S
-----------------------------------------------------------------------------
\* The lines that the scanner takes for a header of the table, for the end of a
\* table, and for an assignment of the key.
IsHeader(lines, path, i) ==
  /\ i \in 1 .. Len(lines) /\ Depth(lines)[i] = 0
  /\ lines[i].kind = "header" /\ lines[i].path = path
IsEnd(lines, i) ==
  i \in 1 .. Len(lines) /\ Depth(lines)[i] = 0 /\ lines[i].kind \in {"header", "elem"}
IsKey(lines, key, i) ==
  /\ i \in 1 .. Len(lines) /\ Depth(lines)[i] = 0
  /\ lines[i].kind \in {"key", "open"} /\ lines[i].key = key

\* First says the least of the numbers, if there is one.
LEMMA FirstIs ==
  ASSUME NEW S \in SUBSET Nat, NEW d, NEW n
  PROVE  First(S, d) = n <=> \/ S = {} /\ n = d
                             \/ n \in S /\ \A m \in S : n <= m
<1>1. CASE S = {}
  BY <1>1 DEF First
<1>2. CASE S # {}
  <2>1. First(S, d) \in S /\ \A m \in S : First(S, d) <= m
    BY <1>2, LeastOf DEF First
  <2>2. ASSUME n \in S, \A m \in S : n <= m PROVE First(S, d) = n
    <3>1. First(S, d) <= n /\ n <= First(S, d) /\ n \in Nat /\ First(S, d) \in Nat
      BY <2>1, <2>2
    <3> QED
      BY <3>1
  <2> QED
    BY <1>2, <2>1, <2>2
<1> QED
  BY <1>1, <1>2

\* A part of the file is at the top where the depth is 0.
LEMMA TopIs ==
  ASSUME NEW lines, Len(lines) \in Nat, NEW from \in Nat, from >= 1, NEW to \in Int, to <= Len(lines)
  PROVE  AtTop(lines, from, to) = {i \in from .. to : Depth(lines)[i] = 0}
  BY DEF AtTop, Depth

\* FindTable says the first header of the table that the scanner sees.
LEMMA FindTableIs ==
  ASSUME NEW lines, Len(lines) \in Nat, NEW path, NEW h
  PROVE  FindTable(lines, path) = h <=>
           \/ h = 0 /\ \A i \in 1 .. Len(lines) : ~ IsHeader(lines, path, i)
           \/ IsHeader(lines, path, h) /\ \A i \in 1 .. h - 1 : ~ IsHeader(lines, path, i)
<1> DEFINE S == {i \in AtTop(lines, 1, Len(lines)) :
                   lines[i].kind = "header" /\ lines[i].path = path}
<1>1. \A i : i \in S <=> IsHeader(lines, path, i)
  BY TopIs DEF IsHeader
<1>2. S \in SUBSET Nat
  BY <1>1 DEF IsHeader
<1>3. FindTable(lines, path) = First(S, 0)
  BY DEF FindTable
<1> HIDE DEF S
<1>4. First(S, 0) = h <=> \/ S = {} /\ h = 0
                          \/ h \in S /\ \A m \in S : h <= m
  <2>1. PICK d : d = 0
    OBVIOUS
  <2>2. \A n : First(S, d) = n <=> (S = {} /\ n = d) \/ (n \in S /\ \A m \in S : n <= m)
    BY <1>2, FirstIs
  <2> QED
    BY <2>1, <2>2
<1>5. S = {} <=> \A i \in 1 .. Len(lines) : ~ IsHeader(lines, path, i)
  BY <1>1 DEF IsHeader
<1>6. ASSUME h \in S
      PROVE  (\A m \in S : h <= m) <=> \A i \in 1 .. h - 1 : ~ IsHeader(lines, path, i)
  <2>1. h \in 1 .. Len(lines)
    BY <1>1, <1>6 DEF IsHeader
  <2>2. ASSUME \A i \in 1 .. h - 1 : ~ IsHeader(lines, path, i), NEW m \in S PROVE h <= m
    <3>1. m \in 1 .. Len(lines) /\ m \notin 1 .. h - 1
      BY <1>1, <2>2 DEF IsHeader
    <3> QED
      BY <2>1, <3>1
  <2>3. ASSUME \A m \in S : h <= m, NEW i \in 1 .. h - 1 PROVE ~ IsHeader(lines, path, i)
    <3>1. ~ (h <= i)
      BY <2>1
    <3> QED
      BY <1>1, <2>3, <3>1
  <2> QED
    BY <2>2, <2>3
<1> QED
  BY <1>1, <1>3, <1>4, <1>5, <1>6

\* TableEnd says the first end behind a line, or the end of the file.
LEMMA TableEndIs ==
  ASSUME NEW lines, Len(lines) \in Nat, NEW start \in 0 .. Len(lines), NEW e
  PROVE  TableEnd(lines, start) = e <=>
           /\ e \in start + 1 .. Len(lines) + 1
           /\ e = Len(lines) + 1 \/ IsEnd(lines, e)
           /\ \A i \in start + 1 .. e - 1 : ~ IsEnd(lines, i)
<1> DEFINE n == Len(lines)
           S == {i \in AtTop(lines, start + 1, n) : lines[i].kind \in {"header", "elem"}}
<1>1. \A i : i \in S <=> i \in start + 1 .. n /\ IsEnd(lines, i)
  <2>1. start + 1 \in Nat /\ start + 1 >= 1 /\ n \in Int /\ n <= Len(lines)
    OBVIOUS
  <2>2. AtTop(lines, start + 1, n) = {i \in start + 1 .. n : Depth(lines)[i] = 0}
    BY <2>1, TopIs
  <2>3. \A i \in start + 1 .. n : i \in 1 .. Len(lines)
    OBVIOUS
  <2> QED
    BY <2>2, <2>3 DEF IsEnd
<1>2. S \in SUBSET Nat
  BY <1>1
<1>3. TableEnd(lines, start) = First(S, n + 1)
  BY DEF TableEnd
<1> HIDE DEF S
<1>4. First(S, n + 1) = e <=> (S = {} /\ e = n + 1) \/ (e \in S /\ \A m \in S : e <= m)
  <2>1. PICK d : d = n + 1
    OBVIOUS
  <2>2. First(S, d) = e <=> (S = {} /\ e = d) \/ (e \in S /\ \A m \in S : e <= m)
    BY <1>2, FirstIs
  <2> QED
    BY <2>1, <2>2
<1>5. ASSUME S = {} /\ e = n + 1
      PROVE  e \in start + 1 .. n + 1 /\ \A i \in start + 1 .. e - 1 : ~ IsEnd(lines, i)
  BY <1>1, <1>5
<1>6. ASSUME e \in S, \A m \in S : e <= m
      PROVE  e \in start + 1 .. n + 1 /\ IsEnd(lines, e)
             /\ \A i \in start + 1 .. e - 1 : ~ IsEnd(lines, i)
  <2>1. e \in start + 1 .. n /\ IsEnd(lines, e)
    BY <1>1, <1>6
  <2>2. ASSUME NEW i \in start + 1 .. e - 1 PROVE ~ IsEnd(lines, i)
    <3>1. i \in start + 1 .. n /\ ~ (e <= i)
      BY <2>1
    <3> QED
      BY <1>1, <1>6, <3>1
  <2> QED
    BY <2>1, <2>2
<1>7. ASSUME e \in start + 1 .. n + 1, e = n + 1 \/ IsEnd(lines, e),
             \A i \in start + 1 .. e - 1 : ~ IsEnd(lines, i)
      PROVE  \/ S = {} /\ e = n + 1
             \/ e \in S /\ \A m \in S : e <= m
  <2>1. CASE e = n + 1
    <3>1. \A i \in start + 1 .. n : ~ IsEnd(lines, i)
      BY <1>7, <2>1
    <3> QED
      BY <1>1, <2>1, <3>1
  <2>2. CASE e # n + 1
    <3>1. e \in S
      BY <1>1, <1>7, <2>2
    <3>2. ASSUME NEW m \in S PROVE e <= m
      <4>1. m \in start + 1 .. n /\ m \notin start + 1 .. e - 1
        BY <1>1, <1>7
      <4> QED
        BY <1>7, <4>1
    <3> QED
      BY <3>1, <3>2
  <2> QED
    BY <2>1, <2>2
<1>8. (S = {} /\ e = n + 1) \/ (e \in S /\ \A m \in S : e <= m) <=>
        /\ e \in start + 1 .. n + 1
        /\ e = n + 1 \/ IsEnd(lines, e)
        /\ \A i \in start + 1 .. e - 1 : ~ IsEnd(lines, i)
  BY <1>5, <1>6, <1>7
<1> QED
  BY <1>3, <1>4, <1>8

\* FindKey says the first assignment of the key before that.
LEMMA FindKeyIs ==
  ASSUME NEW lines, Len(lines) \in Nat, NEW start \in 0 .. Len(lines), NEW key, NEW k,
         NEW e, e = TableEnd(lines, start), k = FindKey(lines, start, key)
  PROVE    \/ k = 0 /\ \A i \in start + 1 .. e - 1 : ~ IsKey(lines, key, i)
           \/ /\ k \in start + 1 .. e - 1 /\ IsKey(lines, key, k)
              /\ \A i \in start + 1 .. k - 1 : ~ IsKey(lines, key, i)
<1> DEFINE S == {i \in AtTop(lines, start + 1, e - 1) :
                   lines[i].kind \in {"key", "open"} /\ lines[i].key = key}
<1>0. e \in start + 1 .. Len(lines) + 1
  BY TableEndIsInFile
<1>1. \A i : i \in S <=> i \in start + 1 .. e - 1 /\ IsKey(lines, key, i)
  <2>1. AtTop(lines, start + 1, e - 1) = {i \in start + 1 .. e - 1 : Depth(lines)[i] = 0}
    BY <1>0, TopIs
  <2> QED
    BY <1>0, <2>1 DEF IsKey
<1>2. S \in SUBSET Nat
  BY <1>0, <1>1
<1>3. FindKey(lines, start, key) = First(S, 0)
  BY DEF FindKey
<1> HIDE DEF S
<1>4. First(S, 0) = k <=> \/ S = {} /\ k = 0
                          \/ k \in S /\ \A m \in S : k <= m
  <2>1. PICK d : d = 0
    OBVIOUS
  <2>2. \A n : First(S, d) = n <=> (S = {} /\ n = d) \/ (n \in S /\ \A m \in S : n <= m)
    BY <1>2, FirstIs
  <2> QED
    BY <2>1, <2>2
<1>5. S = {} <=> \A i \in start + 1 .. e - 1 : ~ IsKey(lines, key, i)
  BY <1>1
<1>6. ASSUME k \in S
      PROVE  (\A m \in S : k <= m) <=> \A i \in start + 1 .. k - 1 : ~ IsKey(lines, key, i)
  <2>1. k \in start + 1 .. e - 1
    BY <1>1, <1>6
  <2>2. ASSUME \A i \in start + 1 .. k - 1 : ~ IsKey(lines, key, i), NEW m \in S PROVE k <= m
    <3>1. m \in start + 1 .. e - 1 /\ m \notin start + 1 .. k - 1
      BY <1>1, <2>2
    <3> QED
      BY <1>0, <2>1, <3>1
  <2>3. ASSUME \A m \in S : k <= m, NEW i \in start + 1 .. k - 1 PROVE ~ IsKey(lines, key, i)
    <3>1. ~ (k <= i) /\ i \in start + 1 .. e - 1
      BY <1>0, <2>1
    <3> QED
      BY <1>1, <2>3, <3>1
  <2> QED
    BY <2>2, <2>3
<1> QED
  BY <1>1, <1>3, <1>4, <1>5, <1>6
-----------------------------------------------------------------------------
\* Two files that start with the same lines: what the scanner sees in these is
\* the same.
SameStart(L, M, a) ==
  /\ a \in 1 .. Len(L) + 1 /\ a <= Len(M) + 1
  /\ \A i \in 1 .. a - 1 : M[i] = L[i]

\* What the scanner sees at a line of one file it sees at a line of the other.
SameSight(L, i, M, j) ==
  /\ IsEnd(M, j) <=> IsEnd(L, i)
  /\ \A path : IsHeader(M, path, j) <=> IsHeader(L, path, i)
  /\ \A key : IsKey(M, key, j) <=> IsKey(L, key, i)

LEMMA SightIs ==
  ASSUME NEW L, NEW M, Len(L) \in Nat, Len(M) \in Nat, NEW i \in 1 .. Len(L), NEW j \in 1 .. Len(M),
         M[j] = L[i], Depth(M)[j] = Depth(L)[i]
  PROVE  SameSight(L, i, M, j)
  BY DEF SameSight, IsEnd, IsHeader, IsKey

\* See SameStart.
LEMMA StartSight ==
  ASSUME NEW L, NEW M, Len(L) \in Nat, Len(M) \in Nat, NEW a, SameStart(L, M, a)
  PROVE  /\ \A i \in 1 .. a : Depth(M)[i] = Depth(L)[i]
         /\ \A i \in 1 .. a - 1 : SameSight(L, i, M, i)
<1>1. a \in 1 .. Len(L) + 1 /\ a <= Len(M) + 1 /\ \A i \in 1 .. a - 1 : M[i] = L[i]
  BY DEF SameStart
<1>2. \A j \in 0 .. a - 1 : Depth(L)[1 + j] = Depth(M)[1 + j]
  <2>1. Depth(L)[1] = Depth(M)[1]
    BY DepthNext
  <2> DEFINE n == a - 1
  <2>2. n \in Nat
    BY <1>1
  <2>3. \A j \in 0 .. n - 1 : LineDelta(L[1 + j]) = LineDelta(M[1 + j])
    BY <1>1
  <2>4. 1 \in 1 .. Len(L) + 1 /\ 1 \in 1 .. Len(M) + 1 /\ 1 + n <= Len(L) + 1 /\ 1 + n <= Len(M) + 1
    BY <1>1
  <2> HIDE DEF n
  <2>5. OpensAlike(L, M, 1, 1, n)
    BY <2>1, <2>2, <2>3, <2>4 DEF OpensAlike
  <2>6. \A j \in 0 .. n : Depth(L)[1 + j] = Depth(M)[1 + j]
    BY <2>5, SameDepths
  <2> QED
    BY <2>6 DEF n
<1>3. ASSUME NEW i \in 1 .. a PROVE Depth(M)[i] = Depth(L)[i]
  <2>1. i - 1 \in 0 .. a - 1 /\ 1 + (i - 1) = i
    BY <1>1
  <2> QED
    BY <1>2, <2>1
<1>4. ASSUME NEW i \in 1 .. a - 1 PROVE SameSight(L, i, M, i)
  <2>1. i \in 1 .. Len(L) /\ i \in 1 .. Len(M) /\ i \in 1 .. a
    BY <1>1
  <2> QED
    BY <1>1, <1>3, <2>1, SightIs
<1> QED
  BY <1>3, <1>4

\* A file of which the lines from a up to b are replaced by others, which end at
\* c: if the depth there is the same, what the scanner sees behind is, too.
Spliced(L, M, a, b, c) ==
  /\ SameStart(L, M, a)
  /\ b \in a .. Len(L) + 1 /\ c \in a .. Len(M) + 1
  /\ Len(L) - b = Len(M) - c
  /\ \A i \in c .. Len(M) : M[i] = L[i + (b - c)]
  /\ Depth(M)[c] = Depth(L)[b]

\* See Spliced.
LEMMA SpliceSight ==
  ASSUME NEW L, NEW M, Len(L) \in Nat, Len(M) \in Nat, NEW a, NEW b, NEW c, Spliced(L, M, a, b, c)
  PROVE  /\ \A i \in 1 .. a - 1 : SameSight(L, i, M, i)
         /\ \A i \in c .. Len(M) : /\ SameSight(L, i + (b - c), M, i)
                                   /\ Depth(M)[i] = Depth(L)[i + (b - c)]
         /\ EndDepth(M) = EndDepth(L)
<1>1. /\ a \in 1 .. Len(L) + 1 /\ a <= Len(M) + 1
      /\ b \in 1 .. Len(L) + 1 /\ c \in 1 .. Len(M) + 1
      /\ Len(L) - b = Len(M) - c
      /\ \A i \in c .. Len(M) : M[i] = L[i + (b - c)]
      /\ Depth(M)[c] = Depth(L)[b]
  BY DEF Spliced, SameStart
<1> DEFINE n == Len(L) + 1 - b
<1>2. n \in Nat /\ n = Len(L) + 1 - b /\ n = Len(M) + 1 - c
  BY <1>1
<1> HIDE DEF n
<1>3. \A j \in 0 .. n - 1 : LineDelta(L[b + j]) = LineDelta(M[c + j])
  <2>1. ASSUME NEW j \in 0 .. n - 1 PROVE M[c + j] = L[b + j]
    <3>1. c + j \in c .. Len(M) /\ (c + j) + (b - c) = b + j
      BY <1>1, <1>2
    <3> QED
      BY <1>1, <3>1
  <2> QED
    BY <2>1
<1>4. \A j \in 0 .. n : Depth(L)[b + j] = Depth(M)[c + j]
  <2>1. b + n <= Len(L) + 1 /\ c + n <= Len(M) + 1
    BY <1>1, <1>2
  <2>2. OpensAlike(L, M, b, c, n)
    BY <1>1, <1>2, <1>3, <2>1 DEF OpensAlike
  <2> QED
    BY <2>2, SameDepths
<1>5. EndDepth(M) = EndDepth(L)
  <2>1. n \in 0 .. n /\ b + n = Len(L) + 1 /\ c + n = Len(M) + 1
    BY <1>1, <1>2
  <2> QED
    BY <1>4, <2>1 DEF EndDepth
<1>6. ASSUME NEW i \in c .. Len(M)
      PROVE  SameSight(L, i + (b - c), M, i) /\ Depth(M)[i] = Depth(L)[i + (b - c)]
  <2>1. i - c \in 0 .. n /\ b + (i - c) = i + (b - c) /\ c + (i - c) = i
    BY <1>1, <1>2
  <2>2. i + (b - c) \in 1 .. Len(L) /\ i \in 1 .. Len(M)
    BY <1>1
  <2>3. Depth(M)[i] = Depth(L)[i + (b - c)]
    BY <1>4, <2>1
  <2> QED
    BY <1>1, <2>2, <2>3, SightIs
<1> QED
  BY <1>5, <1>6, StartSight DEF Spliced

\* A key that is inserted opens nothing.
LEMMA InsertSplices ==
  ASSUME NEW S, NEW L \in Seq(S), NEW line \in S, line.kind = "key", NEW e \in 1 .. Len(L) + 1
  PROVE  LET M == InsertAt(L, e, line)
         IN /\ M \in Seq(S) /\ Len(M) = Len(L) + 1 /\ M[e] = line
            /\ Spliced(L, M, e, e, e + 1)
            /\ Depth(M)[e] = Depth(L)[e]
<1> DEFINE M == InsertAt(L, e, line)
           P == SubSeq(L, 1, e - 1)
           Q == SubSeq(L, e, Len(L))
<1>1. M = P \o <<line>> \o Q
  BY DEF InsertAt
<1>2. P \in Seq(S) /\ Len(P) = e - 1 /\ \A i \in 1 .. e - 1 : P[i] = L[i]
  OBVIOUS
<1>3. /\ Q \in Seq(S) /\ Len(Q) = Len(L) + 1 - e
      /\ \A i \in 1 .. Len(L) + 1 - e : Q[i] = L[i + (e - 1)]
  OBVIOUS
<1> HIDE DEF M, P, Q
<1>4. Len(L) \in Nat
  OBVIOUS
<1>5. /\ M \in Seq(S) /\ Len(M) = Len(L) + 1 /\ M[e] = line
      /\ \A i \in 1 .. e - 1 : M[i] = P[i]
      /\ \A i \in e + 1 .. Len(M) : M[i] = Q[i - e]
  <2> DEFINE R == P \o <<line>>
  <2>1. R \in Seq(S) /\ Len(R) = e /\ R[e] = line /\ \A i \in 1 .. e - 1 : R[i] = P[i]
    BY <1>2
  <2>2. M = R \o Q
    BY <1>1
  <2> HIDE DEF R
  <2>3. /\ M \in Seq(S) /\ Len(M) = Len(R) + Len(Q)
        /\ \A i \in 1 .. Len(R) + Len(Q) : M[i] = IF i <= Len(R) THEN R[i] ELSE Q[i - Len(R)]
    BY <1>3, <2>1, <2>2, ConcatProperties
  <2>4. \A i \in 1 .. e : M[i] = R[i]
    BY <1>3, <2>1, <2>3
  <2>5. \A i \in e + 1 .. Len(M) : M[i] = Q[i - e]
    BY <1>3, <2>1, <2>3
  <2> QED
    BY <1>3, <2>1, <2>3, <2>4, <2>5
<1>6. ASSUME NEW i \in e + 1 .. Len(M) PROVE M[i] = L[i + (e - (e + 1))]
  <2>1. i - e \in 1 .. Len(L) + 1 - e /\ (i - e) + (e - 1) = i + (e - (e + 1))
    BY <1>4, <1>5
  <2>2. Q[i - e] = L[(i - e) + (e - 1)]
    BY <1>3, <2>1
  <2> QED
    BY <1>5, <2>1, <2>2
<1>7. SameStart(L, M, e)
  BY <1>2, <1>5 DEF SameStart
<1>8. Depth(M)[e] = Depth(L)[e] /\ Len(L) \in Nat /\ Len(M) \in Nat
  BY <1>5, <1>7, StartSight
<1>9. Depth(M)[e + 1] = Depth(L)[e]
  <2>1. Depth(M)[e + 1] = Clamp(Depth(M)[e] + LineDelta(M[e])) /\ Depth(M)[e] \in Nat
    BY <1>5, <1>8, DepthNext
  <2>2. LineDelta(M[e]) = 0
    BY <1>5 DEF LineDelta
  <2> QED
    BY <1>8, <2>1, <2>2 DEF Clamp
<1> QED
  BY <1>5, <1>6, <1>7, <1>8, <1>9 DEF Spliced, M

\* A line that is replaced is another in its place, and nothing before it changes.
LEMMA ReplaceStarts ==
  ASSUME NEW S, NEW L \in Seq(S), NEW line \in S, NEW e \in 1 .. Len(L)
  PROVE  LET M == ReplaceAt(L, e, line)
         IN /\ M \in Seq(S) /\ Len(M) = Len(L) /\ M[e] = line
            /\ \A i \in 1 .. Len(L) : i # e => M[i] = L[i]
            /\ SameStart(L, M, e) /\ Depth(M)[e] = Depth(L)[e]
<1> DEFINE M == ReplaceAt(L, e, line)
<1>1. /\ M \in Seq(S) /\ Len(M) = Len(L) /\ M[e] = line
      /\ \A i \in 1 .. Len(L) : i # e => M[i] = L[i]
  BY DEF ReplaceAt
<1> HIDE DEF M
<1>2. SameStart(L, M, e)
  BY <1>1 DEF SameStart
<1>3. Depth(M)[e] = Depth(L)[e]
  BY <1>1, <1>2, StartSight
<1> QED
  BY <1>1, <1>2, <1>3 DEF M

\* Nor does a key that replaces a key open anything.
LEMMA ReplaceSplices ==
  ASSUME NEW S, NEW L \in Seq(S), NEW line \in S, line.kind = "key", NEW e \in 1 .. Len(L),
         L[e].kind = "key"
  PROVE  LET M == ReplaceAt(L, e, line)
         IN /\ M \in Seq(S) /\ Len(M) = Len(L) /\ M[e] = line
            /\ Spliced(L, M, e, e + 1, e + 1)
            /\ Depth(M)[e] = Depth(L)[e]
<1> DEFINE M == ReplaceAt(L, e, line)
<1>1. /\ M \in Seq(S) /\ Len(M) = Len(L) /\ M[e] = line
      /\ \A i \in 1 .. Len(L) : i # e => M[i] = L[i]
  BY DEF ReplaceAt
<1> HIDE DEF M
<1>2. SameStart(L, M, e)
  BY <1>1 DEF SameStart
<1>3. Depth(M)[e] = Depth(L)[e] /\ Len(L) \in Nat /\ Len(M) \in Nat
  BY <1>1, <1>2, StartSight
<1>4. Depth(M)[e + 1] = Depth(L)[e + 1]
  <2>1. Depth(M)[e + 1] = Clamp(Depth(M)[e] + LineDelta(M[e]))
    BY <1>1, <1>3, DepthNext
  <2>2. Depth(L)[e + 1] = Clamp(Depth(L)[e] + LineDelta(L[e]))
    BY <1>1, <1>3, DepthNext
  <2>3. LineDelta(M[e]) = LineDelta(L[e])
    BY <1>1 DEF LineDelta
  <2> QED
    BY <1>3, <2>1, <2>2, <2>3
<1>5. \A i \in e + 1 .. Len(M) : M[i] = L[i + ((e + 1) - (e + 1))]
  BY <1>1
<1> QED
  BY <1>1, <1>2, <1>3, <1>4, <1>5 DEF Spliced, M

\* Two lines behind the last, of which the first is a header and the other a key.
LEMMA AppendStarts ==
  ASSUME NEW S, NEW L \in Seq(S), NEW head \in S, head.kind = "header", NEW line \in S,
         line.kind = "key"
  PROVE  LET M == L \o <<head, line>>
         IN /\ M \in Seq(S) /\ Len(M) = Len(L) + 2 /\ M[Len(L) + 1] = head /\ M[Len(L) + 2] = line
            /\ SameStart(L, M, Len(L) + 1)
            /\ Depth(M)[Len(L) + 1] = EndDepth(L) /\ Depth(M)[Len(L) + 2] = EndDepth(L)
            /\ EndDepth(M) = EndDepth(L)
<1> DEFINE n == Len(L)
           M == L \o <<head, line>>
<1>1. /\ M \in Seq(S) /\ Len(M) = n + 2 /\ M[n + 1] = head /\ M[n + 2] = line
      /\ \A i \in 1 .. n : M[i] = L[i]
  OBVIOUS
<1> HIDE DEF M
<1>2. n \in Nat /\ Len(M) \in Nat
  BY <1>1
<1>3. SameStart(L, M, n + 1)
  BY <1>1, <1>2 DEF SameStart
<1>4. Depth(M)[n + 1] = EndDepth(L) /\ EndDepth(L) \in Nat
  <2>1. n + 1 \in 1 .. n + 1
    BY <1>2
  <2> QED
    BY <1>2, <1>3, <2>1, StartSight, DepthNext DEF EndDepth
<1>5. \A i \in {n + 1, n + 2} : Depth(M)[i] = EndDepth(L) => Depth(M)[i + 1] = EndDepth(L)
  <2>1. ASSUME NEW i \in {n + 1, n + 2}, Depth(M)[i] = EndDepth(L)
        PROVE  Depth(M)[i + 1] = EndDepth(L)
    <3>1. i \in 1 .. Len(M)
      BY <1>1, <1>2
    <3>2. Depth(M)[i + 1] = Clamp(Depth(M)[i] + LineDelta(M[i]))
      BY <1>2, <3>1, DepthNext
    <3>3. LineDelta(M[i]) = 0
      BY <1>1 DEF LineDelta
    <3> QED
      BY <1>4, <2>1, <3>2, <3>3 DEF Clamp
  <2> QED
    BY <2>1
<1>6. (n + 1) + 1 = n + 2 /\ (n + 2) + 1 = Len(M) + 1
  BY <1>1, <1>2
<1> QED
  BY <1>1, <1>3, <1>4, <1>5, <1>6 DEF EndDepth, M

\* The file without the lines from s up to e.
Without(lines, s, e) == SubSeq(lines, 1, s - 1) \o SubSeq(lines, e, Len(lines))

\* What is cut out starts at depth 0, and ends at depth 0 or with the file.
LEMMA CutSplices ==
  ASSUME NEW S, NEW L \in Seq(S), NEW s \in 1 .. Len(L), NEW e \in s + 1 .. Len(L) + 1,
         Depth(L)[s] = 0, e <= Len(L) => Depth(L)[e] = 0
  PROVE  LET M == Without(L, s, e)
         IN /\ M \in Seq(S) /\ Len(M) = Len(L) - (e - s)
            /\ SameStart(L, M, s)
            /\ \A i \in s .. Len(M) : M[i] = L[i + (e - s)]
            /\ e <= Len(L) => Spliced(L, M, s, e, s)
<1> DEFINE M == Without(L, s, e)
           P == SubSeq(L, 1, s - 1)
           Q == SubSeq(L, e, Len(L))
<1>2. P \in Seq(S) /\ Len(P) = s - 1 /\ \A i \in 1 .. s - 1 : P[i] = L[i]
  OBVIOUS
<1>3. /\ Q \in Seq(S) /\ Len(Q) = Len(L) + 1 - e
      /\ \A i \in 1 .. Len(L) + 1 - e : Q[i] = L[i + (e - 1)]
  OBVIOUS
<1>4. M = P \o Q
  BY DEF Without
<1> HIDE DEF M, P, Q
<1>5. /\ M \in Seq(S) /\ Len(M) = Len(L) - (e - s)
      /\ \A i \in 1 .. s - 1 : M[i] = P[i]
      /\ \A i \in s .. Len(M) : M[i] = Q[i - (s - 1)]
  <2>1. /\ M \in Seq(S) /\ Len(M) = Len(P) + Len(Q)
        /\ \A i \in 1 .. Len(P) + Len(Q) : M[i] = IF i <= Len(P) THEN P[i] ELSE Q[i - Len(P)]
    BY <1>2, <1>3, <1>4, ConcatProperties
  <2>2. \A i \in 1 .. s - 1 : M[i] = P[i]
    BY <1>2, <1>3, <2>1
  <2>3. \A i \in s .. Len(M) : M[i] = Q[i - (s - 1)]
    BY <1>2, <1>3, <2>1
  <2> QED
    BY <1>2, <1>3, <2>1, <2>2, <2>3
<1>6. SameStart(L, M, s)
  BY <1>2, <1>5 DEF SameStart
<1>7. ASSUME NEW i \in s .. Len(M) PROVE M[i] = L[i + (e - s)]
  <2>1. i - (s - 1) \in 1 .. Len(L) + 1 - e /\ (i - (s - 1)) + (e - 1) = i + (e - s)
    BY <1>5
  <2>2. Q[i - (s - 1)] = L[(i - (s - 1)) + (e - 1)]
    BY <1>3, <2>1
  <2> QED
    BY <1>5, <2>1, <2>2
<1>8. ASSUME e <= Len(L) PROVE Spliced(L, M, s, e, s)
  <2>1. Depth(M)[s] = Depth(L)[s]
    <3>1. s \in 1 .. s /\ Len(L) \in Nat /\ Len(M) \in Nat
      BY <1>5
    <3> QED
      BY <1>6, <3>1, StartSight
  <2> QED
    BY <1>5, <1>6, <1>7, <1>8, <2>1 DEF Spliced
<1> QED
  BY <1>5, <1>6, <1>7, <1>8 DEF M
-----------------------------------------------------------------------------
\* What the scanner finds: the header of [otel], an assignment in that table, or
\* the place behind the table where one is to go. None of it depends on what
\* comes behind.
TableAt(lines, h) == IsHeader(lines, Otel, h) /\ \A i \in 1 .. h - 1 : ~ IsHeader(lines, Otel, i)
NoTable(lines) == \A i \in 1 .. Len(lines) : ~ IsHeader(lines, Otel, i)

KeyAt(lines, key, h, k) ==
  /\ TableAt(lines, h) /\ k \in h + 1 .. Len(lines) /\ IsKey(lines, key, k)
  /\ \A i \in h + 1 .. k - 1 : ~ IsEnd(lines, i) /\ ~ IsKey(lines, key, i)

Found(lines, key, k) == \E h \in 1 .. Len(lines) : KeyAt(lines, key, h, k)

Gap(lines, key, h, e) ==
  /\ TableAt(lines, h) /\ e \in h + 1 .. Len(lines) + 1
  /\ e = Len(lines) + 1 \/ IsEnd(lines, e)
  /\ \A i \in h + 1 .. e - 1 : ~ IsEnd(lines, i) /\ ~ IsKey(lines, key, i)

Section(lines, path, s, e) ==
  /\ IsHeader(lines, path, s) /\ e \in s + 1 .. Len(lines) + 1
  /\ e = Len(lines) + 1 \/ IsEnd(lines, e)
  /\ \A i \in s + 1 .. e - 1 : ~ IsEnd(lines, i)

\* FindTable and FindKey find the first ones.
LEMMA FindIs ==
  ASSUME NEW lines, Len(lines) \in Nat, NEW key,
         NEW h, h = FindTable(lines, Otel), NEW k, k = FindKey(lines, h, key)
  PROVE  \/ h = 0 /\ NoTable(lines)
         \/ h # 0 /\ k # 0 /\ KeyAt(lines, key, h, k)
         \/ h # 0 /\ k = 0 /\ Gap(lines, key, h, TableEnd(lines, h))
<1>1. \/ h = 0 /\ NoTable(lines)
      \/ TableAt(lines, h)
  BY FindTableIs DEF NoTable, TableAt
<1>2. ASSUME TableAt(lines, h)
      PROVE  \/ h # 0 /\ k # 0 /\ KeyAt(lines, key, h, k)
             \/ h # 0 /\ k = 0 /\ Gap(lines, key, h, TableEnd(lines, h))
  <2>1. h \in 1 .. Len(lines) /\ h \in 0 .. Len(lines)
    BY <1>2 DEF TableAt, IsHeader
  <2>2. PICK e : e = TableEnd(lines, h)
    OBVIOUS
  <2>3. /\ e \in h + 1 .. Len(lines) + 1
        /\ e = Len(lines) + 1 \/ IsEnd(lines, e)
        /\ \A i \in h + 1 .. e - 1 : ~ IsEnd(lines, i)
    BY <2>1, <2>2, TableEndIs
  <2>4. \/ k = 0 /\ \A i \in h + 1 .. e - 1 : ~ IsKey(lines, key, i)
        \/ /\ k \in h + 1 .. e - 1 /\ IsKey(lines, key, k)
           /\ \A i \in h + 1 .. k - 1 : ~ IsKey(lines, key, i)
    BY <2>1, <2>2, FindKeyIs
  <2>5. CASE k = 0
    <3>1. \A i \in h + 1 .. e - 1 : ~ IsKey(lines, key, i)
      BY <2>1, <2>4, <2>5
    <3> QED
      BY <1>2, <2>1, <2>2, <2>3, <2>5, <3>1 DEF Gap
  <2>6. CASE k # 0
    <3>1. k \in h + 1 .. Len(lines) /\ IsKey(lines, key, k)
      BY <2>1, <2>3, <2>4, <2>6
    <3>2. ASSUME NEW i \in h + 1 .. k - 1 PROVE ~ IsEnd(lines, i) /\ ~ IsKey(lines, key, i)
      <4>1. i \in h + 1 .. e - 1
        BY <2>1, <2>3, <2>4, <2>6
      <4> QED
        BY <2>3, <2>4, <2>6, <4>1
    <3> QED
      BY <1>2, <2>1, <2>6, <3>1, <3>2 DEF KeyAt
  <2> QED
    BY <2>5, <2>6
<1> QED
  BY <1>1, <1>2

\* So these are the ways in which a key is added,
LEMMA EnsureIs ==
  ASSUME NEW lines, Len(lines) \in Nat, NEW key, NEW val
  PROVE  LET new == EnsureTableKey(lines, key, val)
         IN \/ NoTable(lines) /\ new = lines \o <<Header(Otel), Key(key, val)>>
            \/ Found(lines, key, FindKey(lines, FindTable(lines, Otel), key)) /\ new = lines
            \/ \E h, e : Gap(lines, key, h, e) /\ new = InsertAt(lines, e, Key(key, val))
<1> DEFINE h == FindTable(lines, Otel)
           k == FindKey(lines, h, key)
<1>1. EnsureTableKey(lines, key, val) =
        IF h = 0 THEN lines \o <<Header(Otel), Key(key, val)>>
        ELSE IF k # 0 THEN lines
        ELSE InsertAt(lines, TableEnd(lines, h), Key(key, val))
  BY DEF EnsureTableKey, AppendTable
<1> HIDE DEF h, k
<1>2. \/ h = 0 /\ NoTable(lines)
      \/ h # 0 /\ k # 0 /\ KeyAt(lines, key, h, k)
      \/ h # 0 /\ k = 0 /\ Gap(lines, key, h, TableEnd(lines, h))
  BY FindIs DEF h, k
<1>3. KeyAt(lines, key, h, k) => Found(lines, key, k)
  BY DEF KeyAt, TableAt, IsHeader, Found
<1> QED
  BY <1>1, <1>2, <1>3 DEF h, k

\* where there is a table,
LEMMA EnsureIsInTable ==
  ASSUME NEW lines, Len(lines) \in Nat, ~ NoTable(lines), NEW key, NEW val,
         NEW new, new = EnsureTableKey(lines, key, val)
  PROVE  new = lines \/ \E h, e : Gap(lines, key, h, e) /\ new = InsertAt(lines, e, Key(key, val))
  BY EnsureIs

\* and set,
LEMMA ReplaceIs ==
  ASSUME NEW lines, Len(lines) \in Nat, NEW key, NEW val
  PROVE  LET new == ReplaceOrInsertTableKey(lines, key, val)
         IN \/ NoTable(lines) /\ new = lines \o <<Header(Otel), Key(key, val)>>
            \/ \E k : Found(lines, key, k) /\ new = ReplaceAt(lines, k, Key(key, val))
            \/ \E h, e : Gap(lines, key, h, e) /\ new = InsertAt(lines, e, Key(key, val))
<1> DEFINE h == FindTable(lines, Otel)
           k == FindKey(lines, h, key)
<1>1. ReplaceOrInsertTableKey(lines, key, val) =
        IF h = 0 THEN lines \o <<Header(Otel), Key(key, val)>>
        ELSE IF k # 0 THEN ReplaceAt(lines, k, Key(key, val))
        ELSE InsertAt(lines, TableEnd(lines, h), Key(key, val))
  BY DEF ReplaceOrInsertTableKey, AppendTable
<1> HIDE DEF h, k
<1>2. \/ h = 0 /\ NoTable(lines)
      \/ h # 0 /\ k # 0 /\ KeyAt(lines, key, h, k)
      \/ h # 0 /\ k = 0 /\ Gap(lines, key, h, TableEnd(lines, h))
  BY FindIs DEF h, k
<1>3. KeyAt(lines, key, h, k) => Found(lines, key, k)
  BY DEF KeyAt, TableAt, IsHeader, Found
<1> QED
  BY <1>1, <1>2, <1>3

\* and a table cut out.
LEMMA RemoveIs ==
  ASSUME NEW lines, Len(lines) \in Nat, NEW path
  PROVE  LET new == RemoveTable(lines, path)
         IN \/ new = lines /\ \A i \in 1 .. Len(lines) : ~ IsHeader(lines, path, i)
            \/ \E s, e : /\ Section(lines, path, s, e)
                         /\ new = Without(lines, s, e)
<1> DEFINE s == FindTable(lines, path)
<1>1. RemoveTable(lines, path) =
        IF s = 0 THEN lines
        ELSE Without(lines, s, TableEnd(lines, s))
  BY DEF RemoveTable, Without
<1> HIDE DEF s
<1>2. \/ s = 0 /\ \A i \in 1 .. Len(lines) : ~ IsHeader(lines, path, i)
      \/ IsHeader(lines, path, s)
  BY FindTableIs DEF s
<1>3. ASSUME IsHeader(lines, path, s) PROVE s # 0 /\ Section(lines, path, s, TableEnd(lines, s))
  <2>1. s \in 1 .. Len(lines) /\ s \in 0 .. Len(lines)
    BY <1>3 DEF IsHeader
  <2> QED
    BY <1>3, <2>1, TableEndIs DEF Section
<1> QED
  BY <1>1, <1>2, <1>3

\* There is one header and one assignment that the scanner finds.
LEMMA FoundOnce ==
  ASSUME NEW lines, Len(lines) \in Nat, NEW key
  PROVE  /\ \A h, g : TableAt(lines, h) /\ TableAt(lines, g) => h = g
         /\ \A k, l : Found(lines, key, k) /\ Found(lines, key, l) => k = l
         /\ \A k, h, e : Found(lines, key, k) => ~ Gap(lines, key, h, e)
         /\ \A k : Found(lines, key, k) => ~ NoTable(lines)
         /\ \A h : TableAt(lines, h) => ~ NoTable(lines)
<1>1. ASSUME NEW h, NEW g, TableAt(lines, h), TableAt(lines, g) PROVE h = g
  <2>1. h \in 1 .. Len(lines) /\ g \in 1 .. Len(lines)
    BY <1>1 DEF TableAt, IsHeader
  <2>2. ~ (h \in 1 .. g - 1) /\ ~ (g \in 1 .. h - 1)
    BY <1>1 DEF TableAt
  <2> QED
    BY <2>1, <2>2
<1>2. ASSUME NEW k, NEW l, Found(lines, key, k), Found(lines, key, l) PROVE k = l
  <2>1. PICK h \in 1 .. Len(lines) : KeyAt(lines, key, h, k) /\ KeyAt(lines, key, h, l)
    BY <1>1, <1>2 DEF Found, KeyAt
  <2>2. ~ (k \in h + 1 .. l - 1) /\ ~ (l \in h + 1 .. k - 1)
    BY <2>1 DEF KeyAt
  <2>3. k \in h + 1 .. Len(lines) /\ l \in h + 1 .. Len(lines)
    BY <2>1 DEF KeyAt
  <2> QED
    BY <2>2, <2>3
<1>3. ASSUME NEW k, NEW h, NEW e, Found(lines, key, k), Gap(lines, key, h, e) PROVE FALSE
  <2>1. KeyAt(lines, key, h, k) /\ h \in 1 .. Len(lines)
    BY <1>1, <1>3 DEF Found, Gap, KeyAt
  <2>2. k \in h + 1 .. Len(lines) /\ e \in h + 1 .. Len(lines) + 1
    BY <1>3, <2>1 DEF KeyAt, Gap
  <2>3. ~ (k \in h + 1 .. e - 1)
    BY <1>3, <2>1 DEF KeyAt, Gap
  <2>4. CASE e \in h + 1 .. k - 1
    <3>1. e # Len(lines) + 1
      BY <2>2, <2>4
    <3> QED
      BY <1>3, <2>1, <2>4, <3>1 DEF KeyAt, Gap
  <2>5. CASE e = k
    <3>1. IsEnd(lines, k) /\ IsKey(lines, key, k)
      BY <1>3, <2>1, <2>2, <2>5 DEF KeyAt, Gap
    <3> QED
      BY <3>1 DEF IsEnd, IsKey
  <2> QED
    BY <2>1, <2>2, <2>3, <2>4, <2>5
<1>4. \A h : TableAt(lines, h) => ~ NoTable(lines)
  BY DEF TableAt, NoTable, IsHeader
<1>5. \A k : Found(lines, key, k) => ~ NoTable(lines)
  BY <1>4 DEF Found, KeyAt
<1> QED
  BY <1>1, <1>2, <1>3, <1>4, <1>5

\* What the scanner finds in the first lines it finds in every file that starts
\* with them,
LEMMA StartFinds ==
  ASSUME NEW L, NEW M, Len(L) \in Nat, Len(M) \in Nat, NEW a, SameStart(L, M, a)
  PROVE  /\ \A h : h < a /\ TableAt(L, h) => TableAt(M, h)
         /\ \A key, k : k < a /\ Found(L, key, k) => Found(M, key, k)
<1>1. /\ a \in 1 .. Len(L) + 1 /\ a <= Len(M) + 1
      /\ \A i \in 1 .. a - 1 : SameSight(L, i, M, i)
  BY StartSight DEF SameStart
<1>2. ASSUME NEW h, h < a, TableAt(L, h) PROVE TableAt(M, h)
  <2>1. h \in 1 .. a - 1 /\ \A i \in 1 .. h - 1 : i \in 1 .. a - 1
    BY <1>1, <1>2 DEF TableAt, IsHeader
  <2> QED
    BY <1>1, <1>2, <2>1 DEF TableAt, SameSight
<1>3. ASSUME NEW key, NEW k, k < a, Found(L, key, k) PROVE Found(M, key, k)
  <2>1. PICK h \in 1 .. Len(L) : KeyAt(L, key, h, k)
    BY <1>3 DEF Found
  <2>2. h < a /\ k \in h + 1 .. a - 1 /\ k \in 1 .. a - 1
    BY <1>1, <1>3, <2>1 DEF KeyAt
  <2>3. TableAt(M, h)
    BY <1>2, <2>1, <2>2 DEF KeyAt
  <2>4. IsKey(M, key, k)
    BY <1>1, <2>1, <2>2 DEF KeyAt, SameSight
  <2>5. ASSUME NEW i \in h + 1 .. k - 1 PROVE ~ IsEnd(M, i) /\ ~ IsKey(M, key, i)
    <3>1. i \in 1 .. a - 1
      BY <1>1, <2>2
    <3> QED
      BY <1>1, <2>1, <3>1 DEF KeyAt, SameSight
  <2>6. h \in 1 .. Len(M) /\ k \in h + 1 .. Len(M)
    BY <1>1, <2>2
  <2> QED
    BY <2>3, <2>4, <2>5, <2>6 DEF Found, KeyAt
<1> QED
  BY <1>2, <1>3
-----------------------------------------------------------------------------
\* The lines that have a port and a token, which only setup writes: the scanner
\* finds them where it puts the exporter, and they have the same value.
Marked(lines) == {i \in 1 .. Len(lines) : lines[i].val \in Ports \X Tokens}
Placed(lines) == \A i \in Marked(lines) : Found(lines, "exporter", i)
Only(lines, val) == \A i \in Marked(lines) : lines[i] = Key("exporter", val)

\* Or it finds nothing behind [otel]: a bracket is open at the end of the file.
\* What it adds there are lines of which TOML makes keys.
Shut(lines, h) == Gap(lines, "exporter", h, Len(lines) + 1) /\ EndDepth(lines) > 0
Dull(line) == line.kind = "key" \/ line = Header(Tui)
DullFrom(lines, m) == \A j \in m .. Len(lines) : Dull(lines[j])
Blind(lines) == \E h \in 1 .. Len(lines), m \in Marked(lines) : Shut(lines, h) /\ m > h /\ DullFrom(lines, m)

\* Or it does not find the table that it has added itself, behind the n-th line.
Hidden(lines, n) ==
  /\ NoTable(lines) /\ EndDepth(lines) > 0 /\ Marked(lines) = {}
  /\ n + 2 <= Len(lines) /\ \A i \in n + 1 .. Len(lines) : Depth(lines)[i] > 0
  /\ lines[Len(lines) - 1] = Header(Otel) /\ lines[Len(lines)].kind = "key"

\* What holds while the scalars are added, up to where n lines were found.
Adding(lines, val, n) ==
  /\ Only(lines, val)
  /\ (Placed(lines) /\ ~ NoTable(lines)) \/ Blind(lines) \/ Hidden(lines, n)

\* The place for a key is behind the keys that are found.
LEMMA GapIsBehind ==
  ASSUME NEW lines, Len(lines) \in Nat, NEW key, NEW k, Found(lines, key, k),
         NEW other, NEW h, NEW e, Gap(lines, other, h, e)
  PROVE  k < e
<1>1. PICK g \in 1 .. Len(lines) : KeyAt(lines, key, g, k)
  BY DEF Found
<1>2. g = h
  BY <1>1, FoundOnce DEF KeyAt, Gap
<1>3. k \in h + 1 .. Len(lines) /\ e \in h + 1 .. Len(lines) + 1 /\ h \in 1 .. Len(lines)
  BY <1>1, <1>2 DEF KeyAt, Gap
<1>4. CASE e \in h + 1 .. k - 1
  <2>1. e # Len(lines) + 1
    BY <1>3, <1>4
  <2> QED
    BY <1>1, <1>2, <1>4, <2>1 DEF KeyAt, Gap
<1>5. CASE e = k
  <2>1. e # Len(lines) + 1
    BY <1>3, <1>5
  <2>2. IsEnd(lines, k) /\ IsKey(lines, key, k)
    BY <1>1, <1>5, <2>1 DEF KeyAt, Gap
  <2> QED
    BY <2>2 DEF IsEnd, IsKey
<1> QED
  BY <1>3, <1>4, <1>5

\* A line that is inserted is the only one that there was not.
LEMMA InsertMarks ==
  ASSUME NEW L, Len(L) \in Nat, NEW M, Len(M) \in Nat, NEW e, Spliced(L, M, e, e, e + 1)
  PROVE  \A i \in Marked(M) : \/ i = e
                              \/ i < e /\ i \in Marked(L) /\ M[i] = L[i]
                              \/ i > e /\ i - 1 \in Marked(L) /\ M[i] = L[i - 1]
<1>1. /\ e \in 1 .. Len(L) + 1 /\ Len(M) = Len(L) + 1
      /\ \A i \in 1 .. e - 1 : M[i] = L[i]
      /\ \A i \in e + 1 .. Len(M) : M[i] = L[i + (e - (e + 1))]
  BY DEF Spliced, SameStart
<1>2. ASSUME NEW i \in Marked(M), i < e PROVE i \in Marked(L) /\ M[i] = L[i]
  <2>1. i \in 1 .. e - 1 /\ i \in 1 .. Len(L)
    BY <1>1, <1>2 DEF Marked
  <2> QED
    BY <1>1, <2>1 DEF Marked
<1>3. ASSUME NEW i \in Marked(M), i > e PROVE i - 1 \in Marked(L) /\ M[i] = L[i - 1]
  <2>1. i \in e + 1 .. Len(M) /\ i - 1 \in 1 .. Len(L) /\ i + (e - (e + 1)) = i - 1
    BY <1>1, <1>3 DEF Marked
  <2>2. M[i] = L[i - 1]
    BY <1>1, <2>1
  <2> QED
    BY <2>1, <2>2 DEF Marked
<1>4. \A i \in Marked(M) : i \in Nat
  BY DEF Marked
<1> QED
  BY <1>1, <1>2, <1>3, <1>4

\* When the scanner sees nothing, a key is inserted at the end, and it still sees
\* nothing.
LEMMA ShutInsert ==
  ASSUME NEW S, NEW L \in Seq(S), NEW line \in S, line.kind = "key",
         NEW g, Shut(L, g), NEW key, NEW h, NEW e, Gap(L, key, h, e)
  PROVE  /\ e = Len(L) + 1 /\ h = g
         /\ Shut(InsertAt(L, e, line), h)
<1>1. Len(L) \in Nat
  OBVIOUS
<1>2. h = g /\ h \in 1 .. Len(L) /\ e \in h + 1 .. Len(L) + 1
  BY <1>1, FoundOnce DEF Shut, Gap, TableAt, IsHeader
<1>3. e = Len(L) + 1
  <2>1. e \in h + 1 .. Len(L) => ~ IsEnd(L, e)
    BY <1>2 DEF Shut, Gap
  <2> QED
    BY <1>1, <1>2, <2>1 DEF Gap
<1>4. e \in 1 .. Len(L) + 1
  BY <1>1, <1>3
<1> DEFINE M == InsertAt(L, e, line)
<1>5. Len(M) = Len(L) + 1 /\ Spliced(L, M, e, e, e + 1) /\ Depth(M)[e] = Depth(L)[e]
  BY <1>4, InsertSplices
<1> HIDE DEF M
<1>6. EndDepth(M) = EndDepth(L) /\ \A i \in 1 .. e - 1 : SameSight(L, i, M, i)
  BY <1>1, <1>5, SpliceSight
<1>7. TableAt(M, h)
  <2>1. h < e /\ TableAt(L, h)
    BY <1>2, <1>3 DEF Gap
  <2> QED
    BY <1>1, <1>5, <2>1, StartFinds DEF Spliced
<1>8. ASSUME NEW i \in h + 1 .. Len(M) PROVE ~ IsEnd(M, i) /\ ~ IsKey(M, "exporter", i)
  <2>1. CASE i = Len(L) + 1
    <3>1. Depth(M)[i] > 0
      BY <1>3, <1>5, <2>1 DEF Shut, EndDepth
    <3> QED
      BY <3>1 DEF IsEnd, IsKey
  <2>2. CASE i \in h + 1 .. Len(L)
    <3>1. i \in 1 .. e - 1 /\ i \in h + 1 .. (Len(L) + 1) - 1
      BY <1>2, <1>3, <2>2
    <3> QED
      BY <1>2, <1>6, <3>1 DEF SameSight, Shut, Gap
  <2> QED
    BY <1>1, <1>2, <1>5, <2>1, <2>2
<1>9. Gap(M, "exporter", h, Len(M) + 1)
  BY <1>1, <1>2, <1>5, <1>7, <1>8 DEF Gap
<1> QED
  BY <1>2, <1>3, <1>6, <1>9 DEF Shut, M
-----------------------------------------------------------------------------
\* No value of setup's or the user's is a port and a token.
LEMMA SetupsIsNone ==
  Absent \notin Tokens => \A v \in {Setups, Users, Spread} : v \notin Ports \X Tokens
  BY DEF Setups, Users, Spread

\* The lines that setup writes.
LEMMA WrittenLines ==
  /\ \A path : /\ Header(path).kind = "header" /\ Header(path).path = path
               /\ Header(path).val = Setups
  /\ \A key, val : /\ Key(key, val).kind = "key" /\ Key(key, val).key = key
                   /\ Key(key, val).val = val
  BY DEF Header, Key, Line

\* A file in which the scanner sees no table: [otel] is added at the end, and is
\* seen there unless a bracket is open.
LEMMA AddTable ==
  ASSUME NEW S, NEW L \in Seq(S), Header(Otel) \in S, NEW line \in S, line.kind = "key",
         NoTable(L), NEW key, line.key = key
  PROVE  LET M == L \o <<Header(Otel), line>>
         IN /\ EndDepth(L) = 0 => Found(M, key, Len(M))
            /\ EndDepth(L) > 0 => NoTable(M)
<1> DEFINE M == L \o <<Header(Otel), line>>
           n == Len(L)
<1>1. n \in Nat /\ Header(Otel).kind = "header" /\ Header(Otel).path = Otel
  BY WrittenLines
<1>2. /\ Len(M) = n + 2 /\ M[n + 1] = Header(Otel) /\ M[n + 2] = line
      /\ SameStart(L, M, n + 1)
      /\ Depth(M)[n + 1] = EndDepth(L) /\ Depth(M)[n + 2] = EndDepth(L)
  BY <1>1, AppendStarts
<1> HIDE DEF M
<1>3. \A i \in 1 .. n : ~ IsHeader(M, Otel, i)
  <2>1. \A i \in 1 .. n : SameSight(L, i, M, i)
    BY <1>1, <1>2, StartSight
  <2> QED
    BY <2>1 DEF SameSight, NoTable
<1>4. ASSUME EndDepth(L) = 0 PROVE Found(M, key, Len(M))
  <2>1. TableAt(M, n + 1)
    <3>1. IsHeader(M, Otel, n + 1)
      BY <1>1, <1>2, <1>4 DEF IsHeader
    <3>2. \A i \in 1 .. (n + 1) - 1 : ~ IsHeader(M, Otel, i)
      BY <1>1, <1>3
    <3> QED
      BY <3>1, <3>2 DEF TableAt
  <2>2. IsKey(M, key, n + 2)
    BY <1>1, <1>2, <1>4 DEF IsKey
  <2>3. KeyAt(M, key, n + 1, n + 2)
    <3>1. n + 2 \in (n + 1) + 1 .. Len(M)
      BY <1>1, <1>2
    <3>2. \A i \in (n + 1) + 1 .. (n + 2) - 1 : FALSE
      BY <1>1
    <3> QED
      BY <2>1, <2>2, <3>1, <3>2 DEF KeyAt
  <2>4. n + 1 \in 1 .. Len(M)
    BY <1>1, <1>2
  <2> QED
    BY <1>2, <2>3, <2>4 DEF Found
<1>5. ASSUME EndDepth(L) > 0 PROVE NoTable(M)
  <2>1. ASSUME NEW i \in 1 .. Len(M) PROVE ~ IsHeader(M, Otel, i)
    <3>1. CASE i \in {n + 1, n + 2}
      <4>1. Depth(M)[i] > 0
        BY <1>2, <1>5, <3>1
      <4> QED
        BY <4>1 DEF IsHeader
    <3>2. CASE i \in 1 .. n
      BY <1>3, <3>2
    <3> QED
      BY <1>1, <1>2, <3>1, <3>2
  <2> QED
    BY <2>1 DEF NoTable
<1> QED
  BY <1>4, <1>5 DEF M

\* The tail of a file with a key behind the last line.
LEMMA DullGrows ==
  ASSUME NEW L, Len(L) \in Nat, NEW M, Len(M) = Len(L) + 1, NEW m \in 1 .. Len(L), DullFrom(L, m),
         \A i \in 1 .. Len(L) : M[i] = L[i], Dull(M[Len(L) + 1])
  PROVE  DullFrom(M, m)
<1>1. ASSUME NEW j \in m .. Len(M) PROVE Dull(M[j])
  <2>1. CASE j = Len(L) + 1
    BY <2>1
  <2>2. CASE j \in m .. Len(L)
    BY <2>2 DEF DullFrom
  <2> QED
    BY <2>1, <2>2
<1> QED
  BY <1>1 DEF DullFrom

\* Adding a scalar to a file in which there is no table.
LEMMA AddFirst ==
  ASSUME Absent \notin Tokens, NEW L \in Seq(Lines(Tokens)), NEW key \in Keys, NEW val, NEW n \in Nat,
         NoTable(L), Marked(L) = {}, n = Len(L) \/ Hidden(L, n),
         NEW M, M = EnsureTableKey(L, key, Setups)
  PROVE  Adding(M, val, n)
<1> DEFINE line == Key(key, Setups)
<1>1. line \in Lines(Tokens) /\ Header(Otel) \in Lines(Tokens) /\ Len(L) \in Nat
  <2>1. Otel \in Paths /\ Setups \in Vals(Tokens)
    BY DEF Paths, Vals
  <2> QED
    BY <2>1, NewLines
<1>2. /\ line.kind = "key" /\ line.val = Setups /\ line.key = key
      /\ Header(Otel).kind = "header" /\ Header(Otel).val = Setups
  BY WrittenLines
<1>3. M = L \o <<Header(Otel), line>>
  BY <1>1, EnsureIs, FoundOnce DEF Gap
<1> HIDE DEF line
<1>4. /\ Len(M) = Len(L) + 2 /\ M[Len(L) + 1] = Header(Otel) /\ M[Len(L) + 2] = line
      /\ SameStart(L, M, Len(L) + 1)
      /\ Depth(M)[Len(L) + 1] = EndDepth(L) /\ Depth(M)[Len(L) + 2] = EndDepth(L)
      /\ EndDepth(M) = EndDepth(L)
  BY <1>1, <1>2, <1>3, AppendStarts
<1>5. Marked(M) = {}
  <2> SUFFICES ASSUME NEW i \in Marked(M) PROVE FALSE
    OBVIOUS
  <2>1. i \in 1 .. Len(M) /\ M[i].val \in Ports \X Tokens
    BY DEF Marked
  <2>2. CASE i \in 1 .. Len(L)
    <3>1. M[i] = L[i]
      BY <1>1, <1>4, <2>2 DEF SameStart
    <3> QED
      BY <2>1, <2>2, <3>1 DEF Marked
  <2>3. CASE i \in {Len(L) + 1, Len(L) + 2}
    BY <1>2, <1>4, <2>1, <2>3, SetupsIsNone
  <2> QED
    BY <1>1, <1>4, <2>1, <2>2, <2>3
<1>6. Only(M, val) /\ Placed(M)
  BY <1>5 DEF Only, Placed
<1>7. /\ EndDepth(L) = 0 => Found(M, key, Len(M))
      /\ EndDepth(L) > 0 => NoTable(M)
  BY <1>1, <1>2, <1>3, AddTable
<1>8. CASE EndDepth(L) = 0
  BY <1>4, <1>6, <1>7, <1>8, FoundOnce, <1>1 DEF Adding
<1>9. CASE EndDepth(L) > 0
  <2>1. n <= Len(L) /\ \A i \in n + 1 .. Len(L) : Depth(L)[i] > 0
    BY <1>1 DEF Hidden
  <2>2. ASSUME NEW i \in n + 1 .. Len(M) PROVE Depth(M)[i] > 0
    <3>1. CASE i \in {Len(L) + 1, Len(L) + 2}
      BY <1>4, <1>9, <3>1
    <3>2. CASE i \in n + 1 .. Len(L)
      <4>1. i \in 1 .. Len(L) + 1
        BY <3>2
      <4>2. Depth(M)[i] = Depth(L)[i]
        BY <1>1, <1>4, <4>1, StartSight
      <4> QED
        BY <2>1, <3>2, <4>2
    <3> QED
      BY <1>1, <1>4, <3>1, <3>2
  <2>3. Len(M) - 1 = Len(L) + 1 /\ n + 2 <= Len(M)
    BY <1>1, <1>4, <2>1
  <2>4. Hidden(M, n)
    BY <1>2, <1>4, <1>5, <1>7, <1>9, <2>2, <2>3 DEF Hidden
  <2> QED
    BY <1>6, <2>4 DEF Adding
<1>10. EndDepth(L) \in Nat
  BY <1>1, DepthNext DEF EndDepth
<1> QED
  BY <1>8, <1>9, <1>10

\* Adding a scalar to any other.
LEMMA AddNext ==
  ASSUME Absent \notin Tokens, NEW L \in Seq(Lines(Tokens)), NEW key \in Keys, key # "exporter",
         NEW val, NEW n \in Nat, Adding(L, val, n),
         NEW M, M = EnsureTableKey(L, key, Setups)
  PROVE  Adding(M, val, n)
<1> DEFINE line == Key(key, Setups)
<1>1. line \in Lines(Tokens) /\ Len(L) \in Nat
  <2>1. Otel \in Paths /\ Setups \in Vals(Tokens)
    BY DEF Paths, Vals
  <2> QED
    BY <2>1, NewLines
<1>2. line.kind = "key" /\ line.val = Setups /\ line.val \notin Ports \X Tokens
  BY SetupsIsNone, WrittenLines
<1>3. \/ NoTable(L)
      \/ M = L
      \/ \E h, e : Gap(L, key, h, e) /\ M = InsertAt(L, e, line)
  BY <1>1, EnsureIs
<1> HIDE DEF line
<1>4. CASE NoTable(L)
  <2>1. ~ Blind(L)
    BY <1>1, <1>4, FoundOnce DEF Blind, Shut, Gap
  <2>2. Hidden(L, n)
    BY <1>4, <2>1 DEF Adding
  <2>3. Marked(L) = {}
    BY <2>2 DEF Hidden
  <2> QED
    BY <1>4, <2>2, <2>3, AddFirst
<1>5. CASE M = L
  BY <1>5
<1>6. CASE \E h, e : Gap(L, key, h, e) /\ M = InsertAt(L, e, line)
  <2>1. PICK h, e : Gap(L, key, h, e) /\ M = InsertAt(L, e, line)
    BY <1>6
  <2>2. h \in 1 .. Len(L) /\ e \in h + 1 .. Len(L) + 1 /\ TableAt(L, h)
    BY <2>1 DEF Gap, TableAt, IsHeader
  <2>3. e \in 1 .. Len(L) + 1 /\ h < e
    BY <2>2
  <2>4. M \in Seq(Lines(Tokens)) /\ Len(M) = Len(L) + 1 /\ M[e] = line /\ Spliced(L, M, e, e, e + 1)
    BY <1>1, <1>2, <2>1, <2>3, InsertSplices
  <2>5. SameStart(L, M, e) /\ Len(M) \in Nat
    BY <1>1, <2>4 DEF Spliced
  <2>6. \A i \in Marked(M) : \/ i < e /\ i \in Marked(L) /\ M[i] = L[i]
                             \/ i > e /\ i - 1 \in Marked(L) /\ M[i] = L[i - 1]
    <3>1. e \notin Marked(M)
      BY <1>2, <2>4 DEF Marked
    <3> QED
      BY <1>1, <2>4, <2>5, <3>1, InsertMarks
  <2>7. Only(M, val)
    BY <2>6 DEF Adding, Only
  <2>8. CASE Placed(L)
    <3>1. ASSUME NEW i \in Marked(M) PROVE Found(M, "exporter", i)
      <4>1. CASE i < e /\ i \in Marked(L)
        BY <1>1, <2>5, <2>8, <4>1, StartFinds DEF Placed
      <4>2. CASE i > e /\ i - 1 \in Marked(L)
        <5>1. i - 1 < e
          BY <1>1, <2>1, <2>8, <4>2, GapIsBehind DEF Placed
        <5>2. i \in Nat
          BY DEF Marked
        <5> QED
          BY <2>2, <4>2, <5>1, <5>2
      <4> QED
        BY <2>6, <4>1, <4>2
    <3>2. TableAt(M, h)
      BY <1>1, <2>2, <2>3, <2>5, StartFinds
    <3>3. Placed(M) /\ ~ NoTable(M)
      BY <2>5, <3>1, <3>2, FoundOnce DEF Placed
    <3> QED
      BY <2>7, <3>3 DEF Adding
  <2>9. CASE Blind(L)
    <3>1. PICK g \in 1 .. Len(L), m \in Marked(L) : Shut(L, g) /\ m > g /\ DullFrom(L, m)
      BY <2>9 DEF Blind
    <3>2. e = Len(L) + 1 /\ h = g /\ Shut(M, h)
      BY <1>1, <1>2, <2>1, <3>1, ShutInsert
    <3>3. m \in 1 .. Len(L) /\ \A i \in 1 .. Len(L) : M[i] = L[i]
      BY <1>1, <2>5, <3>2 DEF Marked, SameStart
    <3>4. DullFrom(M, m)
      BY <1>1, <1>2, <2>4, <3>1, <3>2, <3>3, DullGrows DEF Dull
    <3>5. m \in Marked(M) /\ h \in 1 .. Len(M)
      BY <1>1, <2>2, <2>4, <3>3 DEF Marked
    <3>6. Blind(M)
      BY <3>1, <3>2, <3>4, <3>5 DEF Blind
    <3> QED
      BY <2>7, <3>6 DEF Adding
  <2>10. ~ Hidden(L, n)
    BY <1>1, <2>2, FoundOnce DEF Hidden
  <2> QED
    BY <2>8, <2>9, <2>10 DEF Adding
<1> QED
  BY <1>3, <1>4, <1>5, <1>6
-----------------------------------------------------------------------------
\* What holds once the exporter is set to e: the scanner finds it, and no other;
\* or it is behind an open bracket, where there may be one with another value; or
\* the scanner did not find what it had added, and has added it twice, unless all
\* of it is cut out.
Seen(lines, e) ==
  \E k : Found(lines, "exporter", k) /\ Marked(lines) = {k} /\ lines[k] = Key("exporter", e)

Closed(lines, val, e) ==
  /\ Len(lines) > 0 /\ lines[Len(lines)] = Key("exporter", e)
  /\ \E h \in 1 .. Len(lines), m \in Marked(lines) :
       /\ Shut(lines, h) /\ m > h /\ DullFrom(lines, m)
       /\ \A i \in Marked(lines) \ {Len(lines)} :
            m # Len(lines) /\ lines[m] = Key("exporter", val) /\ lines[i] = lines[m]

Twice(lines, e, n) ==
  /\ NoTable(lines) /\ EndDepth(lines) > 0 /\ Marked(lines) = {Len(lines)}
  /\ \E t \in 0 .. n : t + 4 <= Len(lines) /\ \A i \in t + 1 .. Len(lines) : Depth(lines)[i] > 0
  /\ lines[Len(lines)] = Key("exporter", e) /\ lines[Len(lines) - 2].kind = "key"
  /\ lines[Len(lines) - 1] = Header(Otel) /\ lines[Len(lines) - 3] = Header(Otel)

Lost(lines, n) == Marked(lines) = {} /\ Len(lines) < n

IsSet(lines, val, e, n) ==
  Seen(lines, e) \/ Closed(lines, val, e) \/ Twice(lines, e, n) \/ Lost(lines, n)

\* Setting the exporter, in a table that is added behind the one before,
LEMMA SetFirst ==
  ASSUME NEW T, NEW L \in Seq(Lines(T)), NEW e \in Ports \X Tokens, Absent \notin Tokens,
         Key("exporter", e) \in Lines(T), Header(Otel) \in Lines(T),
         NEW n \in Nat, Hidden(L, n)
  PROVE  Twice(L \o <<Header(Otel), Key("exporter", e)>>, e, n)
<1> DEFINE line == Key("exporter", e)
           M == L \o <<Header(Otel), line>>
           l == Len(L)
<1>1. /\ l \in Nat /\ l = Len(L) /\ NoTable(L) /\ EndDepth(L) > 0 /\ Marked(L) = {} /\ n + 2 <= l
      /\ \A i \in n + 1 .. l : Depth(L)[i] > 0
      /\ L[l - 1] = Header(Otel) /\ L[l].kind = "key"
  BY DEF Hidden
<1>2. /\ line.kind = "key" /\ line.val = e /\ line.key = "exporter"
      /\ Header(Otel).kind = "header" /\ Header(Otel).val = Setups
  BY WrittenLines
<1>3. line \in Lines(T)
  OBVIOUS
<1> HIDE DEF line
<1>4. /\ Len(M) = l + 2 /\ M[l + 1] = Header(Otel) /\ M[l + 2] = line
      /\ SameStart(L, M, l + 1)
      /\ Depth(M)[l + 1] = EndDepth(L) /\ Depth(M)[l + 2] = EndDepth(L)
      /\ EndDepth(M) = EndDepth(L)
  BY <1>2, <1>3, AppendStarts
<1>5. NoTable(M)
  BY <1>1, <1>2, <1>3, AddTable
<1> HIDE DEF M, l
<1>6. \A i \in 1 .. l : M[i] = L[i]
  BY <1>1, <1>4 DEF SameStart
<1>10. \A i \in 1 .. Len(M) : i \in 1 .. l \/ i \in {l + 1, l + 2}
  <2>1. l \in Nat /\ Len(M) = l + 2
    BY <1>1, <1>4
  <2> QED
    BY <2>1
<1>7. Marked(M) = {Len(M)}
  <2>1. ASSUME NEW i \in Marked(M) PROVE i = Len(M)
    <3>1. i \in 1 .. Len(M) /\ M[i].val \in Ports \X Tokens
      BY DEF Marked
    <3>2. CASE i \in 1 .. l
      BY <1>1, <1>6, <3>1, <3>2 DEF Marked
    <3>3. CASE i = l + 1
      BY <1>2, <1>4, <3>1, <3>3, SetupsIsNone
    <3> QED
      BY <1>4, <1>10, <3>1, <3>2, <3>3
  <2>2. Len(M) \in Marked(M)
    BY <1>1, <1>2, <1>4 DEF Marked
  <2> QED
    BY <2>1, <2>2
<1>8. ASSUME NEW i \in n + 1 .. Len(M) PROVE Depth(M)[i] > 0
  <2>1. CASE i \in {l + 1, l + 2}
    BY <1>1, <1>4, <2>1
  <2>2. CASE i \in 1 .. l
    <3>1. i \in 1 .. l + 1 /\ i \in n + 1 .. l
      BY <1>1, <2>2
    <3>2. Depth(M)[i] = Depth(L)[i]
      BY <1>1, <1>4, <3>1, StartSight
    <3> QED
      BY <1>1, <3>1, <3>2
  <2>3. i \in 1 .. Len(M)
    BY <1>1, <1>4
  <2> QED
    BY <1>10, <2>1, <2>2, <2>3
<1>9. /\ n \in 0 .. n /\ n + 4 <= Len(M)
      /\ M[Len(M) - 2].kind = "key" /\ M[Len(M) - 1] = Header(Otel) /\ M[Len(M) - 3] = Header(Otel)
  <2>1. Len(M) - 2 = l /\ Len(M) - 1 = l + 1 /\ Len(M) - 3 = l - 1 /\ l \in 1 .. l /\ l - 1 \in 1 .. l
    BY <1>1, <1>4
  <2> QED
    BY <1>1, <1>4, <1>6, <2>1
<1> QED
  BY <1>1, <1>4, <1>5, <1>7, <1>8, <1>9 DEF Twice, line, M

\* where it is found,
LEMMA SetFound ==
  ASSUME NEW T, NEW L \in Seq(Lines(T)), NEW e \in Ports \X Tokens, Key("exporter", e) \in Lines(T),
         NEW k, Found(L, "exporter", k), Placed(L)
  PROVE  Seen(ReplaceAt(L, k, Key("exporter", e)), e)
<1> DEFINE line == Key("exporter", e)
           M == ReplaceAt(L, k, line)
<1>1. PICK h \in 1 .. Len(L) : KeyAt(L, "exporter", h, k)
  BY DEF Found
<1>2. k \in h + 1 .. Len(L) /\ k \in 1 .. Len(L) /\ Len(L) \in Nat
  BY <1>1 DEF KeyAt
<1>4. line.kind = "key" /\ line.val = e /\ line.key = "exporter" /\ line \in Lines(T)
  BY WrittenLines
<1> HIDE DEF line
<1>5. /\ Len(M) = Len(L) /\ M[k] = line /\ SameStart(L, M, k)
      /\ \A i \in 1 .. Len(L) : i # k => M[i] = L[i]
      /\ Depth(M)[k] = Depth(L)[k]
  <2>1. PICK S : S = Lines(T)
    OBVIOUS
  <2>2. L \in Seq(S) /\ line \in S /\ k \in 1 .. Len(L)
    BY <1>2, <1>4, <2>1
  <2> QED
    BY <2>2, ReplaceStarts
<1> HIDE DEF M
<1>6. SameStart(L, M, k) /\ Len(M) \in Nat
  BY <1>2, <1>5
<1>7. \A i \in 1 .. Len(M) : i # k => M[i] = L[i]
  BY <1>5
<1>8. Marked(M) = {k}
  <2>1. k \in Marked(M)
    BY <1>2, <1>4, <1>5 DEF Marked
  <2>2. ASSUME NEW i \in Marked(M), i # k PROVE FALSE
    <3>1. i \in Marked(L)
      BY <1>5, <1>7, <2>2 DEF Marked
    <3> QED
      BY <1>2, <2>2, <3>1, FoundOnce DEF Placed
  <2> QED
    BY <2>1, <2>2
<1>9. Found(M, "exporter", k)
  <2>1. TableAt(M, h)
    <3>1. h < k /\ TableAt(L, h)
      BY <1>1, <1>2 DEF KeyAt
    <3> QED
      BY <1>2, <1>6, <3>1, StartFinds
  <2>2. IsKey(M, "exporter", k)
    BY <1>1, <1>2, <1>4, <1>5 DEF IsKey, KeyAt
  <2>3. ASSUME NEW i \in h + 1 .. k - 1 PROVE ~ IsEnd(M, i) /\ ~ IsKey(M, "exporter", i)
    <3>1. i \in 1 .. k - 1
      BY <1>2
    <3>2. SameSight(L, i, M, i)
      BY <1>2, <1>6, <3>1, StartSight
    <3> QED
      BY <1>1, <3>2 DEF SameSight, KeyAt
  <2> QED
    BY <1>2, <1>5, <2>1, <2>2, <2>3 DEF Found, KeyAt
<1> QED
  BY <1>5, <1>8, <1>9 DEF Seen, M, line

\* and in the table's gap, where the scanner sees it if it sees the end of the
\* table or of the file.
LEMMA InsertFinds ==
  ASSUME NEW S, NEW L \in Seq(S), NEW line \in S, line.kind = "key", NEW key, line.key = key,
         NEW h, NEW e, Gap(L, key, h, e), Depth(L)[e] = 0
  PROVE  Found(InsertAt(L, e, line), key, e)
<1> DEFINE M == InsertAt(L, e, line)
<1>1. h \in 1 .. Len(L) /\ e \in h + 1 .. Len(L) + 1 /\ TableAt(L, h) /\ Len(L) \in Nat
  BY DEF Gap, TableAt, IsHeader
<1>2. e \in 1 .. Len(L) + 1 /\ h < e
  BY <1>1
<1>3. /\ Len(M) = Len(L) + 1 /\ M[e] = line /\ Spliced(L, M, e, e, e + 1)
      /\ Depth(M)[e] = Depth(L)[e]
  BY <1>2, InsertSplices
<1> HIDE DEF M
<1>4. SameStart(L, M, e) /\ Len(M) \in Nat
  BY <1>1, <1>3 DEF Spliced
<1>5. TableAt(M, h)
  BY <1>1, <1>2, <1>4, StartFinds
<1>6. IsKey(M, key, e)
  BY <1>1, <1>2, <1>3 DEF IsKey
<1>7. ASSUME NEW i \in h + 1 .. e - 1 PROVE ~ IsEnd(M, i) /\ ~ IsKey(M, key, i)
  <2>1. i \in 1 .. e - 1
    BY <1>1
  <2>2. SameSight(L, i, M, i)
    BY <1>1, <1>4, <2>1, StartSight
  <2> QED
    BY <2>2 DEF SameSight, Gap
<1>8. KeyAt(M, key, h, e)
  BY <1>1, <1>3, <1>5, <1>6, <1>7 DEF KeyAt
<1>9. h \in 1 .. Len(M)
  BY <1>1, <1>3
<1> QED
  BY <1>8, <1>9 DEF Found, M
-----------------------------------------------------------------------------
\* What is set is the exporter that the scanner finds, if it finds one then.
LEMMA SetExporter ==
  ASSUME Absent \notin Tokens, NEW L \in Seq(Lines(Tokens)), NEW e \in Ports \X Tokens,
         NEW val, NEW n \in Nat, Adding(L, val, n)
  PROVE  IsSet(ReplaceOrInsertTableKey(L, "exporter", e), val, e, n)
<1> DEFINE line == Key("exporter", e)
           M == ReplaceOrInsertTableKey(L, "exporter", e)
<1>1. line \in Lines(Tokens) /\ Header(Otel) \in Lines(Tokens) /\ Len(L) \in Nat
  <2>1. Otel \in Paths /\ "exporter" \in Keys /\ e \in Vals(Tokens)
    BY DEF Paths, Keys, Vals
  <2> QED
    BY <2>1, NewLines
<1>2. line.kind = "key" /\ line.val = e /\ line.key = "exporter"
  BY WrittenLines
<1>3. \/ NoTable(L) /\ M = L \o <<Header(Otel), line>>
      \/ \E k : Found(L, "exporter", k) /\ M = ReplaceAt(L, k, line)
      \/ \E h, g : Gap(L, "exporter", h, g) /\ M = InsertAt(L, g, line)
  BY <1>1, ReplaceIs
<1>4. CASE NoTable(L) /\ M = L \o <<Header(Otel), line>>
  <2>1. ~ Blind(L)
    BY <1>1, <1>4, FoundOnce DEF Blind, Shut, Gap
  <2>2. Hidden(L, n)
    BY <1>4, <2>1 DEF Adding
  <2> QED
    BY <1>1, <1>4, <2>2, SetFirst DEF IsSet
<1>5. CASE \E k : Found(L, "exporter", k) /\ M = ReplaceAt(L, k, line)
  <2>1. PICK k : Found(L, "exporter", k) /\ M = ReplaceAt(L, k, line)
    BY <1>5
  <2>2. ~ Blind(L) /\ ~ Hidden(L, n)
    BY <1>1, <2>1, FoundOnce DEF Blind, Shut, Hidden
  <2>3. Placed(L)
    BY <2>2 DEF Adding
  <2> QED
    BY <1>1, <2>1, <2>3, SetFound DEF IsSet
<1>6. CASE \E h, g : Gap(L, "exporter", h, g) /\ M = InsertAt(L, g, line)
  <2>1. PICK h, g : Gap(L, "exporter", h, g) /\ M = InsertAt(L, g, line)
    BY <1>6
  <2> HIDE DEF M, line
  <2>2. h \in 1 .. Len(L) /\ g \in h + 1 .. Len(L) + 1 /\ TableAt(L, h)
    BY <2>1 DEF Gap, TableAt, IsHeader
  <2>3. g \in 1 .. Len(L) + 1 /\ h < g
    BY <2>2
  <2>4. /\ Len(M) = Len(L) + 1 /\ M[g] = line /\ Spliced(L, M, g, g, g + 1)
        /\ Depth(M)[g] = Depth(L)[g]
    BY <1>1, <1>2, <2>1, <2>3, InsertSplices
  <2>5. Len(M) \in Nat
    BY <1>1, <2>4
  <2>6. g \in Marked(M)
    BY <1>1, <1>2, <2>3, <2>4 DEF Marked
  <2>7. ~ Hidden(L, n)
    BY <1>1, <2>2, FoundOnce DEF Hidden
  <2>8. ASSUME Shut(L, h), g = Len(L) + 1 PROVE Shut(M, h)
    BY <1>1, <1>2, <2>1, <2>8, ShutInsert
  <2>9. CASE Placed(L)
    <3>1. Marked(L) = {}
      BY <1>1, <2>1, <2>9, FoundOnce DEF Placed
    <3>2. Marked(M) = {g}
      BY <1>1, <2>4, <2>5, <2>6, <3>1, InsertMarks
    <3>3. CASE Depth(L)[g] = 0
      <4>1. Found(M, "exporter", g)
        BY <1>1, <1>2, <2>1, <3>3, InsertFinds
      <4> QED
        BY <2>4, <3>2, <4>1 DEF IsSet, Seen, M, line
    <3>4. CASE Depth(L)[g] # 0
      <4>1. g = Len(L) + 1
        BY <2>1, <3>4 DEF Gap, IsEnd
      <4>2. Shut(L, h)
        <5>1. EndDepth(L) \in Nat
          BY <1>1, DepthNext DEF EndDepth
        <5> QED
          BY <2>1, <3>4, <4>1, <5>1 DEF Shut, EndDepth
      <4>3. Shut(M, h)
        BY <2>8, <4>1, <4>2
      <4>4. DullFrom(M, g)
        BY <1>1, <1>2, <2>4, <4>1 DEF DullFrom, Dull
      <4>5. g = Len(M) /\ g > 0 /\ h \in 1 .. Len(M) /\ g > h
        BY <1>1, <2>2, <2>4, <4>1
      <4>6. \A i \in Marked(M) \ {Len(M)} : FALSE
        BY <3>2, <4>5
      <4>7. Closed(M, val, e)
        BY <2>4, <2>6, <4>3, <4>4, <4>5, <4>6 DEF Closed, line
      <4> QED
        BY <4>7 DEF IsSet, M
    <3> QED
      BY <3>3, <3>4
  <2>10. CASE Blind(L)
    <3>1. PICK f \in 1 .. Len(L), m \in Marked(L) : Shut(L, f) /\ m > f /\ DullFrom(L, m)
      BY <2>10 DEF Blind
    <3>2. g = Len(L) + 1 /\ h = f /\ Shut(M, h)
      BY <1>1, <1>2, <2>1, <3>1, ShutInsert
    <3>3. m \in 1 .. Len(L) /\ \A i \in 1 .. Len(L) : M[i] = L[i]
      BY <1>1, <2>4, <3>2 DEF Marked, Spliced, SameStart
    <3>4. DullFrom(M, m)
      BY <1>1, <1>2, <2>4, <3>1, <3>2, <3>3, DullGrows DEF Dull
    <3>5. m \in Marked(M) /\ h \in 1 .. Len(M) /\ m # Len(M) /\ Len(M) = g
      BY <1>1, <2>2, <2>4, <3>2, <3>3 DEF Marked
    <3>6. \A i \in Marked(L) : L[i] = Key("exporter", val)
      BY DEF Adding, Only
    <3>7. ASSUME NEW i \in Marked(M) \ {Len(M)} PROVE M[i] = Key("exporter", val)
      <4>1. i \in 1 .. Len(L)
        BY <1>1, <2>4 DEF Marked
      <4>2. i \in Marked(L)
        BY <3>3, <4>1, <3>7 DEF Marked
      <4> QED
        BY <3>3, <3>6, <4>1, <4>2
    <3>8. Len(M) > 0
      BY <1>1, <2>4
    <3>9. M[m] = Key("exporter", val) /\ m > h
      BY <3>1, <3>2, <3>3, <3>6
    <3>10. Closed(M, val, e)
      BY <2>4, <3>2, <3>4, <3>5, <3>7, <3>8, <3>9 DEF Closed, line
    <3> QED
      BY <3>10 DEF IsSet, M
  <2> QED
    BY <2>7, <2>9, <2>10 DEF Adding
<1> QED
  BY <1>3, <1>4, <1>5, <1>6
-----------------------------------------------------------------------------
\* Cutting out another table leaves what the scanner finds behind that one.
LEMMA CutFinds ==
  ASSUME NEW L, Len(L) \in Nat, NEW M, Len(M) \in Nat, NEW path, path # Otel,
         NEW s, NEW e, Section(L, path, s, e), Spliced(L, M, s, e, s),
         NEW h, TableAt(L, h), s < h
  PROVE  /\ e <= h
         /\ TableAt(M, h - (e - s))
         /\ \A key, k : KeyAt(L, key, h, k) => KeyAt(M, key, h - (e - s), k - (e - s))
<1> DEFINE d == e - s
<1>1. /\ s \in 1 .. Len(L) /\ e \in s + 1 .. Len(L) + 1 /\ h \in 1 .. Len(L)
      /\ d \in Nat /\ e = s + d /\ Len(M) = Len(L) - d
  BY DEF Section, IsHeader, TableAt, Spliced
<1>2. e <= h
  <2>1. IsEnd(L, h)
    BY DEF TableAt, IsHeader, IsEnd
  <2>2. h \notin s + 1 .. e - 1
    BY <2>1 DEF Section
  <2> QED
    BY <1>1, <2>2
<1>3. /\ \A i \in 1 .. s - 1 : SameSight(L, i, M, i)
      /\ \A i \in s .. Len(M) : SameSight(L, i + d, M, i)
  BY SpliceSight
<1> HIDE DEF d
<1>4. TableAt(M, h - d)
  <2>1. h - d \in s .. Len(M) /\ (h - d) + d = h
    BY <1>1, <1>2
  <2>2. IsHeader(M, Otel, h - d)
    BY <1>3, <2>1 DEF SameSight, TableAt
  <2>3. ASSUME NEW i \in 1 .. (h - d) - 1 PROVE ~ IsHeader(M, Otel, i)
    <3>1. CASE i < s
      <4>1. i \in 1 .. s - 1 /\ i \in 1 .. h - 1
        BY <1>1, <1>2, <3>1
      <4> QED
        BY <1>3, <4>1 DEF SameSight, TableAt
    <3>2. CASE i >= s
      <4>1. i \in s .. Len(M) /\ i + d \in 1 .. h - 1
        BY <1>1, <1>2, <3>2
      <4> QED
        BY <1>3, <4>1 DEF SameSight, TableAt
    <3> QED
      BY <1>1, <1>2, <3>1, <3>2
  <2> QED
    BY <2>2, <2>3 DEF TableAt
<1>5. ASSUME NEW key, NEW k, KeyAt(L, key, h, k) PROVE KeyAt(M, key, h - d, k - d)
  <2>1. k \in h + 1 .. Len(L)
    BY <1>5 DEF KeyAt
  <2>2. k - d \in s .. Len(M) /\ (k - d) + d = k /\ k - d \in (h - d) + 1 .. Len(M)
    BY <1>1, <1>2, <2>1
  <2>3. IsKey(M, key, k - d)
    BY <1>3, <1>5, <2>2 DEF SameSight, KeyAt
  <2>4. ASSUME NEW i \in (h - d) + 1 .. (k - d) - 1 PROVE ~ IsEnd(M, i) /\ ~ IsKey(M, key, i)
    <3>1. i \in s .. Len(M) /\ i + d \in h + 1 .. k - 1
      BY <1>1, <1>2, <2>1
    <3> QED
      BY <1>3, <1>5, <3>1 DEF SameSight, KeyAt
  <2> QED
    BY <1>4, <2>2, <2>3, <2>4 DEF KeyAt
<1> QED
  BY <1>2, <1>4, <1>5 DEF d

\* A line that is left is a line that there was.
LEMMA CutMarks ==
  ASSUME NEW L, Len(L) \in Nat, NEW M, NEW s \in 1 .. Len(L), NEW e \in s + 1 .. Len(L) + 1,
         Len(M) = Len(L) - (e - s),
         \A i \in 1 .. s - 1 : M[i] = L[i], \A i \in s .. Len(M) : M[i] = L[i + (e - s)]
  PROVE  /\ \A i \in 1 .. s - 1 : i \in Marked(M) <=> i \in Marked(L)
         /\ \A i \in s .. Len(M) : i \in Marked(M) <=> i + (e - s) \in Marked(L)
<1>1. ASSUME NEW i \in 1 .. s - 1 PROVE i \in Marked(M) <=> i \in Marked(L)
  <2>1. i \in 1 .. Len(M) /\ i \in 1 .. Len(L)
    OBVIOUS
  <2> QED
    BY <2>1 DEF Marked
<1>2. ASSUME NEW i \in s .. Len(M) PROVE i \in Marked(M) <=> i + (e - s) \in Marked(L)
  <2>1. i \in 1 .. Len(M) /\ i + (e - s) \in 1 .. Len(L)
    OBVIOUS
  <2>2. M[i] = L[i + (e - s)]
    OBVIOUS
  <2> QED
    BY <2>1, <2>2 DEF Marked
<1> QED
  BY <1>1, <1>2

\* The stale table is another one.
LEMMA StaleIsOther == Stale # Otel
<1>1. Len(Stale) = 3 /\ Len(Otel) = 1
  BY DEF Stale, Otel
<1> QED
  BY <1>1

\* So none of this is lost by cutting out the stale table, unless the exporter was
\* put into it.
LEMMA RemoveStale ==
  ASSUME NEW S, NEW L \in Seq(S), NEW val, NEW v, NEW n \in Nat, IsSet(L, val, v, n)
  PROVE  IsSet(RemoveTable(L, Stale), val, v, n)
<1> DEFINE M == RemoveTable(L, Stale)
<1>0. Len(L) \in Nat
  OBVIOUS
<1>1. CASE M = L
  BY <1>1
<1>2. ASSUME NEW s, NEW e, Section(L, Stale, s, e),
             M = Without(L, s, e)
      PROVE  IsSet(M, val, v, n)
  <2> DEFINE d == e - s
  <2>1. /\ s \in 1 .. Len(L) /\ e \in s + 1 .. Len(L) + 1 /\ Depth(L)[s] = 0
        /\ e <= Len(L) => IsEnd(L, e)
        /\ IsEnd(L, s) /\ IsHeader(L, Stale, s)
    BY <1>0, <1>2 DEF Section, IsHeader, IsEnd
  <2>2. e <= Len(L) => Depth(L)[e] = 0
    BY <2>1 DEF IsEnd
  <2>3. /\ M \in Seq(S) /\ Len(M) = Len(L) - (e - s) /\ SameStart(L, M, s)
        /\ \A i \in s .. Len(M) : M[i] = L[i + (e - s)]
        /\ e <= Len(L) => Spliced(L, M, s, e, s)
    BY <1>2, <2>1, <2>2, CutSplices
  <2> HIDE DEF M
  <2>4. /\ Len(M) \in Nat /\ Len(M) = Len(L) - d /\ d \in Nat /\ d > 0 /\ e = s + d
        /\ \A i \in 1 .. s - 1 : M[i] = L[i]
        /\ \A i \in s .. Len(M) : M[i] = L[i + d]
    <3>1. \A i \in 1 .. s - 1 : M[i] = L[i]
      BY <2>3 DEF SameStart
    <3>2. Len(M) \in Nat
      BY <2>3
    <3>3. d \in Nat /\ d > 0 /\ e = s + d
      BY <1>0, <2>1
    <3> QED
      BY <2>3, <3>1, <3>2, <3>3
  <2>5. /\ \A i \in 1 .. s - 1 : i \in Marked(M) <=> i \in Marked(L)
        /\ \A i \in s .. Len(M) : i \in Marked(M) <=> i + d \in Marked(L)
    BY <1>0, <2>1, <2>3, <2>4, CutMarks
  <2>6. \A i \in Marked(M) : i \in 1 .. s - 1 \/ i \in s .. Len(M)
    BY <2>1 DEF Marked
  <2>7. ASSUME NEW h, TableAt(L, h), s < h
        PROVE  /\ e <= h /\ e <= Len(L) /\ TableAt(M, h - d)
               /\ \A key, k : KeyAt(L, key, h, k) => KeyAt(M, key, h - d, k - d)
    <3>1. h \in 1 .. Len(L) /\ IsEnd(L, h)
      BY <2>7 DEF TableAt, IsHeader, IsEnd
    <3>2. e <= h
      <4>1. h \notin s + 1 .. e - 1
        BY <1>2, <3>1 DEF Section
      <4> QED
        BY <2>1, <2>7, <3>1, <4>1
    <3>3. e <= Len(L)
      BY <2>1, <3>1, <3>2
    <3>4. Spliced(L, M, s, e, s)
      BY <2>3, <3>3
    <3> QED
      BY <1>0, <1>2, <2>4, <2>7, <3>2, <3>3, <3>4, StaleIsOther, CutFinds
  <2>8. \A h : TableAt(L, h) => h # s
    BY <2>1, StaleIsOther DEF TableAt, IsHeader
  <2> HIDE DEF d
  <2>9. CASE Seen(L, v)
    <3>1. PICK k : Found(L, "exporter", k) /\ Marked(L) = {k} /\ L[k] = Key("exporter", v)
      BY <2>9 DEF Seen
    <3>2. PICK h \in 1 .. Len(L) : KeyAt(L, "exporter", h, k)
      BY <3>1 DEF Found
    <3>3. TableAt(L, h) /\ k \in h + 1 .. Len(L) /\ h # s
      BY <2>8, <3>2 DEF KeyAt
    <3>4. CASE s < h
      <4>1. KeyAt(M, "exporter", h - d, k - d) /\ e <= h /\ e <= Len(L)
        BY <2>7, <3>2, <3>3, <3>4
      <4>2. h - d \in 1 .. Len(M) /\ k - d \in s .. Len(M) /\ (k - d) + d = k
        BY <2>1, <2>4, <3>2, <3>3, <4>1
      <4>3. Found(M, "exporter", k - d)
        BY <4>1, <4>2 DEF Found
      <4>4. k - d \in Marked(M) /\ M[k - d] = Key("exporter", v)
        BY <2>4, <2>5, <3>1, <4>2
      <4>5. ASSUME NEW i \in Marked(M) PROVE i = k - d
        <5>1. CASE i \in 1 .. s - 1
          <6>1. i = k
            BY <2>5, <3>1, <5>1
          <6> QED
            BY <2>1, <3>2, <3>3, <3>4, <5>1, <6>1
        <5>2. CASE i \in s .. Len(M)
          <6>1. i + d = k
            BY <2>5, <3>1, <5>2
          <6> QED
            BY <2>4, <5>2, <6>1
        <5> QED
          BY <2>6, <5>1, <5>2
      <4>6. Marked(M) = {k - d}
        BY <4>4, <4>5
      <4> QED
        BY <4>3, <4>4, <4>6 DEF IsSet, Seen
    <3>5. CASE h < s
      <4>1. k < s
        <5>1. s \notin h + 1 .. k - 1
          BY <2>1, <3>2 DEF KeyAt
        <5>2. s # k
          BY <2>1, <3>2 DEF KeyAt, IsKey, IsEnd
        <5> QED
          BY <2>1, <3>2, <3>3, <3>5, <5>1, <5>2
      <4>2. k \in 1 .. s - 1
        BY <2>1, <3>2, <3>3, <4>1
      <4>3. Found(M, "exporter", k)
        BY <1>0, <2>3, <2>4, <3>1, <4>1, StartFinds
      <4>4. k \in Marked(M) /\ M[k] = Key("exporter", v)
        BY <2>4, <2>5, <3>1, <4>2
      <4>5. ASSUME NEW i \in Marked(M) PROVE i = k
        <5>1. CASE i \in 1 .. s - 1
          BY <2>5, <3>1, <5>1
        <5>2. CASE i \in s .. Len(M)
          <6>1. i + d = k
            BY <2>5, <3>1, <5>2
          <6> QED
            BY <2>1, <2>4, <4>2, <5>2, <6>1
        <5> QED
          BY <2>6, <5>1, <5>2
      <4>6. Marked(M) = {k}
        BY <4>4, <4>5
      <4> QED
        BY <4>3, <4>4, <4>6 DEF IsSet, Seen
    <3>6. s \in Nat /\ h \in Nat
      BY <2>1, <3>2
    <3> QED
      BY <3>3, <3>4, <3>5, <3>6
  <2>10. CASE Closed(L, val, v)
    <3>1. PICK h \in 1 .. Len(L), m \in Marked(L) :
             /\ Shut(L, h) /\ m > h /\ DullFrom(L, m)
             /\ \A i \in Marked(L) \ {Len(L)} :
                  m # Len(L) /\ L[m] = Key("exporter", val) /\ L[i] = L[m]
      BY <2>10 DEF Closed
    <3>2. TableAt(L, h) /\ \A i \in h + 1 .. Len(L) : ~ IsEnd(L, i) /\ ~ IsKey(L, "exporter", i)
      BY <1>0, <3>1 DEF Shut, Gap
    <3>3. s < h
      <4>1. s \notin h + 1 .. Len(L) /\ s # h
        BY <2>1, <2>8, <3>2
      <4> QED
        BY <2>1, <3>1, <4>1
    <3>4. e <= h /\ e <= Len(L) /\ TableAt(M, h - d)
      BY <2>7, <3>2, <3>3
    <3>5. Spliced(L, M, s, e, s)
      BY <2>3, <3>4
    <3>6. /\ \A i \in s .. Len(M) : SameSight(L, i + d, M, i)
          /\ EndDepth(M) = EndDepth(L)
      BY <1>0, <2>4, <3>5, SpliceSight DEF d
    <3>7. h - d \in s .. Len(M) /\ h - d \in 1 .. Len(M)
      BY <2>1, <2>4, <3>1, <3>4
    <3>8. ASSUME NEW i \in (h - d) + 1 .. Len(M) PROVE ~ IsEnd(M, i) /\ ~ IsKey(M, "exporter", i)
      <4>1. i \in s .. Len(M) /\ i + d \in h + 1 .. Len(L)
        BY <1>0, <2>1, <2>4, <3>1, <3>7
      <4> QED
        BY <3>2, <3>6, <4>1 DEF SameSight
    <3>9. Shut(M, h - d)
      <4>1. Len(M) + 1 \in (h - d) + 1 .. Len(M) + 1
        BY <2>4, <3>7
      <4>2. \A i \in (h - d) + 1 .. (Len(M) + 1) - 1 : ~ IsEnd(M, i) /\ ~ IsKey(M, "exporter", i)
        BY <2>4, <3>8
      <4>3. Gap(M, "exporter", h - d, Len(M) + 1)
        BY <3>4, <4>1, <4>2 DEF Gap
      <4> QED
        BY <3>1, <3>6, <4>3 DEF Shut
    <3>10. m \in 1 .. Len(L)
      BY DEF Marked
    <3>11. m - d \in s .. Len(M) /\ (m - d) + d = m /\ m - d > h - d
      BY <2>1, <2>4, <3>1, <3>4, <3>10
    <3>12. m - d \in Marked(M)
      BY <2>5, <3>11
    <3>13. DullFrom(M, m - d)
      <4>1. ASSUME NEW j \in m - d .. Len(M) PROVE Dull(M[j])
        <5>1. j \in s .. Len(M) /\ j + d \in m .. Len(L)
          BY <1>0, <2>1, <2>4, <3>10, <3>11
        <5> QED
          BY <2>4, <3>1, <5>1 DEF DullFrom
      <4> QED
        BY <4>1 DEF DullFrom
    <3>14. Len(M) > 0 /\ Len(M) \in s .. Len(M) /\ Len(M) + d = Len(L)
      BY <1>0, <2>1, <2>4, <3>7
    <3>15. M[Len(M)] = Key("exporter", v)
      BY <2>4, <2>10, <3>14 DEF Closed
    <3>16. ASSUME NEW i \in Marked(M) \ {Len(M)}
           PROVE  m - d # Len(M) /\ M[m - d] = Key("exporter", val) /\ M[i] = M[m - d]
      <4>1. CASE i \in 1 .. s - 1
        <5>1. i \in Marked(L) /\ i # Len(L)
          BY <2>1, <2>5, <4>1
        <5>2. m # Len(L) /\ L[m] = Key("exporter", val) /\ L[i] = L[m]
          BY <3>1, <5>1
        <5>3. M[m - d] = L[m] /\ M[i] = L[i] /\ m - d # Len(M)
          BY <2>4, <3>11, <3>14, <4>1, <5>2
        <5> QED
          BY <5>2, <5>3
      <4>2. CASE i \in s .. Len(M)
        <5>1. i + d \in Marked(L) /\ i + d # Len(L)
          BY <2>4, <2>5, <4>2, <3>14
        <5>2. m # Len(L) /\ L[m] = Key("exporter", val) /\ L[i + d] = L[m]
          BY <3>1, <5>1
        <5>3. M[m - d] = L[m] /\ M[i] = L[i + d] /\ m - d # Len(M)
          BY <2>4, <3>11, <3>14, <4>2, <5>2
        <5> QED
          BY <5>2, <5>3
      <4> QED
        BY <2>6, <4>1, <4>2
    <3> QED
      BY <3>7, <3>9, <3>11, <3>12, <3>13, <3>14, <3>15, <3>16 DEF IsSet, Closed
  <2>11. CASE Twice(L, v, n)
    <3>1. PICK t \in 0 .. n : t + 4 <= Len(L) /\ \A i \in t + 1 .. Len(L) : Depth(L)[i] > 0
      BY <2>11 DEF Twice
    <3>2. \A i \in 1 .. Len(L) : Depth(L)[i] = 0 => i <= t
      BY <3>1
    <3>3. s <= t
      BY <2>1, <3>2
    <3>4. CASE e <= Len(L)
      <4>1. e <= t
        BY <2>1, <2>2, <3>2, <3>4
      <4>2. Spliced(L, M, s, e, s)
        BY <2>3, <3>4
      <4>3. /\ \A i \in 1 .. s - 1 : SameSight(L, i, M, i)
            /\ \A i \in s .. Len(M) : SameSight(L, i + d, M, i) /\ Depth(M)[i] = Depth(L)[i + d]
            /\ EndDepth(M) = EndDepth(L)
        BY <1>0, <2>4, <4>2, SpliceSight DEF d
      <4>4. NoTable(M)
        <5>1. ASSUME NEW i \in 1 .. Len(M) PROVE ~ IsHeader(M, Otel, i)
          <6>1. CASE i \in 1 .. s - 1
            <7>1. i \in 1 .. Len(L)
              BY <2>1, <6>1
            <7> QED
              BY <2>11, <4>3, <6>1, <7>1 DEF Twice, NoTable, SameSight
          <6>2. CASE i \in s .. Len(M)
            <7>1. i + d \in 1 .. Len(L)
              BY <2>1, <2>4, <6>2
            <7> QED
              BY <2>11, <4>3, <6>2, <7>1 DEF Twice, NoTable, SameSight
          <6> QED
            BY <2>1, <6>1, <6>2
        <5> QED
          BY <5>1 DEF NoTable
      <4>5. t - d \in 0 .. n /\ (t - d) + 4 <= Len(M)
        BY <2>1, <2>4, <3>1, <4>1
      <4>6. ASSUME NEW i \in (t - d) + 1 .. Len(M) PROVE Depth(M)[i] > 0
        <5>1. i \in s .. Len(M) /\ i + d \in t + 1 .. Len(L)
          BY <2>1, <2>4, <3>1, <4>1
        <5> QED
          BY <3>1, <4>3, <5>1
      <4>7. /\ Len(M) \in s .. Len(M) /\ Len(M) + d = Len(L)
            /\ Len(M) - 1 \in s .. Len(M) /\ (Len(M) - 1) + d = Len(L) - 1
            /\ Len(M) - 2 \in s .. Len(M) /\ (Len(M) - 2) + d = Len(L) - 2
            /\ Len(M) - 3 \in s .. Len(M) /\ (Len(M) - 3) + d = Len(L) - 3
        BY <2>1, <2>4, <3>1, <4>1
      <4>8. /\ M[Len(M)] = L[Len(L)] /\ M[Len(M) - 1] = L[Len(L) - 1]
            /\ M[Len(M) - 2] = L[Len(L) - 2] /\ M[Len(M) - 3] = L[Len(L) - 3]
        BY <2>4, <4>7
      <4>9. Marked(M) = {Len(M)}
        <5>1. Marked(L) = {Len(L)}
          BY <2>11 DEF Twice
        <5>2. Len(M) \in Marked(M)
          BY <2>5, <4>7, <5>1
        <5>3. ASSUME NEW i \in Marked(M) PROVE i = Len(M)
          <6>1. CASE i \in 1 .. s - 1
            BY <2>1, <2>5, <5>1, <6>1
          <6>2. CASE i \in s .. Len(M)
            <7>1. i + d = Len(L)
              BY <2>5, <5>1, <6>2
            <7> QED
              BY <2>4, <6>2, <7>1
          <6> QED
            BY <2>6, <6>1, <6>2
        <5> QED
          BY <5>2, <5>3
      <4> QED
        BY <2>11, <4>3, <4>4, <4>5, <4>6, <4>8, <4>9 DEF IsSet, Twice
    <3>5. CASE e = Len(L) + 1
      <4>1. Len(M) = s - 1
        <5>1. Len(M) = Len(L) - d /\ e = s + d /\ d \in Nat
          BY <2>4
        <5>2. s \in Nat
          BY <2>1
        <5> HIDE DEF d
        <5> QED
          BY <1>0, <3>5, <5>1, <5>2
      <4>2. Len(M) < n
        BY <2>1, <3>1, <3>3, <4>1
      <4>3. ASSUME NEW i \in Marked(M) PROVE FALSE
        <5>1. i \in 1 .. s - 1
          BY <2>1, <2>6, <4>1
        <5>2. i = Len(L)
          BY <2>5, <2>11, <5>1 DEF Twice
        <5> QED
          BY <2>1, <5>1, <5>2
      <4> QED
        BY <4>2, <4>3 DEF IsSet, Lost
    <3> QED
      BY <2>1, <3>4, <3>5
  <2>12. CASE Lost(L, n)
    <3>1. \A i \in Marked(M) : FALSE
      BY <2>5, <2>6, <2>12 DEF Lost
    <3>2. Len(M) < n
      BY <1>0, <2>4, <2>12 DEF Lost
    <3> QED
      BY <3>1, <3>2 DEF IsSet, Lost
  <2> QED
    BY <2>9, <2>10, <2>11, <2>12 DEF IsSet
<1> QED
  BY <1>0, <1>1, <1>2, RemoveIs

\* The scalars of setup are other keys than the exporter.
LEMMA ScalarsAreKeys == \A i \in 1 .. 4 : CodexScalars[i] \in Keys /\ CodexScalars[i] # "exporter"
<1>1. \A i \in 1 .. 4 : CodexScalars[i] \in Keys
  BY DEF Keys
<1>2. /\ CodexScalars[1] # "exporter" /\ CodexScalars[2] # "exporter"
      /\ CodexScalars[3] # "exporter" /\ CodexScalars[4] # "exporter"
  BY DEF CodexScalars
<1>3. \A i \in 1 .. 4 : i \in {1, 2, 3, 4}
  OBVIOUS
<1> QED
  BY <1>1, <1>2, <1>3

\* So this is how the scanner finds the exporter in the text of a plan.
LEMMA EditSetsExporter ==
  ASSUME Absent \notin Tokens, NEW L \in Seq(Lines(Tokens)), NEW port \in Ports, NEW token \in Tokens,
         NEW val, Only(L, val), Placed(L) \/ Blind(L)
  PROVE  IsSet(EditCodex(L, port, token), val, Exporter(port, token), Len(L))
<1> DEFINE n == Len(L)
           A(ls, i) == EnsureTableKey(ls, CodexScalars[i], Setups)
<1>1. n \in Nat
  OBVIOUS
<1>2. \A i \in 1 .. 4 : CodexScalars[i] \in Keys /\ CodexScalars[i] # "exporter"
  BY ScalarsAreKeys
<1>3. ASSUME NEW ls \in Seq(Lines(Tokens)), NEW i \in 1 .. 4 PROVE A(ls, i) \in Seq(Lines(Tokens))
  <2>1. Setups \in Vals(Tokens)
    BY DEF Vals
  <2> QED
    BY <1>2, <2>1, EnsureKeepsLines
<1>4. Adding(A(L, 1), val, n)
  <2>1. CASE NoTable(L)
    <3>1. ~ Blind(L)
      BY <1>1, <2>1, FoundOnce DEF Blind, Shut, Gap
    <3>2. Placed(L)
      BY <3>1
    <3>3. Marked(L) = {}
      BY <1>1, <2>1, <3>2, FoundOnce DEF Placed
    <3>4. 1 \in 1 .. 4
      OBVIOUS
    <3> QED
      BY <1>1, <1>2, <2>1, <3>3, <3>4, AddFirst
  <2>2. CASE ~ NoTable(L)
    <3>1. Adding(L, val, n)
      BY <2>2 DEF Adding
    <3>2. 1 \in 1 .. 4
      OBVIOUS
    <3> QED
      BY <1>1, <1>2, <3>1, <3>2, AddNext
  <2> QED
    BY <2>1, <2>2
<1>5. ASSUME NEW ls \in Seq(Lines(Tokens)), NEW i \in 1 .. 4, Adding(ls, val, n)
      PROVE  Adding(A(ls, i), val, n)
  BY <1>1, <1>2, <1>5, AddNext
<1>6. EnsureScalars(L) = A(A(A(A(L, 1), 2), 3), 4)
  BY DEF EnsureScalars
<1> HIDE DEF A, n
<1>7. EnsureScalars(L) \in Seq(Lines(Tokens)) /\ Adding(EnsureScalars(L), val, n)
  <2>1. 1 \in 1 .. 4 /\ 2 \in 1 .. 4 /\ 3 \in 1 .. 4 /\ 4 \in 1 .. 4
    OBVIOUS
  <2>2. A(L, 1) \in Seq(Lines(Tokens)) /\ Adding(A(L, 1), val, n)
    BY <1>3, <1>4, <2>1
  <2>3. A(A(L, 1), 2) \in Seq(Lines(Tokens)) /\ Adding(A(A(L, 1), 2), val, n)
    BY <1>3, <1>5, <2>1, <2>2
  <2>4. A(A(A(L, 1), 2), 3) \in Seq(Lines(Tokens)) /\ Adding(A(A(A(L, 1), 2), 3), val, n)
    BY <1>3, <1>5, <2>1, <2>3
  <2> QED
    BY <1>3, <1>5, <1>6, <2>1, <2>4
<1> DEFINE e == Exporter(port, token)
           B == ReplaceOrInsertTableKey(EnsureScalars(L), "exporter", e)
<1>8. e \in Ports \X Tokens /\ e \in Vals(Tokens) /\ "exporter" \in Keys
  BY DEF Exporter, Vals, Keys
<1>9. EditCodex(L, port, token) = RemoveTable(RemoveTable(B, Stale), Stale)
  BY DEF EditCodex, EnsureCodexExporter
<1> HIDE DEF e
<1>10. B \in Seq(Lines(Tokens)) /\ IsSet(B, val, e, n)
  BY <1>1, <1>7, <1>8, EnsureKeepsLines, SetExporter
<1> HIDE DEF B
<1>11. RemoveTable(B, Stale) \in Seq(Lines(Tokens)) /\ IsSet(RemoveTable(B, Stale), val, e, n)
  BY <1>1, <1>10, RemoveKeepsLines, RemoveStale
<1>12. IsSet(RemoveTable(RemoveTable(B, Stale), Stale), val, e, n)
  BY <1>1, <1>11, RemoveStale
<1> QED
  BY <1>9, <1>12 DEF e, n
-----------------------------------------------------------------------------
\* What the reader of TOML makes of a line, given what it has read.
LEMMA ReadLineIs ==
  ASSUME NEW T, NEW doc, HasVals(doc, T), NEW line \in Lines(T), NEW new, new = ReadLine(doc, line)
  PROVE  /\ new.ok => doc.ok
         /\ doc.keys \subseteq new.keys /\ doc.tables \subseteq new.tables
         /\ \A k \in new.keys \ doc.keys :
              doc.mode = "top" /\ k = [table |-> doc.table, key |-> line.key, val |-> line.val]
         /\ line.kind \notin {"close", "open"} => new.mode = doc.mode
         /\ line.kind \notin {"header", "odd"} => new.table = doc.table
         /\ doc.mode # "top" => new.table = doc.table /\ new.tables = doc.tables
<1>1. doc.mode \in {"top", "string", "array"} /\ DOMAIN doc = {"mode", "table", "tables", "keys", "ok"}
  BY DEF HasVals
<1> DEFINE closes == line.kind = "close" /\ line.form = doc.mode
           k == [table |-> doc.table, key |-> line.key, val |-> line.val]
           a == Assign(doc, line.key, line.val)
           o == OpenTable(doc, line.path)
<1>2. /\ a.keys = doc.keys \cup {k} /\ a.mode = doc.mode /\ a.table = doc.table
      /\ a.tables = doc.tables /\ (a.ok => doc.ok) /\ DOMAIN a = DOMAIN doc
  BY <1>1 DEF Assign
<1>3. /\ o.keys = doc.keys /\ o.mode = doc.mode /\ doc.tables \subseteq o.tables /\ (o.ok => doc.ok)
  BY <1>1 DEF OpenTable
<1> HIDE DEF k, a, o
<1>4. CASE doc.mode # "top" /\ closes
  <2>1. new = [doc EXCEPT !.mode = "top"]
    BY <1>4 DEF ReadLine
  <2> QED
    BY <1>1, <1>4, <2>1
<1>5. CASE doc.mode = "string" /\ ~ closes
  <2>1. new = doc
    BY <1>5 DEF ReadLine
  <2> QED
    BY <1>1, <1>5, <2>1
<1>6. CASE doc.mode = "array" /\ ~ closes
  <2>1. new = [doc EXCEPT !.ok = @ /\ line.kind = "elem"]
    BY <1>6 DEF ReadLine
  <2> QED
    BY <1>1, <1>6, <2>1
<1>7. CASE doc.mode = "top"
  <2>1. CASE line.kind \in {"header", "odd"}
    <3>1. new = o
      BY <1>7, <2>1 DEF ReadLine, o
    <3> QED
      BY <1>3, <1>7, <2>1, <3>1
  <2>2. CASE line.kind \in {"key", "tight"}
    <3>1. new = a
      BY <1>7, <2>2 DEF ReadLine, a
    <3> QED
      BY <1>2, <1>7, <2>2, <3>1 DEF k
  <2>3. CASE line.kind = "open"
    <3>1. new = [a EXCEPT !.mode = line.form]
      BY <1>7, <2>3 DEF ReadLine, a
    <3>2. new.keys = a.keys /\ new.table = a.table /\ new.tables = a.tables /\ new.ok = a.ok
      BY <1>1, <1>2, <3>1
    <3> QED
      BY <1>2, <1>7, <2>3, <3>2 DEF k
  <2>4. CASE line.kind \notin {"header", "odd", "key", "tight", "open"}
    <3>1. new = [doc EXCEPT !.ok = FALSE]
      BY <1>7, <2>4 DEF ReadLine
    <3> QED
      BY <1>1, <1>7, <2>4, <3>1
  <2> QED
    BY <2>1, <2>2, <2>3, <2>4
<1> QED
  BY <1>1, <1>4, <1>5, <1>6, <1>7

\* The reader of TOML, from line to line.
LEMMA ReadsOn ==
  ASSUME NEW T, NEW lines \in Seq(Lines(T)), NEW doc, doc = ReadTo(lines)
  PROVE  /\ Len(lines) \in Nat /\ doc[0] = Blank /\ Read(lines) = doc[Len(lines)]
         /\ \A i \in 1 .. Len(lines) : lines[i] \in Lines(T) /\ doc[i] = ReadLine(doc[i - 1], lines[i])
         /\ \A i \in 0 .. Len(lines) : HasVals(doc[i], T)
<1> DEFINE S == {n \in Nat : n <= Len(lines) => HasVals(doc[n], T)}
<1>1. /\ Len(lines) \in Nat
      /\ \A n \in 0 .. Len(lines) :
           doc[n] = IF n = 0 THEN Blank ELSE ReadLine(doc[n - 1], lines[n])
  <2>1. Len(lines) \in Nat
    OBVIOUS
  <2> QED
    BY <2>1, ReadToDefined
<1>2. doc[0] = Blank
  BY <1>1
<1>3. \A i \in 1 .. Len(lines) : lines[i] \in Lines(T) /\ doc[i] = ReadLine(doc[i - 1], lines[i])
  <2>1. ASSUME NEW i \in 1 .. Len(lines) PROVE doc[i] = ReadLine(doc[i - 1], lines[i])
    <3>1. i \in 0 .. Len(lines) /\ i # 0
      BY <1>1
    <3> QED
      BY <1>1, <3>1
  <2>2. \A i \in 1 .. Len(lines) : lines[i] \in Lines(T)
    OBVIOUS
  <2> QED
    BY <2>1, <2>2
<1>4. 0 \in S
  <2>1. HasVals(Blank, T)
    BY DEF HasVals, Blank
  <2> QED
    BY <1>2, <2>1
<1>5. ASSUME NEW n \in S PROVE n + 1 \in S
  <2> SUFFICES ASSUME n + 1 <= Len(lines) PROVE HasVals(doc[n + 1], T)
    OBVIOUS
  <2>1. HasVals(doc[n], T)
    BY <1>1
  <2>2. n + 1 \in 1 .. Len(lines) /\ (n + 1) - 1 = n
    BY <1>1
  <2>3. lines[n + 1] \in Lines(T) /\ doc[n + 1] = ReadLine(doc[n], lines[n + 1])
    BY <1>3, <2>2
  <2> QED
    BY <2>1, <2>3, ReadLineKeepsVals
<1>6. S = Nat
  <2>1. S \in SUBSET Nat
    OBVIOUS
  <2> HIDE DEF S
  <2> QED
    BY <1>4, <1>5, <2>1, UpFromZero
<1>7. \A i \in 0 .. Len(lines) : HasVals(doc[i], T)
  BY <1>1, <1>6
<1> QED
  BY <1>1, <1>2, <1>3, <1>7 DEF Read

\* What holds of the reader before a line, and is kept by every line, holds on.
LEMMA ReadGrows ==
  ASSUME NEW T, NEW lines \in Seq(Lines(T)), NEW doc, doc = ReadTo(lines),
         NEW i \in 0 .. Len(lines), NEW j \in i .. Len(lines)
  PROVE  /\ doc[j].ok => doc[i].ok
         /\ doc[i].keys \subseteq doc[j].keys
         /\ doc[i].tables \subseteq doc[j].tables
<1> DEFINE Grows(n) == /\ doc[n].ok => doc[i].ok
                       /\ doc[i].keys \subseteq doc[n].keys /\ doc[i].tables \subseteq doc[n].tables
           S == {n \in Nat : i + n <= Len(lines) => Grows(i + n)}
<1>1. /\ Len(lines) \in Nat
      /\ \A n \in 1 .. Len(lines) : lines[n] \in Lines(T) /\ doc[n] = ReadLine(doc[n - 1], lines[n])
      /\ \A n \in 0 .. Len(lines) : HasVals(doc[n], T)
  BY ReadsOn
<1>2. 0 \in S
  OBVIOUS
<1>3. ASSUME NEW n \in S PROVE n + 1 \in S
  <2> SUFFICES ASSUME i + (n + 1) <= Len(lines) PROVE Grows(i + (n + 1))
    OBVIOUS
  <2>1. Grows(i + n)
    BY <1>1
  <2>2. i + (n + 1) \in 1 .. Len(lines) /\ (i + (n + 1)) - 1 = i + n /\ i + n \in 0 .. Len(lines)
    BY <1>1
  <2>3. /\ doc[i + (n + 1)].ok => doc[i + n].ok
        /\ doc[i + n].keys \subseteq doc[i + (n + 1)].keys
        /\ doc[i + n].tables \subseteq doc[i + (n + 1)].tables
    <3>1. PICK l : l = i + (n + 1)
      OBVIOUS
    <3>2. l \in 1 .. Len(lines) /\ l - 1 = i + n
      BY <2>2, <3>1
    <3>3. doc[l] = ReadLine(doc[l - 1], lines[l]) /\ lines[l] \in Lines(T) /\ HasVals(doc[l - 1], T)
      BY <1>1, <2>2, <3>2
    <3>4. (doc[l].ok => doc[l - 1].ok) /\ doc[l - 1].keys \subseteq doc[l].keys
          /\ doc[l - 1].tables \subseteq doc[l].tables
      BY <3>3, ReadLineIs
    <3> QED
      BY <3>1, <3>2, <3>4
  <2> QED
    BY <2>1, <2>3
<1>4. S = Nat
  <2>1. S \in SUBSET Nat
    OBVIOUS
  <2> HIDE DEF S
  <2> QED
    BY <1>2, <1>3, <2>1, UpFromZero
<1> HIDE DEF S
<1>5. j - i \in S /\ i + (j - i) = j /\ j <= Len(lines)
  BY <1>1, <1>4
<1> QED
  BY <1>5 DEF S

\* Every key is one of a line, in the table that is open there.
LEMMA KeysAreOfLines ==
  ASSUME NEW T, NEW lines \in Seq(Lines(T)), NEW doc, doc = ReadTo(lines),
         NEW n \in 0 .. Len(lines), NEW k \in doc[n].keys
  PROVE  \E i \in 1 .. n :
           /\ doc[i - 1].mode = "top"
           /\ k = [table |-> doc[i - 1].table, key |-> lines[i].key, val |-> lines[i].val]
<1> DEFINE Own(m) == \A r \in doc[m].keys : \E i \in 1 .. m :
                       /\ doc[i - 1].mode = "top"
                       /\ r = [table |-> doc[i - 1].table, key |-> lines[i].key, val |-> lines[i].val]
           S == {m \in Nat : m <= Len(lines) => Own(m)}
<1>1. /\ Len(lines) \in Nat /\ doc[0] = Blank
      /\ \A m \in 1 .. Len(lines) : lines[m] \in Lines(T) /\ doc[m] = ReadLine(doc[m - 1], lines[m])
      /\ \A m \in 0 .. Len(lines) : HasVals(doc[m], T)
  BY ReadsOn
<1>2. 0 \in S
  <2>1. doc[0].keys = {}
    BY <1>1 DEF Blank
  <2> QED
    BY <2>1
<1>3. ASSUME NEW m \in S PROVE m + 1 \in S
  <2> SUFFICES ASSUME m + 1 <= Len(lines) PROVE Own(m + 1)
    OBVIOUS
  <2>1. Own(m)
    BY <1>1
  <2>2. m + 1 \in 1 .. Len(lines) /\ (m + 1) - 1 = m /\ m \in 0 .. Len(lines)
    BY <1>1
  <2>3. doc[m + 1] = ReadLine(doc[m], lines[m + 1]) /\ lines[m + 1] \in Lines(T) /\ HasVals(doc[m], T)
    BY <1>1, <2>2
  <2>4. ASSUME NEW r \in doc[m + 1].keys
        PROVE  \E i \in 1 .. m + 1 :
                 /\ doc[i - 1].mode = "top"
                 /\ r = [table |-> doc[i - 1].table, key |-> lines[i].key, val |-> lines[i].val]
    <3>1. CASE r \in doc[m].keys
      BY <2>1, <3>1
    <3>2. CASE r \notin doc[m].keys
      <4>1. doc[m].mode = "top" /\ r = [table |-> doc[m].table, key |-> lines[m + 1].key,
                                        val |-> lines[m + 1].val]
        BY <2>3, <3>2, ReadLineIs
      <4> WITNESS m + 1 \in 1 .. m + 1
      <4> QED
        BY <2>2, <4>1
    <3> QED
      BY <3>1, <3>2
  <2> QED
    BY <2>4
<1>4. S = Nat
  <2>1. S \in SUBSET Nat
    OBVIOUS
  <2> HIDE DEF S
  <2> QED
    BY <1>2, <1>3, <2>1, UpFromZero
<1> HIDE DEF S
<1>5. n \in S /\ n <= Len(lines)
  BY <1>1, <1>4
<1> QED
  BY <1>5 DEF S

\* Behind the last bracket that TOML sees, all is at the top level.
LEMMA TailAtTop ==
  ASSUME NEW T, NEW lines \in Seq(Lines(T)), NEW doc, doc = ReadTo(lines),
         NEW m \in 1 .. Len(lines), \A j \in m .. Len(lines) : lines[j].kind \in {"key", "header"},
         IsToml(lines)
  PROVE  \A j \in m - 1 .. Len(lines) : doc[j].mode = "top"
<1> DEFINE S == {n \in Nat : Len(lines) - n >= m - 1 => doc[Len(lines) - n].mode = "top"}
<1>1. /\ Len(lines) \in Nat /\ Read(lines) = doc[Len(lines)]
      /\ \A i \in 1 .. Len(lines) : lines[i] \in Lines(T) /\ doc[i] = ReadLine(doc[i - 1], lines[i])
      /\ \A i \in 0 .. Len(lines) : HasVals(doc[i], T)
  BY ReadsOn
<1>2. 0 \in S
  BY <1>1 DEF IsToml
<1>3. ASSUME NEW n \in S PROVE n + 1 \in S
  <2> SUFFICES ASSUME Len(lines) - (n + 1) >= m - 1 PROVE doc[Len(lines) - (n + 1)].mode = "top"
    OBVIOUS
  <2>1. doc[Len(lines) - n].mode = "top"
    BY <1>1
  <2>2. PICK l : l = Len(lines) - n
    OBVIOUS
  <2>3. l \in m .. Len(lines) /\ l \in 1 .. Len(lines) /\ l - 1 = Len(lines) - (n + 1)
        /\ l - 1 \in 0 .. Len(lines)
    BY <1>1, <2>2
  <2>4. doc[l] = ReadLine(doc[l - 1], lines[l]) /\ lines[l] \in Lines(T) /\ HasVals(doc[l - 1], T)
    BY <1>1, <2>3
  <2>5. lines[l].kind \notin {"close", "open"}
    BY <2>3
  <2>6. doc[l].mode = doc[l - 1].mode
    BY <2>4, <2>5, ReadLineIs
  <2> QED
    BY <2>1, <2>2, <2>3, <2>6
<1>4. S = Nat
  <2>1. S \in SUBSET Nat
    OBVIOUS
  <2> HIDE DEF S
  <2> QED
    BY <1>2, <1>3, <2>1, UpFromZero
<1> HIDE DEF S
<1>5. ASSUME NEW j \in m - 1 .. Len(lines) PROVE doc[j].mode = "top"
  <2>1. Len(lines) - j \in S /\ Len(lines) - (Len(lines) - j) = j /\ j >= m - 1
    BY <1>1, <1>4
  <2> QED
    BY <2>1 DEF S
<1> QED
  BY <1>5

\* A table of setup's that is opened twice is no TOML.
LEMMA TwiceIsNoToml ==
  ASSUME NEW T, NEW lines \in Seq(Lines(T)), NEW e, NEW n \in Nat, Twice(lines, e, n)
  PROVE  ~ IsToml(lines)
<1> SUFFICES ASSUME IsToml(lines) PROVE FALSE
  OBVIOUS
<1> DEFINE l == Len(lines)
<1>1. PICK doc : doc = ReadTo(lines)
  OBVIOUS
<1>2. /\ l \in Nat /\ Read(lines) = doc[l]
      /\ \A i \in 1 .. l : lines[i] \in Lines(T) /\ doc[i] = ReadLine(doc[i - 1], lines[i])
      /\ \A i \in 0 .. l : HasVals(doc[i], T)
  BY <1>1, ReadsOn
<1>3. PICK t \in 0 .. n : t + 4 <= l
  BY DEF Twice
<1>4. /\ lines[l].kind = "key" /\ lines[l - 2].kind = "key"
      /\ lines[l - 1] = Header(Otel) /\ lines[l - 3] = Header(Otel)
  BY WrittenLines DEF Twice
<1>5. l - 3 \in 1 .. l /\ l - 4 \in 0 .. l /\ l - 1 \in 1 .. l /\ l - 2 \in 0 .. l
  BY <1>2, <1>3
<1>6. \A j \in l - 3 .. l : lines[j].kind \in {"key", "header"}
  <2>1. \A j \in l - 3 .. l : j \in {l, l - 1, l - 2, l - 3}
    BY <1>2, <1>3
  <2> QED
    BY <1>4, <2>1, WrittenLines
<1>7. \A j \in (l - 3) - 1 .. l : doc[j].mode = "top"
  BY <1>1, <1>5, <1>6, TailAtTop
<1>8. \A i \in {l - 3, l - 1} : doc[i] = OpenTable(doc[i - 1], Otel)
  <2>1. ASSUME NEW i \in {l - 3, l - 1} PROVE doc[i] = OpenTable(doc[i - 1], Otel)
    <3>1. i \in 1 .. l /\ i - 1 \in (l - 3) - 1 .. l
      BY <1>2, <1>5
    <3>2. doc[i - 1].mode = "top" /\ doc[i] = ReadLine(doc[i - 1], lines[i])
      BY <1>2, <1>7, <3>1
    <3>3. lines[i].kind = "header" /\ lines[i].path = Otel
      BY <1>4, WrittenLines
    <3> QED
      BY <3>2, <3>3 DEF ReadLine
  <2> QED
    BY <2>1
<1>9. Otel \in doc[l - 3].tables
  <2>1. doc[l - 3] = OpenTable(doc[(l - 3) - 1], Otel) /\ HasVals(doc[(l - 3) - 1], T)
    BY <1>2, <1>5, <1>8
  <2> QED
    BY <2>1 DEF OpenTable, HasVals
<1>10. Otel \in doc[l - 2].tables
  <2>1. l - 2 \in l - 3 .. l /\ l - 3 \in 0 .. l
    BY <1>2, <1>5
  <2> QED
    BY <1>1, <1>9, <2>1, ReadGrows
<1>11. ~ doc[l - 1].ok
  <2>1. doc[l - 1] = OpenTable(doc[l - 2], Otel) /\ HasVals(doc[l - 2], T)
    <3>1. (l - 1) - 1 = l - 2
      BY <1>2
    <3> QED
      BY <1>2, <1>5, <1>8, <3>1
  <2> QED
    BY <1>10, <2>1 DEF OpenTable, HasVals
<1>12. doc[l].ok => doc[l - 1].ok
  <2>1. l - 1 \in 0 .. l /\ l \in l - 1 .. l
    BY <1>2, <1>5
  <2> QED
    BY <1>1, <2>1, ReadGrows
<1> QED
  BY <1>2, <1>11, <1>12 DEF IsToml

\* If the exporter that TOML reads is the one behind the open bracket, then it is
\* the only one.
LEMMA ClosedAgrees ==
  ASSUME Absent \notin Tokens, NEW lines \in Seq(Lines(Tokens)), NEW val, NEW e \in Ports \X Tokens,
         Closed(lines, val, e), IsToml(lines), Value(lines, Otel, "exporter") = e
  PROVE  Only(lines, e)
<1> DEFINE l == Len(lines)
<1> SUFFICES ASSUME NEW x \in Marked(lines), lines[x] # Key("exporter", e) PROVE FALSE
  BY DEF Only
<1>1. PICK doc : doc = ReadTo(lines)
  OBVIOUS
<1>2. /\ l \in Nat /\ Read(lines) = doc[l]
      /\ \A i \in 1 .. l : lines[i] \in Lines(Tokens) /\ doc[i] = ReadLine(doc[i - 1], lines[i])
      /\ \A i \in 0 .. l : HasVals(doc[i], Tokens)
  BY <1>1, ReadsOn
<1>3. PICK h \in 1 .. l, m \in Marked(lines) :
         /\ m > h /\ DullFrom(lines, m)
         /\ \A i \in Marked(lines) \ {l} :
              m # l /\ lines[m] = Key("exporter", val) /\ lines[i] = lines[m]
  BY DEF Closed
<1>4. l > 0 /\ lines[l] = Key("exporter", e)
  BY DEF Closed
<1>5. /\ m # l /\ m \in 1 .. l /\ lines[m] = Key("exporter", val)
      /\ \A i \in Marked(lines) \ {l} : lines[i] = Key("exporter", val)
  <2>1. x \in Marked(lines) \ {l}
    BY <1>4
  <2> QED
    BY <1>3, <2>1 DEF Marked
<1>6. val # e
  <2>1. x \in Marked(lines) \ {l}
    BY <1>4
  <2> QED
    BY <1>5, <2>1
<1> HIDE DEF l
<1>7. PICK k \in doc[l].keys : k.table = Otel /\ k.key = "exporter" /\ k.val = e
  <2> DEFINE found == {k \in Assigned(lines, Otel) : k.key = "exporter"}
  <2>1. e # <<Absent, Absent>>
    OBVIOUS
  <2>2. found # {}
    BY <2>1 DEF Value
  <2>3. PICK k : k = CHOOSE f \in found : TRUE
    OBVIOUS
  <2>4. k \in found
    BY <2>2, <2>3
  <2>5. k.val = e
    BY <2>2, <2>3 DEF Value
  <2> QED
    BY <1>2, <2>4, <2>5 DEF Assigned
<1>8. PICK j \in 1 .. l :
         k = [table |-> doc[j - 1].table, key |-> lines[j].key, val |-> lines[j].val]
  <2>1. l \in 0 .. l /\ l = Len(lines)
    BY <1>2 DEF l
  <2> QED
    BY <1>1, <1>7, <2>1, KeysAreOfLines
<1>9. j = l
  <2>1. lines[j].val = e
    BY <1>7, <1>8
  <2>2. j \in Marked(lines)
    BY <2>1 DEF Marked, l
  <2>3. j # l => lines[j].val = val
    BY <1>5, <2>2, WrittenLines
  <2> QED
    BY <1>6, <2>1, <2>3
<1>10. doc[l - 1].table = Otel
  BY <1>7, <1>8, <1>9
<1>11. \A i \in m .. l : lines[i].kind = "key" \/ lines[i] = Header(Tui)
  BY <1>3 DEF DullFrom, Dull, l
<1>12. \A i \in m - 1 .. l : doc[i].mode = "top"
  <2>1. \A i \in m .. l : lines[i].kind \in {"key", "header"}
    BY <1>11, WrittenLines
  <2> QED
    BY <1>1, <1>5, <2>1, TailAtTop DEF l
<1>13. \A i \in m .. l : doc[i].table = Otel => doc[i - 1].table = Otel
  <2> SUFFICES ASSUME NEW i \in m .. l, doc[i].table = Otel PROVE doc[i - 1].table = Otel
    OBVIOUS
  <2>1. i \in 1 .. l /\ i - 1 \in 0 .. l /\ i - 1 \in m - 1 .. l
    BY <1>2, <1>5
  <2>2. /\ doc[i] = ReadLine(doc[i - 1], lines[i]) /\ lines[i] \in Lines(Tokens)
        /\ HasVals(doc[i - 1], Tokens) /\ doc[i - 1].mode = "top"
    BY <1>2, <1>12, <2>1
  <2>3. CASE lines[i].kind = "key"
    BY <2>2, <2>3, ReadLineIs
  <2>4. CASE lines[i] = Header(Tui)
    <3>1. lines[i].kind = "header" /\ lines[i].path = Tui
      BY <2>4, WrittenLines
    <3>2. doc[i] = OpenTable(doc[i - 1], Tui)
      BY <2>2, <3>1 DEF ReadLine
    <3>3. doc[i].table = Tui
      BY <2>2, <3>2 DEF OpenTable, HasVals
    <3>4. Tui # Otel
      BY DEF Tui, Otel
    <3> QED
      BY <3>3, <3>4
  <2> QED
    BY <1>11, <2>3, <2>4
<1>14. doc[m - 1].table = Otel
  <2> DEFINE S == {n \in Nat : l - 1 - n >= m - 1 => doc[l - 1 - n].table = Otel}
  <2>1. 0 \in S
    BY <1>2, <1>10
  <2>2. ASSUME NEW n \in S PROVE n + 1 \in S
    <3> SUFFICES ASSUME l - 1 - (n + 1) >= m - 1 PROVE doc[l - 1 - (n + 1)].table = Otel
      OBVIOUS
    <3>1. PICK i : i = l - 1 - n
      OBVIOUS
    <3>2. i \in m .. l /\ i - 1 = l - 1 - (n + 1) /\ l - 1 - n >= m - 1
      BY <1>2, <1>5, <3>1
    <3>3. doc[i].table = Otel
      BY <3>1, <3>2
    <3> QED
      BY <1>13, <3>2, <3>3
  <2>3. S = Nat
    <3>1. S \in SUBSET Nat
      OBVIOUS
    <3> HIDE DEF S
    <3> QED
      BY <2>1, <2>2, <3>1, UpFromZero
  <2> HIDE DEF S
  <2>4. l - m \in S /\ l - 1 - (l - m) = m - 1
    BY <1>2, <1>5, <2>3
  <2> QED
    BY <1>5, <2>4 DEF S
<1>15. [table |-> Otel, key |-> "exporter", val |-> val] \in doc[m].keys
  <2>1. /\ doc[m] = ReadLine(doc[m - 1], lines[m]) /\ doc[m - 1].mode = "top"
        /\ HasVals(doc[m - 1], Tokens)
    <3>1. m - 1 \in 0 .. l /\ m - 1 \in m - 1 .. l
      BY <1>2, <1>5
    <3> QED
      BY <1>2, <1>5, <1>12, <3>1
  <2>2. lines[m].kind = "key" /\ lines[m].key = "exporter" /\ lines[m].val = val
    BY <1>5, WrittenLines
  <2>3. doc[m] = Assign(doc[m - 1], "exporter", val)
    BY <2>1, <2>2 DEF ReadLine
  <2> QED
    BY <1>14, <2>1, <2>3 DEF Assign, HasVals
<1>16. [table |-> Otel, key |-> "exporter", val |-> val] \in doc[l - 1].keys
  <2>1. m \in 0 .. l /\ l - 1 \in m .. l /\ l = Len(lines)
    BY <1>2, <1>5 DEF l
  <2> QED
    BY <1>1, <1>15, <2>1, ReadGrows
<1>17. ~ doc[l].ok
  <2>1. /\ doc[l] = ReadLine(doc[l - 1], lines[l]) /\ doc[l - 1].mode = "top"
        /\ HasVals(doc[l - 1], Tokens)
    <3>1. l \in 1 .. l /\ l - 1 \in 0 .. l /\ l - 1 \in m - 1 .. l
      BY <1>2, <1>4, <1>5
    <3> QED
      BY <1>2, <1>12, <3>1
  <2>2. lines[l].kind = "key" /\ lines[l].key = "exporter" /\ lines[l].val = e
    BY <1>4, WrittenLines
  <2>3. doc[l] = Assign(doc[l - 1], "exporter", e)
    BY <2>1, <2>2 DEF ReadLine
  <2> QED
    BY <1>10, <1>16, <2>1, <2>3 DEF Assign, HasVals
<1> QED
  BY <1>2, <1>17 DEF IsToml
-----------------------------------------------------------------------------
\* What holds of config.toml as setup finds it and leaves it: a port and a token
\* are nowhere but in the exporter that TOML reads, and the scanner finds it there
\* or sees nothing behind [otel]; where there are none, setup has not been.
Fresh(lines) == \A i \in 1 .. Len(lines) : lines[i].key # "metrics_exporter"
Sound(lines) ==
  /\ lines \in Seq(Lines(Tokens)) /\ IsToml(lines)
  /\ Only(lines, Value(lines, Otel, "exporter"))
  /\ Placed(lines) \/ Blind(lines)
  /\ Marked(lines) # {} \/ Fresh(lines)

\* A value that TOML reads is on a line.
LEMMA ValueIsMarked ==
  ASSUME Absent \notin Tokens, NEW L \in Seq(Lines(Tokens)), NEW key, Value(L, Otel, key) \in Ports \X Tokens
  PROVE  Marked(L) # {}
<1>1. Value(L, Otel, key) # <<Absent, Absent>>
  OBVIOUS
<1>2. PICK k \in Read(L).keys : k.val = Value(L, Otel, key)
  <2> DEFINE found == {l \in Assigned(L, Otel) : l.key = key}
  <2>1. Value(L, Otel, key) = IF found = {} THEN <<Absent, Absent>> ELSE (CHOOSE l \in found : TRUE).val
    BY DEF Value
  <2>2. found \subseteq Read(L).keys
    BY DEF Assigned
  <2> HIDE DEF found
  <2>3. found # {}
    BY <1>1, <2>1
  <2>4. PICK m : m = CHOOSE l \in found : TRUE
    OBVIOUS
  <2>5. m \in found
    BY <2>3, <2>4
  <2> QED
    BY <2>1, <2>2, <2>3, <2>4, <2>5
<1>3. PICK doc : doc = ReadTo(L)
  OBVIOUS
<1>4. PICK n : n = Len(L)
  OBVIOUS
<1>5. n \in 0 .. Len(L) /\ k \in doc[n].keys
  BY <1>3, <1>4 DEF Read
<1>6. PICK i \in 1 .. n :
        k = [table |-> doc[i - 1].table, key |-> L[i].key, val |-> L[i].val]
  BY <1>3, <1>5, KeysAreOfLines
<1>7. L[i].val = k.val /\ i \in 1 .. Len(L)
  BY <1>4, <1>6
<1> QED
  BY <1>2, <1>7 DEF Marked

\* The text of a plan that setup has verified is sound,
LEMMA EditIsSound ==
  ASSUME Absent \notin Tokens, NEW L, Sound(L), NEW port \in Ports, NEW token \in Tokens,
         NEW M, M = EditCodex(L, port, token), IsToml(M),
         Value(M, Otel, "exporter") = Exporter(port, token)
  PROVE  Sound(M)
<1> DEFINE e == Exporter(port, token)
           val == Value(L, Otel, "exporter")
<1>1. L \in Seq(Lines(Tokens)) /\ Only(L, val) /\ (Placed(L) \/ Blind(L)) /\ Len(L) \in Nat
  BY DEF Sound
<1>2. M \in Seq(Lines(Tokens))
  BY <1>1, EditKeepsLines
<1>3. IsSet(M, val, e, Len(L))
  BY <1>1, EditSetsExporter
<1>4. e \in Ports \X Tokens
  BY DEF Exporter
<1> HIDE DEF val
<1>9. Marked(M) # {}
  BY <1>2, <1>4, ValueIsMarked
<1>5. CASE Seen(M, e)
  BY <1>2, <1>5, <1>9 DEF Seen, Sound, Only, Placed
<1>6. CASE Closed(M, val, e)
  <2>1. Only(M, e)
    BY <1>2, <1>4, <1>6, ClosedAgrees
  <2>2. Blind(M)
    BY <1>6 DEF Closed, Blind
  <2> QED
    BY <1>2, <1>9, <2>1, <2>2 DEF Sound
<1>7. CASE Twice(M, e, Len(L))
  BY <1>1, <1>2, <1>7, TwiceIsNoToml
<1>8. CASE Lost(M, Len(L))
  BY <1>8, <1>9 DEF Lost
<1> QED
  BY <1>3, <1>5, <1>6, <1>7, <1>8 DEF IsSet

\* and a file that an edit leaves as it is has the exporter already.
LEMMA FixpointHasExporter ==
  ASSUME Absent \notin Tokens, NEW L, Sound(L), NEW port \in Ports, NEW token \in Tokens,
         EditCodex(L, port, token) = L
  PROVE  Value(L, Otel, "exporter") = Exporter(port, token)
<1> DEFINE e == Exporter(port, token)
           val == Value(L, Otel, "exporter")
<1>1. /\ L \in Seq(Lines(Tokens)) /\ Only(L, val) /\ (Placed(L) \/ Blind(L)) /\ Len(L) \in Nat
      /\ IsToml(L)
  BY DEF Sound
<1>2. IsSet(L, val, e, Len(L))
  BY <1>1, EditSetsExporter
<1>3. e \in Ports \X Tokens
  BY DEF Exporter
<1>4. \A i \in 1 .. Len(L) : L[i] = Key("exporter", e) => val = e
  <2> SUFFICES ASSUME NEW i \in 1 .. Len(L), L[i] = Key("exporter", e) PROVE val = e
    OBVIOUS
  <2>1. i \in Marked(L)
    BY <1>3, WrittenLines DEF Marked
  <2>2. L[i] = Key("exporter", val)
    BY <1>1, <2>1 DEF Only
  <2> HIDE DEF e, val
  <2>3. L[i].val = e /\ L[i].val = val
    BY <2>2, WrittenLines
  <2> QED
    BY <2>3
<1> HIDE DEF val, e
<1>5. Seen(L, e) => val = e
  BY <1>4 DEF Seen, Marked
<1>6. Closed(L, val, e) => val = e
  BY <1>1, <1>4 DEF Closed
<1>7. ~ Twice(L, e, Len(L))
  BY <1>1, TwiceIsNoToml
<1>8. ~ Lost(L, Len(L))
  BY <1>1 DEF Lost
<1> QED
  BY <1>2, <1>5, <1>6, <1>7, <1>8 DEF IsSet, val, e

\* What TOML reads in the first lines it reads in every file that starts with
\* them.
LEMMA ReadsAlike ==
  ASSUME NEW T, NEW L \in Seq(Lines(T)), NEW M \in Seq(Lines(T)), NEW a, SameStart(L, M, a)
  PROVE  \A i \in 0 .. a - 1 : ReadTo(M)[i] = ReadTo(L)[i]
<1>1. PICK p : p = ReadTo(L)
  OBVIOUS
<1>2. PICK q : q = ReadTo(M)
  OBVIOUS
<1>3. /\ Len(L) \in Nat /\ p[0] = Blank
      /\ \A i \in 1 .. Len(L) : p[i] = ReadLine(p[i - 1], L[i])
  BY <1>1, ReadsOn
<1>4. /\ Len(M) \in Nat /\ q[0] = Blank
      /\ \A i \in 1 .. Len(M) : q[i] = ReadLine(q[i - 1], M[i])
  BY <1>2, ReadsOn
<1>5. a \in 1 .. Len(L) + 1 /\ a <= Len(M) + 1 /\ \A i \in 1 .. a - 1 : M[i] = L[i]
  BY DEF SameStart
<1> DEFINE S == {i \in Nat : i < a => q[i] = p[i]}
<1>6. 0 \in S
  BY <1>3, <1>4
<1>7. ASSUME NEW i \in S PROVE i + 1 \in S
  <2> SUFFICES ASSUME i + 1 < a PROVE q[i + 1] = p[i + 1]
    OBVIOUS
  <2>1. q[i] = p[i]
    BY <1>3, <1>5
  <2>2. PICK j : j = i + 1
    OBVIOUS
  <2>3. j \in 1 .. a - 1 /\ j \in 1 .. Len(L) /\ j \in 1 .. Len(M) /\ j - 1 = i
    BY <1>3, <1>4, <1>5, <2>2
  <2>4. q[j] = ReadLine(q[i], M[j]) /\ p[j] = ReadLine(p[i], L[j]) /\ M[j] = L[j]
    BY <1>3, <1>4, <1>5, <2>3
  <2> QED
    BY <2>1, <2>2, <2>4
<1>8. S = Nat
  <2>1. S \in SUBSET Nat
    OBVIOUS
  <2> HIDE DEF S
  <2> QED
    BY <1>6, <1>7, <2>1, UpFromZero
<1>9. \A i \in 0 .. a - 1 : q[i] = p[i]
  BY <1>3, <1>5, <1>8
<1> QED
  BY <1>1, <1>2, <1>9

\* What the user, or Codex, adds.
Addition == <<Header(Tui), Key("environment", Users)>>

\* See Addition: the file as it was starts the file as it is.
LEMMA AdditionStarts ==
  ASSUME Absent \notin Tokens, NEW L \in Seq(Lines(Tokens)), NEW M, M = L \o Addition
  PROVE  /\ M \in Seq(Lines(Tokens)) /\ Len(L) \in Nat /\ Len(M) = Len(L) + 2
         /\ M[Len(L) + 1] = Header(Tui) /\ M[Len(L) + 2] = Key("environment", Users)
         /\ SameStart(L, M, Len(L) + 1)
         /\ Depth(M)[Len(L) + 1] = EndDepth(L) /\ Depth(M)[Len(L) + 2] = EndDepth(L)
         /\ EndDepth(M) = EndDepth(L)
<1>1. Header(Tui) \in Lines(Tokens) /\ Key("environment", Users) \in Lines(Tokens)
  <2>1. Tui \in Paths /\ Users \in Vals(Tokens) /\ "environment" \in Keys
    <3>1. CodexScalars[1] = "environment"
      BY DEF CodexScalars
    <3> QED
      BY <3>1 DEF Paths, Vals, Keys
  <2> QED
    BY <2>1, NewLines
<1>2. Header(Tui).kind = "header" /\ Key("environment", Users).kind = "key"
  BY WrittenLines
<1>3. Len(L) \in Nat
  OBVIOUS
<1> QED
  BY <1>1, <1>2, <1>3, AppendStarts DEF Addition

\* TOML reads the same of [otel] when it is there,
LEMMA AdditionReads ==
  ASSUME Absent \notin Tokens, NEW L \in Seq(Lines(Tokens)), IsToml(L), NEW M, M = L \o Addition
  PROVE  /\ \E k : Read(M).keys = Read(L).keys \cup {k} /\ k.table = Tui
         /\ Assigned(M, Otel) = Assigned(L, Otel)
         /\ \A key : Value(M, Otel, key) = Value(L, Otel, key)
<1> DEFINE n == Len(L)
           d == Read(L)
<1>1. /\ M \in Seq(Lines(Tokens)) /\ n \in Nat /\ Len(M) = n + 2
      /\ M[n + 1] = Header(Tui) /\ M[n + 2] = Key("environment", Users)
      /\ SameStart(L, M, n + 1)
  BY AdditionStarts
<1>2. PICK p : p = ReadTo(L)
  OBVIOUS
<1>3. PICK q : q = ReadTo(M)
  OBVIOUS
<1>4. d = p[n] /\ HasVals(p[n], Tokens)
  BY <1>1, <1>2, ReadsOn
<1>5. /\ Read(M) = q[n + 2] /\ q[n + 1] = ReadLine(q[n], M[n + 1])
      /\ q[n + 2] = ReadLine(q[n + 1], M[n + 2]) /\ HasVals(q[n + 1], Tokens)
  <2>1. /\ Read(M) = q[Len(M)]
        /\ \A i \in 1 .. Len(M) : q[i] = ReadLine(q[i - 1], M[i])
        /\ \A i \in 0 .. Len(M) : HasVals(q[i], Tokens)
    BY <1>1, <1>3, ReadsOn
  <2>2. /\ n + 1 \in 1 .. Len(M) /\ n + 2 \in 1 .. Len(M) /\ n + 1 \in 0 .. Len(M)
        /\ (n + 1) - 1 = n /\ (n + 2) - 1 = n + 1
    BY <1>1
  <2> QED
    BY <1>1, <2>1, <2>2
<1>6. q[n] = p[n]
  <2>1. n \in 0 .. (n + 1) - 1
    BY <1>1
  <2> QED
    BY <1>1, <1>2, <1>3, <2>1, ReadsAlike
<1>7. d.mode = "top"
  BY DEF IsToml
<1> HIDE DEF n, d
<1>8. q[n + 1] = OpenTable(d, Tui)
  <2>1. M[n + 1].kind = "header" /\ M[n + 1].path = Tui
    BY <1>1, WrittenLines
  <2>2. q[n + 1] = ReadLine(d, M[n + 1])
    BY <1>4, <1>5, <1>6
  <2> QED
    BY <1>7, <2>1, <2>2 DEF ReadLine
<1>9. q[n + 1].mode = "top" /\ q[n + 1].keys = d.keys /\ q[n + 1].table = Tui
  BY <1>4, <1>7, <1>8 DEF OpenTable, HasVals
<1>10. q[n + 2] = Assign(q[n + 1], "environment", Users)
  <2>1. M[n + 2].kind = "key" /\ M[n + 2].key = "environment" /\ M[n + 2].val = Users
    BY <1>1, WrittenLines
  <2> QED
    BY <1>5, <1>9, <2>1 DEF ReadLine
<1> DEFINE k == [table |-> Tui, key |-> "environment", val |-> Users]
<1>11. q[n + 2].keys = d.keys \cup {k}
  BY <1>5, <1>9, <1>10 DEF Assign, HasVals
<1>12. k.table = Tui /\ Tui # Otel
  BY DEF Tui, Otel
<1> HIDE DEF k
<1>13. Read(M).keys = Read(L).keys \cup {k}
  BY <1>5, <1>11 DEF d
<1>14. Assigned(M, Otel) = Assigned(L, Otel)
  BY <1>12, <1>13 DEF Assigned
<1> QED
  BY <1>12, <1>13, <1>14 DEF Value

\* and so it is sound as it was before.
LEMMA AdditionIsSound ==
  ASSUME Absent \notin Tokens, NEW L, Sound(L), NEW M, M = L \o Addition, IsToml(M)
  PROVE  Sound(M) /\ Value(M, Otel, "exporter") = Value(L, Otel, "exporter")
<1> DEFINE n == Len(L)
           val == Value(L, Otel, "exporter")
<1>1. /\ L \in Seq(Lines(Tokens)) /\ IsToml(L) /\ Only(L, val) /\ (Placed(L) \/ Blind(L))
      /\ Marked(L) # {} \/ Fresh(L)
  BY DEF Sound
<1>2. /\ M \in Seq(Lines(Tokens)) /\ n \in Nat /\ Len(M) = n + 2
      /\ M[n + 1] = Header(Tui) /\ M[n + 2] = Key("environment", Users)
      /\ SameStart(L, M, n + 1)
      /\ Depth(M)[n + 1] = EndDepth(L) /\ Depth(M)[n + 2] = EndDepth(L)
      /\ EndDepth(M) = EndDepth(L)
  BY <1>1, AdditionStarts
<1>3. Value(M, Otel, "exporter") = val
  BY <1>1, AdditionReads
<1>4. n = Len(L)
  OBVIOUS
<1> HIDE DEF n, val
<1>5. PICK a : a = n + 1
  OBVIOUS
<1>6. SameStart(L, M, a) /\ Len(L) \in Nat /\ Len(M) \in Nat
  BY <1>4, <1>2, <1>5
<1>7. /\ \A h : h < a /\ TableAt(L, h) => TableAt(M, h)
      /\ \A key, k : k < a /\ Found(L, key, k) => Found(M, key, k)
      /\ \A i \in 1 .. a - 1 : SameSight(L, i, M, i)
  BY <1>6, StartFinds, StartSight
<1>8. \A i \in 1 .. n : M[i] = L[i]
  BY <1>2 DEF SameStart
<1>9. \A i \in 1 .. Len(M) : i \in 1 .. n \/ i = n + 1 \/ i = n + 2
  BY <1>2
<1>10. \A i \in Marked(M) : i \in Marked(L) /\ i \in 1 .. n /\ M[i] = L[i]
  BY <1>2, <1>8, <1>9, SetupsIsNone, WrittenLines DEF Marked, n
<1>11. Marked(L) \subseteq Marked(M)
  BY <1>2, <1>8 DEF Marked, n
<1>12. Only(M, val)
  BY <1>1, <1>10 DEF Only
<1>13. \A key, k : Found(L, key, k) /\ k <= n => Found(M, key, k)
  <2> SUFFICES ASSUME NEW key, NEW k, Found(L, key, k) PROVE Found(M, key, k)
    OBVIOUS
  <2>1. k < n + 1
    BY <1>4, <1>2 DEF Found, KeyAt
  <2> QED
    BY <1>5, <1>7, <2>1
<1>14. ASSUME Placed(L) PROVE Placed(M)
  BY <1>10, <1>13, <1>14 DEF Placed
<1>15. ASSUME Blind(L) PROVE Blind(M)
  <2>1. PICK h \in 1 .. n, m \in Marked(L) : Shut(L, h) /\ m > h /\ DullFrom(L, m)
    BY <1>15 DEF Blind, n
  <2>2. TableAt(L, h) /\ EndDepth(L) > 0 /\ \A i \in h + 1 .. n : ~ IsEnd(L, i) /\ ~ IsKey(L, "exporter", i)
    BY <1>2, <2>1 DEF Shut, Gap, n
  <2>3. TableAt(M, h)
    <3>1. h < n + 1
      BY <1>2
    <3> QED
      BY <1>5, <1>7, <2>2, <3>1
  <2>4. ASSUME NEW i \in h + 1 .. Len(M) PROVE ~ IsEnd(M, i) /\ ~ IsKey(M, "exporter", i)
    <3>1. CASE i \in h + 1 .. n
      <4>1. i \in 1 .. a - 1
        BY <1>2, <1>5, <3>1
      <4>2. SameSight(L, i, M, i)
        BY <1>7, <4>1
      <4> QED
        BY <2>2, <3>1, <4>2 DEF SameSight
    <3>2. CASE i \in {n + 1, n + 2}
      <4>1. Depth(M)[i] # 0
        BY <1>2, <2>2, <3>2
      <4> QED
        BY <4>1 DEF IsEnd, IsKey
    <3> QED
      BY <1>2, <3>1, <3>2
  <2>5. Shut(M, h)
    <3>1. Len(M) + 1 \in h + 1 .. Len(M) + 1 /\ (Len(M) + 1) - 1 = Len(M)
      BY <1>2
    <3> QED
      BY <1>2, <2>2, <2>3, <2>4, <3>1 DEF Shut, Gap
  <2>6. DullFrom(M, m)
    <3>1. m \in 1 .. n
      BY <1>4, <2>1 DEF Marked
    <3>2. \A i \in m .. Len(M) : i \in m .. n \/ i = n + 1 \/ i = n + 2
      BY <1>2, <3>1
    <3>3. \A i \in m .. n : i \in 1 .. n
      BY <1>2, <3>1
    <3> QED
      BY <1>2, <1>8, <2>1, <3>2, <3>3, WrittenLines DEF DullFrom, Dull, n
  <2>7. h \in 1 .. Len(M) /\ m \in Marked(M)
    BY <1>2, <1>11, <2>1
  <2> QED
    BY <2>1, <2>5, <2>6, <2>7 DEF Blind
<1>16. Marked(M) # {} \/ Fresh(M)
  <2>1. CASE Marked(L) # {}
    BY <1>11, <2>1
  <2>2. CASE Fresh(L)
    <3>1. \A i \in 1 .. n : M[i].key # "metrics_exporter"
      BY <1>4, <1>8, <2>2 DEF Fresh
    <3>2. Header(Tui).key = "" /\ Key("environment", Users).key = "environment"
      BY DEF Header, Key, Line
    <3>3. M[n + 1].key = "" /\ M[n + 2].key = "environment"
      BY <1>2, <3>2
    <3> QED
      BY <1>9, <3>1, <3>3 DEF Fresh
  <2> QED
    BY <1>1, <2>1, <2>2
<1> QED
  BY <1>1, <1>2, <1>3, <1>12, <1>14, <1>15, <1>16 DEF Sound, val

\* An empty file is sound, and one in which there is nothing of setup's.
LEMMA StartIsSound ==
  ASSUME Absent \notin Tokens, NEW L \in Seq(Lines({})), IsToml(L), Fresh(L)
  PROVE  Sound(L)
<1>1. Lines({}) \subseteq Lines(Tokens)
  BY DEF Lines, Vals
<1>2. L \in Seq(Lines(Tokens))
  BY <1>1
<1>3. ASSUME NEW i \in 1 .. Len(L) PROVE L[i].val \notin Ports \X Tokens
  <2>1. L[i] \in Lines({})
    OBVIOUS
  <2>2. L[i].val \in {Setups, Users, Spread}
    BY <2>1 DEF Lines, Vals
  <2> QED
    BY <2>2, SetupsIsNone
<1>4. Marked(L) = {}
  BY <1>3 DEF Marked
<1> QED
  BY <1>2, <1>4 DEF Sound, Only, Placed

\* See StartIsSound.
LEMMA EmptyIsSound == Absent \notin Tokens => Sound(<<>>)
<1>1. <<>> \in Seq(Lines({})) /\ <<>> \in Seq(Lines(Tokens)) /\ Len(<<>>) = 0
  OBVIOUS
<1>2. IsToml(<<>>)
  <2>1. PICK doc : doc = ReadTo(<<>>)
    OBVIOUS
  <2>2. Read(<<>>) = Blank
    BY <1>1, <2>1, ReadsOn
  <2> QED
    BY <2>2 DEF IsToml, Blank
<1>3. Fresh(<<>>)
  BY <1>1 DEF Fresh
<1> QED
  BY <1>1, <1>2, <1>3, StartIsSound
-----------------------------------------------------------------------------
\* Files of which the scanner sees what TOML does: their keys and tables are on
\* the lines at depth 0, each key in the table of the last header before it.
Heads(lines) == {i \in 1 .. Len(lines) : Depth(lines)[i] = 0 /\ lines[i].kind = "header"}
KeyLines(lines) == {i \in 1 .. Len(lines) : Depth(lines)[i] = 0 /\ lines[i].kind \in {"key", "open"}}

\* The header that a line is under, 0 if there is none, and what it assigns.
Under(lines, i, h) ==
  h \in 0 .. i /\ (h # 0 => h \in Heads(lines)) /\ \A j \in h + 1 .. i : j \notin Heads(lines)
PathOf(lines, h) == IF h = 0 THEN <<>> ELSE lines[h].path
Has(lines, i, k) ==
  /\ i \in KeyLines(lines)
  /\ \E h : Under(lines, i, h)
            /\ k = [table |-> PathOf(lines, h), key |-> lines[i].key, val |-> lines[i].val]

\* Arrays are closed, have elements only, and nothing else has any.
Shaped(lines) ==
  /\ Regular(lines) /\ EndDepth(lines) = 0
  /\ \A i \in 1 .. Len(lines) :
       \/ Depth(lines)[i] = 0 /\ lines[i].kind \in {"header", "key", "open"}
       \/ Depth(lines)[i] = 1 /\ (lines[i].kind = "elem" \/ (lines[i].kind = "close" /\ lines[i].form = "array"))

\* No table and no key is there twice, and none is both.
Once(lines) ==
  /\ \A i, j \in Heads(lines) : lines[i].path = lines[j].path => i = j
  /\ \A i, j, k, l : Has(lines, i, k) /\ Has(lines, j, l) /\ k.table = l.table /\ k.key = l.key => i = j
Clear(doc) == \A k \in doc.keys, t \in doc.tables : ~ IsPrefix(Append(k.table, k.key), t)

\* Every line is under one header, or none.
LEMMA UnderIs ==
  ASSUME NEW lines, Len(lines) \in Nat
  PROVE  /\ \A i \in Nat : \E h : Under(lines, i, h)
         /\ \A i \in Nat : \A h, g : Under(lines, i, h) /\ Under(lines, i, g) => h = g
<1> DEFINE S == {i \in Nat : \E h : Under(lines, i, h)}
<1>1. 0 \in S
  <2>1. Under(lines, 0, 0)
    BY DEF Under
  <2> QED
    BY <2>1
<1>2. ASSUME NEW i \in S PROVE i + 1 \in S
  <2>1. PICK h : Under(lines, i, h)
    OBVIOUS
  <2>2. CASE i + 1 \in Heads(lines)
    <3>1. Under(lines, i + 1, i + 1)
      BY <2>2 DEF Under
    <3> QED
      BY <3>1
  <2>3. CASE i + 1 \notin Heads(lines)
    <3>1. Under(lines, i + 1, h)
      <4>1. h \in 0 .. i /\ i \in Nat
        BY <2>1 DEF Under
      <4>2. \A j \in h + 1 .. i + 1 : j \in h + 1 .. i \/ j = i + 1
        BY <4>1
      <4>3. h \in 0 .. i + 1
        BY <4>1
      <4> QED
        BY <2>1, <2>3, <4>2, <4>3 DEF Under
    <3> QED
      BY <3>1
  <2> QED
    BY <2>2, <2>3
<1>3. S = Nat
  <2>1. S \in SUBSET Nat
    OBVIOUS
  <2> HIDE DEF S
  <2> QED
    BY <1>1, <1>2, <2>1, UpFromZero
<1>4. ASSUME NEW i \in Nat, NEW h, NEW g, Under(lines, i, h), Under(lines, i, g), h < g PROVE FALSE
  <2>1. g \in h + 1 .. i /\ g # 0
    BY <1>4 DEF Under
  <2> QED
    BY <1>4, <2>1 DEF Under
<1>5. ASSUME NEW i \in Nat, NEW h, NEW g, Under(lines, i, h), Under(lines, i, g) PROVE h = g
  <2>1. h \in Int /\ g \in Int
    BY <1>5 DEF Under
  <2>2. ~ (h < g) /\ ~ (g < h)
    BY <1>4, <1>5
  <2> QED
    BY <2>1, <2>2
<1> QED
  BY <1>3, <1>5

\* In such a file the reader is at the top level where the depth is 0,
LEMMA RegularIsShaped ==
  ASSUME NEW T, NEW lines \in Seq(Lines(T)), Regular(lines), IsToml(lines)
  PROVE  Shaped(lines)
<1>1. PICK p : p = ReadTo(lines)
  OBVIOUS
<1>2. PICK n : n = Len(lines)
  OBVIOUS
<1>3. /\ n \in Nat /\ p[0] = Blank /\ Read(lines) = p[n]
      /\ \A i \in 1 .. n : lines[i] \in Lines(T) /\ p[i] = ReadLine(p[i - 1], lines[i])
      /\ \A i \in 0 .. n : HasVals(p[i], T)
  BY <1>1, <1>2, ReadsOn
<1>4. p[n].ok /\ p[n].mode = "top"
  BY <1>3 DEF IsToml
<1>5. \A i \in 0 .. n : p[i].ok
  BY <1>1, <1>2, <1>3, <1>4, ReadGrows
<1>6. /\ Depth(lines)[1] = 0
      /\ \A i \in 1 .. n : Depth(lines)[i + 1] = Clamp(Depth(lines)[i] + LineDelta(lines[i]))
  BY <1>2, <1>3, DepthNext
<1> DEFINE Level(i) == \/ p[i].mode = "top" /\ Depth(lines)[i + 1] = 0
                       \/ p[i].mode = "array" /\ Depth(lines)[i + 1] = 1
           Fits(i) == \/ Depth(lines)[i] = 0 /\ lines[i].kind \in {"header", "key", "open"}
                      \/ /\ Depth(lines)[i] = 1
                         /\ lines[i].kind = "elem" \/ (lines[i].kind = "close" /\ lines[i].form = "array")
           S == {i \in Nat : i <= n => Level(i)}
<1>7. ASSUME NEW i \in 1 .. n, Level(i - 1) PROVE Level(i) /\ Fits(i)
  <2>1. /\ lines[i] \in Lines(T) /\ p[i] = ReadLine(p[i - 1], lines[i])
        /\ HasVals(p[i - 1], T) /\ p[i].ok /\ p[i - 1].ok
        /\ Depth(lines)[i + 1] = Clamp(Depth(lines)[i] + LineDelta(lines[i]))
    BY <1>3, <1>5, <1>6
  <2>2. lines[i].kind \notin {"odd", "tight", "prose"} /\ lines[i].form # "string"
    BY <1>2 DEF Regular
  <2>3. lines[i].kind \in Kinds /\ lines[i].form \in Forms
        /\ (lines[i].kind = "open" => lines[i].form # "")
    BY <2>1 DEF Lines
  <2>4. (i - 1) + 1 = i
    OBVIOUS
  <2>5. \/ p[i - 1].mode = "top" /\ Depth(lines)[i] = 0
        \/ p[i - 1].mode = "array" /\ Depth(lines)[i] = 1
    BY <1>7, <2>4
  <2>6. PICK d : d = p[i - 1]
    OBVIOUS
  <2>7. PICK line : line = lines[i]
    OBVIOUS
  <2>8. p[i] = ReadLine(d, line) /\ HasVals(d, T) /\ p[i].ok
    BY <2>1, <2>6, <2>7
  <2>9. ASSUME NEW path PROVE OpenTable(d, path).mode = d.mode
    BY <2>8 DEF OpenTable, HasVals
  <2>10. ASSUME NEW key, NEW val PROVE Assign(d, key, val).mode = d.mode
                                       /\ DOMAIN Assign(d, key, val) = DOMAIN d
    BY <2>8 DEF Assign, HasVals
  <2> HIDE DEF Level, Fits
  <2>11. CASE d.mode = "top"
    <3>1. line.kind \in {"header", "key", "open"}
      <4>1. CASE line.kind \notin {"header", "odd", "key", "tight", "open"}
        <5>1. p[i] = [d EXCEPT !.ok = FALSE]
          BY <2>8, <2>11, <4>1 DEF ReadLine
        <5> QED
          BY <2>8, <5>1 DEF HasVals
      <4> QED
        BY <2>2, <2>7, <4>1
    <3>2. Depth(lines)[i] = 0
      BY <2>5, <2>6, <2>11
    <3>3. CASE line.kind = "header"
      <4>1. p[i].mode = "top"
        BY <2>8, <2>9, <2>11, <3>3 DEF ReadLine
      <4>2. LineDelta(line) = 0
        BY <3>3 DEF LineDelta
      <4> QED
        BY <2>1, <2>7, <3>2, <3>3, <4>1, <4>2 DEF Level, Fits, Clamp
    <3>4. CASE line.kind = "key"
      <4>1. p[i].mode = "top"
        BY <2>8, <2>10, <2>11, <3>4 DEF ReadLine
      <4>2. LineDelta(line) = 0
        BY <3>4 DEF LineDelta
      <4> QED
        BY <2>1, <2>7, <3>2, <3>4, <4>1, <4>2 DEF Level, Fits, Clamp
    <3>5. CASE line.kind = "open"
      <4>1. line.form = "array"
        BY <2>2, <2>3, <2>7, <3>5 DEF Forms
      <4>2. p[i] = [Assign(d, line.key, line.val) EXCEPT !.mode = line.form]
        BY <2>8, <2>11, <3>5 DEF ReadLine
      <4>3. p[i].mode = "array"
        BY <2>8, <2>10, <4>1, <4>2 DEF HasVals
      <4>4. LineDelta(line) = 1
        BY <3>5, <4>1 DEF LineDelta
      <4> QED
        BY <2>1, <2>7, <3>2, <3>5, <4>3, <4>4 DEF Level, Fits, Clamp
    <3> QED
      BY <3>1, <3>3, <3>4, <3>5
  <2>12. CASE d.mode = "array"
    <3>1. Depth(lines)[i] = 1
      BY <2>5, <2>6, <2>12
    <3>2. CASE line.kind = "close" /\ line.form = "array"
      <4>1. p[i] = [d EXCEPT !.mode = "top"]
        BY <2>8, <2>12, <3>2 DEF ReadLine
      <4>2. p[i].mode = "top"
        BY <2>8, <4>1 DEF HasVals
      <4>3. LineDelta(line) = -1
        BY <3>2 DEF LineDelta
      <4> QED
        BY <2>1, <2>7, <3>1, <3>2, <4>2, <4>3 DEF Level, Fits, Clamp
    <3>3. CASE ~ (line.kind = "close" /\ line.form = "array")
      <4>1. p[i] = [d EXCEPT !.ok = @ /\ line.kind = "elem"]
        BY <2>8, <2>12, <3>3 DEF ReadLine
      <4>2. p[i].mode = "array" /\ line.kind = "elem"
        BY <2>8, <2>12, <4>1 DEF HasVals
      <4>3. LineDelta(line) = 0
        BY <4>2 DEF LineDelta
      <4> QED
        BY <2>1, <2>7, <3>1, <4>2, <4>3 DEF Level, Fits, Clamp
    <3> QED
      BY <3>2, <3>3
  <2> QED
    BY <2>5, <2>6, <2>11, <2>12
<1> HIDE DEF Fits
<1>8. 0 \in S
  BY <1>3, <1>6 DEF Blank
<1> HIDE DEF Level
<1>9. ASSUME NEW i \in S PROVE i + 1 \in S
  <2> SUFFICES ASSUME i + 1 <= n PROVE Level(i + 1)
    OBVIOUS
  <2>1. PICK j : j = i + 1
    OBVIOUS
  <2>2. j \in 1 .. n /\ Level(j - 1)
    BY <1>3, <2>1
  <2> QED
    BY <1>7, <2>1, <2>2
<1>10. S = Nat
  <2>1. S \in SUBSET Nat
    OBVIOUS
  <2> HIDE DEF S
  <2> QED
    BY <1>8, <1>9, <2>1, UpFromZero
<1>11. \A i \in 0 .. n : Level(i)
  BY <1>3, <1>10
<1>12. \A i \in 1 .. n : Fits(i)
  BY <1>3, <1>7, <1>11
<1>13. Depth(lines)[n + 1] = 0
  BY <1>3, <1>4, <1>11 DEF Level
<1> QED
  BY <1>2, <1>12, <1>13 DEF Shaped, EndDepth, Fits

\* and so it is in every shaped one.
LEMMA ShapedLevels ==
  ASSUME NEW T, NEW lines \in Seq(Lines(T)), Shaped(lines), NEW p, p = ReadTo(lines)
  PROVE  \A i \in 0 .. Len(lines) : \/ p[i].mode = "top" /\ Depth(lines)[i + 1] = 0
                                    \/ p[i].mode = "array" /\ Depth(lines)[i + 1] = 1
<1>1. PICK n : n = Len(lines)
  OBVIOUS
<1>2. /\ n \in Nat /\ p[0] = Blank
      /\ \A i \in 1 .. n : lines[i] \in Lines(T) /\ p[i] = ReadLine(p[i - 1], lines[i])
      /\ \A i \in 0 .. n : HasVals(p[i], T)
  BY <1>1, ReadsOn
<1>3. /\ Depth(lines)[1] = 0
      /\ \A i \in 1 .. n : Depth(lines)[i + 1] = Clamp(Depth(lines)[i] + LineDelta(lines[i]))
  BY <1>1, <1>2, DepthNext
<1> DEFINE Level(i) == \/ p[i].mode = "top" /\ Depth(lines)[i + 1] = 0
                       \/ p[i].mode = "array" /\ Depth(lines)[i + 1] = 1
           S == {i \in Nat : i <= n => Level(i)}
<1>4. ASSUME NEW i \in 1 .. n, Level(i - 1) PROVE Level(i)
  <2>1. /\ lines[i] \in Lines(T) /\ HasVals(p[i - 1], T)
        /\ Depth(lines)[i + 1] = Clamp(Depth(lines)[i] + LineDelta(lines[i]))
    BY <1>2, <1>3
  <2>2. PICK d : d = p[i - 1]
    OBVIOUS
  <2>3. PICK line : line = lines[i]
    OBVIOUS
  <2>4. p[i] = ReadLine(d, line) /\ HasVals(d, T)
    BY <1>2, <2>1, <2>2, <2>3
  <2>5. line.form # "string" /\ (line.kind = "open" => line.form \in {"array", "string"})
    <3>1. line.form \in Forms /\ (line.kind = "open" => line.form # "")
      BY <2>1, <2>3 DEF Lines
    <3>2. lines[i].form # "string"
      BY <1>1 DEF Shaped, Regular
    <3> QED
      BY <2>3, <3>1, <3>2 DEF Forms
  <2>6. \/ d.mode = "top" /\ Depth(lines)[i] = 0 /\ line.kind \in {"header", "key", "open"}
        \/ /\ d.mode = "array" /\ Depth(lines)[i] = 1
           /\ line.kind = "elem" \/ (line.kind = "close" /\ line.form = "array")
    <3>1. (i - 1) + 1 = i
      OBVIOUS
    <3> QED
      BY <1>1, <1>4, <2>2, <2>3, <3>1 DEF Shaped
  <2>7. ASSUME NEW path PROVE OpenTable(d, path).mode = d.mode
    BY <2>4 DEF OpenTable, HasVals
  <2>8. ASSUME NEW key, NEW val PROVE Assign(d, key, val).mode = d.mode
                                      /\ DOMAIN Assign(d, key, val) = DOMAIN d
    BY <2>4 DEF Assign, HasVals
  <2> HIDE DEF Level
  <2>9. CASE d.mode = "top" /\ line.kind = "header"
    <3>1. p[i].mode = "top" /\ LineDelta(line) = 0
      BY <2>4, <2>7, <2>9 DEF ReadLine, LineDelta
    <3> QED
      BY <2>1, <2>3, <2>6, <2>9, <3>1 DEF Level, Clamp
  <2>10. CASE d.mode = "top" /\ line.kind = "key"
    <3>1. p[i].mode = "top" /\ LineDelta(line) = 0
      BY <2>4, <2>8, <2>10 DEF ReadLine, LineDelta
    <3> QED
      BY <2>1, <2>3, <2>6, <2>10, <3>1 DEF Level, Clamp
  <2>11. CASE d.mode = "top" /\ line.kind = "open"
    <3>1. p[i] = [Assign(d, line.key, line.val) EXCEPT !.mode = line.form]
      BY <2>4, <2>11 DEF ReadLine
    <3>2. p[i].mode = "array" /\ LineDelta(line) = 1
      BY <2>4, <2>5, <2>8, <2>11, <3>1 DEF HasVals, LineDelta
    <3> QED
      BY <2>1, <2>3, <2>6, <2>11, <3>2 DEF Level, Clamp
  <2>12. CASE d.mode = "array" /\ line.kind = "close"
    <3>1. p[i] = [d EXCEPT !.mode = "top"]
      BY <2>4, <2>6, <2>12 DEF ReadLine
    <3>2. p[i].mode = "top" /\ LineDelta(line) = -1
      BY <2>4, <2>6, <2>12, <3>1 DEF HasVals, LineDelta
    <3> QED
      BY <2>1, <2>3, <2>6, <2>12, <3>2 DEF Level, Clamp
  <2>13. CASE d.mode = "array" /\ line.kind = "elem"
    <3>1. p[i] = [d EXCEPT !.ok = @ /\ line.kind = "elem"]
      BY <2>4, <2>13 DEF ReadLine
    <3>2. p[i].mode = "array" /\ LineDelta(line) = 0
      BY <2>4, <2>13, <3>1 DEF HasVals, LineDelta
    <3> QED
      BY <2>1, <2>3, <2>6, <2>13, <3>2 DEF Level, Clamp
  <2> QED
    BY <2>6, <2>9, <2>10, <2>11, <2>12, <2>13
<1>5. 0 \in S
  BY <1>2, <1>3 DEF Blank
<1> HIDE DEF Level
<1>6. ASSUME NEW i \in S PROVE i + 1 \in S
  <2> SUFFICES ASSUME i + 1 <= n PROVE Level(i + 1)
    OBVIOUS
  <2>1. PICK j : j = i + 1
    OBVIOUS
  <2>2. j \in 1 .. n /\ Level(j - 1)
    BY <1>2, <2>1
  <2> QED
    BY <1>4, <2>1, <2>2
<1>7. S = Nat
  <2>1. S \in SUBSET Nat
    OBVIOUS
  <2> HIDE DEF S
  <2> QED
    BY <1>5, <1>6, <2>1, UpFromZero
<1> QED
  BY <1>1, <1>2, <1>7 DEF Level

\* What the reader makes of a header, of an assignment and of another line.
Opens(d, path, new) ==
  /\ new.table = path /\ new.tables = d.tables \cup {path} /\ new.keys = d.keys
  /\ new.ok <=> /\ d.ok /\ path \notin d.tables
                /\ \A k \in d.keys : ~ IsPrefix(Append(k.table, k.key), path)
Assigns(d, k, new) ==
  /\ new.table = d.table /\ new.tables = d.tables /\ new.keys = d.keys \cup {k}
  /\ new.ok <=> /\ d.ok /\ \A l \in d.keys : ~ (l.table = k.table /\ l.key = k.key)
                /\ \A t \in d.tables : ~ IsPrefix(Append(k.table, k.key), t)
Stays(d, new) ==
  new.table = d.table /\ new.tables = d.tables /\ new.keys = d.keys /\ (new.ok <=> d.ok)

\* See Opens, Assigns and Stays.
LEMMA ShapedSteps ==
  ASSUME NEW T, NEW lines \in Seq(Lines(T)), Shaped(lines), NEW p, p = ReadTo(lines)
  PROVE  /\ Read(lines) = p[Len(lines)] /\ Read(lines).mode = "top"
         /\ \A i \in 1 .. Len(lines) :
              /\ i \in Heads(lines) => Opens(p[i - 1], lines[i].path, p[i])
              /\ i \in KeyLines(lines) =>
                   Assigns(p[i - 1], [table |-> p[i - 1].table, key |-> lines[i].key, val |-> lines[i].val], p[i])
              /\ i \notin Heads(lines) \cup KeyLines(lines) => Stays(p[i - 1], p[i])
<1>1. /\ Len(lines) \in Nat /\ Read(lines) = p[Len(lines)]
      /\ \A i \in 1 .. Len(lines) : lines[i] \in Lines(T) /\ p[i] = ReadLine(p[i - 1], lines[i])
      /\ \A i \in 0 .. Len(lines) : HasVals(p[i], T)
  BY ReadsOn
<1>2. \A i \in 0 .. Len(lines) : \/ p[i].mode = "top" /\ Depth(lines)[i + 1] = 0
                                 \/ p[i].mode = "array" /\ Depth(lines)[i + 1] = 1
  BY ShapedLevels
<1>3. Read(lines).mode = "top"
  BY <1>1, <1>2 DEF Shaped, EndDepth
<1>4. ASSUME NEW i \in 1 .. Len(lines)
      PROVE  /\ i \in Heads(lines) => Opens(p[i - 1], lines[i].path, p[i])
             /\ i \in KeyLines(lines) =>
                  Assigns(p[i - 1], [table |-> p[i - 1].table, key |-> lines[i].key, val |-> lines[i].val], p[i])
             /\ i \notin Heads(lines) \cup KeyLines(lines) => Stays(p[i - 1], p[i])
  <2>1. PICK d : d = p[i - 1]
    OBVIOUS
  <2>2. PICK line : line = lines[i]
    OBVIOUS
  <2>3. p[i] = ReadLine(d, line) /\ HasVals(d, T)
    BY <1>1, <2>1, <2>2
  <2>4. /\ \/ d.mode = "top" /\ Depth(lines)[i] = 0
           \/ d.mode = "array" /\ Depth(lines)[i] = 1
    <3>1. i - 1 \in 0 .. Len(lines) /\ (i - 1) + 1 = i
      BY <1>1
    <3> QED
      BY <1>2, <2>1, <3>1
  <2>5. ASSUME NEW path PROVE Opens(d, path, OpenTable(d, path))
    BY <2>3 DEF OpenTable, HasVals, Opens
  <2> DEFINE k == [table |-> d.table, key |-> line.key, val |-> line.val]
             a == Assign(d, line.key, line.val)
  <2>6. Assigns(d, k, a) /\ DOMAIN a = DOMAIN d
    <3>1. /\ a.table = d.table /\ a.tables = d.tables /\ a.keys = d.keys \cup {k}
          /\ DOMAIN a = DOMAIN d
      BY <2>3 DEF Assign, HasVals
    <3>2. a.ok <=> /\ d.ok /\ \A l \in d.keys : <<l.table, l.key>> # <<d.table, line.key>>
                   /\ \A t \in d.tables : ~ IsPrefix(Append(d.table, line.key), t)
      BY <2>3 DEF Assign, HasVals
    <3>3. k.table = d.table /\ k.key = line.key
      OBVIOUS
    <3>4. \A l : <<l.table, l.key>> = <<d.table, line.key>> <=> l.table = d.table /\ l.key = line.key
      OBVIOUS
    <3> HIDE DEF k, a
    <3> QED
      BY <3>1, <3>2, <3>3, <3>4 DEF Assigns
  <2>7. ASSUME NEW form PROVE Assigns(d, k, [a EXCEPT !.mode = form])
    <3> HIDE DEF k, a
    <3>1. /\ [a EXCEPT !.mode = form].table = a.table /\ [a EXCEPT !.mode = form].tables = a.tables
          /\ [a EXCEPT !.mode = form].keys = a.keys /\ [a EXCEPT !.mode = form].ok = a.ok
      BY <2>3, <2>6 DEF HasVals
    <3> QED
      BY <2>6, <3>1 DEF Assigns
  <2> HIDE DEF k, a
  <2>8. CASE i \in Heads(lines)
    <3>1. d.mode = "top" /\ line.kind = "header"
      BY <2>2, <2>4, <2>8 DEF Heads
    <3>2. p[i] = OpenTable(d, line.path)
      BY <2>3, <3>1 DEF ReadLine
    <3>3. i \notin KeyLines(lines)
      BY <2>2, <3>1 DEF KeyLines
    <3> QED
      BY <2>1, <2>2, <2>5, <2>8, <3>2, <3>3
  <2>9. CASE i \in KeyLines(lines)
    <3>1. d.mode = "top" /\ line.kind \in {"key", "open"}
      BY <2>2, <2>4, <2>9 DEF KeyLines
    <3>2. p[i] = a \/ p[i] = [a EXCEPT !.mode = line.form]
      BY <2>3, <3>1 DEF ReadLine, a
    <3>3. i \notin Heads(lines)
      BY <2>2, <3>1 DEF Heads
    <3>4. k = [table |-> p[i - 1].table, key |-> lines[i].key, val |-> lines[i].val]
      BY <2>1, <2>2 DEF k
    <3>5. Assigns(p[i - 1], k, p[i])
      BY <2>1, <2>6, <2>7, <3>2
    <3> QED
      BY <2>9, <3>3, <3>4, <3>5
  <2>10. CASE i \notin Heads(lines) \cup KeyLines(lines)
    <3>1. d.mode = "array" /\ (line.kind = "elem" \/ (line.kind = "close" /\ line.form = "array"))
      BY <2>2, <2>4, <2>10 DEF Shaped, Heads, KeyLines
    <3>2. p[i] = [d EXCEPT !.mode = "top"] \/ p[i] = [d EXCEPT !.ok = @ /\ TRUE]
      BY <2>3, <3>1 DEF ReadLine
    <3>3. Stays(d, p[i])
      BY <2>3, <3>2 DEF HasVals, Stays
    <3> QED
      BY <2>1, <2>10, <3>3
  <2> QED
    BY <2>8, <2>9, <2>10
<1> QED
  BY <1>1, <1>3, <1>4

\* So the tables are those of the headers, and the keys those that lines have.
LEMMA ShapedContent ==
  ASSUME NEW T, NEW lines \in Seq(Lines(T)), Shaped(lines), NEW p, p = ReadTo(lines)
  PROVE  \A i \in 0 .. Len(lines) :
           /\ \E h : Under(lines, i, h) /\ p[i].table = PathOf(lines, h)
           /\ \A t : t \in p[i].tables <=> \E j \in Heads(lines) : j <= i /\ t = lines[j].path
           /\ \A k : k \in p[i].keys <=> \E j \in 1 .. i : Has(lines, j, k)
<1>1. PICK n : n = Len(lines)
  OBVIOUS
<1>2. n \in Nat /\ p[0] = Blank
  BY <1>1, ReadsOn
<1>3. /\ \A i \in 1 .. n :
           /\ i \in Heads(lines) => Opens(p[i - 1], lines[i].path, p[i])
           /\ i \in KeyLines(lines) =>
                Assigns(p[i - 1], [table |-> p[i - 1].table, key |-> lines[i].key, val |-> lines[i].val], p[i])
           /\ i \notin Heads(lines) \cup KeyLines(lines) => Stays(p[i - 1], p[i])
  BY <1>1, ShapedSteps
<1>4. /\ \A i \in Nat : \E h : Under(lines, i, h)
      /\ \A i \in Nat : \A h, g : Under(lines, i, h) /\ Under(lines, i, g) => h = g
  BY <1>1, <1>2, UnderIs
<1>5. Heads(lines) \subseteq 1 .. n /\ KeyLines(lines) \subseteq 1 .. n /\ Heads(lines) \cap KeyLines(lines) = {}
  BY <1>1 DEF Heads, KeyLines
<1> DEFINE Table(i) == \E h : Under(lines, i, h) /\ p[i].table = PathOf(lines, h)
           Tables(i) == \A t : t \in p[i].tables <=> \E j \in Heads(lines) : j <= i /\ t = lines[j].path
           KeysTo(i) == \A k : k \in p[i].keys <=> \E j \in 1 .. i : Has(lines, j, k)
           S == {i \in Nat : i <= n => Table(i) /\ Tables(i) /\ KeysTo(i)}
<1>6. 0 \in S
  <2>1. Under(lines, 0, 0)
    BY DEF Under
  <2>2. p[0].table = <<>> /\ p[0].tables = {} /\ p[0].keys = {}
    BY <1>2 DEF Blank
  <2>3. Table(0)
    BY <2>1, <2>2 DEF PathOf
  <2>4. Tables(0)
    BY <1>5, <2>2
  <2>5. KeysTo(0)
    BY <2>2
  <2> HIDE DEF Table, Tables, KeysTo
  <2> QED
    BY <2>3, <2>4, <2>5
<1>7. ASSUME NEW i \in 1 .. n, NEW m \in 0 .. n, m = i - 1, Table(m), Tables(m), KeysTo(m)
      PROVE  Table(i) /\ Tables(i) /\ KeysTo(i)
  <2>1. PICK h : Under(lines, m, h) /\ p[m].table = PathOf(lines, h)
    BY <1>7
  <2>2. i \notin Heads(lines) => Under(lines, i, h)
    <3>1. h \in 0 .. m
      BY <2>1 DEF Under
    <3>2. \A j \in h + 1 .. i : j \in h + 1 .. m \/ j = i
      BY <1>7, <3>1
    <3>3. h \in 0 .. i
      BY <1>7, <3>1
    <3> QED
      BY <2>1, <3>2, <3>3 DEF Under
  <2>3. i \in Heads(lines) => Under(lines, i, i)
    BY DEF Under
  <2>4. \A j \in 1 .. i : j \in 1 .. m \/ j = i
    BY <1>7
  <2>5. \A j \in Heads(lines) : j <= i <=> j <= m \/ j = i
    BY <1>5, <1>7
  <2>6. \A j \in 1 .. m : j \in 1 .. i
    BY <1>7
  <2>7. i \in 1 .. i /\ i # 0
    OBVIOUS
  <2>8. CASE i \in Heads(lines)
    <3>1. Opens(p[m], lines[i].path, p[i]) /\ i \notin KeyLines(lines)
      BY <1>3, <1>5, <1>7, <2>8
    <3>2. Table(i)
      BY <2>3, <2>7, <2>8, <3>1 DEF Opens, PathOf
    <3>3. Tables(i)
      BY <1>7, <2>5, <2>8, <3>1 DEF Opens
    <3>4. \A k : ~ Has(lines, i, k)
      BY <3>1 DEF Has
    <3>5. KeysTo(i)
      BY <1>7, <2>4, <2>6, <3>1, <3>4 DEF Opens
    <3> HIDE DEF Table, Tables, KeysTo
    <3> QED
      BY <3>2, <3>3, <3>5
  <2>9. CASE i \in KeyLines(lines)
    <3> DEFINE new == [table |-> p[m].table, key |-> lines[i].key, val |-> lines[i].val]
    <3>1. Assigns(p[m], new, p[i]) /\ i \notin Heads(lines)
      BY <1>3, <1>5, <1>7, <2>9
    <3>2. Table(i)
      BY <2>1, <2>2, <3>1 DEF Assigns
    <3>3. Tables(i)
      BY <1>7, <2>5, <3>1 DEF Assigns
    <3>4. \A k : Has(lines, i, k) <=> k = new
      <4>1. \A g : Under(lines, i, g) <=> g = h
        BY <1>4, <2>2, <3>1
      <4> QED
        BY <2>1, <2>9, <4>1 DEF Has
    <3> HIDE DEF new
    <3>5. KeysTo(i)
      BY <1>7, <2>4, <2>6, <2>7, <3>1, <3>4 DEF Assigns
    <3> HIDE DEF Table, Tables, KeysTo
    <3> QED
      BY <3>2, <3>3, <3>5
  <2>10. CASE i \notin Heads(lines) \cup KeyLines(lines)
    <3>1. Stays(p[m], p[i])
      BY <1>3, <1>7, <2>10
    <3>2. Table(i)
      BY <2>1, <2>2, <2>10, <3>1 DEF Stays
    <3>3. Tables(i)
      BY <1>7, <2>5, <2>10, <3>1 DEF Stays
    <3>4. \A k : ~ Has(lines, i, k)
      BY <2>10 DEF Has
    <3>5. KeysTo(i)
      BY <1>7, <2>4, <2>6, <3>1, <3>4 DEF Stays
    <3> HIDE DEF Table, Tables, KeysTo
    <3> QED
      BY <3>2, <3>3, <3>5
  <2> QED
    BY <2>8, <2>9, <2>10
<1> HIDE DEF Table, Tables, KeysTo
<1>8. ASSUME NEW i \in S PROVE i + 1 \in S
  <2> SUFFICES ASSUME i + 1 <= n PROVE Table(i + 1) /\ Tables(i + 1) /\ KeysTo(i + 1)
    OBVIOUS
  <2>1. PICK j : j = i + 1
    OBVIOUS
  <2>2. j \in 1 .. n /\ i \in 0 .. n /\ i = j - 1 /\ Table(i) /\ Tables(i) /\ KeysTo(i)
    BY <1>2, <2>1
  <2> QED
    BY <1>7, <2>1, <2>2
<1>9. S = Nat
  <2>1. S \in SUBSET Nat
    OBVIOUS
  <2> HIDE DEF S
  <2> QED
    BY <1>6, <1>8, <2>1, UpFromZero
<1>10. \A i \in 0 .. n : Table(i) /\ Tables(i) /\ KeysTo(i)
  BY <1>2, <1>9
<1> QED
  BY <1>1, <1>10 DEF Table, Tables, KeysTo

\* And it is a document if none of them is there twice.
LEMMA ShapedReads ==
  ASSUME NEW T, NEW lines \in Seq(Lines(T)), Shaped(lines)
  PROVE  /\ Read(lines).mode = "top"
         /\ \A t : t \in Read(lines).tables <=> \E i \in Heads(lines) : t = lines[i].path
         /\ \A k : k \in Read(lines).keys <=> \E i : Has(lines, i, k)
         /\ IsToml(lines) <=> Once(lines) /\ Clear(Read(lines))
<1>1. PICK n : n = Len(lines)
  OBVIOUS
<1>2. PICK p : p = ReadTo(lines)
  OBVIOUS
<1>3. /\ n \in Nat /\ p[0] = Blank /\ Read(lines) = p[n] /\ p[n].mode = "top"
      /\ \A i \in 1 .. n :
           /\ i \in Heads(lines) => Opens(p[i - 1], lines[i].path, p[i])
           /\ i \in KeyLines(lines) =>
                Assigns(p[i - 1], [table |-> p[i - 1].table, key |-> lines[i].key, val |-> lines[i].val], p[i])
           /\ i \notin Heads(lines) \cup KeyLines(lines) => Stays(p[i - 1], p[i])
  BY <1>1, <1>2, ReadsOn, ShapedSteps
<1>4. \A i \in 0 .. n :
        /\ \E h : Under(lines, i, h) /\ p[i].table = PathOf(lines, h)
        /\ \A t : t \in p[i].tables <=> \E j \in Heads(lines) : j <= i /\ t = lines[j].path
        /\ \A k : k \in p[i].keys <=> \E j \in 1 .. i : Has(lines, j, k)
  BY <1>1, <1>2, ShapedContent
<1>5. /\ Heads(lines) \subseteq 1 .. n /\ KeyLines(lines) \subseteq 1 .. n /\ Heads(lines) \cap KeyLines(lines) = {}
      /\ \A i, k : Has(lines, i, k) => i \in KeyLines(lines)
  BY <1>1 DEF Heads, KeyLines, Has
<1>6. /\ \A t : t \in Read(lines).tables <=> \E i \in Heads(lines) : t = lines[i].path
      /\ \A k : k \in Read(lines).keys <=> \E i : Has(lines, i, k)
  <2>1. n \in 0 .. n /\ \A i \in Heads(lines) : i <= n
    BY <1>3, <1>5
  <2> QED
    BY <1>3, <1>4, <1>5, <2>1
<1> DEFINE Sep(k, t) == ~ IsPrefix(Append(k.table, k.key), t)
           Fine(i) ==
             /\ i \in Heads(lines) => /\ \A j \in Heads(lines) : j < i => lines[j].path # lines[i].path
                                      /\ \A j \in 1 .. i - 1 : \A k : Has(lines, j, k) => Sep(k, lines[i].path)
             /\ \A k : Has(lines, i, k) =>
                  /\ \A j \in 1 .. i - 1 : \A l : Has(lines, j, l) => ~ (l.table = k.table /\ l.key = k.key)
                  /\ \A j \in Heads(lines) : j < i => Sep(k, lines[j].path)
<1> HIDE DEF Sep
<1>7. ASSUME NEW i \in 1 .. n, NEW m \in 0 .. n, m = i - 1 PROVE p[i].ok <=> p[m].ok /\ Fine(i)
  <2>1. \A j \in Heads(lines) : j < i <=> j <= m
    BY <1>5, <1>7
  <2>2. 1 .. i - 1 = 1 .. m
    BY <1>7
  <2>3. CASE i \in Heads(lines)
    <3>1. Opens(p[m], lines[i].path, p[i]) /\ \A k : ~ Has(lines, i, k)
      BY <1>3, <1>5, <1>7, <2>3
    <3>2. p[i].ok <=> p[m].ok /\ lines[i].path \notin p[m].tables /\ \A k \in p[m].keys : Sep(k, lines[i].path)
      BY <3>1 DEF Opens, Sep
    <3>3. lines[i].path \notin p[m].tables <=> \A j \in Heads(lines) : j < i => lines[j].path # lines[i].path
      BY <1>4, <2>1
    <3>4. (\A k \in p[m].keys : Sep(k, lines[i].path)) <=>
            \A j \in 1 .. i - 1 : \A k : Has(lines, j, k) => Sep(k, lines[i].path)
      BY <1>4, <2>2
    <3> QED
      BY <2>3, <3>1, <3>2, <3>3, <3>4
  <2>4. CASE i \in KeyLines(lines)
    <3>1. PICK h : Under(lines, m, h) /\ p[m].table = PathOf(lines, h)
      BY <1>4
    <3> DEFINE new == [table |-> p[m].table, key |-> lines[i].key, val |-> lines[i].val]
    <3>2. Assigns(p[m], new, p[i]) /\ i \notin Heads(lines)
      BY <1>3, <1>5, <1>7, <2>4
    <3>3. \A k : Has(lines, i, k) <=> k = new
      <4>1. Under(lines, i, h)
        <5>1. h \in 0 .. m
          BY <3>1 DEF Under
        <5>2. \A j \in h + 1 .. i : j \in h + 1 .. m \/ j = i
          BY <1>7, <5>1
        <5>3. h \in 0 .. i
          BY <1>7, <5>1
        <5> QED
          BY <3>1, <3>2, <5>2, <5>3 DEF Under
      <4>2. \A g : Under(lines, i, g) <=> g = h
        BY <1>1, <1>3, <4>1, UnderIs
      <4> QED
        BY <2>4, <3>1, <4>2 DEF Has
    <3> HIDE DEF new
    <3>4. p[i].ok <=> /\ p[m].ok /\ \A l \in p[m].keys : ~ (l.table = new.table /\ l.key = new.key)
                      /\ \A t \in p[m].tables : Sep(new, t)
      BY <3>2 DEF Assigns, Sep
    <3>5. (\A l \in p[m].keys : ~ (l.table = new.table /\ l.key = new.key)) <=>
            \A j \in 1 .. i - 1 : \A l : Has(lines, j, l) => ~ (l.table = new.table /\ l.key = new.key)
      BY <1>4, <2>2
    <3>6. (\A t \in p[m].tables : Sep(new, t)) <=>
            \A j \in Heads(lines) : j < i => Sep(new, lines[j].path)
      BY <1>4, <2>1
    <3> QED
      BY <3>2, <3>3, <3>4, <3>5, <3>6
  <2>5. CASE i \notin Heads(lines) \cup KeyLines(lines)
    <3>1. Stays(p[m], p[i]) /\ \A k : ~ Has(lines, i, k)
      BY <1>3, <1>5, <1>7, <2>5
    <3> QED
      BY <2>5, <3>1 DEF Stays
  <2> QED
    BY <2>3, <2>4, <2>5
<1> DEFINE S == {i \in Nat : i <= n => (p[i].ok <=> \A j \in 1 .. i : Fine(j))}
<1> HIDE DEF Fine
<1>8. 0 \in S
  BY <1>3 DEF Blank
<1>9. ASSUME NEW i \in S PROVE i + 1 \in S
  <2> SUFFICES ASSUME i + 1 <= n PROVE p[i + 1].ok <=> \A j \in 1 .. i + 1 : Fine(j)
    OBVIOUS
  <2>1. PICK j : j = i + 1
    OBVIOUS
  <2>2. j \in 1 .. n /\ i \in 0 .. n /\ i = j - 1
    BY <1>3, <2>1
  <2>3. p[j].ok <=> p[i].ok /\ Fine(j)
    BY <1>7, <2>2
  <2>4. p[i].ok <=> \A l \in 1 .. i : Fine(l)
    BY <2>2
  <2>5. (\A l \in 1 .. j : Fine(l)) <=> (\A l \in 1 .. i : Fine(l)) /\ Fine(j)
    <3>1. \A l : l \in 1 .. j <=> l \in 1 .. i \/ l = j
      BY <2>2
    <3> QED
      BY <3>1
  <2> QED
    BY <2>1, <2>3, <2>4, <2>5
<1>10. S = Nat
  <2>1. S \in SUBSET Nat
    OBVIOUS
  <2> HIDE DEF S
  <2> QED
    BY <1>8, <1>9, <2>1, UpFromZero
<1>11. p[n].ok <=> \A i \in 1 .. n : Fine(i)
  BY <1>3, <1>10
<1>12. ASSUME \A i \in 1 .. n : Fine(i) PROVE Once(lines) /\ Clear(Read(lines))
  <2>1. ASSUME NEW i \in Heads(lines), NEW j \in Heads(lines), lines[i].path = lines[j].path PROVE i = j
    <3>1. ~ (i < j) /\ ~ (j < i)
      BY <1>5, <1>12, <2>1 DEF Fine
    <3> QED
      BY <1>5, <3>1
  <2>2. ASSUME NEW i, NEW j, NEW k, NEW l, Has(lines, i, k), Has(lines, j, l),
               k.table = l.table, k.key = l.key
        PROVE  i = j
    <3>1. i \in 1 .. n /\ j \in 1 .. n
      BY <1>5, <2>2
    <3>2. ASSUME i < j PROVE FALSE
      <4>1. i \in 1 .. j - 1 /\ Fine(j)
        BY <1>12, <3>1, <3>2
      <4> QED
        BY <2>2, <4>1 DEF Fine
    <3>3. ASSUME j < i PROVE FALSE
      <4>1. j \in 1 .. i - 1 /\ Fine(i)
        BY <1>12, <3>1, <3>3
      <4> QED
        BY <2>2, <4>1 DEF Fine
    <3> QED
      BY <3>1, <3>2, <3>3
  <2>3. ASSUME NEW k \in Read(lines).keys, NEW t \in Read(lines).tables PROVE Sep(k, t)
    <3>1. PICK i : Has(lines, i, k)
      BY <1>6
    <3>5. PICK j \in Heads(lines) : t = lines[j].path
      BY <1>6
    <3>2. i \in 1 .. n /\ j \in 1 .. n /\ i # j
      BY <1>5, <3>1, <3>5
    <3>3. CASE i < j
      <4>1. i \in 1 .. j - 1 /\ Fine(j)
        BY <1>12, <3>2, <3>3
      <4> QED
        BY <3>1, <3>5, <4>1 DEF Fine
    <3>4. CASE j < i
      BY <1>12, <3>1, <3>2, <3>4, <3>5 DEF Fine
    <3> QED
      BY <3>2, <3>3, <3>4
  <2> QED
    BY <2>1, <2>2, <2>3 DEF Once, Clear, Sep
<1>13. ASSUME Once(lines), Clear(Read(lines)), NEW i \in 1 .. n PROVE Fine(i)
  <2>1. \A k \in Read(lines).keys, t \in Read(lines).tables : Sep(k, t)
    BY <1>13 DEF Clear, Sep
  <2>2. \A j, k : \A g \in Heads(lines) : Has(lines, j, k) => Sep(k, lines[g].path)
    BY <1>6, <2>1
  <2>3. \A j \in 1 .. i - 1 : j # i
    OBVIOUS
  <2>4. \A j \in Heads(lines) : j < i => j # i
    BY <1>5
  <2> QED
    BY <1>13, <2>2, <2>3, <2>4 DEF Fine, Once
<1> QED
  BY <1>3, <1>6, <1>11, <1>12, <1>13 DEF IsToml

\* A line assigns one thing,
LEMMA HasOnce ==
  ASSUME NEW lines, Len(lines) \in Nat, NEW i, NEW k, NEW l, Has(lines, i, k), Has(lines, i, l)
  PROVE  k = l
<1>1. i \in Nat
  BY DEF Has, KeyLines
<1> QED
  BY <1>1, UnderIs DEF Has

\* and what the scanner finds assigns the key, in [otel].
LEMMA FoundHas ==
  ASSUME NEW lines, Len(lines) \in Nat, NEW key, NEW i, Found(lines, key, i)
  PROVE  Has(lines, i, [table |-> Otel, key |-> key, val |-> lines[i].val])
<1>1. PICK h \in 1 .. Len(lines) : KeyAt(lines, key, h, i)
  BY DEF Found
<1>2. /\ IsHeader(lines, Otel, h) /\ i \in h + 1 .. Len(lines) /\ IsKey(lines, key, i)
      /\ \A j \in h + 1 .. i - 1 : ~ IsEnd(lines, j)
  BY <1>1 DEF KeyAt, TableAt
<1>3. h \in Heads(lines) /\ lines[h].path = Otel /\ i \in KeyLines(lines) /\ lines[i].key = key
  BY <1>2 DEF IsHeader, Heads, IsKey, KeyLines
<1>4. Under(lines, i, h)
  <2>1. ASSUME NEW j \in h + 1 .. i PROVE j \notin Heads(lines)
    <3>1. CASE j = i
      BY <1>3, <3>1 DEF Heads, KeyLines
    <3>2. CASE j # i
      <4>1. j \in h + 1 .. i - 1
        BY <1>2, <3>2
      <4> QED
        BY <1>2, <4>1 DEF IsEnd, Heads
    <3> QED
      BY <3>1, <3>2
  <2>2. h \in 0 .. i
    BY <1>2
  <2> QED
    BY <1>3, <2>1, <2>2 DEF Under
<1>5. PathOf(lines, h) = Otel
  BY <1>3 DEF PathOf
<1> QED
  BY <1>3, <1>4, <1>5 DEF Has

\* In a file of which the scanner sees what TOML does it finds the assignments
\* in [otel] that TOML reads, and no other.
LEMMA FoundIsAssigned ==
  ASSUME NEW T, NEW lines \in Seq(Lines(T)), Shaped(lines), Once(lines)
  PROVE  /\ \A k \in Assigned(lines, Otel) : \E i : Found(lines, k.key, i) /\ lines[i].val = k.val
         /\ \A key, i : Found(lines, key, i) => \E k \in Assigned(lines, Otel) : k.key = key
<1>1. Len(lines) \in Nat
  OBVIOUS
<1>2. \A k : k \in Read(lines).keys <=> \E i : Has(lines, i, k)
  BY ShapedReads
<1>3. ASSUME NEW k \in Assigned(lines, Otel)
      PROVE  \E i : Found(lines, k.key, i) /\ lines[i].val = k.val
  <2>1. PICK i : Has(lines, i, k)
    BY <1>2 DEF Assigned
  <2>2. PICK h : /\ Under(lines, i, h) /\ i \in KeyLines(lines)
                 /\ k = [table |-> PathOf(lines, h), key |-> lines[i].key, val |-> lines[i].val]
    BY <2>1 DEF Has
  <2>3. k.table = Otel /\ k.table = PathOf(lines, h) /\ k.key = lines[i].key /\ k.val = lines[i].val
    BY <2>2 DEF Assigned
  <2>4. h # 0 /\ lines[h].path = Otel /\ h \in Heads(lines)
    <3>1. Otel # <<>>
      BY DEF Otel
    <3> QED
      BY <2>2, <2>3, <3>1 DEF PathOf, Under
  <2>5. h \in 1 .. Len(lines) /\ IsHeader(lines, Otel, h)
    BY <2>4 DEF Heads, IsHeader
  <2>6. TableAt(lines, h)
    <3>1. ASSUME NEW j \in 1 .. h - 1, IsHeader(lines, Otel, j) PROVE FALSE
      <4>1. j \in Heads(lines) /\ lines[j].path = Otel
        BY <3>1 DEF IsHeader, Heads
      <4> QED
        BY <2>4, <2>5, <4>1 DEF Once
    <3> QED
      BY <2>5, <3>1 DEF TableAt
  <2>7. i \in h + 1 .. Len(lines) /\ IsKey(lines, k.key, i)
    <3>1. i \in 1 .. Len(lines) /\ h \in 0 .. i /\ i # h
      BY <2>2, <2>4 DEF KeyLines, Under, Heads
    <3> QED
      BY <1>1, <2>2, <2>3, <2>5, <3>1 DEF KeyLines, IsKey
  <2>8. ASSUME NEW j \in h + 1 .. i - 1 PROVE ~ IsEnd(lines, j) /\ ~ IsKey(lines, k.key, j)
    <3>1. j \in 1 .. Len(lines) /\ j \in h + 1 .. i /\ j # i
      BY <1>1, <2>5, <2>7
    <3>2. j \notin Heads(lines)
      BY <2>2, <3>1 DEF Under
    <3>3. ~ IsEnd(lines, j)
      BY <3>1, <3>2 DEF Shaped, IsEnd, Heads
    <3>4. ASSUME IsKey(lines, k.key, j) PROVE FALSE
      <4>1. j \in KeyLines(lines) /\ lines[j].key = k.key
        BY <3>4 DEF IsKey, KeyLines
      <4>2. Under(lines, j, h)
        <5>1. \A g \in h + 1 .. j : g \in h + 1 .. i
          BY <2>5, <2>7
        <5>2. h \in 0 .. j
          BY <2>5
        <5> QED
          BY <2>2, <5>1, <5>2 DEF Under
      <4> DEFINE l == [table |-> PathOf(lines, h), key |-> lines[j].key, val |-> lines[j].val]
      <4>3. Has(lines, j, l)
        BY <4>1, <4>2 DEF Has
      <4>4. l.table = k.table /\ l.key = k.key
        BY <2>3, <4>1
      <4> HIDE DEF l
      <4> QED
        BY <2>1, <3>1, <4>3, <4>4 DEF Once
    <3> QED
      BY <3>3, <3>4
  <2>9. KeyAt(lines, k.key, h, i)
    BY <2>6, <2>7, <2>8 DEF KeyAt
  <2> QED
    BY <2>3, <2>5, <2>9 DEF Found
<1>4. ASSUME NEW key, NEW i, Found(lines, key, i)
      PROVE  \E k \in Assigned(lines, Otel) : k.key = key
  <2> DEFINE k == [table |-> Otel, key |-> key, val |-> lines[i].val]
  <2>1. Has(lines, i, k)
    BY <1>4, FoundHas
  <2>2. k.table = Otel /\ k.key = key
    OBVIOUS
  <2> HIDE DEF k
  <2> QED
    BY <1>2, <2>1, <2>2 DEF Assigned
<1> QED
  BY <1>3, <1>4

\* An edit finds nothing to do where the scanner finds everything,
LEMMA FixedIf ==
  ASSUME NEW T, NEW lines \in Seq(Lines(T)), NEW port, NEW token,
         \A n \in 1 .. 4 : \E k : Found(lines, CodexScalars[n], k),
         NEW x, Found(lines, "exporter", x), lines[x] = Key("exporter", Exporter(port, token)),
         \A i \in 1 .. Len(lines) : ~ IsHeader(lines, Stale, i)
  PROVE  EditCodex(lines, port, token) = lines
<1>1. Len(lines) \in Nat /\ x \in 1 .. Len(lines)
  BY DEF Found, KeyAt, IsKey
<1>2. ASSUME NEW n \in 1 .. 4 PROVE EnsureTableKey(lines, CodexScalars[n], Setups) = lines
  <2>1. PICK k : Found(lines, CodexScalars[n], k)
    BY <1>2
  <2>2. PICK key : key = CodexScalars[n]
    OBVIOUS
  <2> QED
    BY <1>1, <2>1, <2>2, EnsureIs, FoundOnce
<1>3. EnsureScalars(lines) = lines
  <2>1. 1 \in 1 .. 4 /\ 2 \in 1 .. 4 /\ 3 \in 1 .. 4 /\ 4 \in 1 .. 4
    OBVIOUS
  <2> QED
    BY <1>2, <2>1 DEF EnsureScalars
<1> DEFINE e == Exporter(port, token)
<1>4. ReplaceAt(lines, x, Key("exporter", e)) = lines
  BY <1>1 DEF ReplaceAt
<1> HIDE DEF e
<1>5. ReplaceOrInsertTableKey(lines, "exporter", e) = lines
  BY <1>1, <1>4, ReplaceIs, FoundOnce
<1>6. RemoveTable(lines, Stale) = lines
  BY <1>1, RemoveIs DEF Section, IsHeader
<1> QED
  BY <1>3, <1>5, <1>6 DEF EditCodex, EnsureCodexExporter, e

\* as in what setup has done.
Settled(lines, e) ==
  /\ Range(CodexScalars) \subseteq {k.key : k \in Assigned(lines, Otel)}
  /\ Value(lines, Otel, "exporter") = e

\* See Settled.
LEMMA SettledIsFixed ==
  ASSUME Absent \notin Tokens, NEW lines, Sound(lines), Regular(lines),
         NEW port \in Ports, NEW token \in Tokens, Settled(lines, Exporter(port, token))
  PROVE  EditCodex(lines, port, token) = lines
<1> DEFINE e == Exporter(port, token)
           val == Value(lines, Otel, "exporter")
<1>1. lines \in Seq(Lines(Tokens)) /\ IsToml(lines) /\ Only(lines, val) /\ val = e
  BY DEF Sound, Settled
<1>2. Shaped(lines) /\ Once(lines) /\ Clear(Read(lines))
  BY <1>1, RegularIsShaped, ShapedReads
<1>3. e \in Ports \X Tokens /\ e # <<Absent, Absent>>
  BY DEF Exporter
<1>4. PICK k \in Assigned(lines, Otel) : k.key = "exporter" /\ k.val = e
  <2> DEFINE found == {l \in Assigned(lines, Otel) : l.key = "exporter"}
  <2>1. val = IF found = {} THEN <<Absent, Absent>> ELSE (CHOOSE l \in found : TRUE).val
    BY DEF Value
  <2> HIDE DEF found, val, e
  <2>2. found # {}
    BY <1>1, <1>3, <2>1
  <2>3. (CHOOSE l \in found : TRUE) \in found /\ (CHOOSE l \in found : TRUE).val = e
    BY <1>1, <2>1, <2>2
  <2> QED
    BY <2>3 DEF found
<1> HIDE DEF e, val
<1>5. PICK x : Found(lines, "exporter", x) /\ lines[x].val = e
  BY <1>1, <1>4, <1>2, FoundIsAssigned
<1>6. lines[x] = Key("exporter", e)
  <2>1. x \in Marked(lines)
    BY <1>3, <1>5 DEF Marked, Found, KeyAt, IsKey
  <2> QED
    BY <1>1, <2>1 DEF Only
<1>7. \A n \in 1 .. 4 : \E i : Found(lines, CodexScalars[n], i)
  <2>1. ASSUME NEW n \in 1 .. 4 PROVE \E i : Found(lines, CodexScalars[n], i)
    <3>1. CodexScalars[n] \in Range(CodexScalars)
      BY DEF CodexScalars, Range
    <3>2. PICK l \in Assigned(lines, Otel) : l.key = CodexScalars[n]
      BY <3>1 DEF Settled
    <3> QED
      BY <1>1, <1>2, <3>2, FoundIsAssigned
  <2> QED
    BY <2>1
<1>8. ASSUME NEW i \in 1 .. Len(lines), IsHeader(lines, Stale, i) PROVE FALSE
  <2>1. \A t : t \in Read(lines).tables <=> \E j \in Heads(lines) : t = lines[j].path
    BY <1>1, <1>2, ShapedReads
  <2>2. i \in Heads(lines) /\ lines[i].path = Stale
    BY <1>8 DEF IsHeader, Heads
  <2>3. Stale \in Read(lines).tables
    BY <2>1, <2>2
  <2>4. IsPrefix(Append(Otel, "exporter"), Stale)
    BY DEF IsPrefix, Otel, Stale
  <2>5. k \in Read(lines).keys /\ k.table = Otel /\ k.key = "exporter"
    BY <1>4 DEF Assigned
  <2> QED
    BY <1>2, <2>3, <2>4, <2>5 DEF Clear
<1> QED
  BY <1>1, <1>5, <1>6, <1>7, <1>8, FixedIf DEF e
-----------------------------------------------------------------------------
\* What the scanner finds in [otel] it finds after each step of an edit.
LEMMA EnsureFinds ==
  ASSUME NEW T, NEW lines \in Seq(Lines(T)), NEW other \in Keys, NEW val \in Vals(T),
         NEW key, NEW k, Found(lines, key, k)
  PROVE  Found(EnsureTableKey(lines, other, val), key, k)
<1>1. Len(lines) \in Nat /\ Key(other, val) \in Lines(T) /\ Key(other, val).kind = "key"
  <2>1. Otel \in Paths
    BY DEF Paths
  <2> QED
    BY <2>1, NewLines, WrittenLines
<1>2. PICK M : M = EnsureTableKey(lines, other, val)
  OBVIOUS
<1>3. ~ NoTable(lines)
  BY <1>1, FoundOnce
<1>4. CASE M = lines
  BY <1>2, <1>4
<1>5. ASSUME NEW g, NEW e, Gap(lines, other, g, e), M = InsertAt(lines, e, Key(other, val))
      PROVE  Found(M, key, k)
  <2>1. k < e
    BY <1>1, <1>5, GapIsBehind
  <2>2. e \in 1 .. Len(lines) + 1
    BY <1>1, <1>5 DEF Gap, TableAt, IsHeader
  <2>3. SameStart(lines, M, e) /\ Len(M) \in Nat
    BY <1>1, <1>5, <2>2, InsertSplices DEF Spliced
  <2> QED
    BY <1>1, <2>1, <2>3, StartFinds
<1>6. M = lines \/ \E g, e : Gap(lines, other, g, e) /\ M = InsertAt(lines, e, Key(other, val))
  BY <1>1, <1>2, <1>3, EnsureIs
<1> QED
  BY <1>2, <1>4, <1>5, <1>6

\* See EnsureFinds.
LEMMA ReplaceFinds ==
  ASSUME NEW T, NEW lines \in Seq(Lines(T)), NEW val \in Vals(T),
         NEW key, NEW k, Found(lines, key, k),
         \A x : Found(lines, "exporter", x) => lines[x].kind = "key"
  PROVE  Found(ReplaceOrInsertTableKey(lines, "exporter", val), key, k)
<1>1. /\ Len(lines) \in Nat /\ Key("exporter", val) \in Lines(T) /\ Key("exporter", val).kind = "key"
      /\ Key("exporter", val).key = "exporter"
  <2>1. "exporter" \in Keys /\ Otel \in Paths
    BY DEF Keys, Paths
  <2> QED
    BY <2>1, NewLines, WrittenLines
<1>2. PICK M : M = ReplaceOrInsertTableKey(lines, "exporter", val)
  OBVIOUS
<1>3. ~ NoTable(lines)
  BY <1>1, FoundOnce
<1>4. ASSUME NEW g, NEW e, Gap(lines, "exporter", g, e), M = InsertAt(lines, e, Key("exporter", val))
      PROVE  Found(M, key, k)
  <2>1. k < e
    BY <1>1, <1>4, GapIsBehind
  <2>2. e \in 1 .. Len(lines) + 1
    BY <1>1, <1>4 DEF Gap, TableAt, IsHeader
  <2>3. SameStart(lines, M, e) /\ Len(M) \in Nat
    BY <1>1, <1>4, <2>2, InsertSplices DEF Spliced
  <2> QED
    BY <1>1, <2>1, <2>3, StartFinds
<1>5. ASSUME NEW x, Found(lines, "exporter", x), M = ReplaceAt(lines, x, Key("exporter", val))
      PROVE  Found(M, key, k)
  <2>1. x \in 1 .. Len(lines) /\ IsKey(lines, "exporter", x)
    BY <1>5 DEF Found, KeyAt, IsKey
  <2>2. lines[x].kind = "key"
    BY <1>5
  <2>3. /\ Len(M) = Len(lines) /\ M[x] = Key("exporter", val) /\ Spliced(lines, M, x, x + 1, x + 1)
        /\ Depth(M)[x] = Depth(lines)[x]
    BY <1>1, <1>5, <2>1, <2>2, ReplaceSplices
  <2>4. /\ \A i \in 1 .. x - 1 : SameSight(lines, i, M, i)
        /\ \A i \in x + 1 .. Len(M) : SameSight(lines, i + ((x + 1) - (x + 1)), M, i)
    BY <1>1, <2>3, SpliceSight
  <2>5. SameSight(lines, x, M, x)
    BY <1>1, <2>1, <2>2, <2>3 DEF SameSight, IsEnd, IsHeader, IsKey
  <2>6. \A i \in 1 .. Len(lines) : SameSight(lines, i, M, i)
    <3>1. ASSUME NEW i \in 1 .. Len(lines) PROVE SameSight(lines, i, M, i)
      <4>1. i < x => i \in 1 .. x - 1
        BY <2>1
      <4>2. i > x => i \in x + 1 .. Len(M) /\ i + ((x + 1) - (x + 1)) = i
        BY <2>1, <2>3
      <4> QED
        BY <2>1, <2>4, <2>5, <4>1, <4>2
    <3> QED
      BY <3>1
  <2>7. PICK h \in 1 .. Len(lines) : KeyAt(lines, key, h, k)
    BY DEF Found
  <2>8. k \in h + 1 .. Len(lines) /\ \A i \in h + 1 .. k - 1 : i \in 1 .. Len(lines)
    BY <1>1, <2>7 DEF KeyAt
  <2>9. TableAt(M, h)
    <3>1. \A i \in 1 .. h - 1 : i \in 1 .. Len(lines)
      BY <1>1
    <3> QED
      BY <2>6, <2>7, <3>1 DEF KeyAt, TableAt, SameSight
  <2>10. k \in 1 .. Len(lines)
    BY <1>1, <2>8
  <2>11. KeyAt(M, key, h, k)
    BY <2>3, <2>6, <2>7, <2>8, <2>9, <2>10 DEF KeyAt, SameSight
  <2> QED
    BY <2>3, <2>11 DEF Found
<1>6. \/ \E x : Found(lines, "exporter", x) /\ M = ReplaceAt(lines, x, Key("exporter", val))
      \/ \E g, e : Gap(lines, "exporter", g, e) /\ M = InsertAt(lines, e, Key("exporter", val))
  BY <1>1, <1>2, <1>3, ReplaceIs
<1> QED
  BY <1>2, <1>4, <1>5, <1>6

\* See EnsureFinds.
LEMMA RemoveFinds ==
  ASSUME NEW T, NEW lines \in Seq(Lines(T)), NEW key, NEW k, Found(lines, key, k)
  PROVE  \E l : Found(RemoveTable(lines, Stale), key, l)
<1>1. Len(lines) \in Nat
  OBVIOUS
<1>2. PICK M : M = RemoveTable(lines, Stale)
  OBVIOUS
<1>3. CASE M = lines
  BY <1>2, <1>3
<1>4. ASSUME NEW s, NEW e, Section(lines, Stale, s, e), M = Without(lines, s, e)
      PROVE  \E l : Found(M, key, l)
  <2>1. /\ s \in 1 .. Len(lines) /\ e \in s + 1 .. Len(lines) + 1 /\ Depth(lines)[s] = 0
        /\ e <= Len(lines) => IsEnd(lines, e)
        /\ IsEnd(lines, s) /\ IsHeader(lines, Stale, s)
    BY <1>1, <1>4 DEF Section, IsHeader, IsEnd
  <2>2. e <= Len(lines) => Depth(lines)[e] = 0
    BY <2>1 DEF IsEnd
  <2>3. /\ M \in Seq(Lines(T)) /\ Len(M) = Len(lines) - (e - s) /\ SameStart(lines, M, s)
        /\ e <= Len(lines) => Spliced(lines, M, s, e, s)
    BY <1>4, <2>1, <2>2, CutSplices
  <2>4. PICK h \in 1 .. Len(lines) : KeyAt(lines, key, h, k)
    BY DEF Found
  <2>5. k \in h + 1 .. Len(lines) /\ TableAt(lines, h) /\ IsKey(lines, key, k) /\ Len(M) \in Nat
    BY <2>3, <2>4 DEF KeyAt
  <2>6. s # h
    BY <2>1, <2>5, StaleIsOther DEF TableAt, IsHeader
  <2>7. CASE s > h
    <3>1. k # s
      BY <2>1, <2>5 DEF IsKey, IsEnd
    <3>2. ~ (s \in h + 1 .. k - 1)
      BY <2>1, <2>4 DEF KeyAt
    <3>3. k < s
      BY <2>1, <2>5, <2>7, <3>1, <3>2
    <3> QED
      BY <1>1, <2>3, <2>5, <3>3, StartFinds
  <2>8. CASE s < h
    <3>1. e <= Len(lines)
      <4>1. IsEnd(lines, h)
        BY <2>5 DEF TableAt, IsHeader, IsEnd
      <4>2. ~ (h \in s + 1 .. e - 1)
        BY <1>4, <4>1 DEF Section
      <4> QED
        BY <2>1, <2>8, <4>2
    <3>2. Spliced(lines, M, s, e, s)
      BY <2>3, <3>1
    <3>3. KeyAt(M, key, h - (e - s), k - (e - s)) /\ e <= h
      BY <1>1, <1>4, <2>4, <2>5, <2>8, <3>2, StaleIsOther, CutFinds
    <3>4. h - (e - s) \in 1 .. Len(M)
      BY <2>1, <2>3, <3>3
    <3> QED
      BY <3>3, <3>4 DEF Found
  <2> QED
    BY <2>1, <2>6, <2>7, <2>8
<1> QED
  BY <1>1, <1>2, <1>3, <1>4, RemoveIs

\* What the scanner finds when a key has been added is that one or was there.
LEMMA EnsureFindsNoOther ==
  ASSUME NEW T, NEW lines \in Seq(Lines(T)), NEW other \in Keys, NEW val \in Vals(T),
         ~ NoTable(lines), NEW key, key # other,
         NEW M, M = EnsureTableKey(lines, other, val), NEW x, Found(M, key, x)
  PROVE  Found(lines, key, x) /\ M[x] = lines[x]
<1>1. /\ Len(lines) \in Nat /\ Key(other, val) \in Lines(T)
      /\ Key(other, val).kind = "key" /\ Key(other, val).key = other
  <2>1. Otel \in Paths
    BY DEF Paths
  <2> QED
    BY <2>1, NewLines, WrittenLines
<1>2. ASSUME NEW h, NEW e, Gap(lines, other, h, e), M = InsertAt(lines, e, Key(other, val))
      PROVE  Found(lines, key, x) /\ M[x] = lines[x]
  <2>1. /\ TableAt(lines, h) /\ h \in 1 .. Len(lines)
        /\ e \in h + 1 .. Len(lines) + 1 /\ e \in 1 .. Len(lines) + 1
        /\ e = Len(lines) + 1 \/ IsEnd(lines, e)
    BY <1>1, <1>2 DEF Gap, TableAt, IsHeader
  <2>2. /\ Len(M) = Len(lines) + 1 /\ M[e] = Key(other, val) /\ Spliced(lines, M, e, e, e + 1)
        /\ SameStart(lines, M, e) /\ Len(M) \in Nat
    <3>1. /\ Len(M) = Len(lines) + 1 /\ M[e] = Key(other, val) /\ Spliced(lines, M, e, e, e + 1)
      BY <1>1, <1>2, <2>1, InsertSplices
    <3>2. SameStart(lines, M, e)
      BY <3>1 DEF Spliced
    <3> QED
      BY <1>1, <3>1, <3>2
  <2>3. PICK g \in 1 .. Len(M) : KeyAt(M, key, g, x)
    BY DEF Found
  <2>4. x \in g + 1 .. Len(M) /\ IsKey(M, key, x) /\ TableAt(M, g) /\ M[x].key = key
    BY <2>3 DEF KeyAt, IsKey
  <2>5. g = h
    <3>1. TableAt(M, h)
      BY <1>1, <2>1, <2>2, StartFinds
    <3> QED
      BY <2>2, <2>4, <3>1, FoundOnce
  <2>6. x # e
    BY <1>1, <2>2, <2>4
  <2>7. ASSUME x > e PROVE FALSE
    <3>1. e + 1 \in e + 1 .. Len(M) /\ IsEnd(lines, e) /\ (e + 1) + (e - (e + 1)) = e
      BY <2>1, <2>2, <2>4, <2>7
    <3>2. SameSight(lines, e, M, e + 1)
      BY <1>1, <2>2, <3>1, SpliceSight
    <3>3. IsEnd(M, e + 1)
      BY <3>1, <3>2 DEF SameSight
    <3>4. x # e + 1
      BY <2>4, <3>3 DEF IsEnd, IsKey
    <3>5. e + 1 \in g + 1 .. x - 1
      BY <2>1, <2>4, <2>5, <2>7, <3>4
    <3> QED
      BY <2>3, <3>3, <3>5 DEF KeyAt
  <2>8. x < e
    BY <2>1, <2>4, <2>5, <2>6, <2>7
  <2>9. SameStart(M, lines, e) /\ M[x] = lines[x]
    BY <2>1, <2>2, <2>3, <2>4, <2>8 DEF SameStart
  <2> QED
    BY <1>1, <2>2, <2>8, <2>9, StartFinds
<1>3. M = lines \/ \E g, e : Gap(lines, other, g, e) /\ M = InsertAt(lines, e, Key(other, val))
  BY <1>1, EnsureIsInTable
<1> QED
  BY <1>2, <1>3

\* See EnsureFinds.
LEMMA EditFinds ==
  ASSUME Absent \notin Tokens, NEW lines \in Seq(Lines(Tokens)), NEW port \in Ports, NEW token \in Tokens,
         NEW key, NEW k, Found(lines, key, k),
         \A x : Found(lines, "exporter", x) => lines[x].kind = "key"
  PROVE  \E l : Found(EditCodex(lines, port, token), key, l)
<1> DEFINE A(ls, i) == EnsureTableKey(ls, CodexScalars[i], Setups)
           Good(ls) == /\ ls \in Seq(Lines(Tokens)) /\ Found(ls, key, k)
                       /\ \A x : Found(ls, "exporter", x) => ls[x].kind = "key"
<1>1. \A i \in 1 .. 4 : CodexScalars[i] \in Keys /\ CodexScalars[i] # "exporter"
  BY ScalarsAreKeys
<1>2. ASSUME NEW ls, Good(ls), NEW i \in 1 .. 4
      PROVE  Good(A(ls, i))
  <2>1. Setups \in Vals(Tokens) /\ Len(ls) \in Nat
    BY <1>2 DEF Vals
  <2>2. ~ NoTable(ls)
    BY <1>2, <2>1, FoundOnce
  <2>3. A(ls, i) \in Seq(Lines(Tokens)) /\ Found(A(ls, i), key, k)
    BY <1>1, <1>2, <2>1, EnsureKeepsLines, EnsureFinds
  <2>4. ASSUME NEW x, Found(A(ls, i), "exporter", x) PROVE A(ls, i)[x].kind = "key"
    <3>1. PICK M : M = EnsureTableKey(ls, CodexScalars[i], Setups)
      OBVIOUS
    <3>2. Found(ls, "exporter", x) /\ M[x] = ls[x]
      BY <1>1, <1>2, <2>1, <2>2, <2>4, <3>1, EnsureFindsNoOther
    <3> QED
      BY <1>2, <3>1, <3>2
  <2> QED
    BY <2>3, <2>4
<1>3. EnsureScalars(lines) = A(A(A(A(lines, 1), 2), 3), 4)
  BY DEF EnsureScalars
<1>4. Good(lines)
  OBVIOUS
<1> HIDE DEF A, Good
<1>5. Good(EnsureScalars(lines))
  <2>1. Good(A(lines, 1))
    BY <1>2, <1>4
  <2>2. Good(A(A(lines, 1), 2))
    BY <1>2, <2>1
  <2>3. Good(A(A(A(lines, 1), 2), 3))
    BY <1>2, <2>2
  <2> QED
    BY <1>2, <1>3, <2>3
<1> DEFINE e == Exporter(port, token)
           B == ReplaceOrInsertTableKey(EnsureScalars(lines), "exporter", e)
<1>6. e \in Vals(Tokens) /\ "exporter" \in Keys
  BY DEF Exporter, Vals, Keys
<1>7. EditCodex(lines, port, token) = RemoveTable(RemoveTable(B, Stale), Stale)
  BY DEF EditCodex, EnsureCodexExporter
<1> HIDE DEF e
<1>8. B \in Seq(Lines(Tokens)) /\ Found(B, key, k)
  BY <1>5, <1>6, EnsureKeepsLines, ReplaceFinds DEF Good
<1> HIDE DEF B
<1>9. RemoveTable(B, Stale) \in Seq(Lines(Tokens)) /\ \E l : Found(RemoveTable(B, Stale), key, l)
  BY <1>8, RemoveKeepsLines, RemoveFinds
<1> QED
  BY <1>7, <1>9, RemoveFinds

\* Where the exporter is more than its first line, setup has not been: it adds
\* the metrics' exporter behind every other scalar. Behind(k): each line of it is
\* behind line k. Ahead: each has [otel] before it and then, by the time that tables
\* are cut out, either the wanted key or the end of a table.
Behind(lines, k) ==
  \A i \in 1 .. Len(lines) : lines[i].key = "metrics_exporter" => lines[i].kind = "key" /\ k < i
Meets(lines, key, h, i) ==
  \E g \in h + 1 .. i - 1 :
    IsEnd(lines, g) \/ (lines[g].kind \in {"key", "open"} /\ lines[g].key = key)
Ahead(lines, key) ==
  \A i \in 1 .. Len(lines) : lines[i].key = "metrics_exporter" =>
    /\ lines[i].kind = "key"
    /\ \E h \in 1 .. i - 1 : IsHeader(lines, Otel, h) /\ Meets(lines, key, h, i)

\* A scalar is added behind those that are found,
LEMMA EnsureBehind ==
  ASSUME NEW T, NEW lines \in Seq(Lines(T)), NEW other \in Keys, NEW val \in Vals(T),
         NEW key, NEW k, Found(lines, key, k), Behind(lines, k),
         NEW M, M = EnsureTableKey(lines, other, val)
  PROVE  Behind(M, k)
<1>1. /\ Len(lines) \in Nat /\ Key(other, val) \in Lines(T) /\ Key(other, val).kind = "key"
      /\ ~ NoTable(lines)
  <2>1. Otel \in Paths
    BY DEF Paths
  <2> QED
    BY <2>1, NewLines, WrittenLines, FoundOnce
<1>2. ASSUME NEW h, NEW e, Gap(lines, other, h, e), M = InsertAt(lines, e, Key(other, val))
      PROVE  Behind(M, k)
  <2>1. k < e /\ e \in 1 .. Len(lines) + 1 /\ k \in 1 .. Len(lines)
    <3>1. k < e
      BY <1>1, <1>2, GapIsBehind
    <3> QED
      BY <1>1, <1>2, <3>1 DEF Gap, TableAt, IsHeader, Found, KeyAt, IsKey
  <2>2. /\ Len(M) = Len(lines) + 1 /\ M[e] = Key(other, val) /\ Spliced(lines, M, e, e, e + 1)
    BY <1>1, <1>2, <2>1, InsertSplices
  <2>3. /\ \A i \in 1 .. e - 1 : M[i] = lines[i]
        /\ \A i \in e + 1 .. Len(M) : M[i] = lines[i + (e - (e + 1))]
    BY <2>2 DEF Spliced, SameStart
  <2>4. ASSUME NEW i \in 1 .. Len(M), M[i].key = "metrics_exporter"
        PROVE  M[i].kind = "key" /\ k < i
    <3>1. CASE i < e
      <4>1. i \in 1 .. e - 1 /\ i \in 1 .. Len(lines)
        BY <2>1, <3>1
      <4> QED
        BY <2>3, <2>4, <4>1 DEF Behind
    <3>2. CASE i = e
      BY <1>1, <2>1, <2>2, <3>2
    <3>3. CASE i > e
      <4>1. i \in e + 1 .. Len(M) /\ i + (e - (e + 1)) \in 1 .. Len(lines) /\ k < i
        BY <1>1, <2>1, <2>2, <3>3
      <4> QED
        BY <2>3, <2>4, <4>1 DEF Behind
    <3> QED
      BY <2>1, <3>1, <3>2, <3>3
  <2> QED
    BY <2>4 DEF Behind
<1>3. M = lines \/ \E h, e : Gap(lines, other, h, e) /\ M = InsertAt(lines, e, Key(other, val))
  BY <1>1, EnsureIsInTable
<1> QED
  BY <1>2, <1>3

\* all four of them,
LEMMA ScalarsBehind ==
  ASSUME NEW L \in Seq(Lines(Tokens)), NEW key, NEW k, Found(L, key, k), Behind(L, k),
         NEW x, Found(L, "exporter", x)
  PROVE  /\ EnsureScalars(L) \in Seq(Lines(Tokens)) /\ Behind(EnsureScalars(L), k)
         /\ Found(EnsureScalars(L), key, k) /\ Found(EnsureScalars(L), "exporter", x)
<1> DEFINE A(ls, i) == EnsureTableKey(ls, CodexScalars[i], Setups)
           Good(ls) == /\ ls \in Seq(Lines(Tokens)) /\ Behind(ls, k)
                       /\ Found(ls, key, k) /\ Found(ls, "exporter", x)
<1>1. ASSUME NEW ls, Good(ls), NEW i \in 1 .. 4 PROVE Good(A(ls, i))
  <2>1. Setups \in Vals(Tokens) /\ CodexScalars[i] \in Keys
    BY ScalarsAreKeys DEF Vals
  <2>2. A(ls, i) \in Seq(Lines(Tokens)) /\ Found(A(ls, i), key, k) /\ Found(A(ls, i), "exporter", x)
    BY <1>1, <2>1, EnsureKeepsLines, EnsureFinds
  <2>3. Behind(A(ls, i), k)
    <3>1. PICK M : M = EnsureTableKey(ls, CodexScalars[i], Setups)
      OBVIOUS
    <3>2. Behind(M, k)
      BY <1>1, <2>1, <3>1, EnsureBehind
    <3> QED
      BY <3>1, <3>2
  <2> QED
    BY <2>2, <2>3
<1>2. EnsureScalars(L) = A(A(A(A(L, 1), 2), 3), 4)
  BY DEF EnsureScalars
<1>3. Good(L)
  OBVIOUS
<1> HIDE DEF A, Good
<1>4. Good(A(L, 1))
  BY <1>1, <1>3
<1>5. Good(A(A(L, 1), 2))
  BY <1>1, <1>4
<1>6. Good(A(A(A(L, 1), 2), 3))
  BY <1>1, <1>5
<1>7. Good(EnsureScalars(L))
  BY <1>1, <1>2, <1>6
<1> QED
  BY <1>7 DEF Good

\* and it stays ahead when the exporter is set,
LEMMA ReplaceAhead ==
  ASSUME NEW T, NEW L \in Seq(Lines(T)), NEW val \in Vals(T), NEW key, key # "exporter",
         NEW k, Found(L, key, k), Behind(L, k), NEW x, Found(L, "exporter", x)
  PROVE  Ahead(ReplaceOrInsertTableKey(L, "exporter", val), key)
<1>1. /\ Len(L) \in Nat /\ Key("exporter", val) \in Lines(T) /\ Key("exporter", val).key = "exporter"
  <2>1. "exporter" \in Keys /\ Otel \in Paths
    BY DEF Keys, Paths
  <2> QED
    BY <2>1, NewLines, WrittenLines
<1>2. PICK M : M = ReplaceOrInsertTableKey(L, "exporter", val)
  OBVIOUS
<1>3. M = ReplaceAt(L, x, Key("exporter", val))
  <2>1. /\ ~ NoTable(L) /\ \A h, e : ~ Gap(L, "exporter", h, e)
        /\ \A y : Found(L, "exporter", y) => y = x
    BY <1>1, FoundOnce
  <2>2. \/ NoTable(L)
        \/ \E y : Found(L, "exporter", y) /\ M = ReplaceAt(L, y, Key("exporter", val))
        \/ \E h, e : Gap(L, "exporter", h, e)
    BY <1>1, <1>2, ReplaceIs
  <2> QED
    BY <2>1, <2>2
<1>4. PICK h \in 1 .. Len(L) : KeyAt(L, key, h, k) /\ KeyAt(L, "exporter", h, x)
  <2>1. PICK h \in 1 .. Len(L) : KeyAt(L, key, h, k)
    BY DEF Found
  <2>2. PICK g \in 1 .. Len(L) : KeyAt(L, "exporter", g, x)
    BY DEF Found
  <2>3. g = h
    BY <1>1, <2>1, <2>2, FoundOnce DEF KeyAt
  <2> QED
    BY <2>1, <2>2, <2>3
<1>5. /\ TableAt(L, h) /\ k \in h + 1 .. Len(L) /\ x \in h + 1 .. Len(L) /\ h < x /\ x \in 1 .. Len(L)
      /\ L[k].kind \in {"key", "open"} /\ L[k].key = key /\ k # x
  BY <1>1, <1>4 DEF KeyAt, IsKey
<1>6. /\ Len(M) = Len(L) /\ M[x] = Key("exporter", val) /\ SameStart(L, M, x)
      /\ \A i \in 1 .. Len(L) : i # x => M[i] = L[i]
  <2>1. PICK line \in Lines(T) : line = Key("exporter", val)
    BY <1>1
  <2>2. M = ReplaceAt(L, x, line) /\ x \in 1 .. Len(L)
    BY <1>3, <1>5, <2>1
  <2>3. /\ Len(M) = Len(L) /\ M[x] = line /\ SameStart(L, M, x)
        /\ \A i \in 1 .. Len(L) : i # x => M[i] = L[i]
    BY <2>2, ReplaceStarts
  <2> QED
    BY <2>1, <2>3
<1>7. IsHeader(M, Otel, h)
  <2>1. TableAt(M, h)
    BY <1>1, <1>5, <1>6, StartFinds
  <2> QED
    BY <2>1 DEF TableAt
<1>8. ASSUME NEW i \in 1 .. Len(M), M[i].key = "metrics_exporter"
      PROVE  /\ M[i].kind = "key"
             /\ \E g \in 1 .. i - 1 : IsHeader(M, Otel, g) /\ Meets(M, key, g, i)
  <2>1. i # x /\ M[i] = L[i] /\ i \in 1 .. Len(L)
    BY <1>1, <1>6, <1>8
  <2>2. M[i].kind = "key" /\ k < i
    BY <1>8, <2>1 DEF Behind
  <2>3. M[k] = L[k] /\ k \in h + 1 .. i - 1 /\ h \in 1 .. i - 1
    BY <1>1, <1>5, <1>6, <2>1, <2>2
  <2>4. Meets(M, key, h, i)
    BY <1>5, <2>3 DEF Meets
  <2> QED
    BY <1>7, <2>2, <2>3, <2>4
<1> QED
  BY <1>2, <1>8 DEF Ahead

\* and when the stale table is cut out: what is left of it is behind an end.
LEMMA RemoveAhead ==
  ASSUME NEW T, NEW L \in Seq(Lines(T)), NEW key, Ahead(L, key)
  PROVE  Ahead(RemoveTable(L, Stale), key)
<1>1. Len(L) \in Nat
  OBVIOUS
<1>2. PICK M : M = RemoveTable(L, Stale)
  OBVIOUS
<1>3. ASSUME NEW s, NEW e, Section(L, Stale, s, e), M = Without(L, s, e) PROVE Ahead(M, key)
  <2>1. /\ s \in 1 .. Len(L) /\ e \in s + 1 .. Len(L) + 1 /\ Depth(L)[s] = 0
        /\ e <= Len(L) => IsEnd(L, e) /\ Depth(L)[e] = 0
        /\ IsHeader(L, Stale, s) /\ \A i \in s + 1 .. e - 1 : ~ IsEnd(L, i)
    BY <1>1, <1>3 DEF Section, IsHeader, IsEnd
  <2>2. /\ Len(M) = Len(L) - (e - s) /\ SameStart(L, M, s)
        /\ \A i \in s .. Len(M) : M[i] = L[i + (e - s)]
        /\ e <= Len(L) => Spliced(L, M, s, e, s)
    BY <1>3, <2>1, CutSplices
  <2>3. Len(M) \in Nat /\ \A i \in 1 .. s - 1 : M[i] = L[i] /\ SameSight(L, i, M, i)
    <3>1. Len(M) \in Nat
      BY <1>1, <2>1, <2>2
    <3> QED
      BY <1>1, <2>2, <3>1, StartSight DEF SameStart
  <2> SUFFICES ASSUME NEW i \in 1 .. Len(M), M[i].key = "metrics_exporter"
               PROVE  /\ M[i].kind = "key"
                      /\ \E g \in 1 .. i - 1 : IsHeader(M, Otel, g) /\ Meets(M, key, g, i)
    BY DEF Ahead
  <2>4. CASE i < s
    <3>1. i \in 1 .. Len(L) /\ M[i] = L[i]
      BY <2>1, <2>3, <2>4
    <3>2. PICK h \in 1 .. i - 1 : IsHeader(L, Otel, h) /\ Meets(L, key, h, i)
      BY <3>1 DEF Ahead
    <3>3. PICK g \in h + 1 .. i - 1 :
            IsEnd(L, g) \/ (L[g].kind \in {"key", "open"} /\ L[g].key = key)
      BY <3>2 DEF Meets
    <3>4. h \in 1 .. s - 1 /\ g \in 1 .. s - 1
      BY <2>1, <2>4
    <3>5. IsHeader(M, Otel, h) /\ Meets(M, key, h, i)
      BY <2>3, <3>2, <3>3, <3>4 DEF SameSight, Meets
    <3> QED
      BY <3>1, <3>5 DEF Ahead
  <2>5. CASE i >= s
    <3>1. PICK d : d = e - s
      OBVIOUS
    <3>2. d \in Nat /\ d >= 1 /\ e <= Len(L) /\ i + d \in 1 .. Len(L) /\ M[i] = L[i + d] /\ e <= i + d
      BY <1>1, <2>1, <2>2, <2>5, <3>1
    <3>3. PICK n \in 1 .. Len(L) : n = i + d /\ L[n].key = "metrics_exporter" /\ L[n].kind = "key"
      BY <3>2 DEF Ahead
    <3>4. PICK h \in 1 .. n - 1 : IsHeader(L, Otel, h) /\ Meets(L, key, h, n)
      BY <3>3 DEF Ahead
    <3>5. PICK g \in h + 1 .. n - 1 :
            IsEnd(L, g) \/ (L[g].kind \in {"key", "open"} /\ L[g].key = key)
      BY <3>4 DEF Meets
    <3>6. \A j \in s .. Len(M) : M[j] = L[j + d] /\ SameSight(L, j + d, M, j)
      <4>1. ASSUME NEW j \in s .. Len(M) PROVE M[j] = L[j + d] /\ SameSight(L, j + d, M, j)
        <5>1. Spliced(L, M, s, e, s) /\ j + (e - s) = j + d
          BY <2>2, <3>1, <3>2
        <5>2. SameSight(L, j + (e - s), M, j)
          BY <1>1, <2>3, <5>1, SpliceSight
        <5> QED
          BY <2>2, <5>1, <5>2
      <4> QED
        BY <4>1
    <3>7. s # h /\ IsEnd(L, h) /\ h \in 1 .. Len(L)
      BY <2>1, <3>4, StaleIsOther DEF IsHeader, IsEnd
    <3>8. h < s \/ e <= h
      BY <1>1, <2>1, <3>7
    <3>9. CASE e <= h
      <4>1. /\ h - d \in s .. Len(M) /\ (h - d) + d = h /\ h - d \in 1 .. i - 1
            /\ g - d \in s .. Len(M) /\ (g - d) + d = g /\ g - d \in (h - d) + 1 .. i - 1
        BY <1>1, <2>1, <2>2, <3>1, <3>2, <3>3, <3>9
      <4>2. IsHeader(M, Otel, h - d)
        BY <3>4, <3>6, <4>1 DEF SameSight
      <4>3. Meets(M, key, h - d, i)
        BY <3>5, <3>6, <4>1 DEF SameSight, Meets
      <4> QED
        BY <3>2, <3>3, <4>1, <4>2, <4>3
    <3>10. CASE h < s
      <4>1. h \in 1 .. s - 1 /\ h \in 1 .. i - 1
        BY <2>1, <2>5, <3>10
      <4>2. IsHeader(M, Otel, h)
        BY <2>3, <3>4, <4>1 DEF SameSight
      <4>3. s < i /\ s \in s .. Len(M) /\ IsEnd(M, s)
        <5>1. IsEnd(L, e) /\ e # n
          BY <2>1, <3>2, <3>3 DEF IsEnd
        <5>2. s \in s .. Len(M) /\ s + d = e /\ s < i
          BY <1>1, <2>1, <2>3, <2>5, <3>1, <3>2, <3>3, <5>1
        <5> QED
          BY <3>6, <5>1, <5>2 DEF SameSight
      <4>4. Meets(M, key, h, i)
        <5>1. s \in h + 1 .. i - 1
          BY <2>1, <3>10, <4>1, <4>3
        <5> QED
          BY <4>3, <5>1 DEF Meets
      <4> QED
        BY <3>2, <3>3, <4>1, <4>2, <4>4
    <3> QED
      BY <3>8, <3>9, <3>10
  <2> QED
    BY <2>1, <2>4, <2>5
<1>4. M = L \/ \E s, e : Section(L, Stale, s, e) /\ M = Without(L, s, e)
  BY <1>1, <1>2, RemoveIs
<1> QED
  BY <1>2, <1>3, <1>4

\* So where TOML has the metrics' exporter in [otel], it has the wanted key there.
LEMMA AheadIsAssigned ==
  ASSUME NEW T, NEW M \in Seq(Lines(T)), Shaped(M), Once(M), NEW key, Ahead(M, key),
         NEW k \in Assigned(M, Otel), k.key = "metrics_exporter"
  PROVE  \E l \in Assigned(M, Otel) : l.key = key
<1>1. \A l : l \in Read(M).keys <=> \E i : Has(M, i, l)
  BY ShapedReads
<1>2. PICK i : Has(M, i, k)
  BY <1>1 DEF Assigned
<1>3. PICK h : /\ Under(M, i, h) /\ i \in KeyLines(M)
               /\ k = [table |-> PathOf(M, h), key |-> M[i].key, val |-> M[i].val]
  BY <1>2 DEF Has
<1>4. k.table = Otel /\ PathOf(M, h) = Otel /\ M[i].key = "metrics_exporter" /\ i \in 1 .. Len(M)
      /\ Len(M) \in Nat
  BY <1>3 DEF Assigned, KeyLines
<1>5. h \in Heads(M) /\ M[h].path = Otel /\ h \in 0 .. i /\ \A j \in h + 1 .. i : j \notin Heads(M)
  <2>1. Otel # <<>>
    BY DEF Otel
  <2> QED
    BY <1>3, <1>4, <2>1 DEF PathOf, Under
<1>6. PICK f \in 1 .. i - 1 : IsHeader(M, Otel, f) /\ Meets(M, key, f, i)
  BY <1>4 DEF Ahead
<1>7. f \in Heads(M) /\ M[f].path = Otel
  BY <1>6 DEF IsHeader, Heads
<1>8. f = h
  BY <1>5, <1>7 DEF Once
<1>9. PICK g \in h + 1 .. i - 1 :
        IsEnd(M, g) \/ (M[g].kind \in {"key", "open"} /\ M[g].key = key)
  BY <1>6, <1>8 DEF Meets
<1>10. g \in 1 .. Len(M) /\ g \notin Heads(M) /\ g \in h + 1 .. i
  BY <1>4, <1>5, <1>6, <1>8
<1>11. \/ Depth(M)[g] = 0 /\ M[g].kind \in {"header", "key", "open"}
       \/ M[g].kind \in {"elem", "close"} /\ Depth(M)[g] = 1
  BY <1>10 DEF Shaped
<1>12. ~ IsEnd(M, g)
  BY <1>10, <1>11 DEF IsEnd, Heads
<1>13. g \in KeyLines(M) /\ M[g].key = key
  BY <1>9, <1>10, <1>11, <1>12 DEF KeyLines
<1>14. Under(M, g, h)
  <2>1. h \in 0 .. g /\ \A j \in h + 1 .. g : j \in h + 1 .. i
    BY <1>4, <1>5, <1>10
  <2> QED
    BY <1>5, <2>1 DEF Under
<1>15. PICK l : l = [table |-> Otel, key |-> key, val |-> M[g].val]
  OBVIOUS
<1>16. Has(M, g, l)
  BY <1>4, <1>13, <1>14, <1>15 DEF Has
<1>17. l \in Read(M).keys /\ l.table = Otel /\ l.key = key
  BY <1>1, <1>15, <1>16
<1> QED
  BY <1>17 DEF Assigned

\* So the text of a plan that was verified is settled, whatever the file was.
LEMMA VerifiedIsSettled ==
  ASSUME Absent \notin Tokens, Absent # "setup", NEW L, Sound(L), NEW port \in Ports, NEW token \in Tokens,
         NEW M, M = EditCodex(L, port, token), Regular(M),
         VerifyCodexEdit(M, port, token, Added(L))
  PROVE  Settled(M, Exporter(port, token))
<1>1. L \in Seq(Lines(Tokens)) /\ M \in Seq(Lines(Tokens)) /\ Len(L) \in Nat
  BY EditKeepsLines DEF Sound
<1>2. Shaped(M) /\ Once(M)
  BY <1>1, RegularIsShaped, ShapedReads DEF VerifyCodexEdit
<1>3. ASSUME NEW key \in Added(L) PROVE \E k \in Assigned(M, Otel) : k.key = key
  <2>1. Value(M, Otel, key) = Setups
    BY <1>3 DEF VerifyCodexEdit
  <2>2. Setups # <<Absent, Absent>>
    BY DEF Setups
  <2> QED
    BY <2>1, <2>2 DEF Value
<1>4. ASSUME NEW key \in Range(CodexScalars), key \notin Added(L) PROVE \E k : Found(L, key, k)
  <2>1. PICK h : h = FindTable(L, Otel)
    OBVIOUS
  <2>2. PICK k : k = FindKey(L, h, key)
    OBVIOUS
  <2>3. h # 0 /\ k # 0
    BY <1>4, <2>1, <2>2 DEF Added
  <2>4. KeyAt(L, key, h, k)
    BY <1>1, <2>1, <2>2, <2>3, FindIs
  <2> QED
    BY <2>4 DEF Found, KeyAt, TableAt, IsHeader
<1>5. ASSUME \A x : Found(L, "exporter", x) => L[x].kind = "key",
             NEW key \in Range(CodexScalars), key \notin Added(L)
      PROVE  \E k \in Assigned(M, Otel) : k.key = key
  <2>1. PICK k : Found(L, key, k)
    BY <1>4, <1>5
  <2>2. \E l : Found(M, key, l)
    BY <1>1, <1>5, <2>1, EditFinds
  <2> QED
    BY <1>1, <1>2, <2>2, FoundIsAssigned
<1>6. ASSUME NEW x, Found(L, "exporter", x), L[x].kind # "key",
             NEW key \in Range(CodexScalars), key \notin Added(L)
      PROVE  \E k \in Assigned(M, Otel) : k.key = key
  <2>1. Fresh(L)
    <3>1. ~ Blind(L)
      BY <1>1, <1>6, FoundOnce DEF Blind, Shut
    <3>2. ASSUME NEW m \in Marked(L), Placed(L) PROVE FALSE
      <4>1. m = x
        BY <1>1, <1>6, <3>2, FoundOnce DEF Placed
      <4>2. L[m] = Key("exporter", Value(L, Otel, "exporter"))
        BY DEF Sound, Only
      <4> QED
        BY <1>6, <4>1, <4>2, WrittenLines
    <3> QED
      BY <3>1, <3>2 DEF Sound
  <2>2. PICK k : Found(L, key, k)
    BY <1>4, <1>6
  <2>3. Behind(L, k)
    BY <2>1 DEF Fresh, Behind
  <2>4. "metrics_exporter" \in Added(L)
    <3>1. "metrics_exporter" \in Range(CodexScalars)
      BY DEF CodexScalars, Range
    <3>2. \A i : ~ Found(L, "metrics_exporter", i)
      BY <2>1 DEF Fresh, Found, KeyAt, IsKey
    <3> QED
      BY <1>4, <3>1, <3>2
  <2>5. key # "exporter"
    <3>1. \A n \in 1 .. 4 : CodexScalars[n] # "exporter"
      BY ScalarsAreKeys
    <3>2. Range(CodexScalars) = {CodexScalars[n] : n \in 1 .. 4}
      BY DEF CodexScalars, Range
    <3> QED
      BY <3>1, <3>2
  <2>6. PICK A : A = EnsureScalars(L)
    OBVIOUS
  <2>7. PICK e : e = Exporter(port, token)
    OBVIOUS
  <2>8. PICK B : B = ReplaceOrInsertTableKey(A, "exporter", e)
    OBVIOUS
  <2>9. PICK C : C = RemoveTable(B, Stale)
    OBVIOUS
  <2>10. M = RemoveTable(C, Stale)
    BY <2>6, <2>7, <2>8, <2>9 DEF EditCodex, EnsureCodexExporter
  <2>11. e \in Vals(Tokens) /\ "exporter" \in Keys
    BY <2>7 DEF Exporter, Vals, Keys
  <2>12. /\ A \in Seq(Lines(Tokens)) /\ Behind(A, k)
         /\ Found(A, key, k) /\ Found(A, "exporter", x)
    BY <1>1, <1>6, <2>2, <2>3, <2>6, ScalarsBehind
  <2>13. B \in Seq(Lines(Tokens)) /\ Ahead(B, key)
    BY <2>5, <2>8, <2>11, <2>12, EnsureKeepsLines, ReplaceAhead
  <2>14. C \in Seq(Lines(Tokens)) /\ Ahead(C, key)
    BY <2>9, <2>13, RemoveKeepsLines, RemoveAhead
  <2>15. Ahead(M, key)
    BY <2>10, <2>14, RemoveAhead
  <2>16. PICK l \in Assigned(M, Otel) : l.key = "metrics_exporter"
    BY <1>3, <2>4
  <2> QED
    BY <1>1, <1>2, <2>15, <2>16, AheadIsAssigned
<1>7. \A key \in Range(CodexScalars) : \E k \in Assigned(M, Otel) : k.key = key
  BY <1>3, <1>5, <1>6
<1> QED
  BY <1>7 DEF Settled, VerifyCodexEdit
-----------------------------------------------------------------------------
\* A file into which w lines are put before line a: where each line of it comes
\* to be, at the depth at which it was.
Up(i, a, w) == IF i < a THEN i ELSE i + w
Inserted(S, B, a, w) ==
  /\ a \in 1 .. Len(S) + 1 /\ w \in Nat /\ Len(B) = Len(S) + w
  /\ \A i \in 1 .. Len(S) : B[Up(i, a, w)] = S[i] /\ Depth(B)[Up(i, a, w)] = Depth(S)[i]
  /\ EndDepth(B) = EndDepth(S)

\* Each line that is there then was put in or was there before.
LEMMA UpCovers ==
  ASSUME NEW n \in Nat, NEW a \in 1 .. n + 1, NEW w \in Nat, NEW j \in 1 .. n + w
  PROVE  j \in a .. a + w - 1 \/ \E i \in 1 .. n : j = Up(i, a, w)
<1>1. CASE j < a
  <2>1. j \in 1 .. n /\ Up(j, a, w) = j
    BY <1>1 DEF Up
  <2> QED
    BY <2>1
<1>2. CASE j >= a + w
  <2>1. j - w \in 1 .. n /\ Up(j - w, a, w) = j
    BY <1>2 DEF Up
  <2> QED
    BY <2>1
<1> QED
  BY <1>1, <1>2

\* What is put in takes no line of the file out of its table: it has no header,
\* or there is nothing behind it before the next one.
Apart(S, B, a, w) ==
  \/ \A j \in a .. a + w - 1 : j \notin Heads(B)
  \/ a = Len(S) + 1
  \/ a \in Heads(S)

\* So the lines that were there assign what they did.
LEMMA Carry ==
  ASSUME NEW S, NEW B, Len(S) \in Nat, Len(B) \in Nat, NEW a, NEW w, Inserted(S, B, a, w)
  PROVE  /\ \A i \in 1 .. Len(S) :
              /\ Up(i, a, w) \in 1 .. Len(B) /\ Up(i, a, w) \notin a .. a + w - 1
              /\ B[Up(i, a, w)] = S[i]
              /\ Up(i, a, w) \in Heads(B) <=> i \in Heads(S)
              /\ Up(i, a, w) \in KeyLines(B) <=> i \in KeyLines(S)
         /\ \A i, m \in 1 .. Len(S) : i < m <=> Up(i, a, w) < Up(m, a, w)
         /\ Apart(S, B, a, w) => \A i \in 1 .. Len(S) : \A k : Has(B, Up(i, a, w), k) <=> Has(S, i, k)
<1> DEFINE u(i) == Up(i, a, w)
<1>1. /\ a \in 1 .. Len(S) + 1 /\ w \in Nat /\ Len(B) = Len(S) + w
      /\ \A i \in 1 .. Len(S) : B[u(i)] = S[i] /\ Depth(B)[u(i)] = Depth(S)[i]
  BY DEF Inserted
<1> HIDE DEF u
<1>2. ASSUME NEW j \in 1 .. Len(B), j \notin a .. a + w - 1 PROVE \E i \in 1 .. Len(S) : j = u(i)
  <2>1. j \in 1 .. Len(S) + w
    BY <1>1
  <2>2. j \in a .. a + w - 1 \/ \E i \in 1 .. Len(S) : j = Up(i, a, w)
    BY <1>1, <2>1, UpCovers DEF Up
  <2> QED
    BY <1>2, <2>2 DEF u
<1>3. ASSUME NEW i \in 1 .. Len(S) PROVE u(i) \in 1 .. Len(B) /\ u(i) \notin a .. a + w - 1
  BY <1>1 DEF u, Up
<1>4. \A i \in 1 .. Len(S) : /\ u(i) \in Heads(B) <=> i \in Heads(S)
                             /\ u(i) \in KeyLines(B) <=> i \in KeyLines(S)
  BY <1>1, <1>3 DEF Heads, KeyLines
<1>5. \A i, m \in 1 .. Len(S) : i < m <=> u(i) < u(m)
  BY <1>1 DEF u, Up
<1>6. ASSUME Apart(S, B, a, w), NEW i \in 1 .. Len(S), NEW k PROVE Has(B, u(i), k) <=> Has(S, i, k)
  <2>1. PICK h : Under(S, i, h)
    BY UnderIs
  <2>2. h \in 0 .. i /\ (h # 0 => h \in Heads(S)) /\ \A j \in h + 1 .. i : j \notin Heads(S)
    BY <2>1 DEF Under
  <2>3. PICK g : g = IF h = 0 THEN 0 ELSE u(h)
    OBVIOUS
  <2>4. /\ h # 0 => h \in 1 .. Len(S) /\ g = u(h)
        /\ g \in 0 .. u(i)
    BY <1>1, <2>2, <2>3 DEF u, Up
  <2>5. g # 0 => g \in Heads(B)
    BY <1>4, <2>2, <2>3, <2>4
  <2>6. ASSUME NEW j \in g + 1 .. u(i), j \in Heads(B) PROVE FALSE
    <3>1. j \in 1 .. Len(B)
      BY <2>6 DEF Heads
    <3>2. CASE j \notin a .. a + w - 1
      <4>1. PICK m \in 1 .. Len(S) : j = u(m)
        BY <1>2, <3>1, <3>2
      <4>2. m \in Heads(S)
        BY <1>4, <2>6, <4>1
      <4>3. m \in h + 1 .. i
        BY <1>1, <2>2, <2>4, <4>1 DEF u, Up
      <4> QED
        BY <2>2, <4>2, <4>3
    <3>3. CASE j \in a .. a + w - 1
      <4>1. i >= a
        BY <1>1, <2>4, <3>3 DEF u, Up
      <4>2. a \in Heads(S)
        BY <1>1, <1>6, <2>6, <3>3, <4>1 DEF Apart
      <4>3. ~ (a \in h + 1 .. i)
        BY <2>2, <4>2
      <4>4. h >= a
        BY <1>1, <2>2, <4>1, <4>3
      <4>5. g = h + w
        BY <1>1, <2>2, <2>4, <4>4 DEF u, Up
      <4> QED
        BY <1>1, <2>4, <3>3, <4>4, <4>5
    <3> QED
      BY <3>2, <3>3
  <2>7. Under(B, u(i), g)
    BY <2>4, <2>5, <2>6 DEF Under
  <2>8. PathOf(B, g) = PathOf(S, h)
    <3>1. CASE h = 0
      BY <2>3, <3>1 DEF PathOf
    <3>2. CASE h # 0
      <4>1. g = u(h) /\ h \in 1 .. Len(S) /\ g # 0
        BY <1>3, <2>4, <3>2
      <4>2. B[g] = S[h]
        BY <1>1, <4>1
      <4> QED
        BY <3>2, <4>1, <4>2 DEF PathOf
    <3> QED
      BY <3>1, <3>2
  <2>9. (\A f : Under(S, i, f) <=> f = h) /\ (\A f : Under(B, u(i), f) <=> f = g)
    <3>1. u(i) \in Nat
      BY <1>3
    <3> QED
      BY <2>1, <2>7, <3>1, UnderIs
  <2>10. B[u(i)] = S[i]
    BY <1>1
  <2> QED
    BY <1>4, <2>8, <2>9, <2>10 DEF Has
<1> QED
  BY <1>1, <1>2, <1>3, <1>4, <1>5, <1>6 DEF u

\* A line that a shaped file may have.
Fits(lines, i) ==
  /\ lines[i].kind \notin {"odd", "tight", "prose"} /\ lines[i].form # "string"
  /\ \/ Depth(lines)[i] = 0 /\ lines[i].kind \in {"header", "key", "open"}
     \/ Depth(lines)[i] = 1 /\ (lines[i].kind = "elem" \/ (lines[i].kind = "close" /\ lines[i].form = "array"))

\* What is put in, if it is the same as nothing else.
Single(B, a, w) ==
  /\ \A j \in a .. a + w - 1 : \A i \in Heads(B) : j \in Heads(B) /\ B[i].path = B[j].path => i = j
  /\ \A j \in a .. a + w - 1 : \A i, k, l :
       Has(B, j, k) /\ Has(B, i, l) /\ k.table = l.table /\ k.key = l.key => i = j

\* So the file is shaped, and has each thing once, if it was, and did; and has
\* what it had, and what was put in.
LEMMA InsertedReads ==
  ASSUME NEW T, NEW S \in Seq(Lines(T)), NEW B \in Seq(Lines(T)), NEW a, NEW w,
         Inserted(S, B, a, w), Apart(S, B, a, w)
  PROVE  /\ Shaped(B) <=> Shaped(S) /\ \A j \in a .. a + w - 1 : Fits(B, j)
         /\ Once(B) => Once(S)
         /\ Once(S) /\ Single(B, a, w) => Once(B)
         /\ Shaped(B) =>
              /\ \A t : t \in Read(B).tables <=>
                   \/ t \in Read(S).tables
                   \/ \E j \in a .. a + w - 1 : j \in Heads(B) /\ t = B[j].path
              /\ \A k : k \in Read(B).keys <=>
                   k \in Read(S).keys \/ \E j \in a .. a + w - 1 : Has(B, j, k)
<1> DEFINE u(i) == Up(i, a, w)
           In == a .. a + w - 1
<1>1. /\ Len(S) \in Nat /\ Len(B) \in Nat /\ a \in 1 .. Len(S) + 1 /\ w \in Nat /\ Len(B) = Len(S) + w
      /\ \A i \in 1 .. Len(S) : Depth(B)[u(i)] = Depth(S)[i]
      /\ EndDepth(B) = EndDepth(S)
  BY DEF Inserted
<1>2. /\ \A j \in 1 .. Len(B) : j \in In \/ \E i \in 1 .. Len(S) : j = u(i)
      /\ \A i \in 1 .. Len(S) :
           /\ u(i) \in 1 .. Len(B) /\ u(i) \notin In /\ B[u(i)] = S[i]
           /\ u(i) \in Heads(B) <=> i \in Heads(S)
      /\ \A i, m \in 1 .. Len(S) : i < m <=> u(i) < u(m)
      /\ \A i \in 1 .. Len(S) : \A k : Has(B, u(i), k) <=> Has(S, i, k)
  <2> HIDE DEF u, In
  <2>1. \A j \in 1 .. Len(B) : j \in In \/ \E i \in 1 .. Len(S) : j = u(i)
    BY <1>1, UpCovers DEF u, In, Up
  <2>2. \A i \in 1 .. Len(S) :
           /\ u(i) \in 1 .. Len(B) /\ u(i) \notin In /\ B[u(i)] = S[i]
           /\ u(i) \in Heads(B) <=> i \in Heads(S)
    BY <1>1, Carry DEF u, In
  <2>3. \A i, m \in 1 .. Len(S) : i < m <=> u(i) < u(m)
    BY <1>1, Carry DEF u, In
  <2>4. \A i \in 1 .. Len(S) : \A k : Has(B, u(i), k) <=> Has(S, i, k)
    BY <1>1, Carry DEF u, In
  <2> QED
    BY <2>1, <2>2, <2>3, <2>4
<1>3. In \subseteq 1 .. Len(B)
  BY <1>1
<1>4. /\ DOMAIN S = 1 .. Len(S) /\ DOMAIN B = 1 .. Len(B)
      /\ Heads(S) \subseteq 1 .. Len(S) /\ Heads(B) \subseteq 1 .. Len(B)
      /\ \A i, k : Has(S, i, k) => i \in 1 .. Len(S)
      /\ \A i, k : Has(B, i, k) => i \in 1 .. Len(B)
  BY DEF Heads, Has, KeyLines
<1>5. \A i, m \in 1 .. Len(S) : u(i) = u(m) => i = m
  <2>1. \A i, m \in 1 .. Len(S) : u(i) = u(m) => ~ (i < m) /\ ~ (m < i)
    <3>1. \A i \in 1 .. Len(S) : ~ (u(i) < u(i))
      BY <1>2
    <3> QED
      BY <1>2, <3>1
  <2> HIDE DEF u
  <2> QED
    BY <2>1
<1> HIDE DEF u, In
<1>6. Shaped(B) <=> Shaped(S) /\ \A j \in In : Fits(B, j)
  <2>1. Shaped(S) <=> EndDepth(S) = 0 /\ \A i \in 1 .. Len(S) : Fits(S, i)
    BY <1>4 DEF Shaped, Regular, Fits
  <2>2. Shaped(B) <=> EndDepth(B) = 0 /\ \A i \in 1 .. Len(B) : Fits(B, i)
    BY <1>4 DEF Shaped, Regular, Fits
  <2>3. \A i \in 1 .. Len(S) : Fits(B, u(i)) <=> Fits(S, i)
    BY <1>1, <1>2 DEF Fits
  <2> QED
    BY <1>1, <1>2, <1>3, <2>1, <2>2, <2>3
<1>7. ASSUME Once(B) PROVE Once(S)
  <2>1. ASSUME NEW i \in Heads(S), NEW j \in Heads(S), S[i].path = S[j].path PROVE i = j
    <3>1. u(i) \in Heads(B) /\ u(j) \in Heads(B) /\ B[u(i)].path = B[u(j)].path
      BY <1>2, <1>4, <2>1
    <3> QED
      BY <1>4, <1>5, <1>7, <3>1 DEF Once
  <2>2. ASSUME NEW i, NEW j, NEW k, NEW l, Has(S, i, k), Has(S, j, l), k.table = l.table, k.key = l.key
        PROVE  i = j
    <3>1. i \in 1 .. Len(S) /\ j \in 1 .. Len(S) /\ Has(B, u(i), k) /\ Has(B, u(j), l)
      BY <1>2, <1>4, <2>2
    <3> QED
      BY <1>5, <1>7, <2>2, <3>1 DEF Once
  <2> QED
    BY <2>1, <2>2 DEF Once
<1>8. ASSUME Once(S), Single(B, a, w) PROVE Once(B)
  <2>1. ASSUME NEW i \in Heads(B), NEW j \in Heads(B), B[i].path = B[j].path PROVE i = j
    <3>1. CASE i \in In \/ j \in In
      BY <1>8, <2>1, <3>1 DEF Single, In
    <3>2. CASE i \notin In /\ j \notin In
      <4>1. PICK m \in 1 .. Len(S) : i = u(m)
        BY <1>2, <1>4, <3>2
      <4>2. PICK n \in 1 .. Len(S) : j = u(n)
        BY <1>2, <1>4, <3>2
      <4>3. m \in Heads(S) /\ n \in Heads(S) /\ S[m].path = S[n].path
        BY <1>2, <2>1, <4>1, <4>2
      <4> QED
        BY <1>8, <4>1, <4>2, <4>3 DEF Once
    <3> QED
      BY <3>1, <3>2
  <2>2. ASSUME NEW i, NEW j, NEW k, NEW l, Has(B, i, k), Has(B, j, l), k.table = l.table, k.key = l.key
        PROVE  i = j
    <3>1. CASE i \in In \/ j \in In
      BY <1>8, <2>2, <3>1 DEF Single, In
    <3>2. CASE i \notin In /\ j \notin In
      <4>1. PICK m \in 1 .. Len(S) : i = u(m)
        BY <1>2, <1>4, <2>2, <3>2
      <4>2. PICK n \in 1 .. Len(S) : j = u(n)
        BY <1>2, <1>4, <2>2, <3>2
      <4>3. Has(S, m, k) /\ Has(S, n, l)
        BY <1>2, <2>2, <4>1, <4>2
      <4> QED
        BY <1>8, <2>2, <4>1, <4>2, <4>3 DEF Once
    <3> QED
      BY <3>1, <3>2
  <2> QED
    BY <2>1, <2>2 DEF Once
<1>9. ASSUME Shaped(B)
      PROVE  /\ \A t : t \in Read(B).tables <=> t \in Read(S).tables \/ \E j \in In : j \in Heads(B) /\ t = B[j].path
             /\ \A k : k \in Read(B).keys <=> k \in Read(S).keys \/ \E j \in In : Has(B, j, k)
  <2>1. Shaped(S)
    BY <1>6, <1>9
  <2>2. /\ \A t : t \in Read(S).tables <=> \E i \in Heads(S) : t = S[i].path
        /\ \A k : k \in Read(S).keys <=> \E i : Has(S, i, k)
    BY <2>1, ShapedReads
  <2>3. /\ \A t : t \in Read(B).tables <=> \E i \in Heads(B) : t = B[i].path
        /\ \A k : k \in Read(B).keys <=> \E i : Has(B, i, k)
    BY <1>9, ShapedReads
  <2>4. \A t : (\E i \in Heads(B) : t = B[i].path) <=>
          (\E i \in Heads(S) : t = S[i].path) \/ \E j \in In : j \in Heads(B) /\ t = B[j].path
    <3>1. ASSUME NEW i \in Heads(B), i \notin In PROVE \E m \in Heads(S) : B[i].path = S[m].path
      <4>1. PICK m \in 1 .. Len(S) : i = u(m)
        BY <1>2, <1>4, <3>1
      <4> QED
        BY <1>2, <4>1
    <3>2. \A i \in Heads(S) : u(i) \in Heads(B) /\ B[u(i)].path = S[i].path
      BY <1>2, <1>4
    <3> QED
      BY <3>1, <3>2
  <2>5. \A k : (\E i : Has(B, i, k)) <=> (\E i : Has(S, i, k)) \/ \E j \in In : Has(B, j, k)
    <3>1. ASSUME NEW k, NEW i, Has(B, i, k), i \notin In PROVE \E m : Has(S, m, k)
      <4>1. PICK m \in 1 .. Len(S) : i = u(m)
        BY <1>2, <1>4, <3>1
      <4> QED
        BY <1>2, <3>1, <4>1
    <3>2. \A i, k : Has(S, i, k) => Has(B, u(i), k)
      BY <1>2, <1>4
    <3> QED
      BY <3>1, <3>2
  <2> QED
    BY <2>2, <2>3, <2>4, <2>5
<1> QED
  BY <1>6, <1>7, <1>8, <1>9 DEF In
-----------------------------------------------------------------------------
\* The lines that setup writes are such as a shaped file may have.
LEMMA KeyFits ==
  ASSUME NEW lines, NEW j, Depth(lines)[j] = 0,
         (\E key, val : lines[j] = Key(key, val)) \/ \E path : lines[j] = Header(path)
  PROVE  Fits(lines, j)
<1>1. lines[j].kind \in {"key", "header"} /\ lines[j].form = ""
  <2>1. ASSUME NEW key, NEW val, lines[j] = Key(key, val)
        PROVE  lines[j].kind = "key" /\ lines[j].form = ""
    <3>1. Key(key, val).kind = "key" /\ Key(key, val).form = ""
      BY DEF Key, Line
    <3> QED
      BY <2>1, <3>1
  <2>2. ASSUME NEW path, lines[j] = Header(path)
        PROVE  lines[j].kind = "header" /\ lines[j].form = ""
    <3>1. Header(path).kind = "header" /\ Header(path).form = ""
      BY DEF Header, Line
    <3> QED
      BY <2>2, <3>1
  <2> QED
    BY <2>1, <2>2
<1> QED
  BY <1>1 DEF Fits

\* The tables that some of the lines open.
Opened(lines, In, t) == \E j \in In : j \in Heads(lines) /\ t = lines[j].path

\* See InsertedReads.
LEMMA InsertedContent ==
  ASSUME NEW T, NEW S \in Seq(Lines(T)), NEW B \in Seq(Lines(T)), NEW a, NEW w, NEW In,
         Inserted(S, B, a, w), Apart(S, B, a, w), Shaped(B),
         \A j : j \in In <=> j \in a .. a + w - 1
  PROVE  /\ \A t : t \in Read(B).tables <=> t \in Read(S).tables \/ Opened(B, In, t)
         /\ \A k : k \in Read(B).keys <=> k \in Read(S).keys \/ \E j \in In : Has(B, j, k)
<1>1. \A t : t \in Read(B).tables <=>
        t \in Read(S).tables \/ \E j \in a .. a + w - 1 : j \in Heads(B) /\ t = B[j].path
  BY InsertedReads
<1>2. \A k : k \in Read(B).keys <=>
        k \in Read(S).keys \/ \E j \in a .. a + w - 1 : Has(B, j, k)
  BY InsertedReads
<1>3. \A t : (\E j \in a .. a + w - 1 : j \in Heads(B) /\ t = B[j].path) <=> Opened(B, In, t)
  BY DEF Opened
<1>4. \A k : (\E j \in a .. a + w - 1 : Has(B, j, k)) <=> \E j \in In : Has(B, j, k)
  OBVIOUS
<1> QED
  BY <1>1, <1>2, <1>3, <1>4

\* A key that [otel] lacks is assigned there once it is inserted, and nothing
\* else is changed,
LEMMA InsertAdds ==
  ASSUME NEW T, NEW L \in Seq(Lines(T)), Shaped(L), Once(L), NEW key \in Keys, NEW val \in Vals(T),
         NEW h, NEW e, Gap(L, key, h, e), NEW M, M = InsertAt(L, e, Key(key, val)),
         NEW new, new = [table |-> Otel, key |-> key, val |-> val]
  PROVE  /\ M \in Seq(Lines(T)) /\ Shaped(M) /\ Once(M)
         /\ Read(M).tables = Read(L).tables
         /\ Read(M).keys = Read(L).keys \cup {new}
<1> DEFINE line == Key(key, val)
<1>1. line \in Lines(T) /\ line.kind = "key" /\ line.key = key /\ line.val = val /\ Len(L) \in Nat
  <2>1. Otel \in Paths
    BY DEF Paths
  <2> QED
    BY <2>1, NewLines, WrittenLines
<1>2. /\ h \in 1 .. Len(L) /\ e \in h + 1 .. Len(L) + 1 /\ e \in 1 .. Len(L) + 1
      /\ e = Len(L) + 1 \/ IsEnd(L, e)
  BY <1>1 DEF Gap, TableAt, IsHeader
<1>3. Depth(L)[e] = 0
  BY <1>2 DEF IsEnd, Shaped, EndDepth
<1> HIDE DEF line
<1>4. /\ M \in Seq(Lines(T)) /\ Len(M) = Len(L) + 1 /\ M[e] = line /\ Spliced(L, M, e, e, e + 1)
      /\ Depth(M)[e] = 0
  BY <1>1, <1>2, <1>3, InsertSplices DEF line
<1>5. Found(M, key, e)
  BY <1>1, <1>3, InsertFinds DEF line
<1>6. Len(M) \in Nat /\ SameStart(L, M, e)
  BY <1>4 DEF Spliced
<1>7. Inserted(L, M, e, 1)
  <2>1. /\ \A i \in 1 .. e : Depth(M)[i] = Depth(L)[i]
        /\ \A i \in e + 1 .. Len(M) : Depth(M)[i] = Depth(L)[i + (e - (e + 1))]
        /\ EndDepth(M) = EndDepth(L)
    BY <1>1, <1>4, <1>6, SpliceSight, StartSight
  <2>2. /\ \A i \in 1 .. e - 1 : M[i] = L[i]
        /\ \A i \in e + 1 .. Len(M) : M[i] = L[i + (e - (e + 1))]
    BY <1>4, <1>6 DEF Spliced, SameStart
  <2>3. ASSUME NEW i \in 1 .. Len(L) PROVE M[Up(i, e, 1)] = L[i] /\ Depth(M)[Up(i, e, 1)] = Depth(L)[i]
    <3>1. CASE i < e
      <4>1. i \in 1 .. e - 1 /\ i \in 1 .. e /\ Up(i, e, 1) = i
        BY <1>2, <3>1 DEF Up
      <4> QED
        BY <2>1, <2>2, <4>1
    <3>2. CASE i >= e
      <4>1. i + 1 \in e + 1 .. Len(M) /\ (i + 1) + (e - (e + 1)) = i /\ Up(i, e, 1) = i + 1
        BY <1>2, <1>4, <3>2 DEF Up
      <4> QED
        BY <2>1, <2>2, <4>1
    <3> QED
      BY <1>2, <3>1, <3>2
  <2> QED
    BY <1>2, <1>4, <2>1, <2>3 DEF Inserted
<1>8. e .. e + 1 - 1 = {e}
  BY <1>2
<1>9. e \notin Heads(M) /\ Fits(M, e)
  BY <1>1, <1>4, KeyFits DEF Heads, line
<1>10. Apart(L, M, e, 1)
  BY <1>8, <1>9 DEF Apart
<1>11. \A k : Has(M, e, k) <=> k = new
  <2>1. new = [table |-> Otel, key |-> key, val |-> M[e].val]
    BY <1>1, <1>4
  <2>2. Has(M, e, new)
    BY <1>5, <1>6, <2>1, FoundHas
  <2> QED
    BY <1>6, <2>2, HasOnce
<1>12. \A k \in Read(L).keys : ~ (k.table = Otel /\ k.key = key)
  <2>1. \A k : ~ Found(L, key, k)
    BY <1>1, FoundOnce
  <2> QED
    BY <2>1, FoundIsAssigned DEF Assigned
<1>13. \A k : k \in Read(L).keys <=> \E i : Has(L, i, k)
  BY ShapedReads
<1>14. Single(M, e, 1)
  <2> SUFFICES ASSUME NEW i, NEW k, NEW l, Has(M, e, k), Has(M, i, l), k.table = l.table, k.key = l.key,
                      i # e
               PROVE  FALSE
    BY <1>8, <1>9 DEF Single
  <2>1. k.table = Otel /\ k.key = key
    BY <1>11
  <2>2. i \in 1 .. Len(L) + 1
    BY <1>4 DEF Has, KeyLines
  <2>3. PICK m \in 1 .. Len(L) : i = Up(m, e, 1)
    <3>1. \E m \in 1 .. Len(L) : i = Up(m, e, 1)
      <4>1. i \in e .. e + 1 - 1 \/ \E m \in 1 .. Len(L) : i = Up(m, e, 1)
        BY <1>1, <1>2, <2>2, UpCovers DEF Up
      <4> QED
        BY <1>8, <4>1
    <3> QED
      BY <3>1
  <2>4. Has(L, m, l)
    BY <1>1, <1>6, <1>7, <1>10, <2>3, Carry
  <2> QED
    BY <1>12, <1>13, <2>1, <2>4
<1>15. Shaped(M) /\ Once(M)
  BY <1>4, <1>7, <1>8, <1>9, <1>10, <1>14, InsertedReads
<1>16. /\ \A t : t \in Read(M).tables <=> t \in Read(L).tables
       /\ \A k : k \in Read(M).keys <=> k \in Read(L).keys \/ k = new
  BY <1>4, <1>7, <1>8, <1>9, <1>10, <1>11, <1>15, InsertedReads
<1> QED
  BY <1>4, <1>15, <1>16

\* and so it is, with the table, if there is none.
LEMMA AppendAdds ==
  ASSUME NEW T, NEW L \in Seq(Lines(T)), Shaped(L), Once(L), NEW key \in Keys, NEW val \in Vals(T),
         NoTable(L), NEW new, new = [table |-> Otel, key |-> key, val |-> val]
  PROVE  LET M == L \o <<Header(Otel), Key(key, val)>>
         IN /\ M \in Seq(Lines(T)) /\ Shaped(M) /\ Once(M)
            /\ Read(M).tables = Read(L).tables \cup {Otel}
            /\ Read(M).keys = Read(L).keys \cup {new}
<1> DEFINE line == Key(key, val)
           M == L \o <<Header(Otel), Key(key, val)>>
<1>0. PICK n \in Nat : n = Len(L)
  OBVIOUS
<1>1. /\ line \in Lines(T) /\ line.kind = "key" /\ line.key = key /\ line.val = val
      /\ Header(Otel) \in Lines(T) /\ Header(Otel).kind = "header" /\ Header(Otel).path = Otel
      /\ Len(L) \in Nat
  <2>1. Otel \in Paths
    BY DEF Paths
  <2> QED
    BY <2>1, NewLines, WrittenLines
<1>2. EndDepth(L) = 0 /\ Len(L) \in Nat
  BY <1>1 DEF Shaped
<1> HIDE DEF line
<1>3. /\ M \in Seq(Lines(T)) /\ Len(M) = Len(L) + 2 /\ M[Len(L) + 1] = Header(Otel)
      /\ M[Len(L) + 2] = line /\ SameStart(L, M, Len(L) + 1)
      /\ Depth(M)[Len(L) + 1] = 0 /\ Depth(M)[Len(L) + 2] = 0 /\ EndDepth(M) = 0
  BY <1>1, <1>2, AppendStarts DEF line
<1>4. Found(M, key, Len(M))
  BY <1>1, <1>2, AddTable DEF line
<1> HIDE DEF M
<1>5. PICK a \in Nat : a = n + 1
  OBVIOUS
<1>6. /\ n = Len(L) /\ Len(M) = n + 2 /\ M[a] = Header(Otel) /\ M[n + 2] = line
      /\ Depth(M)[a] = 0 /\ Depth(M)[n + 2] = 0 /\ SameStart(L, M, a) /\ Len(M) \in Nat
      /\ a \in 1 .. n + 1 /\ n \in Nat
  <2>1. n \in Nat /\ a = Len(L) + 1 /\ n + 2 = Len(L) + 2
    BY <1>0, <1>1, <1>5
  <2> QED
    BY <1>0, <1>3, <1>5, <2>1
<1>7. Inserted(L, M, a, 2)
  <2>1. \A i \in 1 .. a : Depth(M)[i] = Depth(L)[i]
    BY <1>2, <1>6, StartSight
  <2>2. \A i \in 1 .. a - 1 : M[i] = L[i]
    BY <1>6 DEF SameStart
  <2>3. \A i \in 1 .. Len(L) : i \in 1 .. a - 1 /\ i \in 1 .. a /\ Up(i, a, 2) = i
    BY <1>1, <1>5, <1>6 DEF Up
  <2> QED
    BY <1>2, <1>3, <1>6, <2>1, <2>2, <2>3 DEF Inserted
<1>8. \A j : j \in a .. a + 2 - 1 <=> j = a \/ j = n + 2
  BY <1>1, <1>5
<1>9. /\ a \in Heads(M) /\ M[a].path = Otel /\ Fits(M, a)
      /\ n + 2 \notin Heads(M) /\ Fits(M, n + 2) /\ n + 2 # a
  <2>1. a \in 1 .. Len(M) /\ n + 2 # a
    BY <1>1, <1>5, <1>6
  <2> QED
    BY <1>1, <1>6, <2>1, KeyFits DEF Heads, line
<1>10. Apart(L, M, a, 2)
  BY <1>5, <1>6 DEF Apart
<1>11. /\ \A k : Has(M, n + 2, k) <=> k = new
       /\ \A k : ~ Has(M, a, k)
  <2>1. new = [table |-> Otel, key |-> key, val |-> M[n + 2].val]
    BY <1>1, <1>6
  <2>2. Has(M, n + 2, new)
    BY <1>4, <1>6, <2>1, FoundHas
  <2>3. a \notin KeyLines(M)
    BY <1>9 DEF Heads, KeyLines
  <2> QED
    BY <1>6, <2>2, <2>3, HasOnce DEF Has
<1>12. \A k \in Read(L).keys : ~ (k.table = Otel /\ k.key = key)
  <2>1. \A k : ~ Found(L, key, k)
    BY <1>2, FoundOnce
  <2> QED
    BY <2>1, FoundIsAssigned DEF Assigned
<1>13. \A k : k \in Read(L).keys <=> \E i : Has(L, i, k)
  BY ShapedReads
<1>14. \A i \in Heads(L) : L[i].path # Otel
  BY DEF Heads, NoTable, IsHeader
<1>15. /\ Heads(M) \subseteq 1 .. Len(M)
       /\ \A i, k : Has(M, i, k) => i \in 1 .. Len(M)
  BY DEF Heads, Has, KeyLines
<1>16. ASSUME NEW i \in 1 .. Len(M), i # a, i # n + 2
       PROVE  \E m \in 1 .. Len(L) : i = Up(m, a, 2)
  <2>1. i \in 1 .. Len(L) + 2 /\ a \in 1 .. Len(L) + 1 /\ i \notin a .. a + 2 - 1
    BY <1>6, <1>8, <1>16
  <2>2. 2 \in Nat
    OBVIOUS
  <2> QED
    BY <1>2, <2>1, <2>2, UpCovers DEF Up
<1>17. Single(M, a, 2)
  <2>1. ASSUME NEW j \in a .. a + 2 - 1, NEW i \in Heads(M), j \in Heads(M), M[i].path = M[j].path
        PROVE  i = j
    <3>1. j = a /\ M[i].path = Otel /\ i \in 1 .. Len(M) /\ i # n + 2
      BY <1>8, <1>9, <1>15, <2>1
    <3>2. ASSUME i # a PROVE FALSE
      <4>1. PICK m \in 1 .. Len(L) : i = Up(m, a, 2)
        BY <1>16, <3>1, <3>2
      <4>2. m \in Heads(L) /\ L[m].path = Otel
        BY <1>2, <1>6, <1>7, <3>1, <4>1, Carry
      <4> QED
        BY <1>14, <4>2
    <3> QED
      BY <3>1, <3>2
  <2>2. ASSUME NEW j \in a .. a + 2 - 1, NEW i, NEW k, NEW l, Has(M, j, k), Has(M, i, l),
               k.table = l.table, k.key = l.key
        PROVE  i = j
    <3>1. j = n + 2 /\ k = new
      BY <1>8, <1>11, <2>2
    <3>2. l.table = Otel /\ l.key = key /\ i \in 1 .. Len(M) /\ i # a
      BY <1>11, <1>15, <2>2, <3>1
    <3>3. ASSUME i # n + 2 PROVE FALSE
      <4>1. PICK m \in 1 .. Len(L) : i = Up(m, a, 2)
        BY <1>16, <3>2, <3>3
      <4>2. Has(L, m, l)
        BY <1>2, <1>6, <1>7, <1>10, <2>2, <4>1, Carry
      <4> QED
        BY <1>12, <1>13, <3>2, <4>2
    <3> QED
      BY <3>1, <3>3
  <2> QED
    BY <2>1, <2>2 DEF Single
<1>18. Shaped(M) /\ Once(M)
  BY <1>3, <1>7, <1>8, <1>9, <1>10, <1>17, InsertedReads
<1>19. /\ \A t : t \in Read(M).tables <=> t \in Read(L).tables \/ t = Otel
       /\ \A k : k \in Read(M).keys <=> k \in Read(L).keys \/ k = new
  <2>1. PICK w : w = 2 /\ Inserted(L, M, a, w) /\ Apart(L, M, a, w)
    BY <1>7, <1>10
  <2>2. \A j : j \in {a, n + 2} <=> j \in a .. a + w - 1
    BY <1>8, <2>1
  <2>3. M \in Seq(Lines(T)) /\ Shaped(M)
    BY <1>3, <1>18
  <2>31. PICK In : In = {a, n + 2}
    OBVIOUS
  <2>32. /\ L \in Seq(Lines(T)) /\ M \in Seq(Lines(T)) /\ Shaped(M) /\ Inserted(L, M, a, w) /\ Apart(L, M, a, w)
         /\ \A j : j \in In <=> j \in a .. a + w - 1
    BY <2>1, <2>2, <2>3, <2>31
  <2>33. \A k : k \in Read(M).keys <=> k \in Read(L).keys \/ \E j \in In : Has(M, j, k)
    BY <2>32, InsertedContent
  <2>34. \A t : t \in Read(M).tables <=> t \in Read(L).tables \/ Opened(M, In, t)
    BY <2>32, InsertedContent
  <2>5. \A t : Opened(M, In, t) <=> t = Otel
    BY <1>9, <2>31 DEF Opened
  <2>6. \A k : (\E j \in In : Has(M, j, k)) <=> k = new
    BY <1>11, <2>31
  <2> QED
    BY <2>33, <2>34, <2>5, <2>6
<1> QED
  BY <1>3, <1>18, <1>19 DEF M

\* A key that [otel] has is assigned another value,
LEMMA ReplaceSets ==
  ASSUME NEW T, NEW L \in Seq(Lines(T)), Shaped(L), Once(L), NEW val \in Vals(T),
         NEW x, Found(L, "exporter", x), L[x].kind = "key",
         NEW M, M = ReplaceAt(L, x, Key("exporter", val)),
         NEW new, new = [table |-> Otel, key |-> "exporter", val |-> val]
  PROVE  /\ M \in Seq(Lines(T)) /\ Shaped(M) /\ Once(M)
         /\ Read(M).tables = Read(L).tables
         /\ Read(M).keys = {k \in Read(L).keys : ~ (k.table = Otel /\ k.key = "exporter")} \cup {new}
<1> DEFINE line == Key("exporter", val)
<1>1. line \in Lines(T) /\ line.kind = "key" /\ line.key = "exporter" /\ line.val = val /\ Len(L) \in Nat
  <2>1. Otel \in Paths /\ "exporter" \in Keys
    BY DEF Paths, Keys
  <2> QED
    BY <2>1, NewLines, WrittenLines
<1>2. x \in 1 .. Len(L) /\ L[x].kind = "key" /\ Depth(L)[x] = 0 /\ L[x].key = "exporter"
  BY DEF Found, KeyAt, IsKey
<1> HIDE DEF line
<1>3. /\ M \in Seq(Lines(T)) /\ Len(M) = Len(L) /\ M[x] = line /\ Spliced(L, M, x, x + 1, x + 1)
      /\ Depth(M)[x] = 0
  BY <1>1, <1>2, ReplaceSplices DEF line
<1>4. /\ \A i \in 1 .. Len(L) : Depth(M)[i] = Depth(L)[i] /\ (i # x => M[i] = L[i])
      /\ EndDepth(M) = EndDepth(L)
  <2>1. /\ \A i \in 1 .. x : Depth(M)[i] = Depth(L)[i]
        /\ \A i \in x + 1 .. Len(M) : Depth(M)[i] = Depth(L)[i + ((x + 1) - (x + 1))]
        /\ EndDepth(M) = EndDepth(L)
    <3>1. Len(M) \in Nat /\ SameStart(L, M, x)
      BY <1>1, <1>3 DEF Spliced
    <3> QED
      BY <1>1, <1>3, <3>1, SpliceSight, StartSight
  <2>2. /\ \A i \in 1 .. x - 1 : M[i] = L[i]
        /\ \A i \in x + 1 .. Len(M) : M[i] = L[i + ((x + 1) - (x + 1))]
    BY <1>3 DEF Spliced, SameStart
  <2>3. ASSUME NEW i \in 1 .. Len(L) PROVE Depth(M)[i] = Depth(L)[i] /\ (i # x => M[i] = L[i])
    <3>1. /\ i \in 1 .. x \/ i \in x + 1 .. Len(M)
          /\ i \in 1 .. x - 1 \/ i = x \/ i \in x + 1 .. Len(M)
          /\ i + ((x + 1) - (x + 1)) = i
      BY <1>2, <1>3
    <3> QED
      BY <2>1, <2>2, <3>1
  <2> QED
    BY <2>1, <2>3
<1>5. Heads(M) = Heads(L) /\ KeyLines(M) = KeyLines(L) /\ x \in KeyLines(L) /\ x \notin Heads(L)
  BY <1>1, <1>2, <1>3, <1>4 DEF Heads, KeyLines
<1>6. /\ \A i, h : Under(M, i, h) <=> Under(L, i, h)
      /\ \A i, h : Under(L, i, h) => PathOf(M, h) = PathOf(L, h)
  <2>1. \A h \in Heads(L) : M[h] = L[h]
    BY <1>4, <1>5 DEF Heads
  <2> QED
    BY <1>5, <2>1 DEF Under, PathOf
<1>7. \A i, k : i # x => (Has(M, i, k) <=> Has(L, i, k))
  <2>1. \A i \in KeyLines(L) : i # x => M[i] = L[i]
    BY <1>4 DEF KeyLines
  <2> QED
    BY <1>5, <1>6, <2>1 DEF Has
<1>8. PICK old : Has(L, x, old) /\ old.table = Otel /\ old.key = "exporter"
  <2> DEFINE k == [table |-> Otel, key |-> "exporter", val |-> L[x].val]
  <2>1. Has(L, x, k) /\ k.table = Otel /\ k.key = "exporter"
    BY <1>1, FoundHas
  <2> QED
    BY <2>1
<1>9. Has(M, x, new)
  <2>1. PICK h : Under(L, x, h) /\ PathOf(L, h) = Otel
    BY <1>8 DEF Has
  <2> QED
    BY <1>1, <1>3, <1>5, <1>6, <2>1 DEF Has
<1>10. \A k : Has(M, x, k) <=> k = new
  BY <1>1, <1>3, <1>9, HasOnce
<1>11. \A k : Has(L, x, k) <=> k = old
  BY <1>1, <1>8, HasOnce
<1>12. Shaped(M)
  <2>1. \A i \in 1 .. Len(L) : Fits(L, i)
    BY DEF Shaped, Regular, Fits
  <2>2. ASSUME NEW i \in 1 .. Len(L) PROVE Fits(M, i)
    <3>1. CASE i = x
      BY <1>3, <3>1, KeyFits DEF line
    <3>2. CASE i # x
      BY <1>4, <2>1, <3>2 DEF Fits
    <3> QED
      BY <3>1, <3>2
  <2> QED
    BY <1>3, <1>4, <2>2 DEF Shaped, Regular, Fits
<1>13. Once(M)
  <2>1. ASSUME NEW i \in Heads(M), NEW j \in Heads(M), M[i].path = M[j].path PROVE i = j
    <3>1. i \in Heads(L) /\ j \in Heads(L) /\ M[i] = L[i] /\ M[j] = L[j]
      BY <1>4, <1>5 DEF Heads
    <3> QED
      BY <2>1, <3>1 DEF Once
  <2>2. ASSUME NEW i, NEW j, NEW k, NEW l, Has(M, i, k), Has(M, j, l), k.table = l.table, k.key = l.key
        PROVE  i = j
    <3>1. \E k2 : Has(L, i, k2) /\ k2.table = k.table /\ k2.key = k.key
      BY <1>7, <1>8, <1>10, <2>2
    <3>2. \E l2 : Has(L, j, l2) /\ l2.table = l.table /\ l2.key = l.key
      BY <1>7, <1>8, <1>10, <2>2
    <3> QED
      BY <2>2, <3>1, <3>2 DEF Once
  <2> QED
    BY <2>1, <2>2 DEF Once
<1>14. /\ \A t : t \in Read(L).tables <=> \E i \in Heads(L) : t = L[i].path
       /\ \A k : k \in Read(L).keys <=> \E i : Has(L, i, k)
       /\ \A t : t \in Read(M).tables <=> \E i \in Heads(M) : t = M[i].path
       /\ \A k : k \in Read(M).keys <=> \E i : Has(M, i, k)
  BY <1>3, <1>12, ShapedReads
<1>15. \A t : t \in Read(M).tables <=> t \in Read(L).tables
  <2>1. \A i \in Heads(L) : M[i] = L[i]
    BY <1>4, <1>5 DEF Heads
  <2> QED
    BY <1>5, <1>14, <2>1
<1>16. \A k : k \in Read(M).keys <=>
         k = new \/ (k \in Read(L).keys /\ ~ (k.table = Otel /\ k.key = "exporter"))
  <2>1. ASSUME NEW k, NEW i, Has(L, i, k), k.table = Otel, k.key = "exporter" PROVE i = x
    BY <1>8, <2>1 DEF Once
  <2>2. ASSUME NEW k, NEW i, Has(L, i, k), i # x PROVE ~ (k.table = Otel /\ k.key = "exporter")
    BY <2>1, <2>2
  <2> QED
    BY <1>7, <1>8, <1>10, <1>11, <1>14, <2>2
<1> QED
  BY <1>3, <1>12, <1>13, <1>15, <1>16
-----------------------------------------------------------------------------
\* What a file has that is cut out of it is the table's, and what is left is
\* what it had in the others.
LEMMA NoHeadNoKeys ==
  ASSUME NEW lines, NEW path, path # <<>>, \A i \in Heads(lines) : lines[i].path # path
  PROVE  \A i, k : Has(lines, i, k) => k.table # path
  BY DEF Has, Under, PathOf

LEMMA SectionHas ==
  ASSUME NEW lines, Len(lines) \in Nat, NEW path, NEW s, NEW e, Section(lines, path, s, e)
  PROVE  /\ s \in Heads(lines) /\ lines[s].path = path
         /\ \A j \in s + 1 .. e - 1 : j \notin Heads(lines)
         /\ \A j \in s .. e - 1 : \A k : Has(lines, j, k) => k.table = path
<1>1. /\ s \in 1 .. Len(lines) /\ e \in s + 1 .. Len(lines) + 1
      /\ s \in Heads(lines) /\ lines[s].path = path
  BY DEF Section, IsHeader, Heads
<1>2. \A j \in s + 1 .. e - 1 : j \notin Heads(lines)
  BY DEF Section, IsEnd, Heads
<1>3. ASSUME NEW j \in s .. e - 1, NEW k, Has(lines, j, k) PROVE k.table = path
  <2>1. j \in Nat /\ \A i \in s + 1 .. j : i \in s + 1 .. e - 1
    BY <1>1
  <2>2. Under(lines, j, s)
    BY <1>1, <1>2, <2>1 DEF Under
  <2>3. \A h : Under(lines, j, h) => h = s
    BY <2>1, <2>2, UnderIs
  <2>4. PathOf(lines, s) = path
    BY <1>1 DEF PathOf
  <2> QED
    BY <1>3, <2>3, <2>4 DEF Has
<1> QED
  BY <1>1, <1>2, <1>3

\* See Inserted: what is left is the file into which the table was put.
LEMMA CutIsInserted ==
  ASSUME NEW T, NEW L \in Seq(Lines(T)), Shaped(L), NEW path, NEW s, NEW e, Section(L, path, s, e),
         NEW M, M = Without(L, s, e)
  PROVE  /\ M \in Seq(Lines(T)) /\ Inserted(M, L, s, e - s) /\ Apart(M, L, s, e - s)
<1>1. /\ Len(L) \in Nat /\ EndDepth(L) = 0
      /\ s \in 1 .. Len(L) /\ e \in s + 1 .. Len(L) + 1 /\ Depth(L)[s] = 0
      /\ e = Len(L) + 1 \/ IsEnd(L, e)
  BY DEF Shaped, Section, IsHeader
<1>2. e <= Len(L) => Depth(L)[e] = 0 /\ L[e].kind = "header"
  <2>1. \A i \in 1 .. Len(L) : Depth(L)[i] = 0 => L[i].kind # "elem"
    BY DEF Shaped
  <2> QED
    BY <1>1, <2>1 DEF IsEnd
<1>3. /\ M \in Seq(Lines(T)) /\ Len(M) = Len(L) - (e - s)
      /\ SameStart(L, M, s)
      /\ \A i \in s .. Len(M) : M[i] = L[i + (e - s)]
      /\ e <= Len(L) => Spliced(L, M, s, e, s)
  BY <1>1, <1>2, CutSplices
<1>4. PICK w \in Nat : w = e - s
  BY <1>1
<1>5. /\ Len(M) \in Nat /\ s \in 1 .. Len(M) + 1 /\ Len(L) = Len(M) + w
      /\ e = Len(L) + 1 => Len(M) = s - 1
  BY <1>1, <1>3, <1>4
<1>6. \A i \in 1 .. s : Depth(M)[i] = Depth(L)[i]
  <2>1. Len(L) \in Nat /\ Len(M) \in Nat /\ SameStart(L, M, s)
    BY <1>1, <1>3, <1>5
  <2> QED
    BY <2>1, StartSight
<1>7. e <= Len(L) => /\ \A i \in s .. Len(M) : Depth(M)[i] = Depth(L)[i + w]
                     /\ EndDepth(M) = EndDepth(L)
  <2> SUFFICES ASSUME e <= Len(L)
               PROVE  /\ \A i \in s .. Len(M) : Depth(M)[i] = Depth(L)[i + w]
                      /\ EndDepth(M) = EndDepth(L)
    OBVIOUS
  <2>1. Len(L) \in Nat /\ Len(M) \in Nat /\ Spliced(L, M, s, e, s)
    BY <1>1, <1>3, <1>5
  <2>2. /\ \A i \in s .. Len(M) : Depth(M)[i] = Depth(L)[i + (e - s)]
        /\ EndDepth(M) = EndDepth(L)
    BY <2>1, SpliceSight
  <2> QED
    BY <1>4, <2>2
<1>8. EndDepth(M) = EndDepth(L)
  <2>1. CASE e = Len(L) + 1
    <3>1. Len(M) + 1 = s
      BY <1>5, <2>1
    <3> QED
      BY <1>1, <1>6, <3>1 DEF EndDepth
  <2>2. CASE e <= Len(L)
    BY <1>7, <2>2
  <2> QED
    BY <1>1, <2>1, <2>2
<1>9. ASSUME NEW i \in 1 .. Len(M) PROVE L[Up(i, s, w)] = M[i] /\ Depth(L)[Up(i, s, w)] = Depth(M)[i]
  <2>1. CASE i < s
    <3>1. Up(i, s, w) = i /\ i \in 1 .. s - 1 /\ i \in 1 .. s
      BY <1>5, <2>1 DEF Up
    <3> QED
      BY <1>3, <1>6, <3>1 DEF SameStart
  <2>2. CASE i >= s
    <3>1. Up(i, s, w) = i + w /\ i \in s .. Len(M) /\ e <= Len(L)
      BY <1>1, <1>4, <1>5, <2>2 DEF Up
    <3> QED
      BY <1>3, <1>4, <1>7, <3>1
  <2> QED
    BY <1>5, <2>1, <2>2
<1>10. Inserted(M, L, s, w)
  BY <1>5, <1>8, <1>9 DEF Inserted
<1>11. Apart(M, L, s, w)
  <2>1. CASE e = Len(L) + 1
    BY <1>5, <2>1 DEF Apart
  <2>2. CASE e <= Len(L)
    <3>1. s \in 1 .. Len(M) /\ s + w = e
      BY <1>1, <1>4, <1>5, <2>2
    <3>2. M[s] = L[e] /\ Depth(M)[s] = 0
      BY <1>1, <1>3, <1>4, <1>6, <3>1
    <3>3. s \in Heads(M)
      BY <1>2, <2>2, <3>1, <3>2 DEF Heads
    <3> QED
      BY <3>3 DEF Apart
  <2> QED
    BY <1>1, <2>1, <2>2
<1> QED
  BY <1>3, <1>4, <1>10, <1>11

\* See NoHeadNoKeys.
LEMMA CutDrops ==
  ASSUME NEW T, NEW L \in Seq(Lines(T)), Shaped(L), Once(L), NEW M, M = RemoveTable(L, Stale)
  PROVE  /\ M \in Seq(Lines(T)) /\ Shaped(M) /\ Once(M)
         /\ \A t : t \in Read(M).tables <=> t \in Read(L).tables /\ t # Stale
         /\ \A k : k \in Read(M).keys <=> k \in Read(L).keys /\ k.table # Stale
<1>0. Len(L) \in Nat /\ Stale # <<>>
  BY DEF Stale
<1>1. \/ M = L /\ \A i \in Heads(L) : L[i].path # Stale
      \/ \E s, e : Section(L, Stale, s, e) /\ M = Without(L, s, e)
  BY <1>0, RemoveIs DEF Heads, IsHeader
<1>2. /\ \A t : t \in Read(L).tables <=> \E i \in Heads(L) : t = L[i].path
      /\ \A k : k \in Read(L).keys <=> \E i : Has(L, i, k)
  BY ShapedReads
<1>3. CASE M = L /\ \A i \in Heads(L) : L[i].path # Stale
  <2>1. \A i, k : Has(L, i, k) => k.table # Stale
    BY <1>0, <1>3, NoHeadNoKeys
  <2> QED
    BY <1>2, <1>3, <2>1
<1>4. ASSUME NEW s, NEW e, Section(L, Stale, s, e), M = Without(L, s, e)
      PROVE  /\ M \in Seq(Lines(T)) /\ Shaped(M) /\ Once(M)
             /\ \A t : t \in Read(M).tables <=> t \in Read(L).tables /\ t # Stale
             /\ \A k : k \in Read(M).keys <=> k \in Read(L).keys /\ k.table # Stale
  <2>1. PICK w : w = e - s
    OBVIOUS
  <2>2. M \in Seq(Lines(T)) /\ Inserted(M, L, s, w) /\ Apart(M, L, s, w)
    BY <1>4, <2>1, CutIsInserted
  <2>3. /\ s \in Heads(L) /\ L[s].path = Stale /\ s \in 1 .. Len(L) /\ e \in s + 1 .. Len(L) + 1
        /\ \A j \in s + 1 .. e - 1 : j \notin Heads(L)
        /\ \A j \in s .. e - 1 : \A k : Has(L, j, k) => k.table = Stale
    BY <1>0, <1>4, SectionHas DEF Section, Heads
  <2>4. PICK In : In = s .. e - 1
    OBVIOUS
  <2>5. (\A j : j \in In <=> j \in s .. s + w - 1) /\ s \in In
    BY <2>1, <2>3, <2>4
  <2>6. Shaped(M) /\ Once(M)
    BY <2>2, InsertedReads
  <2>7. /\ \A t : t \in Read(L).tables <=> t \in Read(M).tables \/ Opened(L, In, t)
        /\ \A k : k \in Read(L).keys <=> k \in Read(M).keys \/ \E j \in In : Has(L, j, k)
    BY <2>2, <2>5, InsertedContent
  <2>8. \A t : Opened(L, In, t) <=> t = Stale
    <3>1. \A j \in In : j \in Heads(L) => j = s
      BY <2>3, <2>4
    <3> QED
      BY <2>3, <2>5, <3>1 DEF Opened
  <2>9. \A i \in Heads(M) : M[i].path # Stale
    <3>1. ASSUME NEW i \in Heads(M), M[i].path = Stale PROVE FALSE
      <4>1. i \in 1 .. Len(M) /\ Len(M) \in Nat
        BY <2>2, <3>1 DEF Heads
      <4>2. PICK u : u = Up(i, s, w)
        OBVIOUS
      <4>3. u \in Heads(L) /\ L[u].path = Stale /\ u \notin In
        BY <1>0, <2>2, <2>5, <3>1, <4>1, <4>2, Carry
      <4> QED
        BY <2>3, <2>5, <4>3 DEF Once
    <3> QED
      BY <3>1
  <2>10. /\ \A t : t \in Read(M).tables => t # Stale
         /\ \A k : k \in Read(M).keys => k.table # Stale
    <3>1. /\ \A t : t \in Read(M).tables <=> \E i \in Heads(M) : t = M[i].path
          /\ \A k : k \in Read(M).keys <=> \E i : Has(M, i, k)
      BY <2>2, <2>6, ShapedReads
    <3>2. \A i, k : Has(M, i, k) => k.table # Stale
      BY <1>0, <2>9, NoHeadNoKeys
    <3> QED
      BY <2>9, <3>1, <3>2
  <2>11. \A k : (\E j \in In : Has(L, j, k)) => k.table = Stale
    BY <2>3, <2>4
  <2> QED
    BY <2>2, <2>6, <2>7, <2>8, <2>10, <2>11
<1> QED
  BY <1>1, <1>3, <1>4
-----------------------------------------------------------------------------
\* What a scalar that is ensured adds to what a file has,
Grows(d, e) ==
  /\ e.tables \subseteq d.tables \cup {Otel} /\ d.keys \subseteq e.keys
  /\ \A k \in e.keys : k \in d.keys \/ (k.table = Otel /\ k.val = Setups)
Scalar(doc, key) == \E k \in doc.keys : k.table = Otel /\ k.key = key

LEMMA EnsureReads ==
  ASSUME NEW T, NEW L \in Seq(Lines(T)), Shaped(L), Once(L), NEW key \in Keys,
         NEW M, M = EnsureTableKey(L, key, Setups)
  PROVE  /\ M \in Seq(Lines(T)) /\ Shaped(M) /\ Once(M)
         /\ Grows(Read(L), Read(M)) /\ Scalar(Read(M), key)
<1>1. Len(L) \in Nat /\ Setups \in Vals(T)
  BY DEF Vals
<1>2. PICK new : new = [table |-> Otel, key |-> key, val |-> Setups]
  OBVIOUS
<1>3. new.table = Otel /\ new.key = key /\ new.val = Setups
  BY <1>2
<1>4. PICK add : add = L \o <<Header(Otel), Key(key, Setups)>>
  OBVIOUS
<1>5. \/ NoTable(L) /\ M = add
      \/ (\E k : Found(L, key, k)) /\ M = L
      \/ \E h, e : Gap(L, key, h, e) /\ M = InsertAt(L, e, Key(key, Setups))
  BY <1>1, <1>4, EnsureIs
<1>6. NoTable(L) => /\ add \in Seq(Lines(T)) /\ Shaped(add) /\ Once(add)
                    /\ Read(add).tables = Read(L).tables \cup {Otel}
                    /\ Read(add).keys = Read(L).keys \cup {new}
  BY <1>1, <1>2, <1>4, AppendAdds
<1>7. (\E h, e : Gap(L, key, h, e) /\ M = InsertAt(L, e, Key(key, Setups))) =>
        /\ M \in Seq(Lines(T)) /\ Shaped(M) /\ Once(M)
        /\ Read(M).tables = Read(L).tables
        /\ Read(M).keys = Read(L).keys \cup {new}
  BY <1>1, <1>2, InsertAdds
<1>8. (\E k : Found(L, key, k)) => Scalar(Read(L), key)
  BY FoundIsAssigned DEF Scalar, Assigned
<1>9. CASE /\ M \in Seq(Lines(T)) /\ Shaped(M) /\ Once(M)
           /\ Read(M).tables \subseteq Read(L).tables \cup {Otel}
           /\ Read(M).keys = Read(L).keys \cup {new}
  BY <1>3, <1>9 DEF Grows, Scalar
<1>10. CASE M = L /\ Scalar(Read(L), key)
  BY <1>10 DEF Grows
<1> QED
  BY <1>5, <1>6, <1>7, <1>8, <1>9, <1>10

\* all four of them,
LEMMA ScalarsRead ==
  ASSUME NEW T, NEW L \in Seq(Lines(T)), Shaped(L), Once(L), NEW M, M = EnsureScalars(L)
  PROVE  /\ M \in Seq(Lines(T)) /\ Shaped(M) /\ Once(M)
         /\ Grows(Read(L), Read(M)) /\ \A n \in 1 .. 4 : Scalar(Read(M), CodexScalars[n])
<1> DEFINE A(ls, n) == EnsureTableKey(ls, CodexScalars[n], Setups)
           Good(ls) == ls \in Seq(Lines(T)) /\ Shaped(ls) /\ Once(ls)
<1>1. ASSUME NEW ls, Good(ls), NEW n \in 1 .. 4
      PROVE  Good(A(ls, n)) /\ Grows(Read(ls), Read(A(ls, n))) /\ Scalar(Read(A(ls, n)), CodexScalars[n])
  <2>1. CodexScalars[n] \in Keys
    BY DEF Keys
  <2> QED
    BY <1>1, <2>1, EnsureReads
<1>2. M = A(A(A(A(L, 1), 2), 3), 4)
  BY DEF EnsureScalars
<1>3. /\ \A c, d, e : Grows(c, d) /\ Grows(d, e) => Grows(c, e)
      /\ \A d, e, key : Grows(d, e) /\ Scalar(d, key) => Scalar(e, key)
  BY DEF Grows, Scalar
<1> HIDE DEF A
<1>4. PICK a : a = A(L, 1)
  OBVIOUS
<1>5. PICK b : b = A(a, 2)
  OBVIOUS
<1>6. PICK c : c = A(b, 3)
  OBVIOUS
<1>7. Good(L)
  OBVIOUS
<1>8. M = A(c, 4)
  BY <1>2, <1>4, <1>5, <1>6
<1> HIDE DEF Good
<1>9. Good(a) /\ Grows(Read(L), Read(a)) /\ Scalar(Read(a), CodexScalars[1])
  BY <1>1, <1>4, <1>7
<1>10. Good(b) /\ Grows(Read(a), Read(b)) /\ Scalar(Read(b), CodexScalars[2])
  BY <1>1, <1>5, <1>9
<1>11. Good(c) /\ Grows(Read(b), Read(c)) /\ Scalar(Read(c), CodexScalars[3])
  BY <1>1, <1>6, <1>10
<1>12. Good(M) /\ Grows(Read(c), Read(M)) /\ Scalar(Read(M), CodexScalars[4])
  BY <1>1, <1>8, <1>11
<1>13. Grows(Read(L), Read(M))
  BY <1>3, <1>9, <1>10, <1>11, <1>12
<1>14. /\ Scalar(Read(M), CodexScalars[1]) /\ Scalar(Read(M), CodexScalars[2])
       /\ Scalar(Read(M), CodexScalars[3]) /\ Scalar(Read(M), CodexScalars[4])
  BY <1>3, <1>9, <1>10, <1>11, <1>12
<1> QED
  BY <1>12, <1>13, <1>14 DEF Good

\* and what the exporter that is set does.
LEMMA ReplaceReads ==
  ASSUME NEW T, NEW L \in Seq(Lines(T)), Shaped(L), Once(L), NEW val \in Vals(T),
         [table |-> Otel, key |-> "exporter", val |-> Spread] \notin Read(L).keys,
         NEW M, M = ReplaceOrInsertTableKey(L, "exporter", val),
         NEW new, new = [table |-> Otel, key |-> "exporter", val |-> val]
  PROVE  /\ M \in Seq(Lines(T)) /\ Shaped(M) /\ Once(M)
         /\ Read(M).tables \subseteq Read(L).tables \cup {Otel}
         /\ \A k : k \in Read(M).keys <=>
              \/ k \in Read(L).keys /\ ~ (k.table = Otel /\ k.key = "exporter")
              \/ k = new
<1>1. Len(L) \in Nat /\ "exporter" \in Keys
  BY DEF Keys
<1>2. PICK add : add = L \o <<Header(Otel), Key("exporter", val)>>
  OBVIOUS
<1>3. \/ NoTable(L) /\ M = add
      \/ \E k : Found(L, "exporter", k) /\ M = ReplaceAt(L, k, Key("exporter", val))
      \/ \E h, e : Gap(L, "exporter", h, e) /\ M = InsertAt(L, e, Key("exporter", val))
  BY <1>1, <1>2, ReplaceIs
<1>4. ASSUME \A k : ~ Found(L, "exporter", k), NEW l \in Read(L).keys
      PROVE  ~ (l.table = Otel /\ l.key = "exporter")
  BY <1>4, FoundIsAssigned DEF Assigned
<1>5. CASE NoTable(L) /\ M = add
  <2>1. /\ add \in Seq(Lines(T)) /\ Shaped(add) /\ Once(add)
        /\ Read(add).tables = Read(L).tables \cup {Otel}
        /\ Read(add).keys = Read(L).keys \cup {new}
    BY <1>1, <1>2, <1>5, AppendAdds
  <2>2. \A k : ~ Found(L, "exporter", k)
    BY <1>1, <1>5, FoundOnce
  <2> QED
    BY <1>4, <1>5, <2>1, <2>2
<1>6. CASE \E k : Found(L, "exporter", k) /\ M = ReplaceAt(L, k, Key("exporter", val))
  <2>1. /\ M \in Seq(Lines(T)) /\ Shaped(M) /\ Once(M)
        /\ Read(M).tables = Read(L).tables
        /\ Read(M).keys = {k \in Read(L).keys : ~ (k.table = Otel /\ k.key = "exporter")} \cup {new}
    <3>1. PICK x : Found(L, "exporter", x) /\ M = ReplaceAt(L, x, Key("exporter", val))
      BY <1>6
    <3>2. Has(L, x, [table |-> Otel, key |-> "exporter", val |-> L[x].val])
      BY <1>1, <3>1, FoundHas
    <3>3. L[x].val # Spread
      BY <3>2, ShapedReads
    <3>4. x \in 1 .. Len(L) /\ L[x].kind \in {"key", "open"} /\ L[x].key = "exporter"
      BY <3>1 DEF Found, KeyAt, IsKey
    <3>5. L[x] \in Lines(T)
      BY <3>4
    <3>6. L[x].kind = "open" /\ L[x].key = "exporter" => L[x].val = Spread
      BY <3>5, OpenIs
    <3>7. L[x].kind = "key"
      BY <3>3, <3>4, <3>6
    <3> QED
      BY <3>1, <3>7, ReplaceSets
  <2> QED
    BY <2>1
<1>7. CASE \E h, e : Gap(L, "exporter", h, e) /\ M = InsertAt(L, e, Key("exporter", val))
  <2>1. /\ M \in Seq(Lines(T)) /\ Shaped(M) /\ Once(M)
        /\ Read(M).tables = Read(L).tables
        /\ Read(M).keys = Read(L).keys \cup {new}
    BY <1>1, <1>7, InsertAdds
  <2>2. \A k : ~ Found(L, "exporter", k)
    BY <1>1, <1>7, FoundOnce
  <2> QED
    BY <1>4, <2>1, <2>2
<1> QED
  BY <1>3, <1>5, <1>6, <1>7
-----------------------------------------------------------------------------
\* The keys and tables that a file of such lines may have.
LEMMA ReadHas ==
  ASSUME NEW T, NEW L \in Seq(Lines(T)), Shaped(L)
  PROVE  /\ \A t \in Read(L).tables : t \in Paths
         /\ \A k \in Read(L).keys : k.table \in Paths /\ k.key \in Keys
<1>1. \A i \in 1 .. Len(L) : L[i].path \in Paths /\ L[i].key \in Keys
  <2>1. \A i \in 1 .. Len(L) : L[i] \in Lines(T)
    OBVIOUS
  <2> QED
    BY <2>1 DEF Lines
<1>2. /\ Heads(L) \subseteq 1 .. Len(L) /\ KeyLines(L) \subseteq 1 .. Len(L)
      /\ <<>> \in Paths
  BY DEF Heads, KeyLines, Paths
<1>3. \A h \in Heads(L) \cup {0} : PathOf(L, h) \in Paths
  BY <1>1, <1>2 DEF PathOf
<1>4. \A i, k : Has(L, i, k) => k.table \in Paths /\ k.key \in Keys
  <2> SUFFICES ASSUME NEW i, NEW k, Has(L, i, k) PROVE k.table \in Paths /\ k.key \in Keys
    OBVIOUS
  <2>1. PICK h : /\ Under(L, i, h) /\ i \in KeyLines(L)
                 /\ k = [table |-> PathOf(L, h), key |-> L[i].key, val |-> L[i].val]
    BY DEF Has
  <2>2. h \in Heads(L) \cup {0} /\ k.table = PathOf(L, h) /\ k.key = L[i].key
    BY <2>1 DEF Under
  <2> QED
    BY <1>1, <1>2, <1>3, <2>1, <2>2
<1> QED
  BY <1>1, <1>2, <1>4, ShapedReads

\* No key is called like [otel], and without the tables of an exporter none in
\* [otel] is a table.
LEMMA NoKeyIsTable ==
  /\ \A path \in Paths, key \in Keys : ~ IsPrefix(Append(path, key), Otel)
  /\ \A t \in Paths \ {Stale, Deep}, key \in Keys : ~ IsPrefix(Append(Otel, key), t)
<1>1. /\ Len(<<>>) = 0 /\ Len(Otel) = 1 /\ Len(Tui) = 1 /\ Len(Stale) = 3 /\ Len(Deep) = 4
      /\ Paths = {<<>>, Otel, Stale, Deep, Tui}
  BY DEF Otel, Tui, Stale, Deep, Paths
<1>2. \A key \in Keys : key # "otel"
  <2>1. ASSUME NEW key \in Keys, key = "otel" PROVE FALSE
    <3>1. key \in {"", "exporter", "note"} \/ \E n \in 1 .. 4 : key = CodexScalars[n]
      BY DEF Keys
    <3>2. \A n \in 1 .. 4 : CodexScalars[n] # "otel"
      BY DEF CodexScalars
    <3> QED
      BY <2>1, <3>1, <3>2
  <2> QED
    BY <2>1
<1>3. ASSUME NEW path \in {Otel, Tui, Stale, Deep}, NEW key PROVE Len(Append(path, key)) = Len(path) + 1
  <2>1. ASSUME NEW S, NEW q \in Seq(S) PROVE Len(Append(q, key)) = Len(q) + 1
    <3>1. q \in Seq(S \cup {key})
      OBVIOUS
    <3> QED
      BY <3>1
  <2>2. /\ Otel \in Seq({"otel"}) /\ Tui \in Seq({"tui"})
        /\ Stale \in Seq({"otel", "exporter", "otlp-http"})
        /\ Deep \in Seq({"otel", "exporter", "otlp-http", "headers"})
    BY DEF Otel, Tui, Stale, Deep
  <2> QED
    BY <2>1, <2>2
<1>4. ASSUME NEW key \in Keys, IsPrefix(Append(<<>>, key), Otel) PROVE FALSE
  <2>1. Append(<<>>, key) = <<key>>
    OBVIOUS
  <2>2. IsPrefix(<<key>>, <<"otel">>)
    BY <1>4, <2>1 DEF Otel
  <2>3. key = "otel"
    BY <2>2 DEF IsPrefix
  <2> QED
    BY <1>2, <2>3
<1>5. ASSUME NEW p, NEW t, Len(p) \in Nat, Len(t) \in Nat, Len(t) < Len(p) PROVE ~ IsPrefix(p, t)
  BY <1>5 DEF IsPrefix
<1>6. ASSUME NEW path \in {Otel, Tui, Stale, Deep}, NEW key, NEW t \in {<<>>, Otel, Tui}
      PROVE  ~ IsPrefix(Append(path, key), t)
  <2>1. Len(Append(path, key)) = Len(path) + 1
    BY <1>3
  <2>2. PICK p : p = Append(path, key)
    OBVIOUS
  <2>3. Len(t) \in {0, 1} /\ Len(path) \in {1, 3, 4}
    BY <1>1
  <2>4. PICK n : n = Len(p)
    OBVIOUS
  <2>5. PICK m : m = Len(t)
    OBVIOUS
  <2>6. PICK l : l = Len(path)
    OBVIOUS
  <2>7. n = l + 1 /\ m \in {0, 1} /\ l \in {1, 3, 4}
    BY <2>1, <2>2, <2>3, <2>4, <2>5, <2>6, Zenon
  <2>8. n \in Nat /\ m \in Nat /\ m < n
    BY <2>7
  <2> QED
    BY <1>5, <2>2, <2>4, <2>5, <2>8
<1> QED
  BY <1>1, <1>4, <1>6

\* The exporter of such a file is one value, and the edit can replace it.
LEMMA ReadsOneExporter ==
  ASSUME NEW T, NEW L \in Seq(Lines(T)), Regular(L), IsToml(L), Editable(L)
  PROVE  \A k \in Read(L).keys : k.table = Otel /\ k.key = "exporter" => k.val # Spread
<1> SUFFICES ASSUME NEW k \in Read(L).keys, k.table = Otel, k.key = "exporter", k.val = Spread
             PROVE  FALSE
  OBVIOUS
<1>1. Shaped(L) /\ Once(L) /\ Len(L) \in Nat /\ \A l : l \in Read(L).keys <=> \E i : Has(L, i, l)
  BY RegularIsShaped, ShapedReads
<1>2. \A l \in Read(L).keys : l.table = Otel /\ l.key = "exporter" => l = k
  BY <1>1, HasOnce DEF Once
<1> DEFINE found == {l \in Assigned(L, Otel) : l.key = "exporter"}
<1>3. found = {k}
  BY <1>2 DEF Assigned
<1>4. Value(L, Otel, "exporter") = k.val
  BY <1>3 DEF Value
<1> QED
  BY <1>4 DEF Editable

\* What the edit of a file, of which the scanner sees what TOML does, makes of
\* it, if it can edit the exporter there: TOML with the exporter and the scalars,
\* and all the user's values.
LEMMA RegularEdit ==
  ASSUME NEW L \in Seq(Lines(Tokens)), Regular(L), IsToml(L), Editable(L),
         NEW port \in Ports, NEW token \in Tokens, NEW M, M = EditCodex(L, port, token)
  PROVE  /\ M \in Seq(Lines(Tokens)) /\ Shaped(M) /\ Once(M) /\ Clear(Read(M))
         /\ \A n \in 1 .. 4 : Scalar(Read(M), CodexScalars[n])
         /\ [table |-> Otel, key |-> "exporter", val |-> Exporter(port, token)] \in Read(M).keys
         /\ \A k \in Read(L).keys :
              ~ (k.table = Stale \/ (k.table = Otel /\ k.key = "exporter")) => k \in Read(M).keys
         /\ \A k \in Read(M).keys :
              \/ k \in Read(L).keys
              \/ k.table = Otel /\ k.key = "exporter"
              \/ k.table = Otel /\ k.val = Setups
<1>1. Shaped(L) /\ Once(L) /\ Clear(Read(L))
  BY RegularIsShaped, ShapedReads
<1>2. PICK e : e = Exporter(port, token)
  OBVIOUS
<1>3. PICK new : new = [table |-> Otel, key |-> "exporter", val |-> e]
  OBVIOUS
<1>4. e \in Vals(Tokens) /\ new.table = Otel /\ new.key = "exporter" /\ Otel # Stale
  BY <1>2, <1>3 DEF Exporter, Vals, Otel, Stale
<1>5. PICK A : A = EnsureScalars(L)
  OBVIOUS
<1>6. PICK B : B = ReplaceOrInsertTableKey(A, "exporter", e)
  OBVIOUS
<1>7. PICK C : C = RemoveTable(B, Stale)
  OBVIOUS
<1>8. M = RemoveTable(C, Stale)
  BY <1>2, <1>5, <1>6, <1>7 DEF EditCodex, EnsureCodexExporter
<1>9. /\ A \in Seq(Lines(Tokens)) /\ Shaped(A) /\ Once(A)
      /\ Grows(Read(L), Read(A)) /\ \A n \in 1 .. 4 : Scalar(Read(A), CodexScalars[n])
  BY <1>1, <1>5, ScalarsRead
<1>10. /\ B \in Seq(Lines(Tokens)) /\ Shaped(B) /\ Once(B)
       /\ Read(B).tables \subseteq Read(A).tables \cup {Otel}
       /\ \A k : k \in Read(B).keys <=>
            \/ k \in Read(A).keys /\ ~ (k.table = Otel /\ k.key = "exporter")
            \/ k = new
  <2>1. PICK k : k = [table |-> Otel, key |-> "exporter", val |-> Spread]
    OBVIOUS
  <2>2. k.table = Otel /\ k.key = "exporter" /\ k.val = Spread /\ Spread # Setups
    BY <2>1 DEF Spread, Setups
  <2>3. k \notin Read(L).keys
    BY <2>2, ReadsOneExporter
  <2>4. k \notin Read(A).keys
    BY <1>9, <2>2, <2>3 DEF Grows
  <2> QED
    BY <1>3, <1>4, <1>6, <1>9, <2>1, <2>4, ReplaceReads
<1>11. /\ C \in Seq(Lines(Tokens)) /\ Shaped(C) /\ Once(C)
       /\ \A t : t \in Read(C).tables <=> t \in Read(B).tables /\ t # Stale
       /\ \A k : k \in Read(C).keys <=> k \in Read(B).keys /\ k.table # Stale
  BY <1>7, <1>10, CutDrops
<1>12. /\ M \in Seq(Lines(Tokens)) /\ Shaped(M) /\ Once(M)
       /\ \A t : t \in Read(M).tables <=> t \in Read(C).tables /\ t # Stale
       /\ \A k : k \in Read(M).keys <=> k \in Read(C).keys /\ k.table # Stale
  BY <1>8, <1>11, CutDrops
<1>13. /\ \A t \in Read(M).tables : (t \in Read(L).tables \/ t = Otel) /\ t # Stale
       /\ \A k : k \in Read(M).keys <=>
            /\ k.table # Stale
            /\ k = new \/ (k \in Read(A).keys /\ ~ (k.table = Otel /\ k.key = "exporter"))
  BY <1>9, <1>10, <1>11, <1>12 DEF Grows
<1>14. \A n \in 1 .. 4 : Scalar(Read(M), CodexScalars[n])
  <2>1. \A n \in 1 .. 4 : CodexScalars[n] # "exporter"
    BY DEF CodexScalars
  <2> QED
    BY <1>4, <1>9, <1>13, <2>1 DEF Scalar
<1>15. new \in Read(M).keys
  BY <1>4, <1>13
<1>16. \A k \in Read(L).keys :
         ~ (k.table = Stale \/ (k.table = Otel /\ k.key = "exporter")) => k \in Read(M).keys
  BY <1>9, <1>13 DEF Grows
<1>17. \A k \in Read(M).keys :
         \/ k \in Read(L).keys
         \/ k.table = Otel /\ k.key = "exporter"
         \/ k.table = Otel /\ k.val = Setups
  BY <1>4, <1>9, <1>13 DEF Grows
<1>18. Clear(Read(M))
  <2> SUFFICES ASSUME NEW k \in Read(M).keys, NEW t \in Read(M).tables,
                      IsPrefix(Append(k.table, k.key), t)
               PROVE  FALSE
    BY DEF Clear
  <2>1. t \in Paths /\ t # Stale /\ k.table \in Paths /\ k.key \in Keys
    BY <1>12, <1>13, ReadHas
  <2>2. t # Otel
    BY <2>1, NoKeyIsTable
  <2>3. k.table # Otel
    <3>1. IsPrefix(Append(Otel, "exporter"), Deep) /\ Deep # Stale /\ Deep # Otel
      BY DEF IsPrefix, Otel, Stale, Deep
    <3>2. t # Deep
      BY <1>13, <3>1 DEF Editable
    <3> QED
      BY <2>1, <3>2, NoKeyIsTable
  <2>4. t \in Read(L).tables /\ k \in Read(L).keys
    BY <1>13, <1>17, <2>2, <2>3
  <2> QED
    BY <1>1, <2>4 DEF Clear
<1> QED
  BY <1>2, <1>3, <1>12, <1>14, <1>15, <1>16, <1>17, <1>18

\* So its plan is not refused.
LEMMA RegularIsVerified ==
  ASSUME NEW L \in Seq(Lines(Tokens)), Regular(L), IsToml(L), Editable(L),
         NEW port \in Ports, NEW token \in Tokens, NEW M, M = EditCodex(L, port, token)
  PROVE  VerifyCodexEdit(M, port, token, Added(L)) /\ Settled(M, Exporter(port, token))
<1>1. /\ Shaped(L) /\ Once(L) /\ Len(L) \in Nat
  BY RegularIsShaped, ShapedReads
<1>2. PICK new : new = [table |-> Otel, key |-> "exporter", val |-> Exporter(port, token)]
  OBVIOUS
<1>3. /\ M \in Seq(Lines(Tokens)) /\ Shaped(M) /\ Once(M) /\ Clear(Read(M))
      /\ \A n \in 1 .. 4 : Scalar(Read(M), CodexScalars[n])
      /\ new \in Read(M).keys
      /\ \A k \in Read(M).keys :
           \/ k \in Read(L).keys
           \/ k.table = Otel /\ k.key = "exporter"
           \/ k.table = Otel /\ k.val = Setups
  BY <1>2, RegularEdit
<1>4. IsToml(M) /\ Len(M) \in Nat /\ \A k : k \in Read(M).keys <=> \E i : Has(M, i, k)
  BY <1>3, ShapedReads
<1>5. \A k, l \in Read(M).keys : k.table = l.table /\ k.key = l.key => k = l
  BY <1>3, <1>4, HasOnce DEF Once
<1>6. ASSUME NEW k \in Read(M).keys, k.table = Otel PROVE Value(M, Otel, k.key) = k.val
  <2> DEFINE found == {l \in Assigned(M, Otel) : l.key = k.key}
  <2>1. found = {k}
    BY <1>5, <1>6 DEF Assigned
  <2> QED
    BY <2>1 DEF Value
<1>7. \A key \in Range(CodexScalars) : key # "exporter" /\ Scalar(Read(M), key)
  <2>1. /\ Range(CodexScalars) = {CodexScalars[n] : n \in 1 .. 4}
        /\ \A n \in 1 .. 4 : CodexScalars[n] # "exporter"
    BY DEF CodexScalars, Range
  <2> QED
    BY <1>3, <2>1
<1>8. ASSUME NEW key \in Added(L) PROVE Value(M, Otel, key) = Setups
  <2>1. PICK h : h = FindTable(L, Otel)
    OBVIOUS
  <2>2. PICK f : f = FindKey(L, h, key)
    OBVIOUS
  <2>3. key \in Range(CodexScalars) /\ (h = 0 \/ f = 0)
    BY <1>8, <2>1, <2>2 DEF Added
  <2>4. NoTable(L) \/ \E e : Gap(L, key, h, e)
    BY <1>1, <2>1, <2>2, <2>3, FindIs
  <2>5. \A k : ~ Found(L, key, k)
    BY <1>1, <2>4, FoundOnce
  <2>6. \A k \in Read(L).keys : ~ (k.table = Otel /\ k.key = key)
    BY <1>1, <2>5, FoundIsAssigned DEF Assigned
  <2>7. PICK k \in Read(M).keys : k.table = Otel /\ k.key = key
    BY <1>7, <2>3 DEF Scalar
  <2>8. k.val = Setups
    BY <1>3, <1>7, <2>3, <2>6, <2>7
  <2> QED
    BY <1>6, <2>7, <2>8
<1>9. Value(M, Otel, "exporter") = Exporter(port, token)
  <2>1. new.table = Otel /\ new.key = "exporter" /\ new.val = Exporter(port, token)
    BY <1>2
  <2> QED
    BY <1>3, <1>6, <2>1
<1>10. Range(CodexScalars) \subseteq {k.key : k \in Assigned(M, Otel)}
  BY <1>7 DEF Scalar, Assigned
<1> QED
  BY <1>4, <1>8, <1>9, <1>10 DEF VerifyCodexEdit, Settled

\* A file that the edit leaves as it is is one of these.
LEMMA FixpointIsEditable ==
  ASSUME Absent \notin Tokens, NEW L, Sound(L), Regular(L), NEW port \in Ports, NEW token \in Tokens,
         EditCodex(L, port, token) = L
  PROVE  Editable(L)
<1>1. L \in Seq(Lines(Tokens)) /\ IsToml(L)
  BY DEF Sound
<1>2. Shaped(L) /\ Clear(Read(L))
  BY <1>1, RegularIsShaped, ShapedReads
<1>3. Value(L, Otel, "exporter") = Exporter(port, token)
  BY FixpointHasExporter
<1>4. Exporter(port, token) # Spread /\ Exporter(port, token) # <<Absent, Absent>>
  BY DEF Exporter, Spread
<1>5. PICK k \in Assigned(L, Otel) : k.key = "exporter"
  BY <1>3, <1>4 DEF Value
<1>6. k \in Read(L).keys /\ k.table = Otel /\ k.key = "exporter"
  BY <1>5 DEF Assigned
<1>7. \A t \in Read(L).tables : ~ IsPrefix(Append(Otel, "exporter"), t)
  BY <1>2, <1>6 DEF Clear
<1> QED
  BY <1>3, <1>4, <1>7 DEF Editable

\* See RegularEdit: what the edit keeps, and what it adds.
LEMMA RegularKeeps ==
  ASSUME NEW L \in Seq(Lines(Tokens)), Regular(L), IsToml(L), Editable(L),
         NEW port \in Ports, NEW token \in Tokens, NEW M, M = EditCodex(L, port, token)
  PROVE  /\ \A k \in Read(L).keys :
              ~ (k.table = Stale \/ (k.table = Otel /\ k.key = "exporter")) => k \in Read(M).keys
         /\ \A k \in Read(M).keys : k \in Read(L).keys \/ k.table = Otel
<1>1. PICK new : new = [table |-> Otel, key |-> "exporter", val |-> Exporter(port, token)]
  OBVIOUS
<1>2. /\ \A k \in Read(L).keys :
           ~ (k.table = Stale \/ (k.table = Otel /\ k.key = "exporter")) => k \in Read(M).keys
      /\ \A k \in Read(M).keys :
           \/ k \in Read(L).keys
           \/ k.table = Otel /\ k.key = "exporter"
           \/ k.table = Otel /\ k.val = Setups
  BY <1>1, RegularEdit
<1> QED
  BY <1>2
=============================================================================

------------------------ MODULE SuricataConfigProofs -------------------------
(***************************************************************************)
(* What a toggle does to suricata.yaml, for every file: TLC checks the     *)
(* same of all files of a few lines.                                       *)
(***************************************************************************)
EXTENDS SuricataConfig, TLAPS, WellFoundedInduction, SequenceTheorems

-----------------------------------------------------------------------------
(* Least and greatest numbers *)

LEMMA LeastIs ==
  ASSUME NEW S \in SUBSET Nat, S # {}
  PROVE  Least(S) \in S /\ \A j \in S : Least(S) <= j
<1>1. PICK i \in S : \A j \in S : ~ (<<j, i>> \in OpToRel(<, Nat))
  BY WFMin, NatLessThanWellFounded, Zenon
<1>2. \A j \in S : ~ (j < i)
  BY <1>1, Zenon DEF OpToRel
<1>3. i \in S /\ \A j \in S : i <= j
  BY <1>2
<1> QED
  BY <1>3 DEF Least

LEMMA GreatestExists ==
  ASSUME NEW n \in Nat, NEW S \in SUBSET (1 .. n), S # {}
  PROVE  \E i \in S : \A j \in S : j <= i
<1> DEFINE T == {n - i : i \in S}
<1>1. T \in SUBSET Nat /\ T # {}
  <2>1. \A i \in S : n - i \in Nat
    OBVIOUS
  <2> QED
    BY <2>1
<1>2. Least(T) \in T /\ \A j \in T : Least(T) <= j
  BY <1>1, LeastIs
<1>3. PICK i \in S : Least(T) = n - i
  BY <1>2
<1>4. ASSUME NEW j \in S PROVE j <= i
  <2>1. n - j \in T
    OBVIOUS
  <2>2. n - i <= n - j
    BY <1>2, <1>3, <2>1
  <2>3. i \in Nat /\ j \in Nat
    OBVIOUS
  <2> HIDE DEF T
  <2> QED
    BY <2>2, <2>3
<1> QED
  BY <1>4

-----------------------------------------------------------------------------
(* Reading and writing back *)

LEMMA BlankLine == Blank \in Lines /\ ~Mentions(Blank) /\ ~Matches(Blank)
BY DEF Blank, Line, Lines, Texts, Mentions, Matches

LEMMA ReadLinesIs ==
  ASSUME NEW f \in Files
  PROVE  /\ ReadLines(f) \in Seq(Lines)
         /\ Len(ReadLines(f)) \in {Len(f) - 1, Len(f)}
         /\ \A i \in 1 .. Len(ReadLines(f)) : ReadLines(f)[i] = f[i]
         /\ \A i \in 1 .. Len(f) : f[i] # Blank => i \in 1 .. Len(ReadLines(f))
<1>1. CASE f[Len(f)] = Blank
  <2>1. Len(f) \in Nat /\ Len(f) >= 1
    BY DEF Files
  <2>2. ReadLines(f) = SubSeq(f, 1, Len(f) - 1)
    BY <1>1 DEF ReadLines, LastOf
  <2>3. /\ SubSeq(f, 1, Len(f) - 1) \in Seq(Lines)
        /\ Len(SubSeq(f, 1, Len(f) - 1)) = Len(f) - 1
        /\ \A i \in 1 .. Len(f) - 1 : SubSeq(f, 1, Len(f) - 1)[i] = f[i]
    <3> DEFINE m == Len(f) - 1
    <3>1. 1 \in Int /\ m \in Nat /\ \A i \in 1 .. m : f[i] \in Lines
      BY <2>1 DEF Files
    <3> HIDE DEF m
    <3>2. /\ SubSeq(f, 1, m) \in Seq(Lines)
          /\ Len(SubSeq(f, 1, m)) = IF 1 <= m THEN m - 1 + 1 ELSE 0
          /\ \A i \in 1 .. m - 1 + 1 : SubSeq(f, 1, m)[i] = f[1 + i - 1]
      BY <3>1, SubSeqProperties
    <3>3. (IF 1 <= m THEN m - 1 + 1 ELSE 0) = m /\ m - 1 + 1 = m
      BY <3>1
    <3>4. \A i \in 1 .. m : SubSeq(f, 1, m)[i] = f[i]
      BY <3>1, <3>2, <3>3
    <3> QED
      BY <3>2, <3>3, <3>4 DEF m
  <2> QED
    BY <1>1, <2>1, <2>2, <2>3
<1>2. CASE f[Len(f)] # Blank
  BY <1>2 DEF Files, ReadLines, LastOf
<1> QED
  BY <1>1, <1>2

LEMMA TerminatedIs ==
  ASSUME NEW f \in Seq(Lines)
  PROVE  /\ Terminated(f) \in Files
         /\ Len(Terminated(f)) \in {Len(f), Len(f) + 1}
         /\ \A i \in 1 .. Len(f) : Terminated(f)[i] = f[i]
         /\ \A i \in 1 .. Len(Terminated(f)) :
              Terminated(f)[i] # Blank => i \in 1 .. Len(f)
BY BlankLine DEF Files, Terminated, LastOf

-----------------------------------------------------------------------------
(* One toggle *)

Marked(line, m) == [line EXCEPT !.marks = m]

LEMMA MarkedIs ==
  ASSUME NEW line \in Lines, NEW m \in Nat
  PROVE  /\ Marked(line, m) \in Lines /\ Marked(line, m).marks = m
         /\ Mentions(Marked(line, m)) <=> Mentions(line)
         /\ Matches(Marked(line, m)) <=> Matches(line)
         /\ Marked(Marked(line, m), line.marks) = line
         /\ line.marks = m => Marked(line, m) = line
BY DEF Marked, Mentions, Matches, Lines

LEMMA MentionIsText ==
  \A line : (Mentions(line) => line # Blank) /\ (Matches(line) => Mentions(line))
<1>1. \A line : Matches(line) => Mentions(line)
  BY DEF Mentions, Matches
<1> QED
  BY <1>1, BlankLine

\* The marks a toggle leaves of a number of them.
After(marks, enable) ==
  IF enable THEN (IF marks > 0 THEN marks - 1 ELSE 0)
            ELSE (IF marks > 0 THEN marks ELSE 1)

LEMMA AfterIs ==
  ASSUME NEW line \in Lines, NEW enable \in BOOLEAN
  PROVE  /\ After(line.marks, enable) \in Nat
         /\ (IF enable THEN UncommentLine(line) ELSE CommentLine(line))
              = Marked(line, After(line.marks, enable))
         /\ (~Commented(line)) = enable => After(line.marks, enable) = line.marks
<1>1. line.marks \in Nat
  BY DEF Lines
<1>2. Marked(line, line.marks) = line
  BY <1>1, MarkedIs
<1>3. CASE Commented(line)
  <2>1. line.marks > 0 /\ line.marks - 1 \in Nat
    BY <1>1, <1>3 DEF Commented
  <2>2. UncommentLine(line) = Marked(line, line.marks - 1)
    BY <1>3 DEF UncommentLine, Marked
  <2>3. CommentLine(line) = Marked(line, line.marks)
    BY <1>2, <1>3 DEF CommentLine
  <2> HIDE DEF UncommentLine, CommentLine
  <2>4. CASE enable
    BY <1>3, <2>1, <2>2, <2>4 DEF After
  <2>5. CASE ~enable
    BY <1>1, <1>3, <2>1, <2>3, <2>5 DEF After
  <2> QED
    BY <2>4, <2>5
<1>4. CASE ~Commented(line)
  <2>1. ~(line.marks > 0) /\ line.marks = 0
    BY <1>1, <1>4 DEF Commented
  <2>2. UncommentLine(line) = Marked(line, 0)
    BY <1>2, <1>4, <2>1 DEF UncommentLine
  <2>3. CommentLine(line) = Marked(line, 1)
    BY <1>4 DEF CommentLine, Marked
  <2>4. CASE enable
    BY <1>4, <2>1, <2>2, <2>4 DEF After
  <2>5. CASE ~enable
    BY <1>4, <2>1, <2>3, <2>5 DEF After
  <2> QED
    BY <2>4, <2>5
<1> QED
  BY <1>3, <1>4

\* The lines of g are those of f, but for the mark of line k and for blank
\* lines at the end of either.
Agree(f, g, k, m) ==
  /\ g \in Files
  /\ \A i \in 1 .. Len(f) : f[i] # Blank => i \in 1 .. Len(g)
  /\ \A i \in 1 .. Len(g) : g[i] # Blank => i \in 1 .. Len(f)
  /\ \A i \in (1 .. Len(f)) \cap (1 .. Len(g)) :
       g[i] = IF i = k THEN Marked(f[i], m) ELSE f[i]

LEMMA PluginLineIs ==
  ASSUME NEW f \in Files, Configured(f)
  PROVE  /\ PluginLine(f) \in 1 .. Len(ReadLines(f))
         /\ PluginLine(f) \in 1 .. Len(f)
         /\ Matches(f[PluginLine(f)])
         /\ \A i \in 1 .. Len(f) : Matches(f[i]) => PluginLine(f) <= i
<1>1. DOMAIN ReadLines(f) = 1 .. Len(ReadLines(f)) /\ Len(ReadLines(f)) \in Nat
  BY ReadLinesIs
<1>2. PluginLines(f) \in SUBSET Nat /\ PluginLines(f) # {}
  BY <1>1 DEF PluginLines, Configured
<1>3. PluginLine(f) \in PluginLines(f)
      /\ \A j \in PluginLines(f) : PluginLine(f) <= j
  BY <1>2, LeastIs DEF PluginLine
<1>4. \A i \in 1 .. Len(f) : Matches(f[i]) => i \in PluginLines(f)
  BY <1>1, ReadLinesIs, BlankLine DEF PluginLines
<1> QED
  BY <1>1, <1>3, <1>4, ReadLinesIs DEF PluginLines, Files

LEMMA SetEnabledIs ==
  ASSUME NEW f \in Files, Configured(f), NEW enable \in BOOLEAN
  PROVE  Agree(f, SetEnabled(f, enable), PluginLine(f),
               After(f[PluginLine(f)].marks, enable))
<1> DEFINE k == PluginLine(f)
           m == After(f[k].marks, enable)
           g == [ReadLines(f) EXCEPT ![k] =
                   IF enable THEN UncommentLine(@) ELSE CommentLine(@)]
<1>0. k \in 1 .. Len(ReadLines(f)) /\ k \in 1 .. Len(f) /\ f[k] \in Lines
  BY PluginLineIs DEF Files
<1>1. /\ k \in 1 .. Len(ReadLines(f)) /\ k \in 1 .. Len(f) /\ f[k] \in Lines
      /\ m \in Nat
  BY <1>0, AfterIs
<1>2. CASE Enabled(f) = enable
  <2>1. Marked(f[k], m) = f[k]
    <3>1. f[k].marks = m
      BY <1>1, <1>2, AfterIs DEF Enabled
    <3> QED
      BY <1>1, <3>1, MarkedIs
  <2> QED
    BY <1>1, <1>2, <2>1 DEF SetEnabled, Agree
<1>3. CASE Enabled(f) # enable
  <2>1. Marked(f[k], m) \in Lines
    BY <1>1, MarkedIs
  <2>2. ReadLines(f)[k] = f[k]
    BY <1>1, ReadLinesIs
  <2>3. g = [ReadLines(f) EXCEPT ![k] = Marked(f[k], m)]
    BY <1>1, <2>2, AfterIs
  <2>4. SetEnabled(f, enable) = Terminated(g)
    BY <1>3 DEF SetEnabled
  <2> HIDE DEF g, m
  <2> DEFINE r == ReadLines(f)
             d == Marked(f[k], m)
  <2>5. r \in Seq(Lines) /\ k \in 1 .. Len(r) /\ d \in Lines
    BY <1>1, <2>1, ReadLinesIs
  <2>6. g = [r EXCEPT ![k] = d]
    BY <2>3
  <2> HIDE DEF r, d
  <2>7. /\ g \in Seq(Lines) /\ Len(g) = Len(r)
        /\ \A i \in 1 .. Len(g) : g[i] = IF i = k THEN d ELSE r[i]
    BY <2>5, <2>6
  <2>8. \A i \in 1 .. Len(g) :
          g[i] = IF i = k THEN Marked(f[i], m) ELSE f[i]
    BY <2>7, ReadLinesIs DEF r, d
  <2>9. /\ Len(g) \in Nat /\ Len(f) \in Nat /\ k \in 1 .. Len(g)
        /\ Len(g) \in {Len(f) - 1, Len(f)}
        /\ \A i \in 1 .. Len(f) : f[i] # Blank => i \in 1 .. Len(g)
    BY <1>1, <2>7, ReadLinesIs DEF r, Files
  <2> DEFINE t == Terminated(g)
  <2>10. /\ t \in Files
         /\ Len(t) \in {Len(g), Len(g) + 1}
         /\ \A i \in 1 .. Len(g) : t[i] = g[i]
         /\ \A i \in 1 .. Len(t) : t[i] # Blank => i \in 1 .. Len(g)
    BY <2>7, TerminatedIs
  <2> HIDE DEF t
  <2>11. \A i \in 1 .. Len(f) : f[i] # Blank => i \in 1 .. Len(t)
    BY <2>9, <2>10
  <2>12. \A i \in 1 .. Len(t) : t[i] # Blank => i \in 1 .. Len(f)
    BY <2>9, <2>10
  <2>13. ASSUME NEW i \in (1 .. Len(f)) \cap (1 .. Len(t))
         PROVE  t[i] = IF i = k THEN Marked(f[i], m) ELSE f[i]
    <3>1. CASE i \in 1 .. Len(g)
      BY <2>8, <2>10, <3>1
    <3>2. CASE i \notin 1 .. Len(g)
      <4>1. f[i] = Blank /\ t[i] = Blank /\ i # k
        BY <2>9, <2>10, <3>2
      <4> QED
        BY <4>1
    <3> QED
      BY <3>1, <3>2
  <2> QED
    BY <2>4, <2>10, <2>11, <2>12, <2>13 DEF Agree, t, m
<1> QED
  BY <1>2, <1>3

-----------------------------------------------------------------------------
(* The patch *)

LEMMA PieceIs ==
  ASSUME NEW f \in Seq(Lines), NEW m \in Nat, NEW n \in Nat,
         1 <= m, n <= Len(f)
  PROVE  /\ SubSeq(f, m, n) \in Seq(Lines)
         /\ m <= n => SubSeq(f, m, n) # <<>> /\ SubSeq(f, m, n)[1] = f[m]
<1>1. \A i \in m .. n : f[i] \in Lines
  OBVIOUS
<1>2. /\ SubSeq(f, m, n) \in Seq(Lines)
      /\ Len(SubSeq(f, m, n)) = IF m <= n THEN n - m + 1 ELSE 0
      /\ \A i \in 1 .. n - m + 1 : SubSeq(f, m, n)[i] = f[m + i - 1]
  BY <1>1, SubSeqProperties
<1>3. ASSUME m <= n PROVE Len(SubSeq(f, m, n)) # 0 /\ SubSeq(f, m, n)[1] = f[m]
  <2>1. 1 \in 1 .. n - m + 1 /\ m + 1 - 1 = m /\ n - m + 1 # 0
    BY <1>3
  <2> QED
    BY <1>2, <1>3, <2>1
<1> QED
  BY <1>2, <1>3

LEMMA KeyIs ==
  ASSUME NEW f \in Seq(Lines), NEW key, KeyLines(f, key) # {}
  PROVE  Least(KeyLines(f, key)) \in KeyLines(f, key)
         /\ Least(KeyLines(f, key)) \in 1 .. Len(f)
<1>1. KeyLines(f, key) \in SUBSET Nat
  BY DEF KeyLines
<1>2. Least(KeyLines(f, key)) \in KeyLines(f, key)
  BY <1>1, LeastIs
<1> QED
  BY <1>2 DEF KeyLines

LEMMA IndentIs ==
  ASSUME NEW f \in Seq(Lines), NEW i \in 1 .. Len(f)
  PROVE  f[i].ind \in Nat
<1>1. f[i] \in Lines
  OBVIOUS
<1> QED
  BY <1>1 DEF Lines

LEMMA BlockEndIs ==
  ASSUME NEW f \in Seq(Lines), NEW i \in 1 .. Len(f), NEW indent \in Nat
  PROVE  BlockEnd(f, i, indent) \in i + 1 .. Len(f) + 1
<1> DEFINE S == {j \in i + 1 .. Len(f) : f[j] # Blank /\ f[j].ind <= indent}
                  \cup {Len(f) + 1}
<1>1. S \in SUBSET Nat /\ S # {} /\ S \subseteq i + 1 .. Len(f) + 1
  OBVIOUS
<1>2. Least(S) \in S
  BY <1>1, LeastIs
<1> QED
  BY <1>1, <1>2 DEF BlockEnd

LEMMA ReplaceIs ==
  ASSUME NEW f \in Seq(Lines), NEW block \in Seq(Lines),
         NEW first \in 1 .. Len(f) + 1, NEW end \in 1 .. Len(f) + 1
  PROVE  Replace(f, first, end, block) \in Seq(Lines)
<1>1. first - 1 \in Nat /\ first - 1 <= Len(f) /\ end \in Nat /\ 1 <= end
      /\ Len(f) \in Nat
  OBVIOUS
<1> DEFINE n == first - 1
<1>2. n \in Nat /\ n <= Len(f)
  BY <1>1
<1> HIDE DEF n
<1>3. SubSeq(f, 1, n) \in Seq(Lines) /\ SubSeq(f, end, Len(f)) \in Seq(Lines)
  BY <1>1, <1>2, PieceIs
<1>4. SubSeq(f, 1, n) \o block \in Seq(Lines)
  BY <1>3, ConcatProperties
<1>5. (SubSeq(f, 1, n) \o block) \o SubSeq(f, end, Len(f)) \in Seq(Lines)
  BY <1>3, <1>4, ConcatProperties
<1> QED
  BY <1>5 DEF Replace, n

LEMMA FirstBlockIs ==
  ASSUME NEW f \in Seq(Lines), NEW key, KeyLines(f, key) # {}
  PROVE  /\ FirstBlock(f, key) \in Seq(Lines) \ {<<>>}
         /\ FirstBlock(f, key)[1] = f[Least(KeyLines(f, key))]
<1> DEFINE i == Least(KeyLines(f, key))
           e == BlockEnd(f, i, f[i].ind)
           n == e - 1
<1>0. i \in 1 .. Len(f)
  BY KeyIs
<1>1. i \in 1 .. Len(f) /\ f[i].ind \in Nat
  BY <1>0, IndentIs
<1>2. e \in i + 1 .. Len(f) + 1
  BY <1>1, BlockEndIs
<1> HIDE DEF i, e
<1>3. i \in Nat /\ n \in Nat /\ 1 <= i /\ i <= n /\ n <= Len(f)
  BY <1>1, <1>2
<1> HIDE DEF n
<1>4. SubSeq(f, i, n) \in Seq(Lines) /\ SubSeq(f, i, n) # <<>>
      /\ SubSeq(f, i, n)[1] = f[i]
  BY <1>3, PieceIs
<1> QED
  BY <1>4 DEF FirstBlock, i, n, e

LEMMA AppendedIs ==
  ASSUME NEW f \in Seq(Lines), NEW block \in Seq(Lines)
  PROVE  Separated(f) \o block \in Seq(Lines)
<1>1. Separated(f) \in Seq(Lines)
  BY BlankLine DEF Separated
<1> QED
  BY <1>1, ConcatProperties

LEMMA UncommentIs ==
  ASSUME NEW line \in Lines
  PROVE  /\ UncommentLine(line) \in Lines
         /\ UncommentLine(line).text = line.text
         /\ UncommentLine(line).ind = line.ind
         /\ line.marks <= 1 => UncommentLine(line).marks = 0
         /\ line.marks = 0 => UncommentLine(line) = line
<1>1. line.marks \in Nat
  BY DEF Lines
<1>2. CASE Commented(line)
  <2>1. /\ line.marks > 0 /\ line.marks - 1 \in Nat
        /\ line.marks <= 1 => line.marks - 1 = 0
    BY <1>1, <1>2 DEF Commented
  <2> DEFINE m == line.marks - 1
  <2>2. UncommentLine(line) = [line EXCEPT !.marks = m]
    BY <1>2 DEF UncommentLine
  <2>3. m \in Nat
    BY <2>1
  <2> HIDE DEF m
  <2>4. [line EXCEPT !.marks = m] \in Lines /\ [line EXCEPT !.marks = m].marks = m
        /\ [line EXCEPT !.marks = m].text = line.text
        /\ [line EXCEPT !.marks = m].ind = line.ind
    BY <2>3 DEF Lines
  <2> QED
    BY <2>1, <2>2, <2>4 DEF m
<1>3. CASE ~Commented(line)
  <2>1. line.marks = 0 /\ UncommentLine(line) = line
    BY <1>1, <1>3 DEF Commented, UncommentLine
  <2> QED
    BY <2>1
<1> QED
  BY <1>2, <1>3

\* ensureBlockExact leaves a file of lines.
LEMMA ExactIs ==
  ASSUME NEW f \in Seq(Lines), NEW block \in Seq(Lines), NEW key
  PROVE  EnsureBlockExact(f, block, key).lines \in Seq(Lines)
<1> DEFINE tpl   == MakeBlockUncommented(block)
           first == Least(KeyLines(f, key))
           end   == BlockEnd(f, first, f[first].ind)
<1>1. tpl \in Seq(Lines)
  <2>1. \A i \in 1 .. Len(block) : UncommentLine(block[i]) \in Lines
    BY UncommentIs
  <2>2. tpl = [i \in 1 .. Len(block) |-> UncommentLine(block[i])]
    BY DEF MakeBlockUncommented
  <2> QED
    BY <2>1, <2>2
<1>2. CASE KeyLines(f, key) = {}
  BY <1>1, <1>2, AppendedIs DEF EnsureBlockExact, Patched
<1>3. CASE KeyLines(f, key) # {}
  <2>0. first \in 1 .. Len(f)
    BY <1>3, KeyIs
  <2>1. first \in 1 .. Len(f) /\ f[first].ind \in Nat
    BY <2>0, IndentIs
  <2>2. end \in first + 1 .. Len(f) + 1
    BY <2>1, BlockEndIs
  <2> HIDE DEF tpl, first, end
  <2>3. first \in 1 .. Len(f) + 1 /\ end \in 1 .. Len(f) + 1
    BY <2>1, <2>2
  <2>4. Replace(f, first, end, tpl) \in Seq(Lines)
    BY <1>1, <2>3, ReplaceIs
  <2> QED
    BY <1>3, <2>4 DEF EnsureBlockExact, Patched, tpl, first, end
<1> QED
  BY <1>2, <1>3

LEMMA OpenIs ==
  ASSUME NEW f \in Seq(Lines), NEW i \in 1 .. Len(f)
  PROVE  Open(f, i) \in Seq(Lines) /\ Len(Open(f, i)) = Len(f)
<1>1. f[i] \in Lines
  OBVIOUS
<1>2. UncommentLine(f[i]) \in Lines
  BY <1>1, UncommentIs
<1> QED
  BY <1>2 DEF Open

\* ensurePluginsNDPI leaves a file of lines.
LEMMA PluginsIs ==
  ASSUME NEW f \in Seq(Lines), NEW ndpi \in Lines
  PROVE  EnsurePluginsNDPI(f, 0, ndpi).lines \in Seq(Lines)
<1> DEFINE key   == Least(KeyLines(f, "plugins:"))
           end   == BlockEnd(f, key, 0)
           open  == Open(f, key)
           found == PluginEntries(f, key, end)
           new   == NewEntry(ndpi, 0)
           top   == Line("plugins:", 0, 0)
<1>1. top \in Lines
  BY DEF Lines, Line, Texts
<1>2. new \in Lines
  <2>1. new = [ndpi EXCEPT !.ind = 2]
    BY DEF NewEntry
  <2> QED
    BY <2>1 DEF Lines
<1> HIDE DEF new, top
<1>3. CASE KeyLines(f, "plugins:") = {}
  <2>1. <<top, new>> \in Seq(Lines)
    BY <1>1, <1>2
  <2>2. Separated(f) \o <<top, new>> \in Seq(Lines)
    BY <2>1, AppendedIs
  <2> QED
    BY <1>3, <2>2 DEF EnsurePluginsNDPI, Patched, top, new
<1>4. CASE KeyLines(f, "plugins:") # {}
  <2>1. key \in 1 .. Len(f)
    BY <1>4, KeyIs
  <2>2. end \in key + 1 .. Len(f) + 1
    BY <2>1, BlockEndIs
  <2>3. open \in Seq(Lines) /\ Len(open) = Len(f)
    BY <2>1, OpenIs
  <2>4. found \in SUBSET (key + 1 .. end - 1)
    BY DEF PluginEntries
  <2> HIDE DEF key, end, open, found
  <2>5. CASE found = {}
    <3>1. end \in 1 .. Len(open) + 1 /\ <<new>> \in Seq(Lines)
      BY <1>2, <2>1, <2>2, <2>3
    <3>2. Replace(open, end, end, <<new>>) \in Seq(Lines)
      BY <2>3, <3>1, ReplaceIs
    <3> QED
      BY <1>4, <2>5, <3>2
      DEF EnsurePluginsNDPI, Patched, key, end, open, found, new
  <2>6. CASE found # {}
    <3>1. found \in SUBSET Nat
      BY <2>1, <2>2, <2>4
    <3>2. Least(found) \in found
      BY <2>6, <3>1, LeastIs
    <3>3. Least(found) \in 1 .. Len(open)
      <4> DEFINE j == Least(found)
      <4>1. j \in key + 1 .. end - 1
        BY <2>4, <3>2
      <4> HIDE DEF j
      <4>2. j \in 1 .. Len(open)
        BY <2>1, <2>2, <2>3, <4>1
      <4> QED
        BY <4>2 DEF j
    <3>4. Open(open, Least(found)) \in Seq(Lines)
      BY <2>3, <3>3, OpenIs
    <3> QED
      BY <1>4, <2>6, <3>4
      DEF EnsurePluginsNDPI, Patched, key, end, open, found
  <2> QED
    BY <2>5, <2>6
<1> QED
  BY <1>3, <1>4

\* The patch leaves a file, whatever it was given.
LEMMA PatchIs ==
  ASSUME NEW f \in Files
  PROVE  PatchFromTemplate(Template, f).lines \in Files
<1> DEFINE plugins == FirstBlock(Template, "plugins:")
           at      == {i \in DOMAIN plugins : Mentions(plugins[i])}
           ndpi    == plugins[Least(at)]
           unix    == IF KeyLines(Template, "unix-command:") = {}
                        THEN Patched(f, FALSE)
                        ELSE EnsureBlockExact(f,
                               FirstBlock(Template, "unix-command:"),
                               "unix-command:")
           both    == EnsurePluginsNDPI(unix.lines, plugins[1].ind, ndpi)
<1>1. /\ Template \in Seq(Lines)
      /\ KeyLines(Template, "plugins:") # {}
      /\ at # {}
  BY TemplateAssumption DEF TemplateOK
<1>2. /\ plugins \in Seq(Lines)
      /\ plugins[1] = Template[Least(KeyLines(Template, "plugins:"))]
  BY <1>1, FirstBlockIs
<1>3. plugins[1].ind = 0
  <2>1. Least(KeyLines(Template, "plugins:")) \in KeyLines(Template, "plugins:")
    BY <1>1, KeyIs
  <2>2. Template[Least(KeyLines(Template, "plugins:"))].text = "plugins:"
    BY <2>1 DEF KeyLines, Names
  <2> QED
    BY <1>2, <2>1, <2>2, TemplateAssumption DEF KeyLines
<1>4. ndpi \in Lines
  <2>1. at \in SUBSET Nat
    BY <1>2
  <2>2. Least(at) \in at
    BY <1>1, <2>1, LeastIs
  <2> QED
    BY <1>2, <2>2
<1>5. unix.lines \in Seq(Lines)
  <2>1. CASE KeyLines(Template, "unix-command:") = {}
    BY <2>1 DEF Patched, Files
  <2>2. CASE KeyLines(Template, "unix-command:") # {}
    <3>1. FirstBlock(Template, "unix-command:") \in Seq(Lines)
      BY <1>1, <2>2, FirstBlockIs
    <3> QED
      BY <2>2, <3>1, ExactIs DEF Files
  <2> QED
    BY <2>1, <2>2
<1> HIDE DEF plugins, at, ndpi, unix
<1>6. both.lines \in Seq(Lines)
  BY <1>3, <1>4, <1>5, PluginsIs
<1> HIDE DEF both
<1>7. Terminated(both.lines) \in Files
  BY <1>6, TerminatedIs
<1>8. PatchFromTemplate(Template, f).lines = Terminated(both.lines)
  BY DEF PatchFromTemplate, Patched, both, unix, ndpi, at, plugins
<1> QED
  BY <1>7, <1>8

-----------------------------------------------------------------------------
(* Two toggles *)

\* A toggle leaves the plugin's line where it finds it.
LEMMA AgreeKeepsLine ==
  ASSUME NEW f \in Files, Configured(f), NEW m \in Nat, NEW g,
         Agree(f, g, PluginLine(f), m)
  PROVE  /\ g \in Files /\ Configured(g) /\ PluginLine(g) = PluginLine(f)
         /\ PluginLine(f) \in (1 .. Len(f)) \cap (1 .. Len(g))
         /\ g[PluginLine(f)].marks = m
<1> DEFINE k == PluginLine(f)
<1>1. /\ k \in 1 .. Len(f) /\ Matches(f[k])
      /\ \A i \in 1 .. Len(f) : Matches(f[i]) => k <= i
  BY PluginLineIs
<1>2. g \in Files
  BY DEF Agree
<1>3. \A i \in 1 .. Len(f) : f[i] \in Lines
  BY DEF Files
<1>4. k \in 1 .. Len(g)
  BY <1>1, <1>3, MentionIsText DEF Agree
<1>5. g[k] = Marked(f[k], m)
  BY <1>1, <1>4 DEF Agree
<1>6. Matches(g[k]) /\ g[k] # Blank /\ g[k].marks = m
  BY <1>1, <1>3, <1>5, MarkedIs, MentionIsText
<1>7. Configured(g)
  <2>1. k \in 1 .. Len(ReadLines(g)) /\ DOMAIN ReadLines(g) = 1 .. Len(ReadLines(g))
    BY <1>2, <1>4, <1>6, ReadLinesIs
  <2> QED
    BY <1>6, <2>1 DEF Configured, PluginLines
<1> HIDE DEF k
<1> DEFINE l == PluginLine(g)
<1>8. /\ l \in 1 .. Len(g) /\ Matches(g[l])
      /\ \A i \in 1 .. Len(g) : Matches(g[i]) => l <= i
  BY <1>2, <1>7, PluginLineIs
<1> HIDE DEF l
<1>9. l <= k
  BY <1>4, <1>6, <1>8
<1>10. g[l] # Blank
  BY <1>8, BlankLine
<1>11. l \in 1 .. Len(f)
  BY <1>8, <1>10 DEF Agree, k
<1>12. Matches(f[l])
  <2>1. g[l] = f[l] \/ g[l] = Marked(f[l], m)
    BY <1>8, <1>11 DEF Agree
  <2> QED
    BY <1>3, <1>8, <1>11, <2>1, MarkedIs
<1>13. k <= l
  BY <1>1, <1>11, <1>12
<1>14. k = l
  <2>1. k \in Nat /\ l \in Nat
    BY <1>1, <1>8
  <2> QED
    BY <1>9, <1>13, <2>1
<1> QED
  BY <1>1, <1>2, <1>4, <1>6, <1>7, <1>14 DEF k, l

\* Files that agree, but for blank lines at their ends, are the same trimmed.
LEMMA TrimmedIs ==
  ASSUME NEW f \in Files, NEW g \in Files,
         NEW k \in 1 .. Len(f), f[k] # Blank,
         {i \in DOMAIN f : f[i] # Blank} = {i \in DOMAIN g : g[i] # Blank},
         NEW m \in Nat,
         \A i \in 1 .. Len(f) : f[i] # Blank => i <= m,
         \A i \in 1 .. Len(f) : i <= m /\ i <= Len(g) => f[i] = g[i]
  PROVE  Trimmed(f) = Trimmed(g)
<1> DEFINE text == {i \in DOMAIN f : f[i] # Blank}
           n == CHOOSE n \in text : \A i \in text : i <= n
<1>1. DOMAIN f = 1 .. Len(f) /\ DOMAIN g = 1 .. Len(g)
      /\ Len(f) \in Nat /\ Len(g) \in Nat
  BY DEF Files
<1>2. text \in SUBSET (1 .. Len(f)) /\ text # {}
  BY <1>1
<1>3. \E i \in text : \A j \in text : j <= i
  BY <1>1, <1>2, GreatestExists
<1>4. n \in text
  BY <1>3
<1>5. Trimmed(f) = SubSeq(f, 1, n) /\ Trimmed(g) = SubSeq(g, 1, n)
  BY DEF Trimmed
<1>6. n \in 1 .. Len(f) /\ n \in 1 .. Len(g) /\ n <= m
  BY <1>1, <1>4
<1> HIDE DEF n, text
<1>7. \A i \in 1 .. n : i \in 1 .. Len(f) /\ i <= Len(g) /\ i <= m
  BY <1>1, <1>6
<1>8. \A i \in 1 .. n : f[i] = g[i]
  BY <1>7
<1>9. SubSeq(f, 1, n) = SubSeq(g, 1, n)
  BY <1>1, <1>6, <1>8 DEF Files
<1> QED
  BY <1>5, <1>9

\* Switching the plugin and switching it back.
LEMMA AnyFileRoundTrips == ASSUME TypeOK PROVE RoundTrip
<1> SUFFICES ASSUME Configured(file), file[PluginLine(file)].marks <= 1 PROVE
      LET there == SetEnabled(file, ~Enabled(file))
          back  == SetEnabled(there, Enabled(file))
      IN  Enabled(there) # Enabled(file) /\ Trimmed(back) = Trimmed(file)
  BY DEF RoundTrip
<1> DEFINE k     == PluginLine(file)
           on    == Enabled(file)
           there == SetEnabled(file, ~on)
           back  == SetEnabled(there, on)
<1>1. file \in Files /\ k \in 1 .. Len(file) /\ Matches(file[k])
  BY PluginLineIs DEF TypeOK
<1>2. \A i \in 1 .. Len(file) : file[i] \in Lines
  BY <1>1 DEF Files
<1>3. on \in BOOLEAN /\ file[k].marks = (IF on THEN 0 ELSE 1)
  <2>1. file[k].marks \in Nat /\ file[k].marks <= 1
    BY <1>1, <1>2 DEF Lines
  <2> QED
    BY <2>1 DEF Enabled, Commented
<1> DEFINE m == IF on THEN 1 ELSE 0
           b == IF on THEN 0 ELSE 1
<1>4. Agree(file, there, k, m)
  <2>1. After(file[k].marks, ~on) = m
    BY <1>3 DEF After
  <2> QED
    BY <1>1, <1>3, <2>1, SetEnabledIs
<1> HIDE DEF there
<1>5. /\ there \in Files /\ Configured(there) /\ PluginLine(there) = k
      /\ k \in 1 .. Len(there) /\ there[k].marks = m
  BY <1>1, <1>3, <1>4, AgreeKeepsLine
<1>6. Agree(there, back, k, b)
  <2>1. After(there[k].marks, on) = b
    BY <1>3, <1>5 DEF After
  <2> QED
    BY <1>3, <1>5, <2>1, SetEnabledIs
<1>7. back \in Files
  BY <1>6 DEF Agree
<1> HIDE DEF back
<1>8. Enabled(there) # Enabled(file)
  BY <1>1, <1>3, <1>5 DEF Enabled, Commented
<1>20. m \in Nat /\ b \in Nat /\ file[k].marks = b
  BY <1>3
<1> HIDE DEF k, on, m, b
<1>9. ASSUME NEW i \in 1 .. Len(file), i \in 1 .. Len(there),
             i \in 1 .. Len(back)
      PROVE  back[i] = file[i]
  <2>1. file[i] \in Lines
    BY <1>2
  <2>2. there[i] = IF i = k THEN Marked(file[i], m) ELSE file[i]
    BY <1>4, <1>9 DEF Agree
  <2>3. back[i] = IF i = k THEN Marked(there[i], b) ELSE there[i]
    BY <1>6, <1>9 DEF Agree
  <2>4. CASE i = k
    <3>1. back[i] = Marked(Marked(file[i], m), file[i].marks)
      BY <1>20, <2>2, <2>3, <2>4
    <3> QED
      BY <1>20, <2>1, <3>1, MarkedIs
  <2>5. CASE i # k
    BY <2>2, <2>3, <2>5
  <2> QED
    BY <2>4, <2>5
<1>10. Matches(there[k])
  <2>1. there[k] = Marked(file[k], m)
    BY <1>1, <1>4, <1>5 DEF Agree
  <2> QED
    BY <1>1, <1>2, <1>20, <2>1, MarkedIs
<1>11. ASSUME NEW i \in 1 .. Len(file), file[i] # Blank
       PROVE  i \in 1 .. Len(there) /\ i \in 1 .. Len(back)
  <2>1. i \in 1 .. Len(there)
    BY <1>4, <1>11 DEF Agree
  <2>2. there[i] # Blank
    <3>1. CASE i = k
      <4>1. Matches(there[i])
        BY <1>10, <3>1
      <4> QED
        BY <4>1, MentionIsText
    <3>2. CASE i # k
      BY <1>4, <1>11, <2>1, <3>2 DEF Agree
    <3> QED
      BY <3>1, <3>2
  <2> QED
    BY <1>6, <2>1, <2>2 DEF Agree
<1>12. ASSUME NEW i \in 1 .. Len(back), back[i] # Blank
       PROVE  i \in 1 .. Len(there) /\ i \in 1 .. Len(file)
  <2>1. i \in 1 .. Len(there)
    BY <1>6, <1>12 DEF Agree
  <2>2. there[i] # Blank
    <3>1. CASE i = k
      <4>1. Matches(there[i])
        BY <1>10, <3>1
      <4> QED
        BY <4>1, MentionIsText
    <3>2. CASE i # k
      BY <1>6, <1>12, <2>1, <3>2 DEF Agree
    <3> QED
      BY <3>1, <3>2
  <2> QED
    BY <1>4, <2>1, <2>2 DEF Agree
<1>13. DOMAIN file = 1 .. Len(file) /\ DOMAIN back = 1 .. Len(back)
       /\ Len(there) \in Nat
  BY <1>1, <1>5, <1>7 DEF Files
<1>14. {i \in DOMAIN file : file[i] # Blank} = {i \in DOMAIN back : back[i] # Blank}
  BY <1>9, <1>11, <1>12, <1>13
<1>15. \A i \in 1 .. Len(file) : file[i] # Blank => i <= Len(there)
  BY <1>11
<1>16. \A i \in 1 .. Len(file) : i <= Len(there) /\ i <= Len(back) => file[i] = back[i]
  <2>1. \A i \in 1 .. Len(file) : i <= Len(there) /\ i <= Len(back) =>
          i \in 1 .. Len(there) /\ i \in 1 .. Len(back)
    BY <1>1, <1>5, <1>7, <1>13 DEF Files
  <2> QED
    BY <1>9, <2>1
<1>17. file[k] # Blank
  BY <1>1, MentionIsText
<1>18. Trimmed(file) = Trimmed(back)
  BY <1>1, <1>7, <1>13, <1>14, <1>15, <1>16, <1>17, TrimmedIs
<1> QED
  BY <1>8, <1>18 DEF there, back, on

-----------------------------------------------------------------------------
(* Theorems *)

\* SuricataConfig.tla: whatever is reconciled and toggled, in any order, and
\* whatever the file was, it stays a file of lines.
THEOREM TypeCorrect == Spec => []TypeOK
<1>1. Init => TypeOK
  BY InitialFilesAssumption DEF Init, TypeOK
<1>2. TypeOK /\ [Next]_vars => TypeOK'
  <2> SUFFICES ASSUME TypeOK, [Next]_vars PROVE TypeOK'
    OBVIOUS
  <2>1. CASE Reconcile
    <3>1. PatchFromTemplate(Template, file).lines \in Files
      BY PatchIs DEF TypeOK
    <3> QED
      BY <2>1, <3>1 DEF Reconcile, TypeOK, OnceCommented
  <2>2. ASSUME NEW enable \in BOOLEAN, Toggle(enable) PROVE TypeOK'
    <3>1. Configured(file) => SetEnabled(file, enable) \in Files
      BY SetEnabledIs DEF TypeOK, Agree
    <3> QED
      BY <2>2, <3>1 DEF Toggle, TypeOK
  <2>3. CASE UNCHANGED vars
    BY <2>3 DEF vars, TypeOK
  <2> QED
    BY <2>1, <2>2, <2>3 DEF Next
<1> QED
  BY <1>1, <1>2, PTL DEF Spec

\* SuricataConfig.tla: in every file that comes about, switching the plugin and
\* switching it back gives its lines again, up to blank ones at the end, if the
\* plugin's line carries one comment mark at most: of two, ndpi_toggle.go:162
\* takes one off and leaves a comment.
THEOREM TogglesUndo == Spec => []RoundTrip
<1>1. TypeOK => RoundTrip
  BY AnyFileRoundTrips
<1> QED
  BY <1>1, TypeCorrect, PTL

=============================================================================

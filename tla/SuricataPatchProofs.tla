------------------------- MODULE SuricataPatchProofs --------------------------
(***************************************************************************)
(* What the patch of suricata.yaml achieves, for files and templates of    *)
(* any length.  The definitions of SuricataYaml compute the patch from     *)
(* pieces of the file; the lemmas say which line stands where in what      *)
(* comes out, and the theorems follow from that.                           *)
(***************************************************************************)
EXTENDS SuricataConfigProofs

-----------------------------------------------------------------------------
(* Blocks and keys, line by line *)

\* The block that begins at line i ends before line e.
EndsBlock(f, i, indent, e) ==
  /\ e \in i + 1 .. Len(f) + 1
  /\ \A l \in i + 1 .. e - 1 : f[l] = Blank \/ f[l].ind > indent
  /\ e <= Len(f) => f[e] # Blank /\ f[e].ind <= indent

LEMMA BlockEndEnds ==
  ASSUME NEW f \in Seq(Lines), NEW i \in 1 .. Len(f), NEW indent \in Nat
  PROVE  EndsBlock(f, i, indent, BlockEnd(f, i, indent))
<1> DEFINE S == {j \in i + 1 .. Len(f) : f[j] # Blank /\ f[j].ind <= indent}
                  \cup {Len(f) + 1}
           e == Least(S)
<1>1. S \in SUBSET Nat /\ S # {}
  OBVIOUS
<1>2. e \in S /\ \A j \in S : e <= j
  BY <1>1, LeastIs
<1>3. e \in i + 1 .. Len(f) + 1
  BY <1>2
<1>4. e <= Len(f) => f[e] # Blank /\ f[e].ind <= indent
  BY <1>2
<1>5. ASSUME NEW l \in i + 1 .. e - 1 PROVE f[l] = Blank \/ f[l].ind > indent
  <2> HIDE DEF e
  <2>1. l \in 1 .. Len(f) /\ l \in i + 1 .. Len(f) /\ ~(e <= l)
    BY <1>3
  <2>2. l \notin S
    BY <1>2, <2>1
  <2>3. f[l].ind \in Nat
    BY <2>1, IndentIs
  <2> QED
    BY <2>1, <2>2, <2>3
<1>6. e = BlockEnd(f, i, indent)
  BY DEF BlockEnd
<1> HIDE DEF e
<1> QED
  BY <1>3, <1>4, <1>5, <1>6 DEF EndsBlock

LEMMA BlockEndUnique ==
  ASSUME NEW f \in Seq(Lines), NEW i \in 1 .. Len(f), NEW indent \in Nat,
         NEW e, EndsBlock(f, i, indent, e)
  PROVE  BlockEnd(f, i, indent) = e
<1> DEFINE b == BlockEnd(f, i, indent)
<1>1. EndsBlock(f, i, indent, b)
  BY BlockEndEnds
<1>2. \A l \in 1 .. Len(f) : f[l].ind \in Nat
  BY IndentIs
<1> HIDE DEF b
<1>3. /\ b \in Nat /\ e \in Nat /\ b \in i + 1 .. Len(f) + 1
      /\ e \in i + 1 .. Len(f) + 1
  BY <1>1 DEF EndsBlock
<1>4. ~(b < e)
  <2> SUFFICES ASSUME b < e PROVE FALSE
    OBVIOUS
  <2>1. b \in i + 1 .. e - 1 /\ b <= Len(f) /\ b \in 1 .. Len(f)
    BY <1>3
  <2> QED
    BY <1>1, <1>2, <2>1 DEF EndsBlock
<1>5. ~(e < b)
  <2> SUFFICES ASSUME e < b PROVE FALSE
    OBVIOUS
  <2>1. e \in i + 1 .. b - 1 /\ e <= Len(f) /\ e \in 1 .. Len(f)
    BY <1>3
  <2> QED
    BY <1>1, <1>2, <2>1 DEF EndsBlock
<1> QED
  BY <1>3, <1>4, <1>5 DEF b

\* Line k is the first with this key.
FirstKey(f, key, k) ==
  /\ k \in 1 .. Len(f)
  /\ Names(f[k], key)
  /\ \A l \in 1 .. k - 1 : ~Names(f[l], key)

LEMMA KeyIsFirst ==
  ASSUME NEW f \in Seq(Lines), NEW key, KeyLines(f, key) # {}
  PROVE  FirstKey(f, key, Least(KeyLines(f, key)))
<1> DEFINE k == Least(KeyLines(f, key))
<1>1. KeyLines(f, key) \in SUBSET Nat
  BY DEF KeyLines
<1>2. k \in KeyLines(f, key) /\ \A j \in KeyLines(f, key) : k <= j
  BY <1>1, LeastIs
<1> HIDE DEF k
<1>3. k \in 1 .. Len(f) /\ Names(f[k], key)
  BY <1>2 DEF KeyLines
<1>4. ASSUME NEW l \in 1 .. k - 1 PROVE ~Names(f[l], key)
  <2>1. l \in 1 .. Len(f) /\ ~(k <= l)
    BY <1>3
  <2> QED
    BY <1>2, <2>1 DEF KeyLines
<1> QED
  BY <1>3, <1>4 DEF FirstKey, k

LEMMA FirstKeyUnique ==
  ASSUME NEW f \in Seq(Lines), NEW key, NEW k, FirstKey(f, key, k)
  PROVE  KeyLines(f, key) # {} /\ Least(KeyLines(f, key)) = k
<1> DEFINE m == Least(KeyLines(f, key))
<1>1. k \in KeyLines(f, key)
  BY DEF FirstKey, KeyLines
<1>2. FirstKey(f, key, m)
  BY <1>1, KeyIsFirst
<1> HIDE DEF m
<1>3. k \in Nat /\ m \in Nat /\ ~(k < m) /\ ~(m < k)
  BY <1>2 DEF FirstKey
<1> QED
  BY <1>1, <1>3 DEF m

\* What a replacement leaves where.
LEMMA ReplaceAt ==
  ASSUME NEW f \in Seq(Lines), NEW block \in Seq(Lines),
         NEW first \in 1 .. Len(f) + 1, NEW end \in first .. Len(f) + 1
  PROVE  LET r == Replace(f, first, end, block)
             n == Len(block)
         IN  /\ r \in Seq(Lines)
             /\ Len(r) = Len(f) - (end - first) + n
             /\ \A i \in 1 .. Len(r) :
                  r[i] = IF i < first THEN f[i]
                         ELSE IF i < first + n THEN block[i - first + 1]
                         ELSE f[i - n + (end - first)]
<1> DEFINE m == first - 1
           L == Len(f)
           n == Len(block)
           a == SubSeq(f, 1, m)
           c == SubSeq(f, end, L)
           r == Replace(f, first, end, block)
<1>1. /\ m \in Nat /\ L \in Nat /\ n \in Nat /\ m <= L
      /\ first = m + 1 /\ end \in Nat /\ 1 <= end /\ first <= end /\ end <= L + 1
      /\ end \in Int /\ 1 \in Int
  OBVIOUS
<1>2. \A i \in 1 .. L : f[i] \in Lines
  OBVIOUS
<1> HIDE DEF m, L
<1>3. /\ a \in Seq(Lines) /\ Len(a) = m
      /\ \A i \in 1 .. m : a[i] = f[i]
  <2>1. \A i \in 1 .. m : f[i] \in Lines
    BY <1>1, <1>2
  <2>2. /\ a \in Seq(Lines)
        /\ Len(a) = IF 1 <= m THEN m - 1 + 1 ELSE 0
        /\ \A i \in 1 .. m - 1 + 1 : a[i] = f[1 + i - 1]
    BY <1>1, <2>1, SubSeqProperties
  <2> HIDE DEF a
  <2>3. Len(a) = m
    BY <1>1, <2>2
  <2>4. ASSUME NEW i \in 1 .. m PROVE a[i] = f[i]
    <3>1. i \in 1 .. m - 1 + 1 /\ 1 + i - 1 = i
      BY <1>1
    <3> QED
      BY <2>2, <3>1
  <2> QED
    BY <2>2, <2>3, <2>4
<1>4. /\ c \in Seq(Lines) /\ Len(c) = L - end + 1
      /\ \A i \in 1 .. L - end + 1 : c[i] = f[end + i - 1]
  <2>1. \A i \in end .. L : f[i] \in Lines
    BY <1>1, <1>2
  <2>2. /\ c \in Seq(Lines)
        /\ Len(c) = IF end <= L THEN L - end + 1 ELSE 0
        /\ \A i \in 1 .. L - end + 1 : c[i] = f[end + i - 1]
    BY <1>1, <2>1, SubSeqProperties
  <2> HIDE DEF c
  <2>3. Len(c) = L - end + 1
    BY <1>1, <2>2
  <2> QED
    BY <2>2, <2>3
<1>5. r = (a \o block) \o c
  BY DEF r, a, c, Replace, m, L
<1> HIDE DEF a, c, r, n
<1> DEFINE ab == a \o block
<1>6. /\ ab \in Seq(Lines) /\ Len(ab) = m + n
      /\ \A i \in 1 .. m + n : ab[i] = IF i <= m THEN a[i] ELSE block[i - m]
  BY <1>3, ConcatProperties DEF n
<1> HIDE DEF ab
<1>7. /\ ab \o c \in Seq(Lines) /\ Len(ab \o c) = (m + n) + (L - end + 1)
      /\ \A i \in 1 .. (m + n) + (L - end + 1) :
           (ab \o c)[i] = IF i <= m + n THEN ab[i] ELSE c[i - (m + n)]
  <2> DEFINE p == m + n
             q == L - end + 1
  <2>1. ab \in Seq(Lines) /\ c \in Seq(Lines) /\ Len(ab) = p /\ Len(c) = q
    BY <1>4, <1>6
  <2> HIDE DEF p, q
  <2>2. /\ ab \o c \in Seq(Lines) /\ Len(ab \o c) = p + q
        /\ \A i \in 1 .. p + q :
             (ab \o c)[i] = IF i <= p THEN ab[i] ELSE c[i - p]
    BY <2>1, ConcatProperties
  <2> QED
    BY <2>2 DEF p, q
<1>8. r = ab \o c
  BY <1>5 DEF ab
<1>9. Len(r) = L - (end - first) + n
  <2>1. Len(r) = (m + n) + (L - end + 1)
    BY <1>7, <1>8
  <2> QED
    BY <1>1, <2>1 DEF n
<1>10. ASSUME NEW i \in 1 .. Len(r)
       PROVE  r[i] = IF i < first THEN f[i]
                     ELSE IF i < first + n THEN block[i - first + 1]
                     ELSE f[i - n + (end - first)]
  <2>1. i \in Nat /\ 1 <= i /\ i \in 1 .. (m + n) + (L - end + 1)
    BY <1>1, <1>7, <1>8
  <2>2. CASE i < first
    <3>1. i \in 1 .. m /\ i \in 1 .. m + n /\ i <= m /\ i <= m + n
      BY <1>1, <2>1, <2>2
    <3> QED
      BY <1>3, <1>6, <1>7, <1>8, <2>1, <2>2, <3>1
  <2>3. CASE ~(i < first) /\ i < first + n
    <3>1. i \in 1 .. m + n /\ i <= m + n /\ ~(i <= m) /\ i - m = i - first + 1
      BY <1>1, <2>1, <2>3
    <3> QED
      BY <1>6, <1>7, <1>8, <2>1, <2>3, <3>1
  <2>4. CASE ~(i < first) /\ ~(i < first + n)
    <3>1. /\ ~(i <= m + n) /\ i - (m + n) \in 1 .. L - end + 1
          /\ end + (i - (m + n)) - 1 = i - n + (end - first)
      BY <1>1, <2>1, <2>4
    <3>2. r[i] = c[i - (m + n)]
      BY <1>7, <1>8, <2>1, <3>1
    <3>3. c[i - (m + n)] = f[end + (i - (m + n)) - 1]
      BY <1>4, <3>1
    <3> QED
      BY <2>4, <3>1, <3>2, <3>3
  <2> QED
    BY <2>2, <2>3, <2>4
<1> QED
  BY <1>7, <1>8, <1>9, <1>10 DEF r, n, L

-----------------------------------------------------------------------------
(* The lines the patch writes *)

LEMMA NamesIs ==
  \A line : Names(line, "plugins:") \/ Names(line, "unix-command:") =>
    /\ line # Blank /\ ~Mentions(line)
    /\ ~(Names(line, "plugins:") /\ Names(line, "unix-command:"))
<1>1. \A line : Names(line, "plugins:") => line.text = "plugins:"
  BY DEF Names
<1>2. \A line : Names(line, "unix-command:") => line.text = "unix-command:"
  BY DEF Names
<1>3. Blank.text \notin {"plugins:", "unix-command:"}
  BY Zenon DEF Blank, Line
<1> QED
  BY <1>1, <1>2, <1>3 DEF Mentions

\* Uncommenting a key.
LEMMA KeyUncommented ==
  ASSUME NEW line \in Lines, NEW key, Names(line, key)
  PROVE  Names(UncommentLine(line), key) /\ UncommentLine(line).marks = 0
<1>1. line.marks <= 1 /\ line.text = key
  BY DEF Names
<1> QED
  BY <1>1, UncommentIs DEF Names

TopKey == Line("plugins:", 0, 0)

LEMMA BlankIs ==
  /\ Blank \in Lines /\ Blank.ind = 0 /\ Blank.marks = 0
  /\ ~Names(Blank, "plugins:") /\ ~Names(Blank, "unix-command:")
<1>1. Blank \in Lines
  BY BlankLine
<1>2. Blank.ind = 0 /\ Blank.marks = 0
  BY DEF Blank, Line
<1> QED
  BY <1>1, <1>2, NamesIs

LEMMA TopKeyIs ==
  /\ TopKey \in Lines /\ TopKey # Blank /\ ~Mentions(TopKey)
  /\ Names(TopKey, "plugins:") /\ TopKey.ind = 0 /\ TopKey.marks = 0
<1>1. TopKey \in Lines
  BY Zenon DEF TopKey, Line, Lines, Texts
<1>2. TopKey.text = "plugins:" /\ TopKey.ind = 0 /\ TopKey.marks = 0
  BY DEF TopKey, Line
<1>3. Names(TopKey, "plugins:")
  BY <1>2 DEF Names
<1> QED
  BY <1>1, <1>2, <1>3, NamesIs

\* What the patch needs to know of the template's entry.
IsPlugin(line) == line \in Lines /\ Mentions(line) /\ line.marks = 0

LEMMA NewEntryIs ==
  ASSUME NEW ndpi, IsPlugin(ndpi)
  PROVE  /\ NewEntry(ndpi, 0) \in Lines
         /\ NewEntry(ndpi, 0).ind = 2 /\ NewEntry(ndpi, 0).marks = 0
         /\ Mentions(NewEntry(ndpi, 0)) /\ NewEntry(ndpi, 0) # Blank
         /\ ~Names(NewEntry(ndpi, 0), "plugins:")
         /\ ~Names(NewEntry(ndpi, 0), "unix-command:")
<1> DEFINE new == NewEntry(ndpi, 0)
<1>1. new = [ndpi EXCEPT !.ind = 2]
  BY DEF NewEntry
<1>2. /\ new \in Lines /\ new.ind = 2 /\ new.marks = 0
      /\ new.text = ndpi.text
  BY <1>1 DEF IsPlugin, Lines
<1> HIDE DEF new
<1>3. Mentions(new)
  BY <1>2 DEF IsPlugin, Mentions
<1>4. ~Names(new, "plugins:") /\ ~Names(new, "unix-command:")
  BY <1>3, NamesIs
<1> QED
  BY <1>2, <1>3, <1>4, MentionIsText DEF new

LEMMA SeparatedIs ==
  ASSUME NEW f \in Seq(Lines)
  PROVE  /\ Separated(f) \in Seq(Lines)
         /\ Len(Separated(f)) \in {Len(f), Len(f) + 1}
         /\ \A i \in 1 .. Len(f) : Separated(f)[i] = f[i]
         /\ \A i \in 1 .. Len(Separated(f)) :
              i \notin 1 .. Len(f) => Separated(f)[i] = Blank
         /\ f # <<>> /\ LastOf(f) = Blank => Separated(f) = f
<1>1. CASE f # <<>> /\ LastOf(f) # Blank
  <2>1. Separated(f) = Append(f, Blank)
    BY <1>1 DEF Separated
  <2> QED
    BY <1>1, <2>1, BlankIs
<1>2. CASE ~(f # <<>> /\ LastOf(f) # Blank)
  <2>1. Separated(f) = f
    BY <1>2 DEF Separated
  <2> QED
    BY <2>1
<1> QED
  BY <1>1, <1>2

LEMMA OpenAt ==
  ASSUME NEW f \in Seq(Lines), NEW i \in 1 .. Len(f)
  PROVE  /\ Open(f, i) \in Seq(Lines) /\ Len(Open(f, i)) = Len(f)
         /\ \A l \in 1 .. Len(f) :
              Open(f, i)[l] = IF l = i THEN UncommentLine(f[l]) ELSE f[l]
<1> DEFINE d == UncommentLine(f[i])
<1>1. f[i] \in Lines
  OBVIOUS
<1>2. d \in Lines
  BY <1>1, UncommentIs
<1>3. Open(f, i) = [f EXCEPT ![i] = d]
  BY DEF Open
<1> HIDE DEF d
<1>4. /\ [f EXCEPT ![i] = d] \in Seq(Lines)
      /\ Len([f EXCEPT ![i] = d]) = Len(f)
      /\ \A l \in 1 .. Len(f) :
           [f EXCEPT ![i] = d][l] = IF l = i THEN d ELSE f[l]
  BY <1>2, ExceptSeq
<1> QED
  BY <1>3, <1>4 DEF d

-----------------------------------------------------------------------------
(* ensurePluginsNDPI, case by case *)

\* There was no plugins section: one is appended.
AddsSection(f, g, new) ==
  /\ \A i \in 1 .. Len(f) : ~Names(f[i], "plugins:")
  /\ Len(g) = Len(Separated(f)) + 2
  /\ \A i \in 1 .. Len(Separated(f)) : g[i] = Separated(f)[i]
  /\ g[Len(Separated(f)) + 1] = TopKey
  /\ g[Len(Separated(f)) + 2] = new

\* The section of line k did not mention the plugin: its entry is inserted
\* before line e, where the section ends.
AddsEntry(f, g, new, k, e) ==
  /\ FirstKey(f, "plugins:", k) /\ EndsBlock(f, k, 0, e)
  /\ \A l \in k + 1 .. e - 1 : ~Mentions(f[l])
  /\ Len(g) = Len(f) + 1
  /\ \A i \in 1 .. Len(f) + 1 :
       g[i] = IF i = k THEN UncommentLine(f[i])
              ELSE IF i < e THEN f[i]
              ELSE IF i = e THEN new
              ELSE f[i - 1]

\* It did, and line j is the first that does: both lines become active.
OpensEntry(f, g, k, e, j) ==
  /\ FirstKey(f, "plugins:", k) /\ EndsBlock(f, k, 0, e)
  /\ j \in k + 1 .. e - 1 /\ Mentions(f[j])
  /\ \A l \in k + 1 .. j - 1 : ~Mentions(f[l])
  /\ Len(g) = Len(f)
  /\ \A i \in 1 .. Len(f) :
       g[i] = IF i = k \/ i = j THEN UncommentLine(f[i]) ELSE f[i]

PluginsStep(f, g, new) ==
  \/ AddsSection(f, g, new)
  \/ \E k, e \in Nat : AddsEntry(f, g, new, k, e)
  \/ \E k, e, j \in Nat : OpensEntry(f, g, k, e, j)

LEMMA PluginsStepIs ==
  ASSUME NEW f \in Seq(Lines), NEW ndpi, IsPlugin(ndpi)
  PROVE  /\ EnsurePluginsNDPI(f, 0, ndpi).lines \in Seq(Lines)
         /\ PluginsStep(f, EnsurePluginsNDPI(f, 0, ndpi).lines,
                        NewEntry(ndpi, 0))
<1> DEFINE k     == Least(KeyLines(f, "plugins:"))
           e     == BlockEnd(f, k, 0)
           open  == Open(f, k)
           found == PluginEntries(f, k, e)
           new   == NewEntry(ndpi, 0)
           g     == EnsurePluginsNDPI(f, 0, ndpi).lines
           s     == Separated(f)
<1>1. new \in Lines /\ g \in Seq(Lines)
  BY NewEntryIs, PluginsIs DEF IsPlugin
<1>2. CASE KeyLines(f, "plugins:") = {}
  <2>1. g = s \o <<TopKey, new>>
    BY <1>2 DEF EnsurePluginsNDPI, Patched, TopKey
  <2>2. \A i \in 1 .. Len(f) : ~Names(f[i], "plugins:")
    BY <1>2 DEF KeyLines
  <2> HIDE DEF g, new
  <2>3. s \in Seq(Lines) /\ Len(s) \in Nat
    BY SeparatedIs
  <2> HIDE DEF s
  <2> DEFINE n == Len(s)
             b == <<TopKey, new>>
  <2>4. b \in Seq(Lines) /\ Len(b) = 2 /\ b[1] = TopKey /\ b[2] = new
    BY <1>1, TopKeyIs
  <2> HIDE DEF b, n
  <2>5. /\ Len(s \o b) = n + 2
        /\ \A i \in 1 .. n + 2 :
             (s \o b)[i] = IF i <= n THEN s[i] ELSE b[i - n]
    <3>1. Len(s) = n
      BY DEF n
    <3>2. /\ Len(s \o b) = Len(s) + Len(b)
          /\ \A i \in 1 .. Len(s) + Len(b) :
               (s \o b)[i] = IF i <= Len(s) THEN s[i] ELSE b[i - Len(s)]
      BY <2>3, <2>4, ConcatProperties
    <3> QED
      BY <2>4, <3>1, <3>2
  <2>6. g = s \o b
    BY <2>1 DEF b
  <2>7. n \in Nat
    BY <2>3 DEF n
  <2>8. \A i \in 1 .. n : g[i] = s[i]
    BY <2>5, <2>6, <2>7
  <2>9. n + 1 \in 1 .. n + 2 /\ ~(n + 1 <= n) /\ n + 1 - n = 1
        /\ n + 2 \in 1 .. n + 2 /\ ~(n + 2 <= n) /\ n + 2 - n = 2
    BY <2>7
  <2>10. g[n + 1] = TopKey /\ g[n + 2] = new
    <3>1. \A i \in 1 .. n + 2 : ~(i <= n) => g[i] = b[i - n]
      BY <2>5, <2>6
    <3>2. g[n + 1] = b[n + 1 - n]
      BY <2>7, <2>9, <3>1
    <3>3. g[n + 2] = b[n + 2 - n]
      BY <2>7, <2>9, <3>1
    <3> QED
      BY <2>4, <2>9, <3>2, <3>3
  <2>11. AddsSection(f, g, new)
    BY <2>2, <2>5, <2>6, <2>8, <2>10 DEF AddsSection, n, s
  <2> QED
    BY <1>1, <2>11 DEF PluginsStep, g, new
<1>3. CASE KeyLines(f, "plugins:") # {}
  <2>1. FirstKey(f, "plugins:", k)
    BY <1>3, KeyIsFirst
  <2> HIDE DEF k
  <2>2. k \in 1 .. Len(f) /\ Len(f) \in Nat
    BY <2>1 DEF FirstKey
  <2>3. EndsBlock(f, k, 0, e)
    BY <2>2, BlockEndEnds
  <2> HIDE DEF e
  <2>4. e \in k + 1 .. Len(f) + 1 /\ k \in Nat /\ e \in Nat
    BY <2>2, <2>3 DEF EndsBlock
  <2>5. /\ open \in Seq(Lines) /\ Len(open) = Len(f)
        /\ \A l \in 1 .. Len(f) :
             open[l] = IF l = k THEN UncommentLine(f[l]) ELSE f[l]
    BY <2>2, OpenAt
  <2> HIDE DEF open
  <2>6. CASE found = {}
    <3>1. g = Replace(open, e, e, <<new>>)
      BY <1>3, <2>6 DEF EnsurePluginsNDPI, Patched, k, e, open, found, new
    <3>2. \A l \in k + 1 .. e - 1 : ~Mentions(f[l])
      BY <2>6 DEF PluginEntries
    <3> HIDE DEF g, new
    <3> DEFINE b == <<new>>
    <3>3. b \in Seq(Lines) /\ Len(b) = 1 /\ b[1] = new
      BY <1>1
    <3> HIDE DEF b
    <3>4. e \in 1 .. Len(open) + 1 /\ e \in e .. Len(open) + 1
      BY <2>2, <2>4, <2>5
    <3> DEFINE r == Replace(open, e, e, b)
    <3>5. /\ Len(r) = Len(open) - (e - e) + Len(b)
          /\ \A i \in 1 .. Len(r) :
               r[i] = IF i < e THEN open[i]
                      ELSE IF i < e + Len(b) THEN b[i - e + 1]
                      ELSE open[i - Len(b) + (e - e)]
      BY <2>5, <3>3, <3>4, ReplaceAt
    <3>6. g = r
      BY <3>1 DEF b
    <3> HIDE DEF r
    <3>7. Len(g) = Len(f) + 1
      BY <2>2, <2>4, <2>5, <3>3, <3>5, <3>6
    <3>8. ASSUME NEW i \in 1 .. Len(f) + 1
          PROVE  g[i] = IF i = k THEN UncommentLine(f[i])
                        ELSE IF i < e THEN f[i]
                        ELSE IF i = e THEN new
                        ELSE f[i - 1]
      <4>1. g[i] = IF i < e THEN open[i]
                   ELSE IF i < e + 1 THEN b[i - e + 1]
                   ELSE open[i - 1 + (e - e)]
        BY <3>3, <3>5, <3>6, <3>7
      <4>2. i \in Nat /\ 1 <= i
        OBVIOUS
      <4>3. CASE i < e
        <5>1. i \in 1 .. Len(f) /\ g[i] = open[i]
          BY <2>2, <2>4, <4>1, <4>2, <4>3
        <5> QED
          BY <2>5, <4>3, <5>1
      <4>4. CASE i = e
        <5>1. ~(i < e) /\ i < e + 1 /\ i - e + 1 = 1 /\ i # k
          BY <2>4, <4>2, <4>4
        <5> QED
          BY <3>3, <4>1, <4>4, <5>1
      <4>5. CASE i > e
        <5>1. /\ ~(i < e) /\ ~(i < e + 1) /\ i - 1 + (e - e) = i - 1
              /\ i # k /\ i - 1 # k /\ i # e /\ i - 1 \in 1 .. Len(f)
          BY <2>2, <2>4, <4>2, <4>5
        <5> QED
          BY <2>5, <4>1, <5>1
      <4> QED
        BY <2>4, <4>2, <4>3, <4>4, <4>5
    <3>9. AddsEntry(f, g, new, k, e)
      BY <2>1, <2>3, <3>2, <3>7, <3>8 DEF AddsEntry
    <3> QED
      BY <1>1, <2>4, <3>9 DEF PluginsStep, g, new
  <2>7. CASE found # {}
    <3> DEFINE j == Least(found)
    <3>1. g = Open(open, j)
      BY <1>3, <2>7 DEF EnsurePluginsNDPI, Patched, k, e, open, found
    <3>2. found \in SUBSET Nat /\ found = PluginEntries(f, k, e)
      BY <2>4 DEF PluginEntries
    <3>3. j \in found /\ \A l \in found : j <= l
      BY <2>7, <3>2, LeastIs
    <3> HIDE DEF j, found, g
    <3>4. j \in k + 1 .. e - 1 /\ Mentions(f[j])
      BY <3>2, <3>3 DEF PluginEntries
    <3>5. ASSUME NEW l \in k + 1 .. j - 1 PROVE ~Mentions(f[l])
      <4>1. l \in k + 1 .. e - 1 /\ ~(j <= l)
        BY <2>4, <3>4
      <4> QED
        BY <3>2, <3>3, <4>1 DEF PluginEntries
    <3>6. j \in 1 .. Len(open) /\ j \in Nat /\ j # k
      BY <2>2, <2>4, <2>5, <3>4
    <3>7. /\ Len(g) = Len(open)
          /\ \A i \in 1 .. Len(open) :
               g[i] = IF i = j THEN UncommentLine(open[i]) ELSE open[i]
      BY <2>5, <3>1, <3>6, OpenAt
    <3>8. \A i \in 1 .. Len(f) :
            g[i] = IF i = k \/ i = j THEN UncommentLine(f[i]) ELSE f[i]
      BY <2>5, <3>6, <3>7
    <3>9. OpensEntry(f, g, k, e, j)
      BY <2>1, <2>3, <2>5, <3>4, <3>5, <3>7, <3>8 DEF OpensEntry
    <3> QED
      BY <1>1, <2>4, <3>6, <3>9 DEF PluginsStep, g, new
  <2> QED
    BY <2>6, <2>7
<1> QED
  BY <1>2, <1>3

-----------------------------------------------------------------------------
(* The plugin's entry is active *)

\* Line j, in the section of the first plugins key, is the first of it that
\* mentions the plugin.
EntryAt(f, k, j) ==
  /\ FirstKey(f, "plugins:", k)
  /\ j \in k + 1 .. Len(f) /\ Mentions(f[j])
  /\ \A l \in k + 1 .. j : f[l] = Blank \/ f[l].ind > 0
  /\ \A l \in k + 1 .. j - 1 : ~Mentions(f[l])

\* And neither line is commented out.
OpenedAt(f, k, j) ==
  EntryAt(f, k, j) /\ f[k].marks = 0 /\ f[j].marks = 0

Opened(f) == \E k, j \in Nat : OpenedAt(f, k, j)

LEMMA StepOpens ==
  ASSUME NEW f \in Seq(Lines), NEW g \in Seq(Lines), NEW ndpi, IsPlugin(ndpi),
         PluginsStep(f, g, NewEntry(ndpi, 0)), OnceCommented(f)
  PROVE  Opened(g)
<1> DEFINE new == NewEntry(ndpi, 0)
<1>1. /\ new \in Lines /\ new.ind = 2 /\ new.marks = 0 /\ Mentions(new)
      /\ ~Names(new, "plugins:")
  BY NewEntryIs
<1>2. \A i \in 1 .. Len(f) : f[i] \in Lines /\ f[i].ind \in Nat
  BY IndentIs
<1>3. Len(f) \in Nat /\ Len(g) \in Nat
  OBVIOUS
<1> HIDE DEF new
<1>4. CASE AddsSection(f, g, new)
  <2> DEFINE n == Len(Separated(f))
             k == n + 1
             j == n + 2
  <2>1. n \in Nat /\ Separated(f) \in Seq(Lines)
    BY SeparatedIs
  <2>2. \A i \in 1 .. n : ~Names(Separated(f)[i], "plugins:")
    BY <1>4, SeparatedIs, BlankIs DEF AddsSection
  <2>3. /\ Len(g) = n + 2 /\ g[k] = TopKey /\ g[j] = new
        /\ \A i \in 1 .. n : ~Names(g[i], "plugins:")
    BY <1>4, <2>2 DEF AddsSection
  <2> HIDE DEF n
  <2>4. /\ k \in 1 .. Len(g) /\ j \in k + 1 .. Len(g) /\ k \in Nat /\ j \in Nat
        /\ k - 1 = n /\ j - 1 = k
        /\ \A l \in k + 1 .. j : l = j
        /\ \A l \in k + 1 .. j - 1 : FALSE
    BY <2>1, <2>3
  <2> HIDE DEF k, j
  <2>5. FirstKey(g, "plugins:", k)
    BY <2>3, <2>4, TopKeyIs DEF FirstKey
  <2>6. \A l \in k + 1 .. j : g[l].ind > 0
    BY <1>1, <2>3, <2>4
  <2>7. g[k].marks = 0
    BY <2>3, TopKeyIs
  <2>8. OpenedAt(g, k, j)
    BY <1>1, <2>3, <2>4, <2>5, <2>6, <2>7 DEF OpenedAt, EntryAt
  <2> QED
    BY <2>4, <2>8 DEF Opened
<1>5. ASSUME NEW k \in Nat, NEW e \in Nat, AddsEntry(f, g, new, k, e)
      PROVE  Opened(g)
  <2>1. /\ FirstKey(f, "plugins:", k) /\ EndsBlock(f, k, 0, e)
        /\ \A l \in k + 1 .. e - 1 : ~Mentions(f[l])
        /\ Len(g) = Len(f) + 1
        /\ \A i \in 1 .. Len(f) + 1 :
             g[i] = IF i = k THEN UncommentLine(f[i])
                    ELSE IF i < e THEN f[i]
                    ELSE IF i = e THEN new
                    ELSE f[i - 1]
    BY <1>5 DEF AddsEntry
  <2>2. /\ k \in 1 .. Len(f) /\ e \in k + 1 .. Len(f) + 1
        /\ e \in k + 1 .. Len(g)
    BY <2>1 DEF FirstKey, EndsBlock
  <2>3. FirstKey(g, "plugins:", k)
    <3>1. k \in 1 .. Len(f) + 1 /\ k \in 1 .. Len(g) /\ f[k] \in Lines
      BY <1>2, <1>3, <2>1, <2>2
    <3>2. Names(g[k], "plugins:")
      BY <2>1, <3>1, KeyUncommented DEF FirstKey
    <3>3. ASSUME NEW l \in 1 .. k - 1 PROVE ~Names(g[l], "plugins:")
      <4>1. l \in 1 .. Len(f) + 1 /\ l # k /\ l < e
        BY <1>3, <2>2
      <4> QED
        BY <2>1, <4>1 DEF FirstKey
    <3> QED
      BY <3>1, <3>2, <3>3 DEF FirstKey
  <2>4. ASSUME NEW l \in k + 1 .. e - 1
        PROVE  (g[l] = Blank \/ g[l].ind > 0) /\ ~Mentions(g[l])
    <3>1. l \in 1 .. Len(f) + 1 /\ l # k /\ l < e
      BY <1>3, <2>2
    <3>2. g[l] = f[l]
      BY <2>1, <3>1
    <3> QED
      BY <2>1, <3>2 DEF EndsBlock
  <2>5. g[e] = new
    <3>1. e \in 1 .. Len(f) + 1 /\ e # k /\ ~(e < e)
      BY <1>3, <2>2
    <3> QED
      BY <2>1, <3>1
  <2>6. ASSUME NEW l \in k + 1 .. e PROVE g[l] = Blank \/ g[l].ind > 0
    <3>1. l = e \/ l \in k + 1 .. e - 1
      BY <2>2
    <3>2. new.ind > 0
      BY <1>1
    <3> QED
      BY <2>4, <2>5, <3>1, <3>2
  <2>7. g[k].marks = 0
    <3>1. k \in 1 .. Len(f) + 1 /\ f[k] \in Lines
      BY <1>2, <1>3, <2>2
    <3>2. g[k] = UncommentLine(f[k]) /\ Names(f[k], "plugins:")
      BY <2>1, <3>1 DEF FirstKey
    <3> QED
      BY <3>1, <3>2, KeyUncommented
  <2>8. OpenedAt(g, k, e)
    BY <1>1, <2>2, <2>3, <2>4, <2>5, <2>6, <2>7 DEF OpenedAt, EntryAt
  <2> QED
    BY <2>8 DEF Opened
<1>6. ASSUME NEW k \in Nat, NEW e \in Nat, NEW j \in Nat,
             OpensEntry(f, g, k, e, j)
      PROVE  Opened(g)
  <2>1. /\ FirstKey(f, "plugins:", k) /\ EndsBlock(f, k, 0, e)
        /\ j \in k + 1 .. e - 1 /\ Mentions(f[j])
        /\ \A l \in k + 1 .. j - 1 : ~Mentions(f[l])
        /\ Len(g) = Len(f)
        /\ \A i \in 1 .. Len(f) :
             g[i] = IF i = k \/ i = j THEN UncommentLine(f[i]) ELSE f[i]
    BY <1>6 DEF OpensEntry
  <2>2. k \in 1 .. Len(f) /\ e \in k + 1 .. Len(f) + 1
    BY <2>1 DEF FirstKey, EndsBlock
  <2>3. j \in k + 1 .. Len(g) /\ j \in 1 .. Len(f)
    BY <1>3, <2>1, <2>2
  <2>4. \A i \in 1 .. Len(f) : g[i].text = f[i].text /\ g[i].ind = f[i].ind
    BY <1>2, <2>1, UncommentIs
  <2>5. FirstKey(g, "plugins:", k)
    <3>1. \A l \in 1 .. k - 1 : l \in 1 .. Len(f) /\ l # k /\ l # j
      BY <1>3, <2>1, <2>2
    <3>2. g[k] = UncommentLine(f[k]) /\ Names(f[k], "plugins:") /\ f[k] \in Lines
      BY <1>2, <2>1, <2>2 DEF FirstKey
    <3>3. Names(g[k], "plugins:")
      BY <3>2, KeyUncommented
    <3>4. \A l \in 1 .. k - 1 : g[l] = f[l]
      BY <2>1, <3>1
    <3> QED
      BY <2>1, <2>2, <3>3, <3>4 DEF FirstKey
  <2>6. Mentions(g[j]) /\ g[j].marks = 0
    <3>1. g[j] = UncommentLine(f[j]) /\ f[j] \in Lines
      BY <1>2, <2>1, <2>3
    <3>2. Mentions(g[j])
      BY <2>1, <2>3, <2>4 DEF Mentions
    <3>3. f[j].marks <= 1
      <4>1. j \in DOMAIN f
        BY <2>3
      <4> QED
        BY <2>1, <4>1 DEF OnceCommented
    <3> QED
      BY <3>1, <3>2, <3>3, UncommentIs
  <2>7. ASSUME NEW l \in k + 1 .. j PROVE g[l] = Blank \/ g[l].ind > 0
    <3>1. l \in k + 1 .. e - 1 /\ l \in 1 .. Len(f) /\ l # k
      BY <1>3, <2>1, <2>2
    <3>2. f[l] = Blank \/ f[l].ind > 0
      BY <2>1, <3>1 DEF EndsBlock
    <3>3. CASE f[l] = Blank
      BY <2>1, <3>1, <3>3, BlankLine
    <3>4. CASE f[l].ind > 0
      BY <2>4, <3>1, <3>4
    <3> QED
      BY <3>2, <3>3, <3>4
  <2>8. ASSUME NEW l \in k + 1 .. j - 1 PROVE ~Mentions(g[l])
    <3>1. l \in 1 .. Len(f)
      BY <1>3, <2>1, <2>2
    <3> QED
      BY <2>1, <2>4, <3>1 DEF Mentions
  <2>9. g[k].marks = 0
    <3>1. g[k] = UncommentLine(f[k]) /\ f[k] \in Lines /\ Names(f[k], "plugins:")
      BY <1>2, <2>1, <2>2 DEF FirstKey
    <3> QED
      BY <3>1, KeyUncommented
  <2>10. OpenedAt(g, k, j)
    BY <2>3, <2>5, <2>6, <2>7, <2>8, <2>9 DEF OpenedAt, EntryAt
  <2> QED
    BY <2>10 DEF Opened
<1> QED
  BY <1>4, <1>5, <1>6 DEF PluginsStep, new

\* Only the mark of the entry counts as a change, not that of the key.
LEMMA EntryChanges ==
  ASSUME NEW f \in Seq(Lines), NEW k \in Nat, NEW j \in Nat,
         EntryAt(f, k, j), NEW ndpi
  PROVE  EnsurePluginsNDPI(f, 0, ndpi).changed = Commented(f[j])
<1>1. FirstKey(f, "plugins:", k) /\ k \in 1 .. Len(f)
  BY DEF EntryAt, FirstKey
<1>2. KeyLines(f, "plugins:") # {} /\ k = Least(KeyLines(f, "plugins:"))
  BY <1>1, FirstKeyUnique
<1> DEFINE e     == BlockEnd(f, k, 0)
           found == PluginEntries(f, k, e)
           open  == Open(f, k)
           i     == Least(found)
<1>3. EndsBlock(f, k, 0, e)
  BY <1>1, BlockEndEnds
<1>4. /\ open \in Seq(Lines)
      /\ \A l \in 1 .. Len(f) :
           open[l] = IF l = k THEN UncommentLine(f[l]) ELSE f[l]
  BY <1>1, OpenAt
<1> HIDE DEF e, open
<1>5. e \in k + 1 .. Len(f) + 1 /\ j \in k + 1 .. Len(f) /\ Len(f) \in Nat
  BY <1>3 DEF EntryAt, EndsBlock
<1>6. j < e
  <2> SUFFICES ASSUME e <= j PROVE FALSE
    BY <1>5
  <2>1. e \in k + 1 .. j /\ e <= Len(f) /\ e \in 1 .. Len(f)
    BY <1>5
  <2>2. f[e].ind \in Nat
    BY <2>1, IndentIs
  <2> QED
    BY <1>3, <2>1, <2>2 DEF EntryAt, EndsBlock
<1>7. j \in found /\ found \in SUBSET Nat
  <2>1. j \in k + 1 .. e - 1
    BY <1>5, <1>6
  <2> QED
    BY <1>5, <2>1 DEF EntryAt, PluginEntries
<1>8. i \in found /\ \A l \in found : i <= l
  BY <1>7, LeastIs
<1> HIDE DEF i
<1>9. i = j
  <2>1. i \in k + 1 .. e - 1 /\ Mentions(f[i]) /\ i <= j
    BY <1>7, <1>8 DEF PluginEntries
  <2>2. ~(i < j)
    <3> SUFFICES ASSUME i < j PROVE FALSE
      OBVIOUS
    <3>1. i \in k + 1 .. j - 1
      BY <1>5, <2>1
    <3> QED
      BY <2>1, <3>1 DEF EntryAt
  <2> QED
    BY <1>5, <2>1, <2>2
<1>10. open[j] = f[j]
  <2>1. j \in 1 .. Len(f) /\ j # k
    BY <1>1, <1>5
  <2> QED
    BY <1>4, <2>1
<1>11. found # {}
  BY <1>7
<1> QED
  BY <1>2, <1>9, <1>10, <1>11
  DEF EnsurePluginsNDPI, Patched, e, found, open, i

\* And both become active.
LEMMA EntryOpens ==
  ASSUME NEW f \in Seq(Lines), NEW g, NEW k \in Nat, NEW j \in Nat,
         EntryAt(f, k, j), NEW new, PluginsStep(f, g, new)
  PROVE  \E e \in Nat : OpensEntry(f, g, k, e, j)
<1>1. /\ FirstKey(f, "plugins:", k) /\ k \in 1 .. Len(f)
      /\ j \in k + 1 .. Len(f) /\ Mentions(f[j])
      /\ \A l \in k + 1 .. j : f[l] = Blank \/ f[l].ind > 0
      /\ \A l \in k + 1 .. j - 1 : ~Mentions(f[l])
  BY DEF EntryAt, FirstKey
<1>2. ASSUME NEW e \in Nat, EndsBlock(f, k, 0, e) PROVE j \in k + 1 .. e - 1
  <2>1. e \in k + 1 .. Len(f) + 1 /\ Len(f) \in Nat
    BY <1>2 DEF EndsBlock
  <2>2. ~(e <= j)
    <3> SUFFICES ASSUME e <= j PROVE FALSE
      OBVIOUS
    <3>1. e \in k + 1 .. j /\ e <= Len(f) /\ e \in 1 .. Len(f)
      BY <1>1, <2>1
    <3>2. f[e].ind \in Nat
      BY <3>1, IndentIs
    <3> QED
      BY <1>1, <1>2, <3>1, <3>2 DEF EndsBlock
  <2> QED
    BY <1>1, <2>1, <2>2
<1>3. ~AddsSection(f, g, new)
  BY <1>1 DEF AddsSection, FirstKey
<1>4. ASSUME NEW k2 \in Nat, FirstKey(f, "plugins:", k2) PROVE k2 = k
  BY <1>1, <1>4, FirstKeyUnique
<1>5. ASSUME NEW k2 \in Nat, NEW e \in Nat PROVE ~AddsEntry(f, g, new, k2, e)
  BY <1>1, <1>2, <1>4 DEF AddsEntry
<1>6. ASSUME NEW k2 \in Nat, NEW e \in Nat, NEW j2 \in Nat,
             OpensEntry(f, g, k2, e, j2)
      PROVE  k2 = k /\ j2 = j
  <2>1. /\ FirstKey(f, "plugins:", k2) /\ EndsBlock(f, k2, 0, e)
        /\ j2 \in k2 + 1 .. e - 1 /\ Mentions(f[j2])
        /\ \A l \in k2 + 1 .. j2 - 1 : ~Mentions(f[l])
    BY <1>6 DEF OpensEntry
  <2>2. k2 = k
    BY <1>4, <2>1
  <2>3. j \in k + 1 .. e - 1 /\ j2 \in k + 1 .. e - 1
    BY <1>2, <2>1, <2>2
  <2>4. ~(j < j2) /\ ~(j2 < j)
    <3>1. j < j2 => j \in k + 1 .. j2 - 1
      BY <2>3
    <3>2. j2 < j => j2 \in k + 1 .. j - 1
      BY <2>3
    <3> QED
      BY <1>1, <2>1, <2>2, <3>1, <3>2
  <2> QED
    BY <2>2, <2>3, <2>4
<1> QED
  BY <1>3, <1>5, <1>6 DEF PluginsStep

LEMMA OpenedStays ==
  ASSUME NEW f \in Seq(Lines), Opened(f), NEW ndpi
  PROVE  EnsurePluginsNDPI(f, 0, ndpi).changed = FALSE
<1>1. PICK k \in Nat, j \in Nat : OpenedAt(f, k, j)
  BY DEF Opened
<1>2. EnsurePluginsNDPI(f, 0, ndpi).changed = Commented(f[j])
  BY <1>1, EntryChanges DEF OpenedAt
<1>3. ~Commented(f[j])
  <2>1. f[j].marks = 0
    BY <1>1 DEF OpenedAt
  <2>2. ~(0 > 0)
    OBVIOUS
  <2> QED
    BY <2>1, <2>2 DEF Commented
<1> HIDE DEF Commented
<1>4. (f[j].marks > 0) = FALSE
  BY <1>3 DEF Commented
<1> QED
  BY <1>2, <1>4 DEF Commented

LEMMA OpenedTerminated ==
  ASSUME NEW f \in Seq(Lines), Opened(f)
  PROVE  Opened(Terminated(f))
<1>1. PICK k \in Nat, j \in Nat : OpenedAt(f, k, j)
  BY DEF Opened
<1> DEFINE t == Terminated(f)
<1>2. /\ t \in Seq(Lines) /\ Len(f) \in Nat /\ Len(t) \in {Len(f), Len(f) + 1}
      /\ \A i \in 1 .. Len(f) : t[i] = f[i]
  BY TerminatedIs DEF Files
<1> HIDE DEF t
<1>3. k \in 1 .. Len(f) /\ j \in k + 1 .. Len(f)
  BY <1>1 DEF OpenedAt, EntryAt, FirstKey
<1>4. \A l \in 1 .. j : t[l] = f[l]
  <2>1. \A l \in 1 .. j : l \in 1 .. Len(f)
    BY <1>2, <1>3
  <2> QED
    BY <1>2, <2>1
<1>5. /\ k \in 1 .. j /\ j \in 1 .. j
      /\ k \in 1 .. Len(t) /\ j \in k + 1 .. Len(t)
      /\ \A l \in 1 .. k - 1 : l \in 1 .. j
      /\ \A l \in k + 1 .. j : l \in 1 .. j
      /\ \A l \in k + 1 .. j - 1 : l \in 1 .. j
  BY <1>2, <1>3
<1>6. FirstKey(t, "plugins:", k)
  BY <1>1, <1>4, <1>5 DEF OpenedAt, EntryAt, FirstKey
<1>7. OpenedAt(t, k, j)
  BY <1>1, <1>4, <1>5, <1>6 DEF OpenedAt, EntryAt
<1> QED
  BY <1>7 DEF Opened, t

-----------------------------------------------------------------------------
(* The patch in its two parts *)

\* The template's line of the plugin.
TemplateEntry ==
  LET plugins == FirstBlock(Template, "plugins:")
  IN  plugins[Least({i \in DOMAIN plugins : Mentions(plugins[i])})]

UnixBlock == FirstBlock(Template, "unix-command:")

UnixPatched(f) ==
  IF KeyLines(Template, "unix-command:") = {} THEN Patched(f, FALSE)
  ELSE EnsureBlockExact(f, UnixBlock, "unix-command:")

PluginsPatched(f) == EnsurePluginsNDPI(UnixPatched(f).lines, 0, TemplateEntry)

LEMMA PieceAt ==
  ASSUME NEW f \in Seq(Lines), NEW i \in 1 .. Len(f), NEW e \in i + 1 .. Len(f) + 1
  PROVE  /\ SubSeq(f, i, e - 1) \in Seq(Lines)
         /\ Len(SubSeq(f, i, e - 1)) = e - i
         /\ \A l \in 1 .. e - i : SubSeq(f, i, e - 1)[l] = f[i + l - 1]
<1> DEFINE n == e - 1
<1>1. /\ i \in Int /\ n \in Int /\ i <= n /\ n <= Len(f) /\ 1 <= i
      /\ n - i + 1 = e - i
  OBVIOUS
<1>2. \A l \in i .. n : f[l] \in Lines
  BY <1>1
<1> HIDE DEF n
<1>3. /\ SubSeq(f, i, n) \in Seq(Lines)
      /\ Len(SubSeq(f, i, n)) = IF i <= n THEN n - i + 1 ELSE 0
      /\ \A l \in 1 .. n - i + 1 : SubSeq(f, i, n)[l] = f[i + l - 1]
  BY <1>1, <1>2, SubSeqProperties
<1>4. Len(SubSeq(f, i, n)) = e - i
  BY <1>1, <1>3
<1>5. \A l \in 1 .. e - i : SubSeq(f, i, n)[l] = f[i + l - 1]
  BY <1>1, <1>3
<1> QED
  BY <1>3, <1>4, <1>5 DEF n

LEMMA BlockAt ==
  ASSUME NEW f \in Seq(Lines), NEW key, KeyLines(f, key) # {}
  PROVE  \E k, e \in Nat :
           /\ FirstKey(f, key, k) /\ EndsBlock(f, k, f[k].ind, e)
           /\ FirstBlock(f, key) \in Seq(Lines)
           /\ Len(FirstBlock(f, key)) = e - k
           /\ \A l \in 1 .. e - k : FirstBlock(f, key)[l] = f[k + l - 1]
<1> DEFINE k == Least(KeyLines(f, key))
           e == BlockEnd(f, k, f[k].ind)
<1>1. FirstKey(f, key, k)
  BY KeyIsFirst
<1> HIDE DEF k
<1>2. k \in 1 .. Len(f) /\ k \in Nat
  BY <1>1 DEF FirstKey
<1>3. f[k].ind \in Nat
  BY <1>2, IndentIs
<1>4. EndsBlock(f, k, f[k].ind, e)
  BY <1>2, <1>3, BlockEndEnds
<1> HIDE DEF e
<1>5. e \in k + 1 .. Len(f) + 1 /\ e \in Nat
  BY <1>2, <1>4 DEF EndsBlock
<1>6. FirstBlock(f, key) = SubSeq(f, k, e - 1)
  BY DEF FirstBlock, k, e
<1>7. /\ FirstBlock(f, key) \in Seq(Lines)
      /\ Len(FirstBlock(f, key)) = e - k
      /\ \A l \in 1 .. e - k : FirstBlock(f, key)[l] = f[k + l - 1]
  BY <1>2, <1>5, <1>6, PieceAt
<1> QED
  BY <1>1, <1>2, <1>4, <1>5, <1>7

LEMMA TemplateLines ==
  /\ Template \in Seq(Lines)
  /\ \A i \in 1 .. Len(Template) :
       /\ Template[i] \in Lines /\ Template[i].marks = 0
       /\ Names(Template[i], "plugins:") => Template[i].ind = 0
<1>1. /\ Template \in Seq(Lines)
      /\ \A i \in 1 .. Len(Template) :
           /\ ~Commented(Template[i])
           /\ Template[i].text = "plugins:" => Template[i].ind = 0
  BY TemplateAssumption
<1>2. ASSUME NEW i \in 1 .. Len(Template)
      PROVE  Template[i] \in Lines /\ Template[i].marks = 0
  <2>1. Template[i] \in Lines
    BY <1>1
  <2>2. Template[i].marks \in Nat
    BY <2>1 DEF Lines
  <2> QED
    BY <1>1, <2>1, <2>2 DEF Commented
<1>3. \A line : Names(line, "plugins:") => line.text = "plugins:"
  BY DEF Names
<1> QED
  BY <1>1, <1>2, <1>3

LEMMA TemplateEntryIs == IsPlugin(TemplateEntry)
<1> DEFINE plugins == FirstBlock(Template, "plugins:")
           at      == {i \in DOMAIN plugins : Mentions(plugins[i])}
           j       == Least(at)
<1>1. KeyLines(Template, "plugins:") # {} /\ at # {}
  BY TemplateAssumption DEF TemplateOK
<1>2. PICK k \in Nat, e \in Nat :
        /\ FirstKey(Template, "plugins:", k)
        /\ EndsBlock(Template, k, Template[k].ind, e)
        /\ plugins \in Seq(Lines) /\ Len(plugins) = e - k
        /\ \A l \in 1 .. e - k : plugins[l] = Template[k + l - 1]
  BY <1>1, TemplateLines, BlockAt
<1> HIDE DEF plugins
<1>3. at \in SUBSET Nat
  BY <1>2
<1>4. j \in at
  BY <1>1, <1>3, LeastIs
<1> HIDE DEF j
<1>5. j \in 1 .. e - k /\ Mentions(plugins[j])
  BY <1>2, <1>4
<1>6. k + j - 1 \in 1 .. Len(Template)
  <2>1. j \in 1 .. e - k
    BY <1>5
  <2>2. k \in 1 .. Len(Template) /\ e \in k + 1 .. Len(Template) + 1
    BY <1>2 DEF FirstKey, EndsBlock
  <2>3. Len(Template) \in Nat
    BY TemplateLines
  <2> QED
    BY <2>1, <2>2, <2>3
<1>7. IsPlugin(plugins[j])
  BY <1>2, <1>5, <1>6, TemplateLines DEF IsPlugin
<1> QED
  BY <1>7 DEF TemplateEntry, plugins, at, j

LEMMA UnixPatchedIs ==
  ASSUME NEW f \in Files
  PROVE  UnixPatched(f).lines \in Seq(Lines)
<1>1. CASE KeyLines(Template, "unix-command:") = {}
  BY <1>1 DEF UnixPatched, Patched, Files
<1>2. CASE KeyLines(Template, "unix-command:") # {}
  <2>1. UnixBlock \in Seq(Lines)
    BY <1>2, TemplateLines, FirstBlockIs DEF UnixBlock
  <2> QED
    BY <1>2, <2>1, ExactIs DEF UnixPatched, Files
<1> QED
  BY <1>1, <1>2

LEMMA PatchIsBoth ==
  ASSUME NEW f \in Files
  PROVE  PatchFromTemplate(Template, f) =
           Patched(Terminated(PluginsPatched(f).lines),
                   UnixPatched(f).changed \/ PluginsPatched(f).changed)
<1> DEFINE plugins == FirstBlock(Template, "plugins:")
<1>1. plugins[1] = Template[Least(KeyLines(Template, "plugins:"))]
      /\ Least(KeyLines(Template, "plugins:")) \in KeyLines(Template, "plugins:")
  BY TemplateAssumption, FirstBlockIs, KeyIs DEF TemplateOK
<1>2. plugins[1].ind = 0
  BY <1>1, TemplateLines DEF KeyLines
<1> QED
  BY <1>2 DEF PatchFromTemplate, PluginsPatched, UnixPatched, UnixBlock,
              TemplateEntry

\* The lines of the template are not commented, so that no more of the file
\* mentions the plugin under two marks than did.
LEMMA UnixKeepsOnce ==
  ASSUME NEW f \in Files, OnceCommented(f)
  PROVE  OnceCommented(UnixPatched(f).lines)
<1> DEFINE Low(line) == Mentions(line) => line.marks <= 1
           key   == "unix-command:"
           tpl   == MakeBlockUncommented(UnixBlock)
           first == Least(KeyLines(f, key))
           end   == BlockEnd(f, first, f[first].ind)
           u     == UnixPatched(f).lines
<1>1. /\ f \in Seq(Lines) /\ Len(f) \in Nat
      /\ \A i \in 1 .. Len(f) : Low(f[i])
  BY DEF Files, OnceCommented
<1>2. Low(Blank)
  BY BlankLine
<1>3. CASE KeyLines(Template, key) = {}
  BY <1>3 DEF UnixPatched, Patched
<1>4. CASE KeyLines(Template, key) # {}
  <2>1. PICK k \in Nat, e \in Nat :
          /\ FirstKey(Template, key, k)
          /\ EndsBlock(Template, k, Template[k].ind, e)
          /\ UnixBlock \in Seq(Lines) /\ Len(UnixBlock) = e - k
          /\ \A l \in 1 .. e - k : UnixBlock[l] = Template[k + l - 1]
    BY <1>4, TemplateLines, BlockAt DEF UnixBlock
  <2>2. \A l \in 1 .. Len(UnixBlock) :
          UnixBlock[l] \in Lines /\ UnixBlock[l].marks = 0
    <3> SUFFICES ASSUME NEW l \in 1 .. e - k
                 PROVE  UnixBlock[l] \in Lines /\ UnixBlock[l].marks = 0
      BY <2>1
    <3>1. k \in 1 .. Len(Template) /\ e \in k + 1 .. Len(Template) + 1
      BY <2>1 DEF FirstKey, EndsBlock
    <3>2. k + l - 1 \in 1 .. Len(Template)
      BY <3>1, TemplateLines
    <3> QED
      BY <2>1, <3>2, TemplateLines
  <2>3. /\ tpl \in Seq(Lines) /\ Len(tpl) \in Nat
        /\ \A l \in 1 .. Len(tpl) : Low(tpl[l])
    <3>1. \A l \in 1 .. Len(UnixBlock) :
            UncommentLine(UnixBlock[l]) = UnixBlock[l]
      BY <2>2, UncommentIs
    <3>2. tpl = [l \in 1 .. Len(UnixBlock) |-> UncommentLine(UnixBlock[l])]
      BY <2>1 DEF MakeBlockUncommented
    <3>3. UnixBlock = [l \in 1 .. Len(UnixBlock) |-> UnixBlock[l]]
      BY <2>1
    <3>4. tpl = UnixBlock
      BY <3>1, <3>2, <3>3
    <3>5. \A l \in 1 .. Len(UnixBlock) : Low(UnixBlock[l])
      BY <2>2
    <3> QED
      BY <2>1, <3>4, <3>5
  <2> HIDE DEF tpl, Low
  <2>4. CASE KeyLines(f, key) = {}
    <3> DEFINE s == Separated(f)
    <3>1. u = s \o tpl
      BY <1>4, <2>4 DEF UnixPatched, EnsureBlockExact, Patched, tpl
    <3>2. /\ s \in Seq(Lines) /\ Len(s) \in Nat
          /\ \A l \in 1 .. Len(s) : Low(s[l])
      BY <1>1, <1>2, SeparatedIs
    <3> HIDE DEF u, s
    <3>3. /\ Len(u) = Len(s) + Len(tpl)
          /\ \A l \in 1 .. Len(s) + Len(tpl) :
               u[l] = IF l <= Len(s) THEN s[l] ELSE tpl[l - Len(s)]
      BY <2>3, <3>1, <3>2, ConcatProperties
    <3>4. ASSUME NEW l \in 1 .. Len(u) PROVE Low(u[l])
      <4>1. CASE l <= Len(s)
        BY <3>2, <3>3, <3>4, <4>1
      <4>2. CASE ~(l <= Len(s))
        <5>1. l - Len(s) \in 1 .. Len(tpl) /\ u[l] = tpl[l - Len(s)]
          BY <2>3, <3>2, <3>3, <3>4, <4>2
        <5> QED
          BY <2>3, <5>1
      <4> QED
        BY <4>1, <4>2
    <3>5. u \in Seq(Lines)
      BY UnixPatchedIs DEF u
    <3> QED
      BY <3>4, <3>5 DEF OnceCommented, Low, u
  <2>5. CASE KeyLines(f, key) # {}
    <3>1. first \in 1 .. Len(f) /\ first \in 1 .. Len(f) + 1
      BY <1>1, <2>5, KeyIs
    <3>2. f[first].ind \in Nat
      BY <1>1, <3>1, IndentIs
    <3>3. end \in first + 1 .. Len(f) + 1
      BY <1>1, <3>1, <3>2, BlockEndIs
    <3>4. CASE SubSeq(f, first, end - 1) = tpl
      <4>1. u = f
        BY <1>4, <2>5, <3>4 DEF UnixPatched, EnsureBlockExact, Patched, tpl
      <4> QED
        BY <4>1
    <3>5. CASE SubSeq(f, first, end - 1) # tpl
      <4>1. u = Replace(f, first, end, tpl)
        BY <1>4, <2>5, <3>5 DEF UnixPatched, EnsureBlockExact, Patched, tpl
      <4> HIDE DEF u, first, end
      <4>2. end \in first .. Len(f) + 1 /\ first \in Nat /\ end \in Nat
        BY <1>1, <3>1, <3>3
      <4>3. /\ u \in Seq(Lines)
            /\ Len(u) = Len(f) - (end - first) + Len(tpl)
            /\ \A i \in 1 .. Len(u) :
                 u[i] = IF i < first THEN f[i]
                        ELSE IF i < first + Len(tpl) THEN tpl[i - first + 1]
                        ELSE f[i - Len(tpl) + (end - first)]
        BY <1>1, <2>3, <3>1, <4>1, <4>2, ReplaceAt
      <4>4. ASSUME NEW i \in 1 .. Len(u) PROVE Low(u[i])
        <5>1. CASE i < first
          BY <1>1, <3>1, <4>2, <4>3, <4>4, <5>1
        <5>2. CASE ~(i < first) /\ i < first + Len(tpl)
          <6>1. i - first + 1 \in 1 .. Len(tpl) /\ u[i] = tpl[i - first + 1]
            BY <2>3, <4>2, <4>3, <4>4, <5>2
          <6> QED
            BY <2>3, <6>1
        <5>3. CASE ~(i < first + Len(tpl))
          <6>1. ~(i < first)
            BY <2>3, <4>2, <5>3
          <6>2. u[i] = f[i - Len(tpl) + (end - first)]
            BY <4>3, <5>3, <6>1
          <6>3. i \in Nat /\ i <= Len(f) - (end - first) + Len(tpl)
            BY <4>3, <4>4
          <6>4. i - Len(tpl) + (end - first) \in 1 .. Len(f)
            BY <1>1, <2>3, <3>1, <4>2, <5>3, <6>3
          <6> QED
            BY <1>1, <6>2, <6>4
        <5> QED
          BY <5>1, <5>2, <5>3
      <4> QED
        BY <4>3, <4>4 DEF OnceCommented, Low, u
    <3> QED
      BY <3>4, <3>5
  <2> QED
    BY <2>4, <2>5
<1> QED
  BY <1>3, <1>4

\* Whatever the file was, the patch leaves the plugin's entry active.
LEMMA PatchOpens ==
  ASSUME NEW f \in Files, OnceCommented(f)
  PROVE  /\ PatchFromTemplate(Template, f).lines \in Files
         /\ Opened(PatchFromTemplate(Template, f).lines)
<1> DEFINE u == UnixPatched(f).lines
           g == PluginsPatched(f).lines
<1>1. u \in Seq(Lines) /\ OnceCommented(u)
  BY UnixPatchedIs, UnixKeepsOnce
<1>2. g \in Seq(Lines) /\ PluginsStep(u, g, NewEntry(TemplateEntry, 0))
  BY <1>1, TemplateEntryIs, PluginsStepIs DEF PluginsPatched
<1> HIDE DEF u, g
<1>3. Opened(g)
  BY <1>1, <1>2, TemplateEntryIs, StepOpens
<1>4. Opened(Terminated(g)) /\ Terminated(g) \in Files
  BY <1>2, <1>3, OpenedTerminated, TerminatedIs
<1>5. PatchFromTemplate(Template, f).lines = Terminated(g)
  BY PatchIsBoth DEF Patched, g
<1> QED
  BY <1>4, <1>5

\* In a file Suricata accepts, that entry is what makes it load the plugin.
LEMMA OpenedLoads ==
  ASSUME NEW f \in Files, Opened(f), Valid(f)
  PROVE  Loaded(f)
<1>1. PICK k \in Nat, j \in Nat : OpenedAt(f, k, j)
  BY DEF Opened
<1>2. DOMAIN f = 1 .. Len(f) /\ k \in 1 .. Len(f) /\ j \in k + 1 .. Len(f)
  BY <1>1 DEF Files, OpenedAt, EntryAt, FirstKey
<1>3. j \in DOMAIN f /\ Mentions(f[j]) /\ ~Commented(f[j])
  BY <1>1, <1>2 DEF OpenedAt, EntryAt, Commented
<1>4. j \in Active(f)
  BY <1>3, MentionIsText DEF Active
<1>5. f[j].text = "ndpi"
  BY <1>3, <1>4 DEF Valid, Mentions
<1>6. j \in Entries(f)
  BY <1>4, <1>5 DEF Entries
<1> QED
  BY <1>5, <1>6 DEF Loaded

-----------------------------------------------------------------------------
(* What a written patch achieves *)

\* SuricataConfig.tla: whatever the files and the template, and however often
\* the plugin was switched before, a Reconcile that writes the file leaves one
\* that makes Suricata load the plugin, if no line that names it was commented
\* more than once.
THEOREM ReconcileLoadsPlugin == Spec => ReconcileLoads
<1>1. TypeOK /\ [Next]_vars
        => [last' = "reconcile" /\ reply' = "changed" /\ OnceCommented(file)
              => Loaded(file')]_vars
  <2> SUFFICES ASSUME TypeOK, Next, last' = "reconcile", reply' = "changed",
                      OnceCommented(file)
               PROVE  Loaded(file')
    OBVIOUS
  <2>1. CASE Reconcile
    <3> DEFINE p == PatchFromTemplate(Template, file)
    <3>1. file' = p.lines /\ Valid(p.lines)
      BY <2>1 DEF Reconcile
    <3>2. p.lines \in Files /\ Opened(p.lines)
      BY PatchOpens DEF TypeOK
    <3> QED
      BY <3>1, <3>2, OpenedLoads
  <2>2. ASSUME NEW enable \in BOOLEAN, Toggle(enable) PROVE FALSE
    BY <2>2 DEF Toggle
  <2> QED
    BY <2>1, <2>2 DEF Next
<1> QED
  BY <1>1, TypeCorrect, PTL DEF Spec, ReconcileLoads

-----------------------------------------------------------------------------
(* The unix-command block is the template's *)

\* What the template's block is, if its key is not indented.
PlainBlock(b) ==
  /\ b \in Seq(Lines) /\ Len(b) >= 1
  /\ \A l \in 1 .. Len(b) : b[l].marks = 0 /\ ~Names(b[l], "plugins:")
  /\ Names(b[1], "unix-command:") /\ b[1].ind = 0
  /\ \A l \in 2 .. Len(b) :
       (b[l] = Blank \/ b[l].ind > 0) /\ ~Names(b[l], "unix-command:")

\* The first block of the key is b, from line i to the line before e, but for a
\* blank line after a block that does not end with one.
HasBlock(f, b, i, e) ==
  /\ FirstKey(f, "unix-command:", i)
  /\ \A l \in 1 .. Len(b) : f[i + l - 1] = b[l]
  /\ e <= Len(f) + 1
  /\ \/ e = i + Len(b)
     \/ e = i + Len(b) + 1 /\ f[e - 1] = Blank /\ b[Len(b)] # Blank
  /\ e <= Len(f) => f[e] # Blank /\ f[e].ind <= 0

LEMMA UncommentedAlready ==
  ASSUME NEW b, PlainBlock(b)
  PROVE  MakeBlockUncommented(b) = b
<1> DEFINE n == Len(b)
<1>1. b \in Seq(Lines) /\ n \in Nat /\ \A l \in 1 .. n : b[l] \in Lines
  BY DEF PlainBlock
<1>2. \A l \in 1 .. n : UncommentLine(b[l]) = b[l]
  BY <1>1, UncommentIs DEF PlainBlock
<1>3. MakeBlockUncommented(b) = [l \in 1 .. n |-> UncommentLine(b[l])]
  BY <1>1 DEF MakeBlockUncommented
<1>4. b = [l \in 1 .. n |-> b[l]]
  BY <1>1
<1> QED
  BY <1>2, <1>3, <1>4

LEMMA HasBlockEnds ==
  ASSUME NEW f \in Seq(Lines), NEW b, PlainBlock(b), NEW i \in Nat,
         NEW e \in Nat, HasBlock(f, b, i, e)
  PROVE  f[i].ind = 0 /\ f[i] # Blank /\ EndsBlock(f, i, 0, e)
<1> DEFINE n == Len(b)
<1>1. /\ n \in Nat /\ n >= 1 /\ Len(f) \in Nat /\ i \in 1 .. Len(f)
      /\ e \in {i + n, i + n + 1} /\ e <= Len(f) + 1
  BY DEF PlainBlock, HasBlock, FirstKey
<1>2. \A l \in 1 .. n : f[i + l - 1] = b[l]
  BY DEF HasBlock
<1>3. e = i + n + 1 => f[e - 1] = Blank
  BY <1>1 DEF HasBlock
<1>4. \A l \in 2 .. n : b[l] = Blank \/ b[l].ind > 0
  BY DEF PlainBlock
<1> HIDE DEF n
<1>5. f[i].ind = 0 /\ f[i] # Blank
  <2>1. 1 \in 1 .. n /\ i + 1 - 1 = i
    BY <1>1
  <2>2. f[i + 1 - 1] = b[1]
    BY <1>2, <2>1
  <2>3. f[i] = b[1]
    BY <2>1, <2>2
  <2> QED
    BY <2>3, NamesIs DEF PlainBlock
<1>6. ASSUME NEW l \in i + 1 .. e - 1 PROVE f[l] = Blank \/ f[l].ind > 0
  <2>1. CASE l < i + n
    <3> DEFINE x == l - i + 1
    <3>1. x \in 2 .. n /\ x \in 1 .. n /\ i + x - 1 = l
      BY <1>1, <2>1
    <3> HIDE DEF x
    <3>2. f[l] = b[x]
      BY <1>2, <3>1
    <3> QED
      BY <1>4, <3>1, <3>2
  <2>2. CASE ~(l < i + n)
    <3>1. e = i + n + 1 /\ l = e - 1
      BY <1>1, <2>2
    <3> QED
      BY <1>3, <3>1
  <2> QED
    BY <2>1, <2>2
<1>7. e \in i + 1 .. Len(f) + 1
  BY <1>1
<1> QED
  BY <1>5, <1>6, <1>7 DEF EndsBlock, HasBlock

\* A block that is there is left alone; one with a blank line after it is
\* replaced, which takes the blank line away.
LEMMA BlockFound ==
  ASSUME NEW f \in Seq(Lines), NEW b, PlainBlock(b), NEW i \in Nat,
         NEW e \in Nat, HasBlock(f, b, i, e)
  PROVE  /\ FirstBlock(f, "unix-command:") = SubSeq(f, i, e - 1)
         /\ e = i + Len(b)
              => EnsureBlockExact(f, b, "unix-command:") = Patched(f, FALSE)
         /\ e # i + Len(b)
              => EnsureBlockExact(f, b, "unix-command:")
                   = Patched(Replace(f, i, e, b), TRUE)
<1> DEFINE n == Len(b)
           s == SubSeq(f, i, e - 1)
<1>1. /\ b \in Seq(Lines) /\ n \in Nat /\ n >= 1 /\ Len(f) \in Nat
      /\ i \in 1 .. Len(f) /\ e \in {i + n, i + n + 1} /\ e <= Len(f) + 1
  BY DEF PlainBlock, HasBlock, FirstKey
<1>2. \A l \in 1 .. n : f[i + l - 1] = b[l]
  BY DEF HasBlock
<1>3. KeyLines(f, "unix-command:") # {}
      /\ i = Least(KeyLines(f, "unix-command:"))
  BY FirstKeyUnique DEF HasBlock
<1>4. MakeBlockUncommented(b) = b
  BY UncommentedAlready
<1>5. f[i].ind = 0 /\ BlockEnd(f, i, f[i].ind) = e
  BY <1>1, HasBlockEnds, BlockEndUnique
<1>6. /\ s \in Seq(Lines) /\ Len(s) = e - i
      /\ \A l \in 1 .. e - i : s[l] = f[i + l - 1]
  <2>1. e \in i + 1 .. Len(f) + 1
    BY <1>1
  <2> QED
    BY <1>1, <2>1, PieceAt
<1>7. FirstBlock(f, "unix-command:") = s
  BY <1>3, <1>5 DEF FirstBlock
<1> HIDE DEF s
<1>8. CASE e = i + n
  <2>1. e - i = n /\ ~(e # i + n)
    BY <1>1, <1>8
  <2>2. s \in Seq(Lines) /\ Len(s) = Len(b) /\ \A l \in 1 .. Len(s) : s[l] = b[l]
    BY <1>1, <1>2, <1>6, <2>1
  <2>3. s = b
    BY <1>1, <2>2, SeqEqual
  <2> QED
    BY <1>3, <1>4, <1>5, <1>7, <2>1, <2>3 DEF EnsureBlockExact, s
<1>9. CASE e # i + n
  <2>1. Len(s) # Len(b)
    BY <1>1, <1>6, <1>9
  <2>2. s # b
    BY <2>1
  <2> QED
    BY <1>3, <1>4, <1>5, <1>7, <1>9, <2>2 DEF EnsureBlockExact, s
<1> QED
  BY <1>8, <1>9

\* Lines i to e - 1 of f have become lines i to c - 1 of g.
Spliced(f, g, i, e, c) ==
  /\ i \in 1 .. Len(f) + 1 /\ e \in i .. Len(f) + 1 /\ c \in i .. Len(g) + 1
  /\ Len(g) - c = Len(f) - e
  /\ \A l \in 1 .. i - 1 : g[l] = f[l]
  /\ \A l \in c .. Len(g) : g[l] = f[(l - c) + e]

PutsBlock(f, g, b, i, e) ==
  /\ Spliced(f, g, i, e, i + Len(b))
  /\ \A l \in 1 .. Len(b) : g[(i - 1) + l] = b[l]

\* There was no block: it is appended.
AppendsBlock(f, g, b) ==
  /\ \A l \in 1 .. Len(f) : ~Names(f[l], "unix-command:")
  /\ PutsBlock(Separated(f), g, b,
               Len(Separated(f)) + 1, Len(Separated(f)) + 1)

\* It takes the place of the one there was.
ReplacesBlock(f, g, b, i, e) ==
  /\ FirstKey(f, "unix-command:", i) /\ EndsBlock(f, i, 0, e)
  /\ PutsBlock(f, g, b, i, e)

UnixStep(f, g, b) ==
  AppendsBlock(f, g, b) \/ \E i, e \in Nat : ReplacesBlock(f, g, b, i, e)

LEMMA ReplaceSplices ==
  ASSUME NEW f \in Seq(Lines), NEW b \in Seq(Lines),
         NEW i \in 1 .. Len(f) + 1, NEW e \in i .. Len(f) + 1
  PROVE  PutsBlock(f, Replace(f, i, e, b), b, i, e)
<1> DEFINE g == Replace(f, i, e, b)
           n == Len(b)
           c == i + n
<1>1. /\ g \in Seq(Lines) /\ Len(g) = Len(f) - (e - i) + n
      /\ \A l \in 1 .. Len(g) :
           g[l] = IF l < i THEN f[l]
                  ELSE IF l < i + n THEN b[l - i + 1]
                  ELSE f[l - n + (e - i)]
  BY ReplaceAt
<1> HIDE DEF g
<1>2. n \in Nat /\ Len(f) \in Nat /\ Len(g) \in Nat
  BY <1>1
<1> HIDE DEF n
<1>3. /\ i \in Nat /\ 1 <= i /\ e \in Nat /\ i <= e /\ e <= Len(f) + 1
      /\ Len(g) = Len(f) - (e - i) + n /\ c \in Nat /\ c = i + n
  BY <1>1, <1>2
<1>4. c \in i .. Len(g) + 1 /\ Len(g) - c = Len(f) - e
  BY <1>2, <1>3
<1>5. ASSUME NEW l \in 1 .. i - 1 PROVE g[l] = f[l]
  <2>1. l \in 1 .. Len(g) /\ l < i
    BY <1>2, <1>3
  <2> QED
    BY <1>1, <2>1
<1>6. ASSUME NEW l \in c .. Len(g) PROVE g[l] = f[(l - c) + e]
  <2>1. /\ l \in 1 .. Len(g) /\ ~(l < i) /\ ~(l < i + n)
        /\ l - n + (e - i) = (l - c) + e
    BY <1>2, <1>3
  <2>2. g[l] = f[l - n + (e - i)]
    BY <1>1, <2>1
  <2> QED
    BY <2>1, <2>2
<1>7. ASSUME NEW l \in 1 .. n PROVE g[(i - 1) + l] = b[l]
  <2> DEFINE x == (i - 1) + l
  <2>1. x \in 1 .. Len(g) /\ ~(x < i) /\ x < i + n /\ x - i + 1 = l
    BY <1>2, <1>3
  <2> HIDE DEF x
  <2>2. g[x] = b[x - i + 1]
    BY <1>1, <2>1
  <2> QED
    BY <2>1, <2>2 DEF x
<1> QED
  BY <1>4, <1>5, <1>6, <1>7 DEF PutsBlock, Spliced, n, g

LEMMA UnixStepIs ==
  ASSUME NEW f \in Seq(Lines), UnixFlush(f), NEW b, PlainBlock(b)
  PROVE  LET u == EnsureBlockExact(f, b, "unix-command:").lines
         IN  u \in Seq(Lines) /\ UnixStep(f, u, b)
<1> DEFINE u == EnsureBlockExact(f, b, "unix-command:").lines
           n == Len(b)
           i == Least(KeyLines(f, "unix-command:"))
           e == BlockEnd(f, i, f[i].ind)
<1>1. b \in Seq(Lines) /\ n \in Nat /\ Len(f) \in Nat
  BY DEF PlainBlock
<1>2. u \in Seq(Lines)
  BY <1>1, ExactIs
<1>3. MakeBlockUncommented(b) = b
  BY UncommentedAlready
<1>4. CASE KeyLines(f, "unix-command:") = {}
  <2> DEFINE s == Separated(f)
             m == Len(s)
  <2>1. u = s \o b
    BY <1>3, <1>4 DEF EnsureBlockExact, Patched
  <2>2. \A l \in 1 .. Len(f) : ~Names(f[l], "unix-command:")
    BY <1>4 DEF KeyLines
  <2>3. s \in Seq(Lines) /\ m \in Nat
    BY SeparatedIs
  <2> HIDE DEF u, s
  <2>4. /\ Len(u) = m + n
        /\ \A l \in 1 .. m + n : u[l] = IF l <= m THEN s[l] ELSE b[l - m]
    BY <1>1, <2>1, <2>3, ConcatProperties
  <2> HIDE DEF n, m
  <2>5. /\ m + 1 \in 1 .. m + 1 /\ m + 1 \in m + 1 .. m + 1
        /\ (m + 1) + n \in m + 1 .. Len(u) + 1
        /\ Len(u) - ((m + 1) + n) = m - (m + 1) /\ (m + 1) - 1 = m
        /\ \A l \in (m + 1) + n .. Len(u) : FALSE
    BY <1>1, <2>3, <2>4
  <2>6. \A l \in 1 .. m : u[l] = s[l]
    <3>1. \A l \in 1 .. m : l \in 1 .. m + n /\ l <= m
      BY <1>1, <2>3
    <3> QED
      BY <2>4, <3>1
  <2>7. ASSUME NEW l \in 1 .. n PROVE u[m + l] = b[l]
    <3>1. m + l \in 1 .. m + n /\ ~(m + l <= m) /\ (m + l) - m = l
      BY <1>1, <2>3
    <3>2. u[m + l] = b[(m + l) - m]
      BY <2>4, <3>1
    <3> QED
      BY <3>1, <3>2
  <2>8. Spliced(s, u, m + 1, m + 1, (m + 1) + n)
    BY <2>5, <2>6 DEF Spliced, m
  <2>9. PutsBlock(s, u, b, m + 1, m + 1)
    BY <2>5, <2>7, <2>8 DEF PutsBlock, n
  <2> QED
    BY <1>2, <2>2, <2>9 DEF UnixStep, AppendsBlock, u, m, s
<1>5. CASE KeyLines(f, "unix-command:") # {}
  <2>1. FirstKey(f, "unix-command:", i)
    BY <1>5, KeyIsFirst
  <2> HIDE DEF i
  <2>2. i \in 1 .. Len(f) /\ i \in Nat /\ f[i].ind = 0
    BY <2>1 DEF FirstKey, UnixFlush, KeyLines
  <2>3. EndsBlock(f, i, 0, e)
    BY <2>2, BlockEndEnds
  <2> HIDE DEF e
  <2>4. /\ e \in i + 1 .. Len(f) + 1 /\ e \in Nat
        /\ i \in 1 .. Len(f) + 1 /\ e \in i .. Len(f) + 1
    BY <1>1, <2>2, <2>3 DEF EndsBlock
  <2>5. PutsBlock(f, u, b, i, e)
    <3>1. CASE SubSeq(f, i, e - 1) = b
      <4>1. u = f
        BY <1>3, <1>5, <3>1 DEF EnsureBlockExact, Patched, i, e
      <4>2. n = e - i /\ \A l \in 1 .. e - i : b[l] = f[i + l - 1]
        BY <2>2, <2>4, <3>1, PieceAt
      <4> HIDE DEF u, n
      <4>3. i + n = e /\ \A l \in 1 .. n : i + l - 1 = (i - 1) + l
        BY <2>2, <2>4, <4>2
      <4>4. \A l \in e .. Len(f) : (l - e) + e = l
        BY <2>4
      <4>5. Spliced(f, f, i, e, i + n)
        BY <2>4, <4>3, <4>4 DEF Spliced
      <4>6. \A l \in 1 .. n : f[(i - 1) + l] = b[l]
        BY <4>2, <4>3
      <4> QED
        BY <4>1, <4>5, <4>6 DEF PutsBlock, n
    <3>2. CASE SubSeq(f, i, e - 1) # b
      <4>1. u = Replace(f, i, e, b)
        BY <1>3, <1>5, <3>2 DEF EnsureBlockExact, Patched, i, e
      <4> QED
        BY <1>1, <2>4, <4>1, ReplaceSplices
    <3> QED
      BY <3>1, <3>2
  <2> QED
    BY <1>2, <2>1, <2>2, <2>3, <2>4, <2>5 DEF UnixStep, ReplacesBlock
<1> QED
  BY <1>4, <1>5

\* Wherever the block goes, no key is indented by it.
LEMMA PutsFlush ==
  ASSUME NEW f \in Seq(Lines), NEW g \in Seq(Lines), NEW b, PlainBlock(b),
         NEW i, NEW e, PutsBlock(f, g, b, i, e), UnixFlush(f)
  PROVE  UnixFlush(g)
<1> DEFINE n == Len(b)
           c == i + n
<1>1. /\ n \in Nat /\ i \in Nat /\ e \in Nat /\ c \in Nat /\ c = i + n
      /\ 1 <= i /\ i <= e /\ e <= Len(f) + 1 /\ Len(g) - c = Len(f) - e
      /\ Len(f) \in Nat /\ Len(g) \in Nat
  BY DEF PutsBlock, Spliced, PlainBlock
<1>2. /\ \A l \in 1 .. i - 1 : g[l] = f[l]
      /\ \A l \in c .. Len(g) : g[l] = f[(l - c) + e]
      /\ \A l \in 1 .. n : g[(i - 1) + l] = b[l]
  BY DEF PutsBlock, Spliced
<1>3. \A l \in 1 .. n : Names(b[l], "unix-command:") => b[l].ind = 0
  <2>1. \A l \in 1 .. n : l = 1 \/ l \in 2 .. n
    BY <1>1
  <2> QED
    BY <2>1 DEF PlainBlock
<1> HIDE DEF n, c
<1> SUFFICES ASSUME NEW l \in 1 .. Len(g), Names(g[l], "unix-command:")
             PROVE  g[l].ind = 0
  BY DEF UnixFlush, KeyLines
<1>4. CASE l < i
  <2>1. l \in 1 .. i - 1 /\ l \in 1 .. Len(f)
    BY <1>1, <1>4
  <2> QED
    BY <1>2, <2>1 DEF UnixFlush, KeyLines
<1>5. CASE ~(l < i) /\ l < c
  <2> DEFINE x == (l - i) + 1
  <2>1. x \in 1 .. n /\ (i - 1) + x = l
    BY <1>1, <1>5
  <2> HIDE DEF x
  <2>2. g[l] = b[x]
    BY <1>2, <2>1
  <2> QED
    BY <1>3, <2>1, <2>2
<1>6. CASE ~(l < c)
  <2>1. l \in c .. Len(g) /\ (l - c) + e \in 1 .. Len(f)
    BY <1>1, <1>6
  <2> QED
    BY <1>2, <2>1 DEF UnixFlush, KeyLines
<1> QED
  BY <1>1, <1>4, <1>5, <1>6

LEMMA SeparatedFlush ==
  ASSUME NEW f \in Seq(Lines), UnixFlush(f)
  PROVE  Separated(f) \in Seq(Lines) /\ UnixFlush(Separated(f))
BY SeparatedIs, BlankIs DEF UnixFlush, KeyLines

LEMMA UnixStepFlush ==
  ASSUME NEW f \in Seq(Lines), NEW g \in Seq(Lines), NEW b, PlainBlock(b),
         UnixStep(f, g, b), UnixFlush(f)
  PROVE  UnixFlush(g)
BY PutsFlush, SeparatedFlush DEF UnixStep, AppendsBlock, ReplacesBlock

\* Reconcile leaves the template's block, whatever was there.
LEMMA PutIsThere ==
  ASSUME NEW f \in Seq(Lines), NEW g \in Seq(Lines), NEW b, PlainBlock(b),
         NEW i, NEW e, PutsBlock(f, g, b, i, e),
         \A l \in 1 .. i - 1 : ~Names(f[l], "unix-command:"),
         e <= Len(f) => f[e] # Blank /\ f[e].ind <= 0
  PROVE  i \in Nat /\ i + Len(b) \in Nat /\ HasBlock(g, b, i, i + Len(b))
<1> DEFINE n == Len(b)
           c == i + n
<1>1. /\ n \in Nat /\ n >= 1 /\ i \in Nat /\ e \in Nat /\ c \in Nat /\ c = i + n
      /\ 1 <= i /\ c <= Len(g) + 1 /\ Len(g) - c = Len(f) - e
      /\ Len(f) \in Nat /\ Len(g) \in Nat
  <2>1. b \in Seq(Lines) /\ n \in Nat /\ n >= 1
    BY DEF PlainBlock
  <2> HIDE DEF n
  <2> QED
    BY <2>1 DEF PutsBlock, Spliced, n
<1>2. /\ \A l \in 1 .. i - 1 : g[l] = f[l]
      /\ \A l \in c .. Len(g) : g[l] = f[(l - c) + e]
      /\ \A l \in 1 .. n : g[(i - 1) + l] = b[l]
  BY DEF PutsBlock, Spliced
<1> HIDE DEF n, c
<1>3. \A l \in 1 .. n : i + l - 1 = (i - 1) + l
  BY <1>1
<1>4. FirstKey(g, "unix-command:", i)
  <2>1. 1 \in 1 .. n /\ (i - 1) + 1 = i /\ i \in 1 .. Len(g)
    BY <1>1
  <2>2. g[i] = b[1]
    BY <1>2, <2>1
  <2> QED
    BY <1>2, <2>1, <2>2 DEF FirstKey, PlainBlock
<1>5. ASSUME c <= Len(g) PROVE g[c] # Blank /\ g[c].ind <= 0
  <2>1. c \in c .. Len(g) /\ (c - c) + e = e /\ e <= Len(f)
    BY <1>1, <1>5
  <2>2. g[c] = f[(c - c) + e]
    BY <1>2, <2>1
  <2> QED
    BY <2>1, <2>2
<1>6. \A l \in 1 .. n : g[i + l - 1] = b[l]
  BY <1>2, <1>3
<1> QED
  BY <1>1, <1>4, <1>5, <1>6 DEF HasBlock, n, c

LEMMA BlockMade ==
  ASSUME NEW f \in Seq(Lines), NEW g \in Seq(Lines), NEW b, PlainBlock(b),
         UnixStep(f, g, b)
  PROVE  \E i, e \in Nat : HasBlock(g, b, i, e)
<1>1. CASE AppendsBlock(f, g, b)
  <2> DEFINE s == Separated(f)
             i == Len(s) + 1
  <2>1. /\ s \in Seq(Lines) /\ Len(s) \in Nat
        /\ \A l \in 1 .. Len(s) : ~Names(s[l], "unix-command:")
    <3>1. /\ s \in Seq(Lines) /\ Len(s) \in Nat
          /\ \A l \in 1 .. Len(f) : s[l] = f[l]
          /\ \A l \in 1 .. Len(s) : l \notin 1 .. Len(f) => s[l] = Blank
      BY SeparatedIs
    <3>2. \A l \in 1 .. Len(f) : ~Names(f[l], "unix-command:")
      BY <1>1 DEF AppendsBlock
    <3> HIDE DEF s
    <3> QED
      BY <3>1, <3>2, BlankIs
  <2>2. PutsBlock(s, g, b, i, i)
    BY <1>1 DEF AppendsBlock
  <2> HIDE DEF s
  <2>3. i - 1 = Len(s) /\ ~(i <= Len(s))
    BY <2>1
  <2> HIDE DEF i
  <2> QED
    BY <2>1, <2>2, <2>3, PutIsThere
<1>2. ASSUME NEW i \in Nat, NEW e \in Nat, ReplacesBlock(f, g, b, i, e)
      PROVE  \E i2, e2 \in Nat : HasBlock(g, b, i2, e2)
  BY <1>2, PutIsThere DEF ReplacesBlock, FirstKey, EndsBlock
<1> QED
  BY <1>1, <1>2 DEF UnixStep

\* The plugins section lies before the block or after it.

LEMMA HasBlockIs ==
  ASSUME NEW f \in Seq(Lines), NEW b, PlainBlock(b), NEW i \in Nat,
         NEW e \in Nat, HasBlock(f, b, i, e)
  PROVE  /\ Len(b) \in Nat /\ Len(b) >= 1 /\ Len(f) \in Nat
         /\ i \in 1 .. Len(f)
         /\ e \in {i + Len(b), i + Len(b) + 1} /\ e <= Len(f) + 1
         /\ \A l \in 1 .. Len(b) : f[i + l - 1] = b[l]
         /\ e = i + Len(b) + 1 => f[e - 1] = Blank /\ b[Len(b)] # Blank
         /\ e \in i + 1 .. Len(f) + 1
<1> DEFINE n == Len(b)
<1>1. n \in Nat /\ n >= 1
  BY DEF PlainBlock
<1> HIDE DEF n
<1>2. i + n # i + n + 1
  BY <1>1
<1>3. /\ Len(f) \in Nat /\ i \in 1 .. Len(f)
      /\ e \in {i + n, i + n + 1} /\ e <= Len(f) + 1
      /\ \A l \in 1 .. n : f[i + l - 1] = b[l]
      /\ e = i + n + 1 => f[e - 1] = Blank /\ b[n] # Blank
  BY <1>2 DEF HasBlock, FirstKey, n
<1>4. e \in i + 1 .. Len(f) + 1
  BY <1>1, <1>3
<1> QED
  BY <1>1, <1>3, <1>4 DEF n

\* The plugins section lies before the block or after it.
LEMMA BlockApart ==
  ASSUME NEW f \in Seq(Lines), NEW b, PlainBlock(b), NEW i \in Nat,
         NEW e \in Nat, HasBlock(f, b, i, e), NEW k \in Nat, NEW q \in Nat,
         FirstKey(f, "plugins:", k), EndsBlock(f, k, 0, q)
  PROVE  /\ i \in 1 .. Len(f) /\ e \in i + 1 .. Len(f) + 1
         /\ k \in 1 .. Len(f) /\ q \in k + 1 .. Len(f) + 1
         /\ q <= i \/ e <= k
<1> DEFINE n == Len(b)
<1>1. /\ n \in Nat /\ n >= 1 /\ Len(f) \in Nat /\ i \in 1 .. Len(f)
      /\ e \in {i + n, i + n + 1} /\ e <= Len(f) + 1 /\ k \in 1 .. Len(f)
      /\ q \in k + 1 .. Len(f) + 1
  BY HasBlockIs DEF FirstKey, EndsBlock
<1>2. /\ \A l \in 1 .. n : f[i + l - 1] = b[l]
      /\ \A l \in 1 .. n : ~Names(b[l], "plugins:")
      /\ e = i + n + 1 => f[e - 1] = Blank
  <2>1. \A l \in 1 .. n : ~Names(b[l], "plugins:")
    BY DEF PlainBlock
  <2> QED
    BY <2>1, HasBlockIs
<1> HIDE DEF n
<1>3. f[i] # Blank /\ ~(f[i].ind > 0)
  BY HasBlockEnds
<1>4. ~(i <= k /\ k < e)
  <2> SUFFICES ASSUME i <= k, k < e PROVE FALSE
    OBVIOUS
  <2>1. Names(f[k], "plugins:")
    BY DEF FirstKey
  <2>2. CASE k < i + n
    <3> DEFINE l == k - i + 1
    <3>1. l \in 1 .. n /\ i + l - 1 = k
      BY <1>1, <2>2
    <3> HIDE DEF l
    <3>2. f[k] = b[l]
      BY <1>2, <3>1
    <3> QED
      BY <1>2, <2>1, <3>1, <3>2
  <2>3. CASE ~(k < i + n)
    <3>1. e = i + n + 1 /\ k = e - 1
      BY <1>1, <2>3
    <3> QED
      BY <1>2, <2>1, <3>1, BlankIs
  <2> QED
    BY <2>2, <2>3
<1>5. ~(k < i /\ i < q)
  <2> SUFFICES ASSUME k < i, i < q PROVE FALSE
    OBVIOUS
  <2>1. i \in k + 1 .. q - 1
    BY <1>1
  <2> QED
    BY <1>3, <2>1 DEF EndsBlock
<1>6. e \in i + 1 .. Len(f) + 1
  BY <1>1
<1> QED
  BY <1>1, <1>4, <1>5, <1>6

\* A block that keeps its lines, and the line after them what it is, stays one
\* when d lines are put before it.
LEMMA BlockMoves ==
  ASSUME NEW f \in Seq(Lines), NEW g \in Seq(Lines), NEW b, PlainBlock(b),
         NEW i \in Nat, NEW e \in Nat, HasBlock(f, b, i, e), NEW d \in Nat,
         FirstKey(g, "unix-command:", i + d),
         e + d <= Len(g) + 1,
         \A l \in i .. e - 1 : g[l + d] = f[l],
         e + d <= Len(g) => g[e + d] # Blank /\ g[e + d].ind <= 0
  PROVE  HasBlock(g, b, i + d, e + d)
<1> DEFINE n == Len(b)
<1> HIDE DEF n
<1>0. /\ Len(b) \in Nat /\ Len(b) >= 1 /\ Len(f) \in Nat
      /\ i \in 1 .. Len(f)
      /\ e \in {i + Len(b), i + Len(b) + 1} /\ e <= Len(f) + 1
      /\ \A l \in 1 .. Len(b) : f[i + l - 1] = b[l]
      /\ e = i + Len(b) + 1 => f[e - 1] = Blank /\ b[Len(b)] # Blank
      /\ e \in i + 1 .. Len(f) + 1
  BY HasBlockIs, Zenon
<1>1. /\ n \in Nat /\ n >= 1 /\ i \in 1 .. Len(f)
      /\ e \in {i + n, i + n + 1}
      /\ \A l \in 1 .. n : f[i + l - 1] = b[l]
  BY <1>0 DEF n
<1>2. e = i + n + 1 => f[e - 1] = Blank /\ b[n] # Blank
  BY <1>0 DEF n
<1>3. ASSUME NEW l \in 1 .. n PROVE g[(i + d) + l - 1] = b[l]
  <2> DEFINE x == i + l - 1
  <2>1. x \in i .. e - 1 /\ x + d = (i + d) + l - 1
    BY <1>1
  <2>2. f[x] = b[l]
    BY <1>1
  <2> HIDE DEF x
  <2>3. g[x + d] = f[x]
    BY <2>1
  <2> QED
    BY <2>1, <2>2, <2>3
<1>4. ASSUME e = i + n + 1 PROVE g[(e + d) - 1] = Blank
  <2> DEFINE x == e - 1
  <2>1. x \in i .. e - 1 /\ x + d = (e + d) - 1 /\ f[x] = Blank
    BY <1>1, <1>2, <1>4
  <2> HIDE DEF x
  <2>2. g[x + d] = f[x]
    BY <2>1
  <2> QED
    BY <2>1, <2>2
<1>5. \/ e + d = (i + d) + n
      \/ /\ e + d = (i + d) + n + 1
         /\ g[(e + d) - 1] = Blank /\ b[n] # Blank
  <2>1. e = i + n => e + d = (i + d) + n
    BY <1>1
  <2>2. e = i + n + 1 => e + d = (i + d) + n + 1
    BY <1>1
  <2> QED
    BY <1>1, <1>2, <1>4, <2>1, <2>2
<1> QED
  BY <1>3, <1>5 DEF HasBlock, n

\* A blank line at the end of the file may become part of the block.
LEMMA BlockExtends ==
  ASSUME NEW f \in Seq(Lines), NEW g \in Seq(Lines), NEW b, PlainBlock(b),
         NEW i \in Nat, NEW e \in Nat, HasBlock(f, b, i, e),
         Len(g) = Len(f) + 1, \A l \in 1 .. Len(f) : g[l] = f[l],
         g[Len(f) + 1] = Blank, f[Len(f)] # Blank
  PROVE  \E e2 \in Nat : HasBlock(g, b, i, e2)
<1> DEFINE n == Len(b)
<1>1. /\ n \in Nat /\ n >= 1 /\ Len(f) \in Nat /\ i \in 1 .. Len(f)
      /\ e \in {i + n, i + n + 1} /\ e <= Len(f) + 1
  BY HasBlockIs
<1>2. /\ \A l \in 1 .. n : f[i + l - 1] = b[l]
      /\ e = i + n + 1 => f[e - 1] = Blank
  BY HasBlockIs
<1> HIDE DEF n
<1>3. FirstKey(g, "unix-command:", i)
  <2>1. i \in 1 .. Len(g) /\ \A l \in 1 .. i - 1 : l \in 1 .. Len(f)
    BY <1>1
  <2> QED
    BY <1>1, <2>1 DEF HasBlock, FirstKey
<1>4. CASE e <= Len(f)
  <2>1. e \in 1 .. Len(f) /\ e + 0 = e /\ i + 0 = i
    BY <1>1, <1>4
  <2>2. \A l \in i .. e - 1 : l + 0 = l /\ l \in 1 .. Len(f)
    BY <1>1
  <2>3. g[e] # Blank /\ g[e].ind <= 0
    BY <1>4, <2>1 DEF HasBlock
  <2>4. HasBlock(g, b, i, e)
    <3>1. HasBlock(g, b, i + 0, e + 0)
      <4>1. \A l \in i .. e - 1 : g[l + 0] = f[l]
        BY <2>2
      <4>2. FirstKey(g, "unix-command:", i + 0) /\ 0 \in Nat
        BY <1>3, <2>1
      <4>3. e + 0 <= Len(g) + 1
        BY <1>1, <2>1
      <4>4. g[e + 0] # Blank /\ g[e + 0].ind <= 0
        BY <2>1, <2>3
      <4> QED
        BY <4>1, <4>2, <4>3, <4>4, BlockMoves
    <3> QED
      BY <2>1, <3>1
  <2> QED
    BY <2>4
<1>5. CASE ~(e <= Len(f))
  <2>1. e = Len(f) + 1 /\ e - 1 = Len(f)
    BY <1>1, <1>5
  <2>2. e = i + n
    BY <1>1, <1>2, <2>1
  <2>3. n \in 1 .. n /\ i + n - 1 = Len(f)
    BY <1>1, <2>1, <2>2
  <2>4. b[n] # Blank
    BY <1>2, <2>3
  <2>5. \A l \in 1 .. n : g[i + l - 1] = b[l]
    <3>1. \A l \in 1 .. n : i + l - 1 \in 1 .. Len(f)
      BY <1>1, <2>3
    <3> QED
      BY <1>2, <3>1
  <2>6. /\ e + 1 = i + n + 1 /\ (e + 1) - 1 = Len(f) + 1
        /\ e + 1 <= Len(g) + 1 /\ ~(e + 1 <= Len(g)) /\ e + 1 \in Nat
    BY <1>1, <2>1, <2>2
  <2>7. HasBlock(g, b, i, e + 1)
    BY <1>3, <2>4, <2>5, <2>6 DEF HasBlock, n
  <2> QED
    BY <2>6, <2>7
<1> QED
  BY <1>4, <1>5

LEMMA BlockStays ==
  ASSUME NEW f \in Seq(Lines), NEW g \in Seq(Lines), NEW b, PlainBlock(b),
         NEW i \in Nat, NEW e \in Nat, HasBlock(f, b, i, e),
         e <= Len(g) + 1, \A l \in 1 .. e - 1 : g[l] = f[l],
         e <= Len(g) => g[e] # Blank /\ g[e].ind <= 0
  PROVE  HasBlock(g, b, i, e)
<1>1. i \in 1 .. Len(f) /\ i < e /\ Len(g) \in Nat
  <2>1. i \in 1 .. Len(f) /\ e \in i + 1 .. Len(f) + 1
    BY HasBlockIs
  <2> QED
    BY <2>1
<1>2. /\ i + 0 = i /\ e + 0 = e /\ 0 \in Nat
      /\ \A l \in i .. e - 1 : l + 0 = l /\ l \in 1 .. e - 1
      /\ i \in 1 .. Len(g) /\ i \in 1 .. e - 1
      /\ \A l \in 1 .. i - 1 : l \in 1 .. e - 1
  BY <1>1
<1>3. FirstKey(g, "unix-command:", i)
  BY <1>2 DEF HasBlock, FirstKey
<1>4. HasBlock(g, b, i + 0, e + 0)
  <2>1. FirstKey(g, "unix-command:", i + 0)
    BY <1>2, <1>3
  <2>2. \A l \in i .. e - 1 : g[l + 0] = f[l]
    BY <1>2
  <2>3. e + 0 <= Len(g) + 1
        /\ (e + 0 <= Len(g) => g[e + 0] # Blank /\ g[e + 0].ind <= 0)
    BY <1>2
  <2> QED
    BY <1>2, <2>1, <2>2, <2>3, BlockMoves
<1> QED
  BY <1>2, <1>4

\* The plugin's entry goes elsewhere.
LEMMA StepKeepsBlock ==
  ASSUME NEW f \in Seq(Lines), NEW g \in Seq(Lines), NEW ndpi, IsPlugin(ndpi),
         PluginsStep(f, g, NewEntry(ndpi, 0)), NEW b, PlainBlock(b),
         NEW i \in Nat, NEW e \in Nat, HasBlock(f, b, i, e)
  PROVE  \E i2, e2 \in Nat : HasBlock(g, b, i2, e2)
<1> DEFINE new == NewEntry(ndpi, 0)
<1>1. /\ Len(f) \in Nat /\ i \in 1 .. Len(f) /\ Len(g) \in Nat
      /\ e \in i + 1 .. Len(f) + 1
  BY HasBlockIs
<1>2. \A l \in 1 .. Len(f) : f[l] \in Lines
  OBVIOUS
<1>3. ~Names(new, "unix-command:")
  BY NewEntryIs
<1>4. ASSUME e <= Len(f) PROVE f[e] # Blank /\ f[e].ind <= 0
  BY <1>4 DEF HasBlock
<1>5. FirstKey(f, "unix-command:", i)
  BY DEF HasBlock
<1> HIDE DEF new
<1>6. CASE AddsSection(f, g, new)
  <2> DEFINE s == Separated(f)
  <2>1. /\ s \in Seq(Lines) /\ Len(s) \in {Len(f), Len(f) + 1}
        /\ \A l \in 1 .. Len(f) : s[l] = f[l]
        /\ \A l \in 1 .. Len(s) : l \notin 1 .. Len(f) => s[l] = Blank
        /\ f # <<>> /\ LastOf(f) = Blank => s = f
    BY SeparatedIs
  <2>2. /\ Len(g) = Len(s) + 2 /\ g[Len(s) + 1] = TopKey
        /\ \A l \in 1 .. Len(s) : g[l] = s[l]
    BY <1>6 DEF AddsSection
  <2> HIDE DEF s
  <2>3. \E e2 \in Nat : HasBlock(s, b, i, e2)
    <3>1. CASE Len(s) = Len(f)
      <4>1. \A l \in 1 .. Len(s) : s[l] = f[l]
        BY <2>1, <3>1
      <4>2. s = f
        BY <2>1, <3>1, <4>1, SeqEqual
      <4> QED
        BY <4>2
    <3>2. CASE Len(s) = Len(f) + 1
      <4>1. f # <<>> /\ s # f
        BY <1>1, <3>2
      <4>2. f[Len(f)] # Blank
        BY <2>1, <4>1 DEF LastOf
      <4>3. Len(f) + 1 \in 1 .. Len(s) /\ Len(f) + 1 \notin 1 .. Len(f)
        BY <1>1, <3>2
      <4>4. s[Len(f) + 1] = Blank
        BY <2>1, <4>3
      <4> QED
        BY <2>1, <3>2, <4>2, <4>4, BlockExtends
    <3> QED
      BY <2>1, <3>1, <3>2
  <2>4. PICK e2 \in Nat : HasBlock(s, b, i, e2)
    BY <2>3
  <2>5. e2 \in i + 1 .. Len(s) + 1 /\ Len(s) \in Nat
    BY <2>1, <2>4, HasBlockIs
  <2>6. e2 <= Len(g) + 1 /\ \A l \in 1 .. e2 - 1 : l \in 1 .. Len(s)
    BY <1>1, <2>2, <2>5
  <2>7. g[e2] # Blank /\ g[e2].ind <= 0
    <3>1. CASE e2 <= Len(s)
      <4>1. e2 \in 1 .. Len(s) /\ s[e2] # Blank /\ s[e2].ind <= 0
        BY <1>1, <2>4, <2>5, <3>1 DEF HasBlock
      <4> QED
        BY <2>2, <4>1
    <3>2. CASE ~(e2 <= Len(s))
      <4>1. g[e2] = TopKey
        BY <2>2, <2>5, <3>2
      <4>2. TopKey.ind <= 0 /\ TopKey # Blank
        BY TopKeyIs
      <4> QED
        BY <4>1, <4>2
    <3> QED
      BY <3>1, <3>2
  <2>8. HasBlock(g, b, i, e2)
    BY <2>1, <2>2, <2>4, <2>6, <2>7, BlockStays
  <2> QED
    BY <2>8
<1>7. ASSUME NEW k \in Nat, NEW q \in Nat, AddsEntry(f, g, new, k, q)
      PROVE  \E i2, e2 \in Nat : HasBlock(g, b, i2, e2)
  <2>1. /\ FirstKey(f, "plugins:", k) /\ EndsBlock(f, k, 0, q)
        /\ Len(g) = Len(f) + 1
    BY <1>7 DEF AddsEntry
  <2>2. \A l \in 1 .. Len(f) + 1 :
          g[l] = IF l = k THEN UncommentLine(f[l])
                 ELSE IF l < q THEN f[l]
                 ELSE IF l = q THEN new
                 ELSE f[l - 1]
    BY <1>7 DEF AddsEntry
  <2>3. k \in 1 .. Len(f) /\ q \in k + 1 .. Len(f) + 1 /\ (q <= i \/ e <= k)
    BY <2>1, BlockApart
  <2>4. f[k] \in Lines /\ Names(f[k], "plugins:")
    BY <1>2, <2>1, <2>3 DEF FirstKey
  <2>5. CASE q <= i
    <3>1. \A l \in 1 .. Len(f) : l >= q => g[l + 1] = f[l]
      <4> SUFFICES ASSUME NEW l \in 1 .. Len(f), l >= q PROVE g[l + 1] = f[l]
        OBVIOUS
      <4> DEFINE x == l + 1
      <4>1. /\ x \in 1 .. Len(f) + 1 /\ x # k /\ ~(x < q) /\ x # q
            /\ x - 1 = l
        BY <1>1, <2>3
      <4> HIDE DEF x
      <4>2. g[x] = f[x - 1]
        BY <2>2, <4>1
      <4> QED
        BY <4>1, <4>2 DEF x
    <3>2. i + 1 \in 1 .. Len(g) /\ i \in 1 .. Len(f) /\ i >= q
          /\ e + 1 <= Len(g) + 1
      BY <1>1, <2>1, <2>5
    <3>3. \A l \in i .. e - 1 : g[l + 1] = f[l]
      <4>1. \A l \in i .. e - 1 : l \in 1 .. Len(f) /\ l >= q
        BY <1>1, <2>3, <2>5
      <4> QED
        BY <3>1, <4>1
    <3>4. Names(g[i + 1], "unix-command:")
      BY <1>5, <3>1, <3>2 DEF FirstKey
    <3>5. ASSUME NEW l \in 1 .. (i + 1) - 1 PROVE ~Names(g[l], "unix-command:")
      <4>1. l \in 1 .. Len(f) + 1 /\ l <= i /\ l \in Nat /\ 1 <= l
        BY <1>1
      <4>2. CASE l = k
        <5>1. g[l] = UncommentLine(f[k])
          BY <2>2, <4>1, <4>2
        <5> QED
          BY <2>4, <5>1, KeyUncommented, NamesIs
      <4>3. CASE l # k /\ l < q
        <5>1. g[l] = f[l] /\ l \in 1 .. i - 1
          BY <1>1, <2>2, <2>3, <2>5, <4>1, <4>3
        <5> QED
          BY <1>5, <5>1 DEF FirstKey
      <4>4. CASE l = q
        <5>1. g[l] = new
          BY <2>2, <2>3, <4>1, <4>4
        <5> QED
          BY <1>3, <5>1
      <4>5. CASE l > q
        <5>1. l # k /\ ~(l < q) /\ l # q /\ l - 1 \in 1 .. i - 1
          BY <1>1, <2>3, <4>1, <4>5
        <5>2. g[l] = f[l - 1]
          BY <2>2, <4>1, <5>1
        <5> QED
          BY <1>5, <5>1, <5>2 DEF FirstKey
      <4> QED
        BY <2>3, <4>1, <4>2, <4>3, <4>4, <4>5
    <3>6. FirstKey(g, "unix-command:", i + 1)
      BY <3>2, <3>4, <3>5 DEF FirstKey
    <3>7. ASSUME e + 1 <= Len(g) PROVE g[e + 1] # Blank /\ g[e + 1].ind <= 0
      <4>1. e \in 1 .. Len(f) /\ e >= q /\ e <= Len(f)
        BY <1>1, <2>1, <2>3, <2>5, <3>7
      <4> QED
        BY <1>4, <3>1, <4>1
    <3>8. 1 \in Nat /\ i + 1 \in Nat /\ e + 1 \in Nat
      BY <1>1
    <3>9. HasBlock(g, b, i + 1, e + 1)
      BY <3>2, <3>3, <3>6, <3>7, <3>8, BlockMoves
    <3> QED
      BY <3>8, <3>9
  <2>6. CASE e <= k
    <3>1. \A l \in 1 .. e - 1 : g[l] = f[l]
      <4>1. \A l \in 1 .. e - 1 : l \in 1 .. Len(f) + 1 /\ l # k /\ l < q
        BY <1>1, <2>3, <2>6
      <4> QED
        BY <2>2, <4>1
    <3>2. e <= Len(g) + 1 /\ e <= Len(f) /\ e \in 1 .. Len(f) + 1
      BY <1>1, <2>1, <2>3, <2>6
    <3>3. g[e] # Blank /\ g[e].ind <= 0
      <4>1. f[e] # Blank /\ f[e].ind <= 0
        BY <1>4, <3>2
      <4>2. CASE e < k
        <5>1. e # k /\ e < q
          BY <1>1, <2>3, <4>2
        <5>2. g[e] = f[e]
          BY <2>2, <3>2, <5>1
        <5> QED
          BY <4>1, <5>2
      <4>3. CASE e = k
        <5>1. g[e] = UncommentLine(f[k])
          BY <2>2, <3>2, <4>3
        <5>2. Names(g[e], "plugins:") /\ g[e].ind = f[k].ind
          BY <2>4, <5>1, KeyUncommented, UncommentIs
        <5> QED
          BY <4>1, <4>3, <5>2, NamesIs
      <4> QED
        BY <1>1, <2>3, <2>6, <4>2, <4>3
    <3>4. HasBlock(g, b, i, e)
      BY <3>1, <3>2, <3>3, BlockStays
    <3> QED
      BY <3>4
  <2> QED
    BY <2>3, <2>5, <2>6
<1>8. ASSUME NEW k \in Nat, NEW q \in Nat, NEW j \in Nat,
             OpensEntry(f, g, k, q, j)
      PROVE  \E i2, e2 \in Nat : HasBlock(g, b, i2, e2)
  <2>1. /\ FirstKey(f, "plugins:", k) /\ EndsBlock(f, k, 0, q)
        /\ Len(g) = Len(f) /\ j \in k + 1 .. q - 1 /\ Mentions(f[j])
    BY <1>8 DEF OpensEntry
  <2>2. \A l \in 1 .. Len(f) :
          g[l] = IF l = k \/ l = j THEN UncommentLine(f[l]) ELSE f[l]
    BY <1>8 DEF OpensEntry
  <2>3. k \in 1 .. Len(f) /\ q \in k + 1 .. Len(f) + 1 /\ (q <= i \/ e <= k)
    BY <2>1, BlockApart
  <2>4. \A l \in 1 .. Len(f) : g[l].text = f[l].text /\ g[l].ind = f[l].ind
    BY <1>2, <2>2, UncommentIs
  <2>5. \A l \in 1 .. Len(f) : l # k /\ l # j => g[l] = f[l]
    BY <2>2
  <2>6. /\ k \in 1 .. Len(f) /\ j \in 1 .. Len(f)
        /\ \A l \in i .. e - 1 : l \in 1 .. Len(f) /\ l # k /\ l # j
    BY <1>1, <2>1, <2>3
  <2>7. /\ ~Names(g[k], "unix-command:") /\ g[k] # Blank
        /\ ~Names(g[j], "unix-command:") /\ g[j] # Blank
    <3>1. /\ g[k] = UncommentLine(f[k]) /\ Names(f[k], "plugins:")
          /\ f[k] \in Lines
      BY <1>2, <2>1, <2>2, <2>6 DEF FirstKey
    <3>2. Names(g[k], "plugins:")
      BY <3>1, KeyUncommented
    <3>3. Mentions(g[j])
      BY <2>1, <2>4, <2>6 DEF Mentions
    <3> QED
      BY <3>2, <3>3, NamesIs, MentionIsText
  <2>8. FirstKey(g, "unix-command:", i)
    <3>1. i \in i .. e - 1 /\ i \in 1 .. Len(g)
      BY <1>1, <2>1
    <3>2. g[i] = f[i]
      BY <2>5, <2>6, <3>1
    <3>3. ASSUME NEW l \in 1 .. i - 1 PROVE ~Names(g[l], "unix-command:")
      <4>1. l \in 1 .. Len(f)
        BY <1>1
      <4>2. CASE l = k \/ l = j
        BY <2>7, <4>2
      <4>3. CASE ~(l = k \/ l = j)
        BY <1>5, <2>5, <4>1, <4>3 DEF FirstKey
      <4> QED
        BY <4>2, <4>3
    <3> QED
      BY <1>5, <3>1, <3>2, <3>3 DEF FirstKey
  <2>9. ASSUME e <= Len(g) PROVE g[e] # Blank /\ g[e].ind <= 0
    <3>1. e \in 1 .. Len(f) /\ f[e] # Blank /\ f[e].ind <= 0
      BY <1>1, <1>4, <2>1, <2>9
    <3> QED
      BY <2>4, <2>5, <2>7, <3>1
  <2>10. HasBlock(g, b, i, e)
    <3>1. /\ i + 0 = i /\ e + 0 = e /\ 0 \in Nat /\ e + 0 <= Len(g) + 1
      BY <1>1, <2>1
    <3>2. \A l \in i .. e - 1 : g[l + 0] = f[l]
      <4>1. \A l \in i .. e - 1 : l + 0 = l
        BY <1>1
      <4> QED
        BY <2>5, <2>6, <4>1
    <3>3. FirstKey(g, "unix-command:", i + 0)
      BY <2>8, <3>1
    <3>4. e + 0 <= Len(g) => g[e + 0] # Blank /\ g[e + 0].ind <= 0
      BY <2>9, <3>1
    <3>5. HasBlock(g, b, i + 0, e + 0)
      BY <3>1, <3>2, <3>3, <3>4, BlockMoves
    <3> QED
      BY <3>1, <3>5
  <2> QED
    BY <2>10
<1> QED
  BY <1>6, <1>7, <1>8 DEF PluginsStep, new

LEMMA TerminatedKeepsBlock ==
  ASSUME NEW f \in Seq(Lines), NEW b, PlainBlock(b),
         NEW i \in Nat, NEW e \in Nat, HasBlock(f, b, i, e)
  PROVE  \E e2 \in Nat : HasBlock(Terminated(f), b, i, e2)
<1>1. CASE Terminated(f) = f
  BY <1>1
<1>2. CASE Terminated(f) # f
  <2>1. Terminated(f) = Append(f, Blank)
    BY <1>2 DEF Terminated
  <2>2. i \in 1 .. Len(f) /\ Len(f) \in Nat
    BY HasBlockIs
  <2>3. f[Len(f)] # Blank
    <3> SUFFICES ASSUME f[Len(f)] = Blank PROVE FALSE
      OBVIOUS
    <3>1. ~(Len(f) >= 2)
      BY <1>2 DEF Terminated, LastOf
    <3>2. i = Len(f)
      BY <2>2, <3>1
    <3> QED
      BY <3>2, HasBlockEnds
  <2>4. /\ Append(f, Blank) \in Seq(Lines)
        /\ Len(Append(f, Blank)) = Len(f) + 1
        /\ \A l \in 1 .. Len(f) : Append(f, Blank)[l] = f[l]
        /\ Append(f, Blank)[Len(f) + 1] = Blank
    BY BlankIs
  <2> QED
    BY <2>1, <2>3, <2>4, BlockExtends
<1> QED
  BY <1>1, <1>2

\* No request indents a key.
LEMMA StepKeepsFlush ==
  ASSUME NEW f \in Seq(Lines), NEW g \in Seq(Lines), NEW ndpi, IsPlugin(ndpi),
         PluginsStep(f, g, NewEntry(ndpi, 0)), UnixFlush(f)
  PROVE  UnixFlush(g)
<1> DEFINE new == NewEntry(ndpi, 0)
<1>1. ~Names(new, "unix-command:") /\ ~Names(TopKey, "unix-command:")
      /\ ~Names(Blank, "unix-command:") /\ Len(f) \in Nat
  <2>1. ~Names(new, "unix-command:")
    BY NewEntryIs
  <2> HIDE DEF new
  <2> QED
    BY <2>1, TopKeyIs, BlankIs, NamesIs
<1>2. \A l \in 1 .. Len(f) :
        /\ f[l] \in Lines
        /\ UncommentLine(f[l]).text = f[l].text
        /\ UncommentLine(f[l]).ind = f[l].ind
  <2>1. \A l \in 1 .. Len(f) : f[l] \in Lines
    OBVIOUS
  <2> QED
    BY <2>1, UncommentIs
<1> HIDE DEF new
<1>3. CASE AddsSection(f, g, new)
  <2> DEFINE s == Separated(f)
  <2>1. /\ s \in Seq(Lines) /\ Len(s) \in Nat
        /\ \A l \in 1 .. Len(f) : s[l] = f[l]
        /\ \A l \in 1 .. Len(s) : l \notin 1 .. Len(f) => s[l] = Blank
    BY SeparatedIs
  <2>2. /\ Len(g) = Len(s) + 2
        /\ g[Len(s) + 1] = TopKey /\ g[Len(s) + 2] = new
        /\ \A l \in 1 .. Len(s) : g[l] = s[l]
    BY <1>3 DEF AddsSection
  <2> HIDE DEF s
  <2>3. \A l \in 1 .. Len(g) :
          l \in 1 .. Len(s) \/ l = Len(s) + 1 \/ l = Len(s) + 2
    BY <2>1, <2>2
  <2>4. \A l \in 1 .. Len(s) : Names(s[l], "unix-command:") => s[l].ind = 0
    BY <1>1, <2>1 DEF UnixFlush, KeyLines
  <2> QED
    BY <1>1, <2>2, <2>3, <2>4 DEF UnixFlush, KeyLines
<1>4. ASSUME NEW k \in Nat, NEW q \in Nat, AddsEntry(f, g, new, k, q)
      PROVE  UnixFlush(g)
  <2>1. /\ Len(g) = Len(f) + 1 /\ k \in 1 .. Len(f)
        /\ q \in k + 1 .. Len(f) + 1 /\ Names(f[k], "plugins:")
    BY <1>4 DEF AddsEntry, FirstKey, EndsBlock
  <2>2. \A l \in 1 .. Len(f) + 1 :
          g[l] = IF l = k THEN UncommentLine(f[l])
                 ELSE IF l < q THEN f[l]
                 ELSE IF l = q THEN new
                 ELSE f[l - 1]
    BY <1>4 DEF AddsEntry
  <2> SUFFICES ASSUME NEW l \in 1 .. Len(g), Names(g[l], "unix-command:")
               PROVE  g[l].ind = 0
    BY DEF UnixFlush, KeyLines
  <2>3. l \in 1 .. Len(f) + 1
    BY <1>1, <2>1
  <2>4. CASE l = k
    <3>1. g[l] = UncommentLine(f[k])
      BY <2>2, <2>3, <2>4
    <3>2. Names(g[l], "plugins:")
      BY <1>2, <2>1, <3>1, KeyUncommented
    <3> QED
      BY <3>2, NamesIs
  <2>5. CASE l # k /\ l < q
    <3>1. g[l] = f[l]
      BY <2>2, <2>3, <2>5
    <3>2. l \in 1 .. Len(f)
      BY <1>1, <2>1, <2>3, <2>5
    <3> QED
      BY <3>1, <3>2 DEF UnixFlush, KeyLines
  <2>6. CASE l = q
    <3>1. g[l] = new
      BY <2>1, <2>2, <2>3, <2>6
    <3> QED
      BY <1>1, <3>1
  <2>7. CASE l > q
    <3>1. l # k /\ ~(l < q) /\ l # q /\ l - 1 \in 1 .. Len(f)
      BY <1>1, <2>1, <2>3, <2>7
    <3>2. g[l] = f[l - 1]
      BY <2>2, <2>3, <3>1
    <3> QED
      BY <3>1, <3>2 DEF UnixFlush, KeyLines
  <2> QED
    BY <2>1, <2>3, <2>4, <2>5, <2>6, <2>7
<1>5. ASSUME NEW k \in Nat, NEW q \in Nat, NEW j \in Nat,
             OpensEntry(f, g, k, q, j)
      PROVE  UnixFlush(g)
  <2>1. Len(g) = Len(f)
        /\ \A l \in 1 .. Len(f) :
             g[l] = IF l = k \/ l = j THEN UncommentLine(f[l]) ELSE f[l]
    BY <1>5 DEF OpensEntry
  <2>2. Names(f[k], "plugins:") /\ Mentions(f[j])
    BY <1>5 DEF OpensEntry, FirstKey
  <2> SUFFICES ASSUME NEW l \in 1 .. Len(f), Names(g[l], "unix-command:")
               PROVE  g[l].ind = 0
    BY <2>1 DEF UnixFlush, KeyLines
  <2>3. CASE l = k
    <3>1. Names(g[l], "plugins:")
      BY <1>2, <2>1, <2>2, <2>3, KeyUncommented
    <3> QED
      BY <3>1, NamesIs
  <2>4. CASE l = j
    <3>1. Mentions(g[l])
      BY <1>2, <2>1, <2>2, <2>4 DEF Mentions
    <3> QED
      BY <3>1, NamesIs
  <2>5. CASE l # k /\ l # j
    BY <2>1, <2>5 DEF UnixFlush, KeyLines
  <2> QED
    BY <2>3, <2>4, <2>5
<1> QED
  BY <1>3, <1>4, <1>5 DEF PluginsStep, new

LEMMA TerminatedKeepsFlush ==
  ASSUME NEW f \in Seq(Lines), UnixFlush(f)
  PROVE  UnixFlush(Terminated(f))
<1> DEFINE t == Terminated(f)
<1>1. /\ \A l \in 1 .. Len(f) : t[l] = f[l]
      /\ \A l \in 1 .. Len(t) : t[l] # Blank => l \in 1 .. Len(f)
  BY TerminatedIs
<1> HIDE DEF t
<1>2. UnixFlush(t)
  BY <1>1, BlankIs DEF UnixFlush, KeyLines
<1> QED
  BY <1>2 DEF t

LEMMA ToggleKeepsFlush ==
  ASSUME NEW f \in Files, Configured(f), UnixFlush(f), NEW enable \in BOOLEAN
  PROVE  UnixFlush(SetEnabled(f, enable))
<1> DEFINE g == SetEnabled(f, enable)
           k == PluginLine(f)
           m == After(f[k].marks, enable)
<1>1. Agree(f, g, k, m)
  BY SetEnabledIs
<1>2. k \in 1 .. Len(f) /\ Matches(f[k]) /\ f[k] \in Lines
  BY PluginLineIs DEF Files
<1>3. m \in Nat
  BY <1>2, AfterIs
<1>4. Mentions(Marked(f[k], m))
  BY <1>2, <1>3, MarkedIs, MentionIsText
<1> HIDE DEF g, k, m
<1> SUFFICES ASSUME NEW l \in 1 .. Len(g), Names(g[l], "unix-command:")
             PROVE  g[l].ind = 0
  BY DEF UnixFlush, KeyLines, g, Agree, Files
<1>5. l \in 1 .. Len(f) /\ l \in 1 .. Len(g)
  BY <1>1, BlankIs DEF Agree
<1>6. l # k
  BY <1>1, <1>4, <1>5, NamesIs DEF Agree
<1>7. g[l] = f[l]
  BY <1>1, <1>5, <1>6 DEF Agree
<1> QED
  BY <1>5, <1>7 DEF UnixFlush, KeyLines, Files

\* The template's block of the control socket, if it has one, begins flush left.
TemplateFlush ==
  KeyLines(Template, "unix-command:") # {} => UnixFlush(Template)


LEMMA UnixBlockPlain ==
  ASSUME TemplateFlush, KeyLines(Template, "unix-command:") # {}
  PROVE  PlainBlock(UnixBlock)
<1> DEFINE b == UnixBlock
           n == Len(b)
<1>1. PICK k \in Nat, e \in Nat :
        /\ FirstKey(Template, "unix-command:", k)
        /\ EndsBlock(Template, k, Template[k].ind, e)
        /\ b \in Seq(Lines) /\ n = e - k
        /\ \A l \in 1 .. e - k : b[l] = Template[k + l - 1]
  BY TemplateLines, BlockAt DEF UnixBlock
<1> HIDE DEF n, b
<1>2. /\ k \in 1 .. Len(Template) /\ Len(Template) \in Nat
      /\ Names(Template[k], "unix-command:") /\ Template[k].ind = 0
      /\ e \in k + 1 .. Len(Template) + 1
  BY <1>1, TemplateLines DEF TemplateFlush, UnixFlush, KeyLines, FirstKey, EndsBlock
<1>3. n \in Nat /\ n >= 1 /\ n = e - k
  BY <1>1, <1>2
<1>4. \A l \in 1 .. n : b[l] = Template[k + l - 1]
  BY <1>1
<1>5. b[1] = Template[k]
  <2>1. 1 \in 1 .. n /\ k + 1 - 1 = k
    BY <1>2, <1>3
  <2>2. b[1] = Template[k + 1 - 1]
    BY <1>4, <2>1
  <2> QED
    BY <2>1, <2>2
<1>6. ASSUME NEW l \in 2 .. n
      PROVE  /\ b[l] = Blank \/ b[l].ind > 0
             /\ ~Names(b[l], "unix-command:") /\ ~Names(b[l], "plugins:")
  <2> DEFINE x == k + l - 1
  <2>1. l \in 1 .. n /\ x \in k + 1 .. e - 1 /\ x \in 1 .. Len(Template)
    <3>1. l \in Nat /\ 2 <= l /\ l <= n /\ k \in Nat /\ 1 <= k
      BY <1>2, <1>3
    <3> DEFINE L == Len(Template)
    <3>2. e \in Nat /\ L \in Nat /\ e <= L + 1 /\ n = e - k
      BY <1>2, <1>3
    <3> HIDE DEF L
    <3>3. l \in 1 .. n /\ x \in k + 1 .. e - 1 /\ x \in 1 .. L
      BY <1>3, <3>1, <3>2
    <3> QED
      BY <3>3 DEF L
  <2>2. b[l] = Template[x]
    BY <1>4, <2>1
  <2> HIDE DEF x
  <2>3. b[l] = Blank \/ b[l].ind > 0
    BY <1>1, <1>2, <2>1, <2>2 DEF EndsBlock
  <2>4. Names(b[l], "unix-command:") \/ Names(b[l], "plugins:") => b[l].ind = 0
    BY <2>1, <2>2, TemplateLines DEF TemplateFlush, UnixFlush, KeyLines
  <2> QED
    BY <2>3, <2>4, BlankIs
<1>7. ASSUME NEW l \in 1 .. n PROVE b[l].marks = 0 /\ ~Names(b[l], "plugins:")
  <2>1. k + l - 1 \in 1 .. Len(Template)
    BY <1>2, <1>3
  <2>2. b[l].marks = 0
    BY <1>4, <2>1, TemplateLines
  <2>3. l = 1 \/ l \in 2 .. n
    BY <1>3
  <2> QED
    BY <1>2, <1>5, <1>6, <2>2, <2>3, NamesIs
<1>8. b \in Seq(Lines)
  BY <1>1
<1> QED
  BY <1>2, <1>3, <1>5, <1>6, <1>7, <1>8 DEF PlainBlock, n, b

\* The first part of the patch.
LEMMA UnixPatchedSteps ==
  ASSUME TemplateFlush, NEW f \in Files, UnixFlush(f)
  PROVE  IF KeyLines(Template, "unix-command:") = {}
         THEN UnixPatched(f).lines = f
         ELSE UnixStep(f, UnixPatched(f).lines, UnixBlock)
<1> DEFINE b == UnixBlock
<1>1. CASE KeyLines(Template, "unix-command:") = {}
  BY <1>1 DEF UnixPatched, Patched
<1>2. CASE KeyLines(Template, "unix-command:") # {}
  <2>1. PlainBlock(b) /\ f \in Seq(Lines)
    BY <1>2, UnixBlockPlain DEF Files
  <2>2. UnixPatched(f) = EnsureBlockExact(f, b, "unix-command:")
    BY <1>2 DEF UnixPatched
  <2> HIDE DEF b
  <2>3. UnixStep(f, UnixPatched(f).lines, b)
    BY <2>1, <2>2, UnixStepIs
  <2> QED
    BY <1>2, <2>3 DEF b
<1> QED
  BY <1>1, <1>2

LEMMA PatchKeepsFlush ==
  ASSUME TemplateFlush, NEW f \in Files, UnixFlush(f)
  PROVE  /\ UnixFlush(UnixPatched(f).lines)
         /\ UnixFlush(PatchFromTemplate(Template, f).lines)
<1> DEFINE new == NewEntry(TemplateEntry, 0)
           b   == UnixBlock
           u   == UnixPatched(f).lines
           p   == PluginsPatched(f).lines
<1>1. u \in Seq(Lines)
  BY UnixPatchedIs
<1>2. p \in Seq(Lines) /\ PluginsStep(u, p, new)
  BY <1>1, TemplateEntryIs, PluginsStepIs DEF PluginsPatched
<1>3. UnixFlush(u)
  <2>1. CASE KeyLines(Template, "unix-command:") = {}
    BY <2>1, UnixPatchedSteps
  <2>2. CASE KeyLines(Template, "unix-command:") # {}
    <3>1. PlainBlock(b) /\ UnixStep(f, u, b) /\ f \in Seq(Lines)
      BY <2>2, UnixBlockPlain, UnixPatchedSteps DEF Files
    <3> HIDE DEF b, u
    <3> QED
      BY <1>1, <3>1, UnixStepFlush
  <2> QED
    BY <2>1, <2>2
<1>4. PatchFromTemplate(Template, f).lines = Terminated(p)
  BY PatchIsBoth DEF Patched
<1> HIDE DEF u, p
<1>5. UnixFlush(Terminated(p))
  BY <1>1, <1>2, <1>3, TemplateEntryIs, StepKeepsFlush, TerminatedKeepsFlush
<1> QED
  BY <1>3, <1>4, <1>5 DEF u

LEMMA PatchHasBlock ==
  ASSUME TemplateFlush, KeyLines(Template, "unix-command:") # {},
         NEW f \in Files, UnixFlush(f)
  PROVE  /\ PlainBlock(UnixBlock)
         /\ \E i, e \in Nat :
              HasBlock(PatchFromTemplate(Template, f).lines, UnixBlock, i, e)
<1> DEFINE b   == UnixBlock
           new == NewEntry(TemplateEntry, 0)
           u   == UnixPatched(f).lines
           p   == PluginsPatched(f).lines
           g   == PatchFromTemplate(Template, f).lines
<1>1. u \in Seq(Lines)
  BY UnixPatchedIs
<1>2. p \in Seq(Lines) /\ PluginsStep(u, p, new)
  BY <1>1, TemplateEntryIs, PluginsStepIs DEF PluginsPatched
<1>3. g = Terminated(p)
  BY PatchIsBoth DEF Patched
<1>4. PlainBlock(b) /\ f \in Seq(Lines) /\ UnixStep(f, u, b)
  BY UnixBlockPlain, UnixPatchedSteps DEF Files
<1> HIDE DEF u, p, g, b
<1>5. PICK i \in Nat, e \in Nat : HasBlock(u, b, i, e)
  BY <1>1, <1>4, BlockMade
<1>6. PICK i2 \in Nat, e2 \in Nat : HasBlock(p, b, i2, e2)
  BY <1>1, <1>2, <1>4, <1>5, TemplateEntryIs, StepKeepsBlock
<1>7. \E e3 \in Nat : HasBlock(g, b, i2, e3)
  BY <1>2, <1>3, <1>4, <1>6, TerminatedKeepsBlock
<1> QED
  BY <1>4, <1>7 DEF b, g

-----------------------------------------------------------------------------
(* A second patch finds nothing to do, but for a blank line *)

Without(f, x) == Replace(f, x, x + 1, <<>>)

LEMMA WithoutAt ==
  ASSUME NEW f \in Seq(Lines), NEW x \in 1 .. Len(f)
  PROVE  /\ Without(f, x) \in Seq(Lines)
         /\ Len(Without(f, x)) = Len(f) - 1
         /\ \A l \in 1 .. Len(f) - 1 :
              Without(f, x)[l] = IF l < x THEN f[l] ELSE f[l + 1]
<1> DEFINE g == Without(f, x)
           block == <<>>
           y == x + 1
           n == Len(block)
<1>1. /\ x \in 1 .. Len(f) + 1 /\ y \in x .. Len(f) + 1
      /\ Len(f) \in Nat /\ x \in Nat /\ y = x + 1
  OBVIOUS
<1>2. block \in Seq(Lines) /\ n = 0
  OBVIOUS
<1>3. g = Replace(f, x, y, block)
  BY DEF Without
<1> HIDE DEF block, y, g
<1>4. /\ g \in Seq(Lines) /\ Len(g) = Len(f) - (y - x) + n
      /\ \A l \in 1 .. Len(g) :
           g[l] = IF l < x THEN f[l]
                  ELSE IF l < x + n THEN block[l - x + 1]
                  ELSE f[l - n + (y - x)]
  <2> DEFINE r == Replace(f, x, y, block)
  <2>1. /\ r \in Seq(Lines) /\ Len(r) = Len(f) - (y - x) + n
        /\ \A l \in 1 .. Len(r) :
             r[l] = IF l < x THEN f[l]
                    ELSE IF l < x + n THEN block[l - x + 1]
                    ELSE f[l - n + (y - x)]
    BY <1>1, <1>2, ReplaceAt
  <2> QED
    BY <1>3, <2>1
<1> HIDE DEF n
<1>5. Len(g) = Len(f) - 1
  BY <1>1, <1>2, <1>4
<1>6. \A l \in 1 .. Len(f) - 1 :
        l \in 1 .. Len(g) /\ (l < x + n <=> l < x)
        /\ l - n + (y - x) = l + 1
  BY <1>1, <1>2, <1>5
<1>7. ASSUME NEW l \in 1 .. Len(f) - 1
      PROVE  g[l] = IF l < x THEN f[l] ELSE f[l + 1]
  BY <1>4, <1>6
<1> QED
  BY <1>4, <1>5, <1>7 DEF g

LEMMA OpenedWithout ==
  ASSUME NEW f \in Seq(Lines), NEW x \in 1 .. Len(f), f[x] = Blank, Opened(f)
  PROVE  Opened(Without(f, x))
<1> DEFINE g == Without(f, x)
<1>1. PICK k \in Nat, j \in Nat : OpenedAt(f, k, j)
  BY DEF Opened
<1>2. /\ FirstKey(f, "plugins:", k) /\ k \in 1 .. Len(f)
      /\ Names(f[k], "plugins:") /\ f[k].marks = 0
      /\ \A l \in 1 .. k - 1 : ~Names(f[l], "plugins:")
      /\ j \in k + 1 .. Len(f) /\ Mentions(f[j]) /\ f[j].marks = 0
      /\ \A l \in k + 1 .. j : f[l] = Blank \/ f[l].ind > 0
      /\ \A l \in k + 1 .. j - 1 : ~Mentions(f[l])
  BY <1>1 DEF OpenedAt, EntryAt, FirstKey
<1>3. k # x /\ j # x
  BY <1>2, NamesIs, MentionIsText
<1>4. Len(g) = Len(f) - 1 /\ Len(f) \in Nat /\ x \in Nat
  BY WithoutAt
<1> DEFINE To(l) == IF l < x THEN l ELSE l - 1
           At(l) == IF l < x THEN l ELSE l + 1
<1>5. \A l \in 1 .. Len(f) - 1 : g[l] = f[At(l)]
  BY WithoutAt
<1> HIDE DEF g
<1>6. /\ To(k) \in 1 .. Len(f) - 1 /\ To(j) \in To(k) + 1 .. Len(f) - 1
      /\ To(j) \in 1 .. Len(f) - 1
      /\ At(To(k)) = k /\ At(To(j)) = j
  BY <1>2, <1>3, <1>4
<1>7. /\ \A l \in 1 .. To(k) - 1 :
           l \in 1 .. Len(f) - 1 /\ At(l) \in 1 .. k - 1
      /\ \A l \in To(k) + 1 .. To(j) :
           l \in 1 .. Len(f) - 1 /\ At(l) \in k + 1 .. j
      /\ \A l \in To(k) + 1 .. To(j) - 1 :
           l \in 1 .. Len(f) - 1 /\ At(l) \in k + 1 .. j - 1
  BY <1>2, <1>3, <1>4
<1>8. g[To(k)] = f[k] /\ g[To(j)] = f[j]
  BY <1>5, <1>6
<1>9. To(k) \in Nat /\ To(j) \in Nat
  BY <1>6
<1> HIDE DEF To, At
<1>10. FirstKey(g, "plugins:", To(k))
  BY <1>2, <1>4, <1>5, <1>6, <1>7, <1>8 DEF FirstKey
<1>11. OpenedAt(g, To(k), To(j))
  BY <1>2, <1>4, <1>5, <1>6, <1>7, <1>8, <1>10 DEF OpenedAt, EntryAt
<1> QED
  BY <1>9, <1>11 DEF Opened, g

\* The plugin's part of the patch leaves such a file as it is.
LEMMA OpenedIdle ==
  ASSUME NEW f \in Seq(Lines), Opened(f), NEW ndpi, IsPlugin(ndpi)
  PROVE  EnsurePluginsNDPI(f, 0, ndpi).lines = f
<1> DEFINE g == EnsurePluginsNDPI(f, 0, ndpi).lines
           new == NewEntry(ndpi, 0)
<1>1. PICK k \in Nat, j \in Nat : OpenedAt(f, k, j)
  BY DEF Opened
<1>2. g \in Seq(Lines) /\ PluginsStep(f, g, new)
  BY PluginsStepIs
<1> HIDE DEF g, new
<1>3. PICK e \in Nat : OpensEntry(f, g, k, e, j)
  BY <1>1, <1>2, EntryOpens DEF OpenedAt
<1>4. /\ Len(g) = Len(f)
      /\ \A i \in 1 .. Len(f) :
           g[i] = IF i = k \/ i = j THEN UncommentLine(f[i]) ELSE f[i]
  BY <1>3 DEF OpensEntry
<1>5. f[k].marks = 0 /\ f[j].marks = 0
  BY <1>1 DEF OpenedAt
<1>6. ASSUME NEW i \in 1 .. Len(f) PROVE g[i] = f[i]
  <2>1. f[i] \in Lines
    OBVIOUS
  <2>2. f[i].marks = 0 => UncommentLine(f[i]) = f[i]
    BY <2>1, UncommentIs
  <2> QED
    BY <1>4, <1>5, <2>2
<1>7. g = f
  BY <1>2, <1>4, <1>6, SeqEqual
<1> QED
  BY <1>7 DEF g

LEMMA OpenedLong ==
  ASSUME NEW f \in Seq(Lines), Opened(f)
  PROVE  Len(f) \in Nat /\ Len(f) >= 2
<1>1. PICK k \in Nat, j \in Nat : OpenedAt(f, k, j)
  BY DEF Opened
<1>2. k \in 1 .. Len(f) /\ j \in k + 1 .. Len(f)
  BY <1>1 DEF OpenedAt, EntryAt, FirstKey
<1> QED
  BY <1>2

\* What the patch makes of a block of its own.
LEMMA BlockSettles ==
  ASSUME NEW f \in Seq(Lines), KeyLines(Template, "unix-command:") # {},
         PlainBlock(UnixBlock), NEW i \in Nat, NEW e \in Nat,
         HasBlock(f, UnixBlock, i, e)
  PROVE  /\ LeftOpen(f) <=> e # i + Len(UnixBlock)
         /\ UnixPatched(f).changed = (e # i + Len(UnixBlock))
         /\ e = i + Len(UnixBlock) => UnixPatched(f).lines = f
         /\ e # i + Len(UnixBlock)
              => /\ e - 1 \in 1 .. Len(f) /\ f[e - 1] = Blank
                 /\ e - 2 \in 1 .. Len(f) /\ f[e - 2] # Blank
                 /\ UnixPatched(f).lines = Without(f, e - 1)
<1> DEFINE b == UnixBlock
           n == Len(b)
           s == FirstBlock(f, "unix-command:")
<1>0. PlainBlock(b) /\ HasBlock(f, b, i, e)
  OBVIOUS
<1> HIDE DEF b
<1>1. /\ b \in Seq(Lines) /\ n \in Nat /\ n >= 1 /\ Len(f) \in Nat
      /\ i \in 1 .. Len(f) /\ e \in i + 1 .. Len(f) + 1
      /\ e \in {i + n, i + n + 1}
      /\ \A l \in 1 .. n : f[i + l - 1] = b[l]
      /\ e = i + n + 1 => f[e - 1] = Blank /\ b[n] # Blank
  <2>1. /\ n \in Nat /\ n >= 1 /\ Len(f) \in Nat
        /\ i \in 1 .. Len(f)
        /\ e \in {i + n, i + n + 1} /\ e <= Len(f) + 1
        /\ \A l \in 1 .. n : f[i + l - 1] = b[l]
        /\ e = i + n + 1 => f[e - 1] = Blank /\ b[n] # Blank
        /\ e \in i + 1 .. Len(f) + 1
    BY <1>0, HasBlockIs
  <2>2. b \in Seq(Lines)
    BY <1>0 DEF PlainBlock
  <2> QED
    BY <2>1, <2>2
<1>2. e = i + n + 1 => f[e - 1] = Blank /\ b[n] # Blank
  BY <1>1
<1>3. UnixPatched(f) = EnsureBlockExact(f, b, "unix-command:")
  BY DEF UnixPatched, b
<1>4. /\ s = SubSeq(f, i, e - 1)
      /\ e = i + n => UnixPatched(f) = Patched(f, FALSE)
      /\ e # i + n => UnixPatched(f) = Patched(Replace(f, i, e, b), TRUE)
  BY <1>0, <1>3, BlockFound
<1> HIDE DEF s
<1>5. Len(s) = e - i /\ \A l \in 1 .. e - i : s[l] = f[i + l - 1]
  BY <1>1, <1>4, PieceAt
<1>6. LastOf(s) = f[e - 1]
  <2>1. e - i \in 1 .. e - i /\ i + (e - i) - 1 = e - 1
    BY <1>1
  <2> QED
    BY <1>5, <2>1 DEF LastOf
<1>7. LeftOpen(f) <=> b[n] # Blank /\ f[e - 1] = Blank
  BY <1>6 DEF LeftOpen, LastOf, UnixBlock, b, s
<1>8. n \in 1 .. n /\ f[i + n - 1] = b[n]
  BY <1>1
<1> HIDE DEF n
<1>9. CASE e = i + n
  <2>1. ~(e # i + n)
    BY <1>9
  <2>2. ~LeftOpen(f)
    BY <1>7, <1>8, <1>9
  <2>3. UnixPatched(f).lines = f /\ UnixPatched(f).changed = FALSE
    BY <1>4, <1>9 DEF Patched
  <2>4. UnixPatched(f).changed = (e # i + n)
    BY <2>1, <2>3, Zenon
  <2> QED
    BY <2>1, <2>2, <2>3, <2>4 DEF b, n
<1>10. CASE e # i + n
  <2>0. e = i + n + 1
    BY <1>1, <1>10
  <2>1. LeftOpen(f)
    BY <1>2, <1>7, <2>0
  <2>2. UnixPatched(f).lines = Replace(f, i, e, b)
        /\ UnixPatched(f).changed = TRUE
    BY <1>4, <1>10 DEF Patched
  <2>3. UnixPatched(f).changed = (e # i + n)
    BY <1>10, <2>2, Zenon
  <2>4. /\ e - 1 \in 1 .. Len(f) /\ e - 2 \in 1 .. Len(f)
        /\ e - 1 = i + n /\ e - 2 = i + n - 1
    BY <1>1, <2>0
  <2>5. f[e - 1] = Blank /\ f[e - 2] # Blank
    BY <1>2, <1>8, <2>0, <2>4
  <2>6. Replace(f, i, e, b) = Without(f, e - 1)
    <3> DEFINE r == Replace(f, i, e, b)
               w == Without(f, e - 1)
    <3>1. /\ r \in Seq(Lines) /\ Len(r) = Len(f) - (e - i) + n
          /\ \A l \in 1 .. Len(r) :
               r[l] = IF l < i THEN f[l]
                      ELSE IF l < i + n THEN b[l - i + 1]
                      ELSE f[l - n + (e - i)]
      <4>1. i \in 1 .. Len(f) + 1 /\ e \in i .. Len(f) + 1
        BY <1>1
      <4> QED
        BY <1>1, <4>1, ReplaceAt DEF n
    <3>2. /\ w \in Seq(Lines) /\ Len(w) = Len(f) - 1
          /\ \A l \in 1 .. Len(f) - 1 :
               w[l] = IF l < e - 1 THEN f[l] ELSE f[l + 1]
      BY <2>4, WithoutAt
    <3> HIDE DEF r, w
    <3>3. Len(r) = Len(f) - 1
      BY <1>1, <2>0, <3>1
    <3>4. ASSUME NEW l \in 1 .. Len(f) - 1 PROVE r[l] = w[l]
      <4>0. l \in 1 .. Len(r) /\ l \in Nat
        BY <3>3
      <4>1. CASE l < i
        <5>1. l < e - 1
          BY <1>1, <2>0, <4>0, <4>1
        <5> QED
          BY <3>1, <3>2, <4>0, <4>1, <5>1
      <4>2. CASE ~(l < i) /\ l < i + n
        <5> DEFINE x == l - i + 1
        <5>1. x \in 1 .. n /\ i + x - 1 = l /\ l < e - 1
          BY <1>1, <2>0, <4>0, <4>2
        <5>2. r[l] = b[x]
          BY <3>1, <4>0, <4>2
        <5> HIDE DEF x
        <5>3. f[l] = b[x]
          BY <1>1, <5>1
        <5> QED
          BY <3>2, <5>1, <5>2, <5>3
      <4>3. CASE ~(l < i + n)
        <5>1. ~(l < i) /\ ~(l < e - 1) /\ l - n + (e - i) = l + 1
          BY <1>1, <2>0, <4>0, <4>3
        <5>2. r[l] = f[l - n + (e - i)]
          BY <3>1, <4>0, <4>3, <5>1
        <5> QED
          BY <3>2, <5>1, <5>2
      <4> QED
        BY <4>1, <4>2, <4>3
    <3>5. r = w
      BY <3>1, <3>2, <3>3, <3>4, SeqEqual
    <3> QED
      BY <3>5 DEF r, w
  <2> QED
    BY <1>10, <2>1, <2>2, <2>3, <2>4, <2>5, <2>6 DEF b, n
<1> QED
  BY <1>9, <1>10

\* Patching a file that the patch leaves, or one like it.
LEMMA OpenedSettles ==
  ASSUME NEW f \in Files, Opened(f), LastOf(f) = Blank,
         KeyLines(Template, "unix-command:") # {}
           => PlainBlock(UnixBlock)
              /\ \E i, e \in Nat : HasBlock(f, UnixBlock, i, e)
  PROVE  LET again == PatchFromTemplate(Template, f)
         IN  /\ again.changed <=> LeftOpen(f)
             /\ \/ again.lines = f
                \/ \E x \in 1 .. Len(f) :
                     /\ f[x] = Blank /\ x # Len(f)
                     /\ again.lines = Without(f, x)
<1> DEFINE u == UnixPatched(f)
           p == PluginsPatched(f)
           again == PatchFromTemplate(Template, f)
<1>1. f \in Seq(Lines) /\ Len(f) \in Nat /\ Len(f) >= 2
  BY OpenedLong DEF Files
<1>2. u.lines \in Seq(Lines)
  BY UnixPatchedIs
<1>3. ASSUME Opened(u.lines)
      PROVE  again.lines = Terminated(u.lines) /\ again.changed = u.changed
  <2>1. p.lines = u.lines
    BY <1>2, <1>3, TemplateEntryIs, OpenedIdle DEF PluginsPatched
  <2>2. p.changed = FALSE
    BY <1>2, <1>3, OpenedStays DEF PluginsPatched
  <2>3. again.lines = Terminated(p.lines)
        /\ again.changed = (u.changed \/ p.changed)
    BY PatchIsBoth DEF Patched
  <2>4. u.changed \in BOOLEAN
    BY DEF UnixPatched, EnsureBlockExact, Patched
  <2> QED
    BY <2>1, <2>2, <2>3, <2>4, Zenon
<1>4. Terminated(f) = f
  BY <1>1 DEF Terminated
<1> HIDE DEF u, again
<1>5. CASE KeyLines(Template, "unix-command:") = {}
  <2>1. u.lines = f /\ u.changed = FALSE
    BY <1>5 DEF u, UnixPatched, Patched
  <2>2. ~LeftOpen(f)
    BY <1>5 DEF LeftOpen
  <2>3. again.lines = f /\ again.changed = FALSE
    BY <1>3, <1>4, <2>1
  <2> QED
    BY <2>2, <2>3 DEF again
<1>6. CASE KeyLines(Template, "unix-command:") # {}
  <2>1. PICK i \in Nat, e \in Nat : HasBlock(f, UnixBlock, i, e)
    BY <1>6
  <2> DEFINE tight == e = i + Len(UnixBlock)
  <2>2. /\ LeftOpen(f) <=> ~tight
        /\ u.changed = (~tight)
        /\ tight => u.lines = f
        /\ ~tight => /\ e - 1 \in 1 .. Len(f) /\ f[e - 1] = Blank
                     /\ e - 2 \in 1 .. Len(f) /\ f[e - 2] # Blank
                     /\ u.lines = Without(f, e - 1)
    <3>1. PlainBlock(UnixBlock)
      BY <1>6
    <3>2. e # i + Len(UnixBlock) <=> ~tight
      OBVIOUS
    <3> QED
      BY <1>1, <1>6, <2>1, <3>1, BlockSettles DEF u
  <2> HIDE DEF tight
  <2>3. Opened(u.lines)
    <3>1. CASE tight
      BY <2>2, <3>1
    <3>2. CASE ~tight
      BY <1>1, <2>2, <3>2, OpenedWithout
    <3> QED
      BY <3>1, <3>2
  <2>4. again.changed = u.changed /\ again.lines = Terminated(u.lines)
    BY <1>3, <2>3
  <2>5. again.changed <=> LeftOpen(f)
    <3>1. u.changed <=> ~tight
      BY <2>2, Zenon
    <3> QED
      BY <2>2, <2>4, <3>1, Zenon
  <2>6. CASE tight
    BY <1>4, <2>2, <2>4, <2>5, <2>6 DEF again
  <2>7. CASE ~tight
    <3> DEFINE x == e - 1
               w == Without(f, x)
    <3>1. /\ x \in 1 .. Len(f) /\ f[x] = Blank /\ u.lines = w
          /\ x - 1 \in 1 .. Len(f) /\ f[x - 1] # Blank
      <4>1. e - 1 - 1 = e - 2
        BY <2>1
      <4> QED
        BY <2>2, <2>7, <4>1
    <3>2. /\ w \in Seq(Lines) /\ Len(w) = Len(f) - 1
          /\ \A l \in 1 .. Len(f) - 1 :
               w[l] = IF l < x THEN f[l] ELSE f[l + 1]
      BY <1>1, <3>1, WithoutAt
    <3>3. Len(w) >= 2
      BY <2>3, <3>1, <3>2, OpenedLong
    <3> HIDE DEF x, w
    <3>4. CASE x # Len(f)
      <4>1. /\ Len(f) - 1 \in 1 .. Len(f) - 1 /\ ~(Len(f) - 1 < x)
            /\ Len(f) - 1 + 1 = Len(f)
        BY <1>1, <3>1, <3>2, <3>3, <3>4
      <4>2. w[Len(f) - 1] = f[Len(f)]
        BY <3>2, <4>1
      <4>3. LastOf(w) = Blank
        BY <3>2, <4>2 DEF LastOf
      <4>4. Terminated(w) = w
        BY <3>3, <4>3 DEF Terminated
      <4>5. again.lines = Without(f, x)
        BY <2>4, <3>1, <4>4 DEF w
      <4> QED
        BY <2>5, <3>1, <3>4, <4>5 DEF again
    <3>5. CASE x = Len(f)
      <4>1. /\ Len(f) - 1 \in 1 .. Len(f) - 1 /\ Len(f) - 1 < x
            /\ \A l \in 1 .. Len(f) - 1 : l < x
        BY <1>1, <3>1, <3>5
      <4>2. \A l \in 1 .. Len(f) - 1 : w[l] = f[l]
        BY <3>2, <4>1
      <4>3. LastOf(w) # Blank
        <5>1. w[Len(f) - 1] = f[Len(f) - 1]
          BY <4>1, <4>2
        <5>2. f[Len(f) - 1] # Blank
          BY <3>1, <3>5
        <5> QED
          BY <3>2, <5>1, <5>2 DEF LastOf
      <4> DEFINE t == Append(w, Blank)
      <4>4. Terminated(w) = t
        BY <4>3 DEF Terminated
      <4>5. /\ t \in Seq(Lines) /\ Len(t) = Len(f)
            /\ \A l \in 1 .. Len(f) - 1 : t[l] = w[l]
            /\ t[Len(f)] = Blank
        <5>1. /\ t \in Seq(Lines) /\ Len(t) = Len(w) + 1
              /\ \A l \in 1 .. Len(w) : t[l] = w[l]
              /\ t[Len(w) + 1] = Blank
          BY <3>2, BlankIs
        <5>2. Len(w) + 1 = Len(f)
          BY <1>1, <3>2
        <5> QED
          BY <3>2, <5>1, <5>2
      <4> HIDE DEF t
      <4>6. ASSUME NEW l \in 1 .. Len(f) PROVE t[l] = f[l]
        <5>1. l \in 1 .. Len(f) - 1 \/ l = Len(f)
          BY <1>1
        <5> QED
          BY <3>1, <3>5, <4>2, <4>5, <5>1
      <4>7. t = f
        BY <1>1, <4>5, <4>6, SeqEqual
      <4>8. again.lines = f
        BY <2>4, <3>1, <4>4, <4>7
      <4> QED
        BY <2>5, <4>8 DEF again
    <3> QED
      BY <3>4, <3>5
  <2> QED
    BY <2>6, <2>7
<1> QED
  BY <1>5, <1>6

\* What the patch writes ends with a newline.
LEMMA PatchEnds ==
  ASSUME NEW f \in Files
  PROVE  LastOf(PatchFromTemplate(Template, f).lines) = Blank
<1> DEFINE g == PluginsPatched(f).lines
           t == Terminated(g)
<1>1. UnixPatched(f).lines \in Seq(Lines)
  BY UnixPatchedIs
<1>2. g \in Seq(Lines)
  BY <1>1, TemplateEntryIs, PluginsStepIs DEF PluginsPatched
<1>3. PatchFromTemplate(Template, f).lines = t
  BY PatchIsBoth DEF Patched
<1> HIDE DEF g
<1>4. LastOf(t) = Blank
  <2>1. CASE Len(g) >= 2 /\ LastOf(g) = Blank
    BY <2>1 DEF Terminated
  <2>2. CASE ~(Len(g) >= 2 /\ LastOf(g) = Blank)
    <3>1. t = Append(g, Blank)
      BY <2>2 DEF Terminated
    <3>2. Len(Append(g, Blank)) = Len(g) + 1
          /\ Append(g, Blank)[Len(g) + 1] = Blank
      BY <1>2, BlankIs
    <3> QED
      BY <3>1, <3>2 DEF LastOf
  <2> QED
    BY <2>1, <2>2
<1> QED
  BY <1>3, <1>4

LEMMA PatchSettles ==
  ASSUME TemplateFlush, NEW f \in Files, UnixFlush(f), OnceCommented(f)
  PROVE  LET p     == PatchFromTemplate(Template, f).lines
             again == PatchFromTemplate(Template, p)
         IN  (again.changed <=> LeftOpen(p)) /\ SameUpToABlank(p, again.lines)
<1> DEFINE p     == PatchFromTemplate(Template, f).lines
           again == PatchFromTemplate(Template, p)
<1>1. p \in Files /\ Opened(p)
  BY PatchOpens
<1>2. LastOf(p) = Blank
  BY PatchEnds
<1>3. KeyLines(Template, "unix-command:") # {}
        => PlainBlock(UnixBlock)
           /\ \E i, e \in Nat : HasBlock(p, UnixBlock, i, e)
  BY PatchHasBlock
<1> HIDE DEF p
<1>4. /\ again.changed <=> LeftOpen(p)
      /\ \/ again.lines = p
         \/ \E x \in 1 .. Len(p) :
              p[x] = Blank /\ x # Len(p) /\ again.lines = Without(p, x)
  BY <1>1, <1>2, <1>3, OpenedSettles
<1> HIDE DEF again
<1>5. SameUpToABlank(p, again.lines)
  <2>1. DOMAIN p = 1 .. Len(p)
    BY <1>1 DEF Files
  <2> QED
    BY <1>4, <2>1 DEF SameUpToABlank, Without
<1>6. (again.changed <=> LeftOpen(p)) /\ SameUpToABlank(p, again.lines)
  BY <1>4, <1>5
<1> QED
  BY <1>6 DEF again, p

\* No request indents the key of the control socket.
LEMMA FlushKept ==
  ASSUME \A f \in InitialFiles : UnixFlush(f), TemplateFlush
  PROVE  Spec => [](TypeOK /\ UnixFlush(file))
<1> DEFINE IInv == TypeOK /\ UnixFlush(file)
<1>1. Init => UnixFlush(file)
  BY DEF Init
<1>2. IInv /\ [Next]_vars => UnixFlush(file)'
  <2> SUFFICES ASSUME IInv, [Next]_vars PROVE UnixFlush(file')
    OBVIOUS
  <2>1. CASE Reconcile
    <3>1. UnixFlush(PatchFromTemplate(Template, file).lines)
      BY PatchKeepsFlush DEF TypeOK
    <3> QED
      BY <2>1, <3>1 DEF Reconcile
  <2>2. ASSUME NEW enable \in BOOLEAN, Toggle(enable) PROVE UnixFlush(file')
    <3>1. Configured(file) => UnixFlush(SetEnabled(file, enable))
      BY ToggleKeepsFlush DEF TypeOK
    <3> QED
      BY <2>2, <3>1 DEF Toggle
  <2>3. CASE UNCHANGED vars
    BY <2>3 DEF vars
  <2> QED
    BY <2>1, <2>2, <2>3 DEF Next
<1> QED
  BY <1>1, <1>2, TypeCorrect, PTL DEF Spec

\* SuricataConfig.tla: if no file has the key of the control socket indented,
\* and the template has not either, patching what was patched changes nothing
\* more, in every file that comes about in which no line that names the plugin
\* is commented twice, but for the blank line after a block that is left open.
THEOREM PatchConverging ==
  ASSUME \A f \in InitialFiles : UnixFlush(f), TemplateFlush
  PROVE  Spec => []PatchConverges
<1>1. TypeOK /\ UnixFlush(file) => PatchConverges
  <2> SUFFICES ASSUME TypeOK, UnixFlush(file), OnceCommented(file)
               PROVE  LET p     == PatchFromTemplate(Template, file).lines
                          again == PatchFromTemplate(Template, p)
                      IN  /\ again.changed <=> LeftOpen(p)
                          /\ SameUpToABlank(p, again.lines)
    BY DEF PatchConverges
  <2>1. file \in Files
    BY DEF TypeOK
  <2> QED
    BY <2>1, PatchSettles
<1>2. Spec => [](TypeOK /\ UnixFlush(file))
  BY FlushKept
<1> QED
  BY <1>1, <1>2, PTL

\* When the plugin's part reports a change, there is one.
LEMMA PluginsChange ==
  ASSUME NEW f \in Seq(Lines), NEW ndpi, IsPlugin(ndpi),
         EnsurePluginsNDPI(f, 0, ndpi).changed
  PROVE  Terminated(EnsurePluginsNDPI(f, 0, ndpi).lines) # f
<1> DEFINE g == EnsurePluginsNDPI(f, 0, ndpi).lines
           new == NewEntry(ndpi, 0)
           t == Terminated(g)
<1>1. g \in Seq(Lines) /\ PluginsStep(f, g, new)
  BY PluginsStepIs
<1> HIDE DEF g, new
<1>2. /\ Len(f) \in Nat /\ Len(g) \in Nat
      /\ Len(t) \in {Len(g), Len(g) + 1}
      /\ \A i \in 1 .. Len(g) : t[i] = g[i]
  BY <1>1, TerminatedIs
<1> HIDE DEF t
<1>3. ASSUME Len(g) > Len(f) PROVE t # f
  BY <1>2, <1>3
<1>4. CASE AddsSection(f, g, new)
  <2>1. Len(Separated(f)) \in {Len(f), Len(f) + 1}
    BY SeparatedIs
  <2>2. Len(g) = Len(Separated(f)) + 2
    BY <1>4 DEF AddsSection
  <2>3. Len(g) > Len(f)
    BY <1>2, <2>1, <2>2
  <2>4. t # f
    BY <1>3, <2>3
  <2> QED
    BY <2>4 DEF t, g
<1>5. ASSUME NEW k \in Nat, NEW e \in Nat, AddsEntry(f, g, new, k, e)
      PROVE  t # f
  <2>1. Len(g) = Len(f) + 1
    BY <1>5 DEF AddsEntry
  <2> QED
    BY <1>2, <1>3, <2>1
<1>6. ASSUME NEW k \in Nat, NEW e \in Nat, NEW j \in Nat,
             OpensEntry(f, g, k, e, j)
      PROVE  t # f
  <2>1. /\ FirstKey(f, "plugins:", k) /\ EndsBlock(f, k, 0, e)
        /\ j \in k + 1 .. e - 1 /\ Mentions(f[j])
        /\ \A l \in k + 1 .. j - 1 : ~Mentions(f[l])
        /\ Len(g) = Len(f)
        /\ \A i \in 1 .. Len(f) :
             g[i] = IF i = k \/ i = j THEN UncommentLine(f[i]) ELSE f[i]
    BY <1>6 DEF OpensEntry
  <2>2. k \in 1 .. Len(f) /\ e \in k + 1 .. Len(f) + 1
    BY <2>1 DEF FirstKey, EndsBlock
  <2>3. j \in 1 .. Len(f) /\ j \in k + 1 .. Len(f)
    BY <1>2, <2>1, <2>2
  <2>4. \A l \in k + 1 .. j : f[l] = Blank \/ f[l].ind > 0
    <3>1. \A l \in k + 1 .. j : l \in k + 1 .. e - 1
      BY <2>1, <2>2
    <3> QED
      BY <2>1, <3>1 DEF EndsBlock
  <2>5. EntryAt(f, k, j)
    BY <2>1, <2>3, <2>4 DEF EntryAt
  <2>6. Commented(f[j])
    BY <2>5, EntryChanges
  <2>7. UncommentLine(f[j]) # f[j]
    <3>1. f[j] \in Lines
      BY <2>3
    <3>0. f[j].marks \in Nat
      BY <3>1 DEF Lines
    <3>2. UncommentLine(f[j]) = [f[j] EXCEPT !.marks = @ - 1]
      BY <2>6 DEF UncommentLine
    <3>3. UncommentLine(f[j]).marks = f[j].marks - 1
      BY <3>1, <3>2 DEF Lines
    <3>4. f[j].marks - 1 # f[j].marks
      BY <3>0
    <3> QED
      BY <3>3, <3>4
  <2>8. t[j] = UncommentLine(f[j])
    BY <1>2, <2>1, <2>3
  <2> QED
    BY <2>7, <2>8
<1> QED
  BY <1>1, <1>4, <1>5, <1>6 DEF PluginsStep, t, g, new

\* SuricataConfig.tla: with the same files and templates, a Reconcile that says
\* it has changed the file, and so restarts Suricata, has changed it, unless the
\* block in it was left open.
THEOREM RestartsAreForAChange ==
  ASSUME \A f \in InitialFiles : UnixFlush(f), TemplateFlush
  PROVE  Spec => RestartForNothingOnlyIfOpen
<1>1. TypeOK /\ UnixFlush(file) /\ [Next]_vars
        => [last' = "reconcile" /\ reply' = "changed" /\ file' = file
              => LeftOpen(file)]_vars
  <2> SUFFICES ASSUME TypeOK, UnixFlush(file), Next,
                      last' = "reconcile", reply' = "changed", file' = file
               PROVE  LeftOpen(file)
    OBVIOUS
  <2>1. CASE Reconcile
    <3> DEFINE u == UnixPatched(file)
               p == PluginsPatched(file)
    <3>1. file \in Files /\ file \in Seq(Lines)
      BY DEF TypeOK, Files
    <3>2. PatchFromTemplate(Template, file).changed
          /\ PatchFromTemplate(Template, file).lines = file
      BY <2>1 DEF Reconcile
    <3>3. (u.changed \/ p.changed) /\ Terminated(p.lines) = file
      <4>1. PatchFromTemplate(Template, file)
              = [lines |-> Terminated(p.lines),
                 changed |-> u.changed \/ p.changed]
        BY <3>1, PatchIsBoth DEF Patched
      <4> HIDE DEF u, p
      <4>2. PatchFromTemplate(Template, file).lines = Terminated(p.lines)
            /\ PatchFromTemplate(Template, file).changed
                 = (u.changed \/ p.changed)
        BY <4>1
      <4> QED
        BY <3>2, <4>2, Zenon
    <3>4. ASSUME u.lines = file PROVE ~p.changed
      BY <3>1, <3>3, <3>4, TemplateEntryIs, PluginsChange DEF PluginsPatched
    <3>5. CASE KeyLines(Template, "unix-command:") = {}
      <4>1. u.lines = file /\ u.changed = FALSE
        BY <3>5 DEF UnixPatched, Patched
      <4> QED
        BY <3>3, <3>4, <4>1
    <3>6. CASE KeyLines(Template, "unix-command:") # {}
      <4>1. PlainBlock(UnixBlock)
            /\ \E i, e \in Nat : HasBlock(file, UnixBlock, i, e)
        BY <3>1, <3>2, <3>6, PatchHasBlock
      <4>2. PICK i \in Nat, e \in Nat : HasBlock(file, UnixBlock, i, e)
        BY <4>1
      <4> HIDE DEF u, p
      <4>3. /\ LeftOpen(file) <=> e # i + Len(UnixBlock)
            /\ u.changed = (e # i + Len(UnixBlock))
            /\ e = i + Len(UnixBlock) => u.lines = file
        BY <3>1, <3>6, <4>1, <4>2, BlockSettles DEF u
      <4>4. CASE e = i + Len(UnixBlock)
        <5>1. ~u.changed /\ ~p.changed
          BY <3>4, <4>3, <4>4
        <5> QED
          BY <3>3, <5>1
      <4>5. CASE e # i + Len(UnixBlock)
        BY <4>3, <4>5
      <4> QED
        BY <4>4, <4>5
    <3> QED
      BY <3>5, <3>6
  <2>2. ASSUME NEW enable \in BOOLEAN, Toggle(enable) PROVE FALSE
    BY <2>2 DEF Toggle
  <2> QED
    BY <2>1, <2>2 DEF Next
<1>2. Spec => [](TypeOK /\ UnixFlush(file))
  BY FlushKept
<1> QED
  BY <1>1, <1>2, PTL DEF Spec, RestartForNothingOnlyIfOpen
-----------------------------------------------------------------------------
(* The line the toggles find decides *)

\* The file as it is with the plugin switched on.
Lit(f) == [f EXCEPT ![PluginLine(f)] = Marked(f[PluginLine(f)], 0)]

LEMMA LitIs ==
  ASSUME NEW f \in Files, Configured(f)
  PROVE  /\ Lit(f) \in Files /\ Len(Lit(f)) = Len(f)
         /\ \A i \in 1 .. Len(f) :
              Lit(f)[i] = IF i = PluginLine(f) THEN Marked(f[i], 0)
                          ELSE f[i]
<1> DEFINE k == PluginLine(f)
           d == Marked(f[k], 0)
<1>1. k \in 1 .. Len(f) /\ f \in Seq(Lines) /\ Len(f) \in Nat
  BY PluginLineIs DEF Files
<1> HIDE DEF k
<1>2. f[k] \in Lines
  BY <1>1
<1>3. d \in Lines
  BY <1>2, MarkedIs
<1>4. Lit(f) = [f EXCEPT ![k] = d]
  BY DEF Lit, k
<1> HIDE DEF d
<1>5. /\ [f EXCEPT ![k] = d] \in Seq(Lines)
      /\ Len([f EXCEPT ![k] = d]) = Len(f)
      /\ \A i \in 1 .. Len(f) :
           [f EXCEPT ![k] = d][i] = IF i = k THEN d ELSE f[i]
  BY <1>1, <1>3, ExceptSeq
<1>6. Lit(f) \in Files
  BY <1>1, <1>4, <1>5 DEF Files
<1> QED
  BY <1>4, <1>5, <1>6 DEF d, k

\* What Suricata reads of the two files is the same.
Alike(f, g) ==
  /\ Active(f) = Active(g)
  /\ \A i \in Active(f) : f[i] = g[i]

\* Every line of f that is not blank is one of g.
Within(f, g) ==
  \A i \in 1 .. Len(f) : f[i] # Blank => i \in 1 .. Len(g) /\ g[i] = f[i]

LEMMA WithinAlike ==
  ASSUME NEW f \in Files, NEW g \in Files, Within(f, g), Within(g, f)
  PROVE  Alike(f, g)
<1>1. DOMAIN f = 1 .. Len(f) /\ DOMAIN g = 1 .. Len(g)
  BY DEF Files
<1> QED
  BY <1>1 DEF Within, Alike, Active

LEMMA SectionIs ==
  ASSUME NEW f \in Files, NEW i
  PROVE  Section(f, i) = 0 \/ Section(f, i) \in Keys(f)
<1> DEFINE above == {k \in Keys(f) : k < i}
<1>1. CASE above = {}
  BY <1>1 DEF Section
<1>2. CASE above # {}
  <2>1. above \in SUBSET (1 .. Len(f)) /\ Len(f) \in Nat
    BY DEF Keys, Active, Files
  <2>2. \E k \in above : \A j \in above : j <= k
    BY <1>2, <2>1, GreatestExists
  <2>3. Section(f, i) = CHOOSE k \in above : \A j \in above : j <= k
    BY <1>2 DEF Section
  <2>4. Section(f, i) \in above
    BY <2>2, <2>3
  <2> QED
    BY <2>4
<1> QED
  BY <1>1, <1>2

\* Suricata's verdict depends only on what it reads.
LEMMA AlikeValid ==
  ASSUME NEW f \in Files, NEW g \in Files, Alike(f, g), Valid(f)
  PROVE  Valid(g)
<1>1. Active(f) = Active(g) /\ \A i \in Active(f) : f[i] = g[i]
  BY DEF Alike
<1>2. Keys(f) = Keys(g) /\ Entries(f) = Entries(g)
      /\ Keys(f) \subseteq Active(f) /\ Entries(f) \subseteq Active(f)
  BY <1>1 DEF Keys, Entries
<1>3. \A i : Section(f, i) = Section(g, i)
  BY <1>2 DEF Section
<1>4. \A i \in Active(g) : g[i].text \notin {"note", "hint"}
  BY <1>1 DEF Valid
<1>5. ASSUME NEW i \in Active(g) \ Keys(g)
      PROVE  /\ Section(g, i) # 0
             /\ i \in Entries(g) <=> g[Section(g, i)].text = "plugins:"
  <2>1. i \in Active(f) \ Keys(f)
    BY <1>1, <1>2
  <2>2. /\ Section(f, i) # 0
        /\ i \in Entries(f) <=> f[Section(f, i)].text = "plugins:"
    BY <2>1 DEF Valid
  <2>3. f[Section(f, i)] = g[Section(f, i)]
    BY <1>1, <1>2, <2>2, SectionIs
  <2> QED
    BY <1>2, <1>3, <2>2, <2>3
<1>6. \A i, j \in Entries(g) :
        Section(g, i) = Section(g, j) => g[i].ind = g[j].ind
  <2>1. \A i, j \in Entries(f) :
          Section(f, i) = Section(f, j) => f[i].ind = f[j].ind
    BY DEF Valid
  <2> QED
    BY <1>1, <1>2, <1>3, <2>1
<1>7. \A i, j \in Keys(g) : g[i].text = g[j].text => i = j
  <2>1. \A i, j \in Keys(f) : f[i].text = f[j].text => i = j
    BY DEF Valid
  <2> QED
    BY <1>1, <1>2, <2>1
<1> QED
  BY <1>4, <1>5, <1>6, <1>7 DEF Valid

LEMMA MarkedTwice ==
  ASSUME NEW line \in Lines, NEW a \in Nat, NEW b \in Nat
  PROVE  Marked(Marked(line, a), b) = Marked(line, b)
BY DEF Marked, Lines

\* A toggle changes nothing but the mark it decides about.
LEMMA ToggleLit ==
  ASSUME NEW f \in Files, Configured(f), NEW m \in Nat, NEW g,
         Agree(f, g, PluginLine(f), m)
  PROVE  Alike(Lit(f), Lit(g))
<1> DEFINE k == PluginLine(f)
<1>1. /\ g \in Files /\ Configured(g) /\ PluginLine(g) = k
      /\ k \in 1 .. Len(f) /\ k \in 1 .. Len(g)
  BY AgreeKeepsLine
<1>2. /\ Lit(f) \in Files /\ Len(Lit(f)) = Len(f)
      /\ \A i \in 1 .. Len(f) :
           Lit(f)[i] = IF i = k THEN Marked(f[i], 0) ELSE f[i]
  BY LitIs
<1>3. /\ Lit(g) \in Files /\ Len(Lit(g)) = Len(g)
      /\ \A i \in 1 .. Len(g) :
           Lit(g)[i] = IF i = k THEN Marked(g[i], 0) ELSE g[i]
  BY <1>1, LitIs
<1>4. /\ \A i \in 1 .. Len(f) : f[i] # Blank => i \in 1 .. Len(g)
      /\ \A i \in 1 .. Len(g) : g[i] # Blank => i \in 1 .. Len(f)
      /\ \A i \in (1 .. Len(f)) \cap (1 .. Len(g)) :
           g[i] = IF i = k THEN Marked(f[i], m) ELSE f[i]
  BY DEF Agree
<1>5. f[k] \in Lines
  BY <1>1 DEF Files
<1> HIDE DEF k
<1>6. Lit(f)[k] = Lit(g)[k]
  <2>1. Lit(f)[k] = Marked(f[k], 0) /\ Lit(g)[k] = Marked(g[k], 0)
    BY <1>1, <1>2, <1>3
  <2>2. g[k] = Marked(f[k], m)
    BY <1>1, <1>4
  <2> QED
    BY <1>5, <2>1, <2>2, MarkedTwice
<1>7. Within(Lit(f), Lit(g))
  BY <1>1, <1>2, <1>3, <1>4, <1>6 DEF Within
<1>8. Within(Lit(g), Lit(f))
  BY <1>1, <1>2, <1>3, <1>4, <1>6 DEF Within
<1> QED
  BY <1>2, <1>3, <1>7, <1>8, WithinAlike

\* A toggle adds no mention of the plugin.
LEMMA ToggleMentions ==
  ASSUME NEW f \in Files, Configured(f), NEW m \in Nat, NEW g,
         Agree(f, g, PluginLine(f), m), MentionedOnce(g)
  PROVE  MentionedOnce(f)
<1>1. g \in Files /\ DOMAIN f = 1 .. Len(f) /\ DOMAIN g = 1 .. Len(g)
  BY DEF Agree, Files
<1>2. ASSUME NEW i \in 1 .. Len(f), Mentions(f[i])
      PROVE  i \in 1 .. Len(g) /\ Mentions(g[i])
  <2>1. f[i] # Blank /\ f[i] \in Lines
    BY <1>2, MentionIsText DEF Files
  <2>2. i \in 1 .. Len(g)
    BY <2>1 DEF Agree
  <2>3. g[i] = IF i = PluginLine(f) THEN Marked(f[i], m) ELSE f[i]
    BY <2>2 DEF Agree
  <2>4. Mentions(Marked(f[i], m))
    BY <1>2, <2>1, MarkedIs
  <2> QED
    BY <1>2, <2>2, <2>3, <2>4
<1> QED
  BY <1>1, <1>2 DEF MentionedOnce

\* With the plugin's line active, the file is itself.
LEMMA ActiveIsLit ==
  ASSUME NEW f \in Files, Configured(f), f[PluginLine(f)].marks = 0
  PROVE  Lit(f) = f
<1> DEFINE k == PluginLine(f)
<1>1. k \in 1 .. Len(f) /\ f \in Seq(Lines)
  BY PluginLineIs DEF Files
<1>2. f[k] \in Lines
  BY <1>1
<1>3. Marked(f[k], 0) = f[k]
  BY <1>2, MarkedIs
<1>4. /\ Lit(f) \in Seq(Lines) /\ Len(Lit(f)) = Len(f)
      /\ \A i \in 1 .. Len(f) : Lit(f)[i] = f[i]
  BY <1>3, LitIs DEF Files
<1> QED
  BY <1>1, <1>4, SeqEqual

LEMMA OpenedConfigured ==
  ASSUME NEW f \in Files, Opened(f), Valid(f)
  PROVE  /\ Configured(f)
         /\ MentionedOnce(f) => f[PluginLine(f)].marks = 0
<1>1. PICK k \in Nat, j \in Nat : OpenedAt(f, k, j)
  BY DEF Opened
<1>2. /\ DOMAIN f = 1 .. Len(f) /\ j \in 1 .. Len(f)
      /\ Mentions(f[j]) /\ f[j].marks = 0
  BY <1>1 DEF Files, OpenedAt, EntryAt, FirstKey
<1>3. Matches(f[j])
  <2>1. j \in Active(f)
    BY <1>2, MentionIsText DEF Active, Commented
  <2> QED
    BY <1>2, <2>1 DEF Valid, Mentions, Matches
<1>4. Configured(f)
  <2>1. /\ j \in 1 .. Len(ReadLines(f))
        /\ DOMAIN ReadLines(f) = 1 .. Len(ReadLines(f))
    BY <1>2, ReadLinesIs, MentionIsText
  <2> QED
    BY <1>3, <2>1 DEF Configured, PluginLines
<1>5. PluginLine(f) \in 1 .. Len(f) /\ Mentions(f[PluginLine(f)])
  BY <1>4, PluginLineIs, MentionIsText
<1> QED
  BY <1>2, <1>4, <1>5 DEF MentionedOnce

\* Once a Reconcile has written the file, switching the plugin on gives one
\* that Suricata accepts, if the plugin is mentioned only once.
Decisive(f) ==
  /\ Configured(f)
  /\ MentionedOnce(f) => Valid(Lit(f)) /\ f[PluginLine(f)].marks <= 1

LEMMA ToggleDecides ==
  ASSUME NEW f \in Files, Decisive(f), NEW enable \in BOOLEAN
  PROVE  /\ Decisive(SetEnabled(f, enable))
         /\ MentionedOnce(SetEnabled(f, enable)) =>
              (Loaded(SetEnabled(f, enable)) <=> enable)
<1> DEFINE g == SetEnabled(f, enable)
           k == PluginLine(f)
           m == After(f[k].marks, enable)
<1>0. f[PluginLine(f)] \in Lines
  BY PluginLineIs DEF Decisive, Files
<1>1. Configured(f) /\ m \in Nat
  BY <1>0, AfterIs DEF Decisive
<1>2. Agree(f, g, k, m)
  BY <1>1, SetEnabledIs
<1>3. MentionedOnce(f) => m = IF enable THEN 0 ELSE 1
  <2>1. MentionedOnce(f) => f[k].marks \in {0, 1}
    BY <1>0 DEF Decisive, Lines
  <2> QED
    BY <2>1 DEF After
<1> HIDE DEF g, m
<1>4. /\ g \in Files /\ Configured(g) /\ PluginLine(g) = k
      /\ k \in 1 .. Len(g) /\ g[k].marks = m
  BY <1>1, <1>2, AgreeKeepsLine
<1>5. DOMAIN g = 1 .. Len(g) /\ Mentions(g[k])
  BY <1>4, PluginLineIs, MentionIsText DEF Files
<1>6. MentionedOnce(g) => MentionedOnce(f)
  BY <1>1, <1>2, ToggleMentions
<1> HIDE DEF k
<1>7. ASSUME MentionedOnce(g) PROVE Valid(Lit(g)) /\ g[k].marks <= 1
  <2>1. Valid(Lit(f)) /\ Alike(Lit(f), Lit(g))
    BY <1>1, <1>2, <1>6, <1>7, ToggleLit DEF Decisive, k
  <2>2. Lit(f) \in Files /\ Lit(g) \in Files
    BY <1>1, <1>4, LitIs
  <2>3. Valid(Lit(g))
    BY <2>1, <2>2, AlikeValid
  <2> QED
    BY <1>3, <1>4, <1>6, <1>7, <2>3
<1>8. ASSUME MentionedOnce(g), enable PROVE Loaded(g)
  <2>1. g[PluginLine(g)].marks = 0
    BY <1>3, <1>4, <1>6, <1>8
  <2>2. Lit(g) = g
    BY <1>4, <2>1, ActiveIsLit
  <2>3. Valid(g)
    BY <1>7, <1>8, <2>2
  <2>4. k \in Active(g)
    BY <1>4, <1>5, <2>1, MentionIsText DEF Active, Commented
  <2>5. g[k].text = "ndpi"
    BY <1>5, <2>3, <2>4 DEF Valid, Mentions
  <2>6. k \in Entries(g)
    BY <2>4, <2>5 DEF Entries
  <2> QED
    BY <2>3, <2>5, <2>6 DEF Loaded
<1>9. ASSUME MentionedOnce(g), ~enable PROVE ~Loaded(g)
  <2> SUFFICES ASSUME NEW i \in Entries(g), g[i].text = "ndpi" PROVE FALSE
    BY DEF Loaded
  <2>1. i \in DOMAIN g /\ Mentions(g[i]) /\ ~Commented(g[i])
    BY DEF Entries, Active, Mentions
  <2>2. i = k
    BY <1>4, <1>5, <1>9, <2>1 DEF MentionedOnce
  <2>3. g[k].marks = 1
    BY <1>3, <1>4, <1>6, <1>9
  <2>4. Commented(g[k])
    BY <2>3 DEF Commented
  <2> QED
    BY <2>1, <2>2, <2>4
<1>10. Decisive(g)
  BY <1>4, <1>7 DEF Decisive
<1> QED
  BY <1>8, <1>9, <1>10 DEF g

\* SuricataConfig.tla: whatever the files and the template, once a Reconcile has
\* written the file, the line the toggles find decides whether Suricata loads
\* the plugin, in every file that mentions the plugin only once.
THEOREM MentionDecides == Spec => []TogglesDecideIfMentionedOnce
<1> DEFINE IInv == /\ TypeOK
                   /\ managed => Decisive(file)
                   /\ TogglesDecideIfMentionedOnce
<1>1. Init => IInv
  BY InitialFilesAssumption
  DEF Init, TypeOK, TogglesDecideIfMentionedOnce, TogglesDecide
<1>2. IInv /\ TypeOK' /\ [Next]_vars => IInv'
  <2> SUFFICES ASSUME IInv, TypeOK', [Next]_vars
               PROVE  /\ managed' => Decisive(file')
                      /\ managed' /\ last' \in {"enable", "disable"}
                           /\ MentionedOnce(file') =>
                             (Loaded(file') <=> last' = "enable")
    BY DEF TogglesDecideIfMentionedOnce, TogglesDecide
  <2>1. CASE Reconcile
    <3>1. last' = "reconcile"
      BY <2>1 DEF Reconcile
    <3>2. CASE UNCHANGED <<file, managed>>
      BY <3>1, <3>2
    <3>3. CASE ~UNCHANGED <<file, managed>>
      <4> SUFFICES ASSUME managed' PROVE Decisive(file')
        BY <3>1
      <4> DEFINE p == PatchFromTemplate(Template, file)
      <4>1. /\ file' = p.lines /\ Valid(p.lines)
            /\ file \in Files /\ OnceCommented(file)
        BY <2>1, <3>3 DEF Reconcile, TypeOK
      <4>2. p.lines \in Files /\ Opened(p.lines)
        BY <4>1, PatchOpens
      <4> HIDE DEF p
      <4>3. Decisive(p.lines)
        <5>1. /\ Configured(p.lines)
              /\ MentionedOnce(p.lines) => Lit(p.lines) = p.lines
          BY <4>1, <4>2, OpenedConfigured, ActiveIsLit
        <5>2. MentionedOnce(p.lines) => p.lines[PluginLine(p.lines)].marks <= 1
          <6>1. 0 <= 1
            OBVIOUS
          <6> QED
            BY <4>1, <4>2, <6>1, OpenedConfigured
        <5> QED
          BY <4>1, <5>1, <5>2 DEF Decisive
      <4> QED
        BY <4>1, <4>3
    <3> QED
      BY <3>2, <3>3
  <2>2. ASSUME NEW enable \in BOOLEAN, Toggle(enable)
        PROVE  /\ managed' => Decisive(file')
               /\ managed' /\ last' \in {"enable", "disable"}
                    /\ MentionedOnce(file') =>
                      (Loaded(file') <=> last' = "enable")
    <3> SUFFICES ASSUME managed'
                 PROVE  /\ Decisive(file')
                        /\ MentionedOnce(file') =>
                             (Loaded(file') <=> last' = "enable")
      OBVIOUS
    <3>1. managed /\ Decisive(file) /\ file \in Files
      BY <2>2 DEF Toggle, TypeOK
    <3>2. file' = SetEnabled(file, enable)
      BY <2>2, <3>1 DEF Toggle, Decisive
    <3>3. last' = "enable" <=> enable
      BY <2>2 DEF Toggle
    <3>4. /\ Decisive(file')
          /\ MentionedOnce(file') => (Loaded(file') <=> enable)
      BY <3>1, <3>2, ToggleDecides
    <3> QED
      BY <3>3, <3>4
  <2>3. CASE UNCHANGED vars
    BY <2>3 DEF vars, TogglesDecideIfMentionedOnce, TogglesDecide
  <2> QED
    BY <2>1, <2>2, <2>3 DEF Next
<1> QED
  BY <1>1, <1>2, TypeCorrect, PTL DEF Spec

-----------------------------------------------------------------------------
(* What is neither the block's nor the plugin's *)

\* The line begins a section.
IsKey(line) ==
  line # Blank /\ ~Commented(line) /\ line.ind = 0 /\ line.text # "ndpi"

\* The last key above line i is the one of the control socket.
UnderUnix(f, i) ==
  \E s \in 1 .. i - 1 :
    /\ IsKey(f[s]) /\ f[s].text = "unix-command:"
    /\ \A t \in s + 1 .. i - 1 : ~IsKey(f[t])

InRest(f, i) ==
  \/ IsKey(f[i]) /\ f[i].text \notin {"plugins:", "unix-command:"}
  \/ Option(f[i]) /\ ~UnderUnix(f, i)

LEMMA SectionIsUnix ==
  ASSUME NEW f \in Seq(Lines), NEW i \in 1 .. Len(f)
  PROVE  UnderUnix(f, i) <=>
           Section(f, i) # 0 /\ f[Section(f, i)].text = "unix-command:"
<1> DEFINE above == {k \in Keys(f) : k < i}
           q     == Section(f, i)
<1>1. Len(f) \in Nat /\ i \in Nat
      /\ \A k \in 1 .. i - 1 : IsKey(f[k]) <=> k \in above
  <2>1. \A k \in 1 .. i - 1 : k \in 1 .. Len(f) /\ k < i
    OBVIOUS
  <2> QED
    BY <2>1 DEF Keys, Active, IsKey
<1>2. above \in SUBSET (1 .. i - 1) /\ above \in SUBSET (1 .. Len(f))
  BY DEF Keys, Active
<1>3. CASE above = {}
  <2>1. q = 0
    BY <1>3 DEF Section
  <2> QED
    BY <1>1, <1>3, <2>1 DEF UnderUnix
<1>4. CASE above # {}
  <2>1. \E k \in above : \A j \in above : j <= k
    BY <1>1, <1>2, <1>4, GreatestExists
  <2>2. q = CHOOSE k \in above : \A j \in above : j <= k
    BY <1>4 DEF Section
  <2>3. q \in above /\ \A j \in above : j <= q
    BY <2>1, <2>2
  <2> HIDE DEF q
  <2>4. q \in 1 .. i - 1 /\ q # 0 /\ IsKey(f[q])
    BY <1>1, <1>2, <2>3
  <2>5. ASSUME NEW t \in q + 1 .. i - 1 PROVE ~IsKey(f[t])
    <3>1. t \in 1 .. i - 1 /\ ~(t <= q)
      BY <1>1, <2>4
    <3> QED
      BY <1>1, <2>3, <3>1
  <2>6. ASSUME NEW s \in 1 .. i - 1, IsKey(f[s]),
               \A t \in s + 1 .. i - 1 : ~IsKey(f[t])
        PROVE  s = q
    <3>1. s <= q
      BY <1>1, <2>3, <2>6
    <3>2. ~(s < q)
      <4> SUFFICES ASSUME s < q PROVE FALSE
        OBVIOUS
      <4>1. q \in s + 1 .. i - 1
        BY <1>1, <2>4
      <4> QED
        BY <2>4, <2>6, <4>1
    <3> QED
      BY <1>1, <2>4, <3>1, <3>2
  <2>7. UnderUnix(f, i) <=> f[q].text = "unix-command:"
    BY <2>4, <2>5, <2>6 DEF UnderUnix
  <2> QED
    BY <2>4, <2>7 DEF q
<1> QED
  BY <1>3, <1>4

LEMMA RestIs ==
  ASSUME NEW f \in Seq(Lines), NEW i
  PROVE  i \in Rest(f) <=> i \in 1 .. Len(f) /\ InRest(f, i)
<1>1. DOMAIN f = 1 .. Len(f)
  OBVIOUS
<1>2. ASSUME NEW k \in 1 .. Len(f) PROVE k \in Keys(f) <=> IsKey(f[k])
  BY <1>1 DEF Keys, Active, IsKey
<1>3. CASE i \in 1 .. Len(f)
  BY <1>1, <1>2, <1>3, SectionIsUnix DEF Rest, InRest
<1>4. CASE i \notin 1 .. Len(f)
  BY <1>1, <1>4 DEF Rest, Keys, Active
<1> QED
  BY <1>3, <1>4

LEMMA SameRestTransitive ==
  ASSUME NEW f, NEW g, NEW h, SameRest(f, g), SameRest(g, h)
  PROVE  SameRest(f, h)
<1>1. PICK p \in [Rest(f) -> Rest(g)] :
        /\ \A i \in Rest(f) : g[p[i]] = f[i]
        /\ \A i, j \in Rest(f) : i < j => p[i] < p[j]
        /\ \A l \in Rest(g) : \E i \in Rest(f) : p[i] = l
  BY DEF SameRest
<1>2. PICK q \in [Rest(g) -> Rest(h)] :
        /\ \A i \in Rest(g) : h[q[i]] = g[i]
        /\ \A i, j \in Rest(g) : i < j => q[i] < q[j]
        /\ \A l \in Rest(h) : \E i \in Rest(g) : q[i] = l
  BY DEF SameRest
<1> DEFINE r == [i \in Rest(f) |-> q[p[i]]]
<1>3. r \in [Rest(f) -> Rest(h)]
  BY <1>1, <1>2
<1>4. \A i \in Rest(f) : h[r[i]] = f[i]
  BY <1>1, <1>2
<1>5. \A i, j \in Rest(f) : i < j => r[i] < r[j]
  BY <1>1, <1>2
<1>6. \A l \in Rest(h) : \E i \in Rest(f) : r[i] = l
  BY <1>1, <1>2
<1> QED
  BY <1>3, <1>4, <1>5, <1>6 DEF SameRest

\* What holds of the places of a splice.
LEMMA SplicePlaces ==
  ASSUME NEW f \in Seq(Lines), NEW g \in Seq(Lines), NEW i, NEW e, NEW c,
         Spliced(f, g, i, e, c)
  PROVE  /\ i \in Nat /\ e \in Nat /\ c \in Nat
         /\ Len(f) \in Nat /\ Len(g) \in Nat
         /\ 1 <= i /\ i <= e /\ i <= c /\ e <= Len(f) + 1 /\ c <= Len(g) + 1
         /\ Len(g) - c = Len(f) - e
BY DEF Spliced

\* Whatever comes after the splice is under the same key as before, if no key
\* was replaced and none is new.
LEMMA SplicedUnder ==
  ASSUME NEW f \in Seq(Lines), NEW g \in Seq(Lines), NEW i, NEW e, NEW c,
         Spliced(f, g, i, e, c),
         \A l \in i .. e - 1 : ~IsKey(f[l]), \A l \in i .. c - 1 : ~IsKey(g[l]),
         NEW x \in c .. Len(g)
  PROVE  UnderUnix(g, x) <=> UnderUnix(f, (x - c) + e)
<1> DEFINE y == (x - c) + e
<1>1. /\ i \in Nat /\ e \in Nat /\ c \in Nat /\ x \in Nat /\ y \in Nat
      /\ Len(f) \in Nat /\ Len(g) \in Nat
      /\ 1 <= i /\ i <= e /\ i <= c /\ c <= x /\ x <= Len(g) /\ e <= y
      /\ y = (x - c) + e /\ x = (y - e) + c
  BY SplicePlaces
<1>2. /\ \A l \in 1 .. i - 1 : g[l] = f[l]
      /\ \A l \in c .. Len(g) : g[l] = f[(l - c) + e]
  BY DEF Spliced
<1> HIDE DEF y
<1>3. ASSUME NEW s \in 1 .. x - 1, IsKey(g[s]), g[s].text = "unix-command:",
             \A t \in s + 1 .. x - 1 : ~IsKey(g[t])
      PROVE  UnderUnix(f, y)
  <2>1. ~(i <= s /\ s < c)
    <3>1. i <= s /\ s < c => s \in i .. c - 1
      BY <1>1
    <3> QED
      BY <1>3, <3>1
  <2>2. CASE s < i
    <3>1. s \in 1 .. i - 1 /\ s \in 1 .. y - 1 /\ g[s] = f[s]
      BY <1>1, <1>2, <2>2
    <3>2. ASSUME NEW t \in s + 1 .. y - 1 PROVE ~IsKey(f[t])
      <4>1. CASE t < i
        <5>1. t \in 1 .. i - 1 /\ t \in s + 1 .. x - 1
          BY <1>1, <4>1
        <5> QED
          BY <1>2, <1>3, <5>1
      <4>2. CASE ~(t < i) /\ t < e
        <5>1. t \in i .. e - 1
          BY <1>1, <4>2
        <5> QED
          BY <5>1
      <4>3. CASE ~(t < e)
        <5> DEFINE z == (t - e) + c
        <5>1. z \in c .. Len(g) /\ z \in s + 1 .. x - 1 /\ (z - c) + e = t
          BY <1>1, <2>2, <4>3
        <5> HIDE DEF z
        <5>2. g[z] = f[t]
          BY <1>2, <5>1
        <5> QED
          BY <1>3, <5>1, <5>2
      <4> QED
        BY <4>1, <4>2, <4>3
    <3> QED
      BY <1>3, <3>1, <3>2 DEF UnderUnix
  <2>3. CASE ~(s < c)
    <3> DEFINE r == (s - c) + e
    <3>0. s \in Nat /\ c <= s /\ s < x
      BY <1>1, <2>3
    <3>1. s \in c .. Len(g) /\ r \in 1 .. y - 1 /\ r = (s - c) + e
      <4>1. s \in c .. Len(g)
        BY <1>1, <3>0
      <4>2. r \in Nat /\ 1 <= r /\ r < y
        BY <1>1, <3>0
      <4> QED
        BY <1>1, <4>1, <4>2
    <3>2. g[s] = f[r]
      BY <1>2, <3>1
    <3> HIDE DEF r
    <3>3. ASSUME NEW t \in r + 1 .. y - 1 PROVE ~IsKey(f[t])
      <4> DEFINE z == (t - e) + c
      <4>1. z \in c .. Len(g) /\ z \in s + 1 .. x - 1 /\ (z - c) + e = t
        BY <1>1, <2>3, <3>1
      <4> HIDE DEF z
      <4>2. g[z] = f[t]
        BY <1>2, <4>1
      <4> QED
        BY <1>3, <4>1, <4>2
    <3> QED
      BY <1>3, <3>1, <3>2, <3>3 DEF UnderUnix
  <2> QED
    BY <1>1, <2>1, <2>2, <2>3
<1>4. ASSUME NEW s \in 1 .. y - 1, IsKey(f[s]), f[s].text = "unix-command:",
             \A t \in s + 1 .. y - 1 : ~IsKey(f[t])
      PROVE  UnderUnix(g, x)
  <2>1. ~(i <= s /\ s < e)
    <3>1. i <= s /\ s < e => s \in i .. e - 1
      BY <1>1
    <3> QED
      BY <1>4, <3>1
  <2>2. CASE s < i
    <3>1. s \in 1 .. i - 1 /\ s \in 1 .. x - 1 /\ g[s] = f[s]
      BY <1>1, <1>2, <2>2
    <3>2. ASSUME NEW t \in s + 1 .. x - 1 PROVE ~IsKey(g[t])
      <4>1. CASE t < i
        <5>1. t \in 1 .. i - 1 /\ t \in s + 1 .. y - 1
          BY <1>1, <4>1
        <5> QED
          BY <1>2, <1>4, <5>1
      <4>2. CASE ~(t < i) /\ t < c
        <5>1. t \in i .. c - 1
          BY <1>1, <4>2
        <5> QED
          BY <5>1
      <4>3. CASE ~(t < c)
        <5> DEFINE z == (t - c) + e
        <5>1. t \in c .. Len(g) /\ z \in s + 1 .. y - 1 /\ z = (t - c) + e
          BY <1>1, <2>2, <4>3
        <5>2. g[t] = f[z]
          BY <1>2, <5>1
        <5> QED
          BY <1>4, <5>1, <5>2
      <4> QED
        BY <4>1, <4>2, <4>3
    <3> QED
      BY <1>4, <3>1, <3>2 DEF UnderUnix
  <2>3. CASE ~(s < e)
    <3> DEFINE r == (s - e) + c
    <3>1. r \in c .. Len(g) /\ r \in 1 .. x - 1 /\ (r - c) + e = s
      BY <1>1, <2>3
    <3> HIDE DEF r
    <3>2. g[r] = f[s]
      BY <1>2, <3>1
    <3>3. ASSUME NEW t \in r + 1 .. x - 1 PROVE ~IsKey(g[t])
      <4> DEFINE z == (t - c) + e
      <4>1. t \in c .. Len(g) /\ z \in s + 1 .. y - 1 /\ z = (t - c) + e
        BY <1>1, <2>3, <3>1
      <4>2. g[t] = f[z]
        BY <1>2, <4>1
      <4> QED
        BY <1>4, <4>1, <4>2
    <3> QED
      BY <1>4, <3>1, <3>2, <3>3 DEF UnderUnix
  <2> QED
    BY <1>1, <2>1, <2>2, <2>3
<1> QED
  BY <1>3, <1>4 DEF UnderUnix, y

\* What is spliced is not of the rest, and what comes after it is in its place.
LEMMA SplicedRest ==
  ASSUME NEW f \in Seq(Lines), NEW g \in Seq(Lines), NEW i, NEW e, NEW c,
         Spliced(f, g, i, e, c),
         \A l \in i .. e - 1 : ~InRest(f, l), \A l \in i .. c - 1 : ~InRest(g, l),
         \A l \in c .. Len(g) :
           Option(g[l]) => (UnderUnix(g, l) <=> UnderUnix(f, (l - c) + e))
  PROVE  SameRest(f, g)
<1> DEFINE L == Len(f)
           M == Len(g)
           at == [x \in Rest(f) |-> IF x < i THEN x ELSE (x - e) + c]
<1>1. /\ i \in Nat /\ e \in Nat /\ c \in Nat
      /\ L \in Nat /\ M \in Nat
      /\ 1 <= i /\ i <= e /\ i <= c /\ e <= L + 1 /\ c <= M + 1
      /\ M - c = L - e
  BY SplicePlaces
<1>2. /\ \A l \in 1 .. i - 1 : g[l] = f[l]
      /\ \A l \in c .. M : g[l] = f[(l - c) + e]
      /\ \A l \in c .. M :
           Option(g[l]) => (UnderUnix(g, l) <=> UnderUnix(f, (l - c) + e))
  BY DEF Spliced
<1>0. /\ \A x : x \in Rest(f) <=> x \in 1 .. L /\ InRest(f, x)
      /\ \A x : x \in Rest(g) <=> x \in 1 .. M /\ InRest(g, x)
  BY RestIs
<1> HIDE DEF L, M
<1>3. ASSUME NEW x \in 1 .. i - 1
      PROVE  /\ x \in Rest(f) <=> x \in Rest(g)
             /\ x < i /\ g[x] = f[x]
  <2>1. x \in 1 .. L /\ x \in 1 .. M /\ x < i /\ g[x] = f[x]
    BY <1>1, <1>2
  <2>2. \A s \in 1 .. x - 1 : s \in 1 .. i - 1
    BY <1>1
  <2>3. \A s \in 1 .. x - 1 : \A t \in s + 1 .. x - 1 : t \in 1 .. i - 1
    BY <1>1
  <2>4. UnderUnix(f, x) <=> UnderUnix(g, x)
    BY <1>2, <2>2, <2>3 DEF UnderUnix
  <2> QED
    BY <2>1, <2>4, <1>0 DEF InRest
<1>4. ASSUME NEW x \in c .. M
      PROVE  (x - c) + e \in Rest(f) <=> x \in Rest(g)
  <2> DEFINE y == (x - c) + e
  <2>1. x \in 1 .. M /\ y \in 1 .. L
    BY <1>1
  <2>2. g[x] = f[y] /\ (Option(g[x]) => (UnderUnix(g, x) <=> UnderUnix(f, y)))
    BY <1>2
  <2> HIDE DEF y
  <2>3. InRest(f, y) <=> InRest(g, x)
    BY <2>2 DEF InRest
  <2>4. y \in Rest(f) <=> x \in Rest(g)
    BY <2>1, <2>3, <1>0
  <2> QED
    BY <2>4 DEF y
<1>5. ASSUME NEW x \in Rest(f)
      PROVE  x \in 1 .. i - 1 \/ (x \in e .. L /\ ~(x < i))
  <2>1. x \in 1 .. L /\ InRest(f, x)
    BY <1>0
  <2>2. x \notin i .. e - 1
    BY <2>1
  <2> QED
    BY <1>1, <2>1, <2>2
<1>6. ASSUME NEW x \in Rest(g)
      PROVE  x \in 1 .. i - 1 \/ x \in c .. M
  <2>1. x \in 1 .. M /\ InRest(g, x)
    BY <1>0
  <2>2. x \notin i .. c - 1
    BY <2>1
  <2> QED
    BY <1>1, <2>1, <2>2
<1>7. ASSUME NEW x \in Rest(f)
      PROVE  at[x] \in Rest(g) /\ g[at[x]] = f[x]
  <2>1. CASE x \in 1 .. i - 1
    BY <1>3, <2>1
  <2>2. CASE x \in e .. L /\ ~(x < i)
    <3> DEFINE z == (x - e) + c
    <3>1. z \in c .. M /\ (z - c) + e = x /\ at[x] = z
      BY <1>1, <2>2
    <3> HIDE DEF z, at
    <3>2. z \in Rest(g)
      BY <1>4, <3>1
    <3>3. g[z] = f[x]
      BY <1>2, <3>1
    <3> QED
      BY <3>1, <3>2, <3>3
  <2> QED
    BY <1>5, <2>1, <2>2
<1>8. \A x, y \in Rest(f) : x < y => at[x] < at[y]
  <2>1. ASSUME NEW x \in 1 .. L, NEW y \in 1 .. L, x < y,
               x < i \/ e <= x, y < i \/ e <= y
        PROVE  (IF x < i THEN x ELSE (x - e) + c)
                 < (IF y < i THEN y ELSE (y - e) + c)
    <3>1. x \in Nat /\ y \in Nat
      OBVIOUS
    <3> QED
      BY <1>1, <2>1, <3>1
  <2>2. \A x \in Rest(f) : x \in 1 .. L /\ (x < i \/ e <= x)
    BY <1>1, <1>5, <1>0
  <2>3. \A x \in Rest(f) : at[x] = IF x < i THEN x ELSE (x - e) + c
    OBVIOUS
  <2> HIDE DEF at
  <2> QED
    BY <2>1, <2>2, <2>3
<1>9. ASSUME NEW x \in Rest(g) PROVE \E y \in Rest(f) : at[y] = x
  <2>1. CASE x \in 1 .. i - 1
    <3>1. x \in Rest(f) /\ x < i
      BY <1>3, <2>1
    <3> QED
      BY <3>1
  <2>2. CASE x \in c .. M
    <3> DEFINE y == (x - c) + e
    <3>1. y \in Rest(f)
      BY <1>4, <2>2
    <3>2. ~(y < i) /\ (y - e) + c = x
      BY <1>1, <2>2
    <3> HIDE DEF y
    <3>3. at[y] = x
      BY <3>1, <3>2
    <3> QED
      BY <3>1, <3>3
  <2> QED
    BY <1>6, <2>1, <2>2
<1>10. at \in [Rest(f) -> Rest(g)]
  <2>1. \A x \in Rest(f) : at[x] \in Rest(g)
    BY <1>7
  <2> QED
    BY <2>1
<1> HIDE DEF at
<1> QED
  BY <1>7, <1>8, <1>9, <1>10 DEF SameRest

\* A key the patch looks for, commented out.
Silenced(line) ==
  Commented(line) /\ (Names(line, "plugins:") \/ Names(line, "unix-command:"))

LEMMA CommentedOutIs ==
  ASSUME NEW f \in Seq(Lines)
  PROVE  CommentedOut(f) <=>
           \A x, y \in 1 .. Len(f) :
             x < y /\ Option(f[y]) /\ Silenced(f[x]) =>
               \E s \in x + 1 .. y - 1 : Key(f[s])
<1>1. DOMAIN f = 1 .. Len(f)
  OBVIOUS
<1> QED
  BY <1>1, Zenon DEF CommentedOut, Silenced

\* What is spliced leaves what is commented out where it was.
LEMMA SplicedComments ==
  ASSUME NEW f \in Seq(Lines), NEW g \in Seq(Lines), NEW i, NEW e, NEW c,
         Spliced(f, g, i, e, c), CommentedOut(f),
         \A l \in i .. c - 1 : ~Silenced(g[l]),
         \/ i # c /\ Key(g[i])
         \/ i = e /\ \A l \in i .. c - 1 : ~Option(g[l])
  PROVE  CommentedOut(g)
<1> DEFINE L == Len(f)
           M == Len(g)
<1>1. /\ i \in Nat /\ e \in Nat /\ c \in Nat
      /\ L \in Nat /\ M \in Nat
      /\ 1 <= i /\ i <= e /\ i <= c /\ e <= L + 1 /\ c <= M + 1
      /\ M - c = L - e
  BY SplicePlaces
<1>2. /\ \A l \in 1 .. i - 1 : g[l] = f[l]
      /\ \A l \in c .. M : g[l] = f[(l - c) + e]
  BY DEF Spliced
<1>3. ASSUME NEW x \in 1 .. L, NEW y \in 1 .. L, x < y,
             Option(f[y]), Silenced(f[x])
      PROVE  \E s \in x + 1 .. y - 1 : Key(f[s])
  BY <1>3, CommentedOutIs
<1>4. ~Option(g[i]) \/ ~Key(g[i])
  BY DEF Option, Key
<1> SUFFICES ASSUME NEW x \in 1 .. M, NEW y \in 1 .. M, x < y,
                    Option(g[y]), Silenced(g[x])
             PROVE  \E s \in x + 1 .. y - 1 : Key(g[s])
  BY CommentedOutIs
<1> HIDE DEF L, M
<1>0. x \in Nat /\ y \in Nat /\ 1 <= x /\ x < y /\ y <= M
  OBVIOUS
<1>5. x < i \/ c <= x
  <2>1. x \notin i .. c - 1
    OBVIOUS
  <2> QED
    BY <1>1, <2>1
<1>6. CASE y < i
  <2>1. /\ x \in 1 .. i - 1 /\ y \in 1 .. i - 1
        /\ x \in 1 .. L /\ y \in 1 .. L
        /\ \A s \in x + 1 .. y - 1 : s \in 1 .. i - 1
    BY <1>0, <1>1, <1>6
  <2> QED
    BY <1>2, <1>3, <2>1
<1>7. CASE ~(y < i) /\ x < i /\ i # c /\ Key(g[i])
  <2>1. y # i
    BY <1>4, <1>7
  <2>2. i \in x + 1 .. y - 1
    BY <1>0, <1>1, <1>7, <2>1
  <2> QED
    BY <1>7, <2>2
<1>8. CASE ~(y < i) /\ ~(i # c /\ Key(g[i])) /\ x < i
  <2> DEFINE v == (y - c) + e
  <2>1. y \notin i .. c - 1 /\ i = e
    BY <1>8
  <2>2. /\ y \in c .. M /\ v \in 1 .. L /\ x < v /\ v = (y - c) + e
        /\ x \in 1 .. L /\ x \in 1 .. i - 1
    BY <1>0, <1>1, <1>8, <2>1
  <2>3. g[y] = f[v] /\ g[x] = f[x]
    BY <1>2, <2>2
  <2> HIDE DEF v
  <2>4. PICK s \in x + 1 .. v - 1 : Key(f[s])
    BY <1>3, <2>2, <2>3
  <2>5. CASE s < i
    <3>1. s \in 1 .. i - 1 /\ s \in x + 1 .. y - 1
      BY <1>1, <2>1, <2>2, <2>5
    <3> QED
      BY <1>2, <2>4, <3>1
  <2>6. CASE ~(s < i)
    <3> DEFINE z == (s - e) + c
    <3>1. z \in c .. M /\ z \in x + 1 .. y - 1 /\ (z - c) + e = s
      BY <1>0, <1>1, <2>1, <2>2, <2>6
    <3> HIDE DEF z
    <3>2. g[z] = f[s]
      BY <1>2, <3>1
    <3> QED
      BY <2>4, <3>1, <3>2
  <2> QED
    BY <2>5, <2>6
<1>9. CASE ~(y < i) /\ c <= x
  <2> DEFINE v == (y - c) + e
             w == (x - c) + e
  <2>1. /\ y \in c .. M /\ v \in 1 .. L /\ v = (y - c) + e
        /\ x \in c .. M /\ w \in 1 .. L /\ w = (x - c) + e
        /\ w < v /\ e <= w
    BY <1>0, <1>1, <1>9
  <2>2. g[y] = f[v] /\ g[x] = f[w]
    BY <1>2, <2>1
  <2> HIDE DEF v, w
  <2>3. PICK s \in w + 1 .. v - 1 : Key(f[s])
    BY <1>3, <2>1, <2>2
  <2> DEFINE z == (s - e) + c
  <2>4. z \in c .. M /\ z \in x + 1 .. y - 1 /\ (z - c) + e = s
    BY <1>0, <1>1, <2>1
  <2> HIDE DEF z
  <2>5. g[z] = f[s]
    BY <1>2, <2>4
  <2> QED
    BY <2>3, <2>4, <2>5
<1> QED
  BY <1>5, <1>6, <1>7, <1>8, <1>9

\* Lines that are nothing to the rest, whatever is above them.
LEMMA Nothing ==
  ASSUME NEW f, NEW i
  PROVE  /\ f[i] = Blank => ~InRest(f, i) /\ ~IsKey(f[i]) /\ ~Silenced(f[i])
         /\ f[i].text \in {"plugins:", "unix-command:"} => ~InRest(f, i)
         /\ f[i].ind > 0 => ~IsKey(f[i])
<1>1. ASSUME f[i] = Blank
      PROVE  ~InRest(f, i) /\ ~IsKey(f[i]) /\ ~Silenced(f[i])
  <2>1. ~IsKey(f[i]) /\ ~Option(f[i])
    BY <1>1, Zenon DEF IsKey, Option
  <2>2. ~Silenced(f[i])
    BY <1>1, BlankIs, Zenon DEF Silenced
  <2> QED
    BY <2>1, <2>2 DEF InRest
<1>2. ASSUME f[i].text \in {"plugins:", "unix-command:"} PROVE ~InRest(f, i)
  BY <1>2 DEF InRest, Option
<1>3. ASSUME f[i].ind > 0 PROVE ~IsKey(f[i])
  BY <1>3 DEF IsKey
<1> QED
  BY <1>1, <1>2, <1>3

LEMMA KeyIsKey == \A line : Key(line) => IsKey(line)
BY DEF Key, IsKey, Mentions

\* The section of the control socket, active or commented out as a whole, is
\* not of the rest.
LEMMA UnixSection ==
  ASSUME NEW f \in Seq(Lines), NEW i \in 1 .. Len(f), NEW e \in i .. Len(f) + 1,
         Names(f[i], "unix-command:"), f[i].ind = 0, CommentedOut(f),
         \A l \in i + 1 .. e - 1 : f[l] = Blank \/ f[l].ind > 0
  PROVE  /\ \A l \in i .. e - 1 : ~InRest(f, l)
         /\ \A l \in i + 1 .. e - 1 : ~IsKey(f[l])
         /\ IsKey(f[i]) \/ Silenced(f[i])
<1>1. i \in Nat /\ e \in Nat /\ Len(f) \in Nat
  OBVIOUS
<1>2. \A l \in i + 1 .. e - 1 : ~IsKey(f[l])
  BY Nothing
<1>3. IsKey(f[i]) \/ Silenced(f[i])
  <2>1. f[i] # Blank /\ f[i].text # "ndpi"
    BY NamesIs DEF Mentions
  <2> QED
    BY <2>1 DEF IsKey, Silenced
<1>4. ~InRest(f, i)
  BY Nothing DEF Names
<1>5. ASSUME NEW l \in i + 1 .. e - 1 PROVE ~InRest(f, l)
  <2>1. ~IsKey(f[l])
    BY <1>2
  <2>2. CASE IsKey(f[i])
    <3>1. i \in 1 .. l - 1 /\ \A t \in i + 1 .. l - 1 : t \in i + 1 .. e - 1
      BY <1>1
    <3>2. f[i].text = "unix-command:"
      BY DEF Names
    <3>3. UnderUnix(f, l)
      BY <1>2, <2>2, <3>1, <3>2 DEF UnderUnix
    <3> QED
      BY <2>1, <3>3 DEF InRest
  <2>3. CASE Silenced(f[i])
    <3>1. /\ l \in 1 .. Len(f) /\ i < l
          /\ \A t \in i + 1 .. l - 1 : t \in i + 1 .. e - 1
      BY <1>1
    <3>2. ~Option(f[l])
      BY <1>2, <2>3, <3>1, CommentedOutIs, KeyIsKey
    <3> QED
      BY <2>1, <3>2 DEF InRest
  <2> QED
    BY <1>3, <2>2, <2>3
<1>6. \A l \in i .. e - 1 : l = i \/ l \in i + 1 .. e - 1
  BY <1>1
<1> QED
  BY <1>2, <1>3, <1>4, <1>5, <1>6

\* Line x is under the key of the control socket, or no key is between line e
\* and it.
TailUnix(f, e, x) ==
  \/ \E s \in e .. x - 1 :
       /\ IsKey(f[s]) /\ f[s].text = "unix-command:"
       /\ \A t \in s + 1 .. x - 1 : ~IsKey(f[t])
  \/ \A t \in e .. x - 1 : ~IsKey(f[t])

LEMMA UnderBlock ==
  ASSUME NEW f, NEW i \in Nat, NEW e \in Nat, NEW x \in Nat,
         1 <= i, i < e, e <= x, \A l \in i + 1 .. e - 1 : ~IsKey(f[l]),
         \/ IsKey(f[i]) /\ f[i].text = "unix-command:"
         \/ \E t \in e .. x - 1 : IsKey(f[t])
  PROVE  UnderUnix(f, x) <=> TailUnix(f, e, x)
<1>1. ASSUME NEW s \in 1 .. x - 1, IsKey(f[s]), f[s].text = "unix-command:",
             \A t \in s + 1 .. x - 1 : ~IsKey(f[t])
      PROVE  TailUnix(f, e, x)
  <2>1. CASE e <= s
    <3>1. s \in e .. x - 1
      BY <2>1
    <3> QED
      BY <1>1, <3>1 DEF TailUnix
  <2>2. CASE ~(e <= s)
    <3>1. \A t \in e .. x - 1 : t \in s + 1 .. x - 1
      BY <2>2
    <3> QED
      BY <1>1, <3>1 DEF TailUnix
  <2> QED
    BY <2>1, <2>2
<1>2. ASSUME NEW s \in e .. x - 1, IsKey(f[s]), f[s].text = "unix-command:",
             \A t \in s + 1 .. x - 1 : ~IsKey(f[t])
      PROVE  UnderUnix(f, x)
  <2>1. s \in 1 .. x - 1
    OBVIOUS
  <2> QED
    BY <1>2, <2>1 DEF UnderUnix
<1>3. ASSUME \A t \in e .. x - 1 : ~IsKey(f[t])
      PROVE  UnderUnix(f, x)
  <2>1. IsKey(f[i]) /\ f[i].text = "unix-command:"
    BY <1>3
  <2>2. i \in 1 .. x - 1
        /\ \A t \in i + 1 .. x - 1 : t \in i + 1 .. e - 1 \/ t \in e .. x - 1
    OBVIOUS
  <2> QED
    BY <1>3, <2>1, <2>2 DEF UnderUnix
<1> QED
  BY <1>1, <1>2, <1>3 DEF UnderUnix, TailUnix

LEMMA TailShift ==
  ASSUME NEW f, NEW g, NEW e \in Nat, NEW c \in Nat, NEW x \in Nat, c <= x,
         \A l \in c .. x - 1 : g[l] = f[(l - c) + e]
  PROVE  TailUnix(g, c, x) <=> TailUnix(f, e, (x - c) + e)
<1> DEFINE y == (x - c) + e
<1>1. y \in Nat /\ y = (x - c) + e /\ e <= y
  OBVIOUS
<1> HIDE DEF y
<1>2. ASSUME NEW l \in e .. y - 1
      PROVE  /\ (l - e) + c \in c .. x - 1
             /\ ((l - e) + c) - c + e = l
             /\ g[(l - e) + c] = f[l]
  <2> DEFINE z == (l - e) + c
  <2>1. z \in c .. x - 1 /\ (z - c) + e = l
    BY <1>1
  <2> HIDE DEF z
  <2>2. g[z] = f[(z - c) + e]
    BY <2>1
  <2> QED
    BY <2>1, <2>2 DEF z
<1>3. ASSUME NEW s \in c .. x - 1, IsKey(g[s]), g[s].text = "unix-command:",
             \A t \in s + 1 .. x - 1 : ~IsKey(g[t])
      PROVE  TailUnix(f, e, y)
  <2> DEFINE r == (s - c) + e
  <2>1. r \in e .. y - 1 /\ r = (s - c) + e /\ g[s] = f[r]
    BY <1>1
  <2> HIDE DEF r
  <2>2. ASSUME NEW t \in r + 1 .. y - 1 PROVE ~IsKey(f[t])
    <3> DEFINE z == (t - e) + c
    <3>1. t \in e .. y - 1 /\ z \in s + 1 .. x - 1
      BY <1>1, <2>1
    <3>2. g[z] = f[t]
      BY <1>2, <3>1
    <3> HIDE DEF z
    <3> QED
      BY <1>3, <3>1, <3>2
  <2> QED
    BY <1>3, <2>1, <2>2 DEF TailUnix
<1>4. ASSUME NEW s \in e .. y - 1, IsKey(f[s]), f[s].text = "unix-command:",
             \A t \in s + 1 .. y - 1 : ~IsKey(f[t])
      PROVE  TailUnix(g, c, x)
  <2> DEFINE r == (s - e) + c
  <2>1. r \in c .. x - 1 /\ r = (s - e) + c /\ g[r] = f[s]
    BY <1>1, <1>2
  <2> HIDE DEF r
  <2>2. ASSUME NEW t \in r + 1 .. x - 1 PROVE ~IsKey(g[t])
    <3> DEFINE z == (t - c) + e
    <3>1. t \in c .. x - 1 /\ z \in s + 1 .. y - 1
      BY <1>1, <2>1
    <3>2. g[t] = f[z]
      BY <3>1
    <3> HIDE DEF z
    <3> QED
      BY <1>4, <3>1, <3>2
  <2> QED
    BY <1>4, <2>1, <2>2 DEF TailUnix
<1>5. (\A t \in c .. x - 1 : ~IsKey(g[t])) <=> (\A t \in e .. y - 1 : ~IsKey(f[t]))
  <2>1. ASSUME NEW t \in c .. x - 1
        PROVE  (t - c) + e \in e .. y - 1 /\ g[t] = f[(t - c) + e]
    BY <1>1
  <2> QED
    BY <1>2, <2>1
<1>6. TailUnix(g, c, x) => TailUnix(f, e, y)
  BY <1>3, <1>5 DEF TailUnix
<1>7. TailUnix(f, e, y) => TailUnix(g, c, x)
  BY <1>4, <1>5 DEF TailUnix
<1> QED
  BY <1>6, <1>7 DEF y

\* Putting the block keeps the rest.
LEMMA PutRest ==
  ASSUME NEW f \in Seq(Lines), NEW g \in Seq(Lines), NEW b, PlainBlock(b),
         NEW i, NEW e, PutsBlock(f, g, b, i, e), CommentedOut(f),
         \/ i = Len(f) + 1
         \/ FirstKey(f, "unix-command:", i) /\ EndsBlock(f, i, 0, e)
            /\ f[i].ind = 0
  PROVE  SameRest(f, g) /\ CommentedOut(g)
<1> DEFINE n == Len(b)
           c == i + n
           L == Len(f)
           M == Len(g)
<1>1. /\ i \in Nat /\ e \in Nat /\ c \in Nat /\ L \in Nat /\ M \in Nat
      /\ 1 <= i /\ i <= e /\ i <= c /\ e <= L + 1 /\ c <= M + 1
      /\ M - c = L - e
  BY SplicePlaces DEF PutsBlock
<1>2. n \in Nat /\ n >= 1 /\ c = i + n
  BY DEF PlainBlock
<1>3. Spliced(f, g, i, e, c) /\ \A l \in 1 .. n : g[(i - 1) + l] = b[l]
  BY DEF PutsBlock
<1>4. \A l \in c .. M : g[l] = f[(l - c) + e]
  BY <1>3 DEF Spliced
<1>5. i \in 1 .. Len(g) /\ c \in i .. Len(g) + 1
  BY <1>1, <1>2
<1> HIDE DEF n, c, L, M
<1>6. ASSUME NEW l \in i .. c - 1
      PROVE  /\ ~Silenced(g[l])
             /\ IF l = i THEN /\ IsKey(g[l]) /\ Key(g[l])
                              /\ Names(g[l], "unix-command:") /\ g[l].ind = 0
                ELSE g[l] = Blank \/ g[l].ind > 0
  <2> DEFINE x == (l - i) + 1
  <2>1. x \in 1 .. n /\ (i - 1) + x = l /\ (l = i <=> x = 1)
        /\ (x = 1 \/ x \in 2 .. n)
    BY <1>1, <1>2
  <2> HIDE DEF x
  <2>2. g[l] = b[x]
    BY <1>3, <2>1
  <2>3. ~Commented(b[x])
    <3>1. b[x].marks = 0
      BY <2>1 DEF PlainBlock, n
    <3> QED
      BY <3>1 DEF Commented
  <2>4. ~Silenced(g[l])
    BY <2>2, <2>3, Zenon DEF Silenced
  <2>5. CASE x = 1
    <3>1. Names(b[1], "unix-command:") /\ b[1].ind = 0
      BY DEF PlainBlock
    <3>2. b[1] # Blank /\ ~Mentions(b[1]) /\ b[1].text # "ndpi"
      BY <3>1, NamesIs DEF Mentions
    <3>3. IsKey(b[1]) /\ Key(b[1])
      BY <2>3, <2>5, <3>1, <3>2, Zenon DEF IsKey, Key
    <3> QED
      BY <2>1, <2>2, <2>4, <2>5, <3>1, <3>3
  <2>6. CASE x \in 2 .. n
    <3>1. l # i
      BY <2>1, <2>6
    <3>2. b[x] = Blank \/ b[x].ind > 0
      BY <2>6 DEF PlainBlock, n
    <3> QED
      BY <2>2, <2>4, <3>1, <3>2
  <2> QED
    BY <2>1, <2>5, <2>6
<1>7. i # c /\ i \in i .. c - 1
  BY <1>1, <1>2
<1>8. CommentedOut(g)
  <2>1. Key(g[i])
    BY <1>6, <1>7
  <2>2. \A l \in i .. c - 1 : ~Silenced(g[l])
    BY <1>6
  <2> QED
    BY <1>3, <1>7, <2>1, <2>2, SplicedComments
<1>9. /\ \A l \in i .. c - 1 : ~InRest(g, l)
      /\ \A l \in i + 1 .. c - 1 : ~IsKey(g[l])
      /\ IsKey(g[i]) /\ g[i].text = "unix-command:"
  <2>1. \A l \in i + 1 .. c - 1 : g[l] = Blank \/ g[l].ind > 0
    <3>1. \A l \in i + 1 .. c - 1 : l \in i .. c - 1 /\ l # i
      BY <1>1
    <3> QED
      BY <1>6, <3>1
  <2>2. Names(g[i], "unix-command:") /\ g[i].ind = 0 /\ IsKey(g[i])
    BY <1>6, <1>7
  <2>3. g[i].text = "unix-command:"
    BY <2>2 DEF Names
  <2> QED
    BY <1>5, <1>8, <2>1, <2>2, <2>3, UnixSection
<1>10. CASE i = Len(f) + 1
  <2>1. /\ \A l \in i .. e - 1 : ~InRest(f, l)
        /\ \A l \in c .. M : FALSE
    BY <1>1, <1>10 DEF L
  <2>2. SameRest(f, g)
    BY <1>3, <1>9, <2>1, SplicedRest DEF M
  <2> QED
    BY <1>8, <2>2
<1>11. CASE FirstKey(f, "unix-command:", i) /\ EndsBlock(f, i, 0, e)
            /\ f[i].ind = 0
  <2>1. /\ i \in 1 .. Len(f) /\ e \in i .. Len(f) + 1 /\ i < e
        /\ Names(f[i], "unix-command:") /\ f[i].ind = 0
        /\ f[i].text = "unix-command:"
        /\ \A l \in i + 1 .. e - 1 : f[l] = Blank \/ f[l].ind > 0
    BY <1>11 DEF FirstKey, EndsBlock, Names
  <2>2. /\ \A l \in i .. e - 1 : ~InRest(f, l)
        /\ \A l \in i + 1 .. e - 1 : ~IsKey(f[l])
        /\ IsKey(f[i]) \/ Silenced(f[i])
    BY <2>1, UnixSection
  <2>3. ASSUME NEW x \in c .. M, Option(g[x])
        PROVE  UnderUnix(g, x) <=> UnderUnix(f, (x - c) + e)
    <3> DEFINE y == (x - c) + e
    <3>0. i < e
      BY <2>1
    <3>1. /\ x \in Nat /\ y \in Nat /\ y \in 1 .. L /\ e <= y /\ i < y /\ c <= x
          /\ i < c /\ \A l \in c .. x - 1 : l \in c .. M
      BY <1>1, <1>2, <3>0
    <3>2. TailUnix(g, c, x) <=> TailUnix(f, e, y)
      BY <1>1, <1>4, <3>1, TailShift
    <3>3. UnderUnix(g, x) <=> TailUnix(g, c, x)
      BY <1>1, <1>9, <3>1, UnderBlock
    <3>4. g[x] = f[y]
      BY <1>4
    <3> HIDE DEF y
    <3>5. IsKey(f[i]) \/ \E t \in e .. y - 1 : IsKey(f[t])
      <4> SUFFICES ASSUME Silenced(f[i])
                   PROVE  \E t \in e .. y - 1 : IsKey(f[t])
        BY <2>2
      <4>1. PICK t \in i + 1 .. y - 1 : Key(f[t])
        BY <2>1, <2>3, <3>1, <3>4, CommentedOutIs DEF L
      <4>2. IsKey(f[t]) /\ t \notin i + 1 .. e - 1
        BY <2>2, <4>1, KeyIsKey
      <4>3. t \in e .. y - 1
        BY <1>1, <3>1, <4>2
      <4> QED
        BY <4>2, <4>3
    <3>6. UnderUnix(f, y) <=> TailUnix(f, e, y)
      BY <1>1, <2>1, <2>2, <3>1, <3>5, UnderBlock
    <3> QED
      BY <3>2, <3>3, <3>6 DEF y
  <2>4. SameRest(f, g)
    BY <1>3, <1>9, <2>2, <2>3, SplicedRest DEF M
  <2> QED
    BY <1>8, <2>4
<1> QED
  BY <1>10, <1>11

\* Blank lines at the end change nothing.
LEMMA LongerRest ==
  ASSUME NEW f \in Seq(Lines), NEW g \in Seq(Lines), Len(f) <= Len(g),
         \A l \in 1 .. Len(f) : g[l] = f[l],
         \A l \in 1 .. Len(g) : l \notin 1 .. Len(f) => g[l] = Blank,
         CommentedOut(f)
  PROVE  SameRest(f, g) /\ CommentedOut(g)
<1> DEFINE i == Len(f) + 1
           c == Len(g) + 1
<1>1. /\ i \in Nat /\ c \in Nat /\ i <= c /\ Len(f) \in Nat /\ Len(g) \in Nat
      /\ i \in 1 .. Len(f) + 1 /\ i \in i .. Len(f) + 1 /\ c \in i .. Len(g) + 1
      /\ Len(g) - c = Len(f) - i
      /\ \A l \in 1 .. i - 1 : l \in 1 .. Len(f)
      /\ \A l \in i .. c - 1 : l \in 1 .. Len(g) /\ l \notin 1 .. Len(f)
      /\ \A l \in c .. Len(g) : FALSE
      /\ \A l \in i .. i - 1 : FALSE
  OBVIOUS
<1> HIDE DEF i, c
<1>2. Spliced(f, g, i, i, c)
  BY <1>1 DEF Spliced
<1>3. \A l \in i .. c - 1 : g[l] = Blank
  BY <1>1
<1>4. \A l \in i .. c - 1 : ~InRest(g, l) /\ ~Silenced(g[l]) /\ ~Option(g[l])
  BY <1>3, Nothing DEF Option
<1>5. SameRest(f, g)
  BY <1>1, <1>2, <1>4, SplicedRest
<1>6. CommentedOut(g)
  BY <1>1, <1>2, <1>4, SplicedComments
<1> QED
  BY <1>5, <1>6

LEMMA SeparatedRest ==
  ASSUME NEW f \in Seq(Lines), CommentedOut(f)
  PROVE  /\ Separated(f) \in Seq(Lines) /\ SameRest(f, Separated(f))
         /\ CommentedOut(Separated(f))
<1> DEFINE g == Separated(f)
<1>1. /\ g \in Seq(Lines) /\ Len(g) \in {Len(f), Len(f) + 1}
      /\ \A l \in 1 .. Len(f) : g[l] = f[l]
      /\ \A l \in 1 .. Len(g) : l \notin 1 .. Len(f) => g[l] = Blank
  BY SeparatedIs
<1> HIDE DEF g
<1>2. Len(f) <= Len(g)
  BY <1>1
<1>3. g \in Seq(Lines) /\ SameRest(f, g) /\ CommentedOut(g)
  BY <1>1, <1>2, LongerRest
<1> QED
  BY <1>3 DEF g

LEMMA TerminatedRest ==
  ASSUME NEW f \in Seq(Lines), CommentedOut(f)
  PROVE  SameRest(f, Terminated(f)) /\ CommentedOut(Terminated(f))
<1> DEFINE g == Terminated(f)
<1>1. /\ g \in Seq(Lines) /\ Len(g) \in {Len(f), Len(f) + 1}
      /\ \A l \in 1 .. Len(f) : g[l] = f[l]
      /\ \A l \in 1 .. Len(g) : l \notin 1 .. Len(f) => g[l] = Blank
  BY TerminatedIs DEF Files
<1> HIDE DEF g
<1>2. Len(f) <= Len(g)
  BY <1>1
<1>3. SameRest(f, g) /\ CommentedOut(g)
  BY <1>1, <1>2, LongerRest
<1> QED
  BY <1>3 DEF g

LEMMA UnixStepRest ==
  ASSUME NEW f \in Seq(Lines), NEW g \in Seq(Lines), NEW b, PlainBlock(b),
         UnixStep(f, g, b), UnixFlush(f), CommentedOut(f)
  PROVE  SameRest(f, g) /\ CommentedOut(g)
<1>1. CASE AppendsBlock(f, g, b)
  <2> DEFINE s == Separated(f)
             i == Len(s) + 1
  <2>1. s \in Seq(Lines) /\ SameRest(f, s) /\ CommentedOut(s)
    BY SeparatedRest
  <2>2. PutsBlock(s, g, b, i, i)
    BY <1>1 DEF AppendsBlock
  <2> HIDE DEF s
  <2>3. SameRest(s, g) /\ CommentedOut(g)
    BY <2>1, <2>2, PutRest
  <2> QED
    BY <2>1, <2>3, SameRestTransitive
<1>2. ASSUME NEW i \in Nat, NEW e \in Nat, ReplacesBlock(f, g, b, i, e)
      PROVE  SameRest(f, g) /\ CommentedOut(g)
  <2>1. /\ FirstKey(f, "unix-command:", i) /\ EndsBlock(f, i, 0, e)
        /\ PutsBlock(f, g, b, i, e)
    BY <1>2 DEF ReplacesBlock
  <2>2. f[i].ind = 0
    BY <2>1 DEF UnixFlush, KeyLines, FirstKey
  <2> QED
    BY <2>1, <2>2, PutRest
<1> QED
  BY <1>1, <1>2 DEF UnixStep

\* Making the plugins key and an entry below it active keeps the rest.
LEMMA OpenedRest ==
  ASSUME NEW f \in Seq(Lines), NEW g \in Seq(Lines), Len(g) = Len(f),
         NEW k \in 1 .. Len(f), Names(f[k], "plugins:"), CommentedOut(f),
         g[k] = UncommentLine(f[k]),
         \A l \in 1 .. Len(f) : l # k =>
           \/ g[l] = f[l]
           \/ Mentions(f[l]) /\ f[l].ind > 0 /\ g[l] = UncommentLine(f[l])
  PROVE  SameRest(f, g) /\ CommentedOut(g)
<1>1. \A l \in 1 .. Len(f) : f[l] \in Lines
  OBVIOUS
<1>2. \A l \in 1 .. Len(f) : g[l].text = f[l].text /\ g[l].ind = f[l].ind
  <2>1. \A l \in 1 .. Len(f) : g[l] = f[l] \/ g[l] = UncommentLine(f[l])
    OBVIOUS
  <2> QED
    BY <1>1, <2>1, UncommentIs
<1>3. /\ f[k] # Blank /\ g[k] # Blank /\ g[k].text = "plugins:"
      /\ ~Commented(g[k])
  <2>1. Names(g[k], "plugins:") /\ g[k].marks = 0
    BY <1>1, KeyUncommented
  <2> QED
    BY <2>1, NamesIs DEF Names, Commented
<1>4. IsKey(f[k]) => g[k] = f[k]
  <2>1. IsKey(f[k]) => f[k].marks = 0
    BY <1>1 DEF IsKey, Commented, Lines
  <2> QED
    BY <1>1, <2>1, UncommentIs
<1>5. IsKey(g[k]) /\ ~IsKey(f[k]) => Silenced(f[k])
  <2>1. f[k].text # "ndpi"
    BY DEF Names
  <2> QED
    BY <1>2, <1>3, <2>1 DEF IsKey, Silenced
<1>6. ASSUME NEW l \in 1 .. Len(f), l # k
      PROVE  /\ IsKey(g[l]) <=> IsKey(f[l])
             /\ Option(g[l]) <=> Option(f[l])
             /\ Key(f[l]) => Key(g[l])
             /\ g[l] # f[l] => ~InRest(f, l) /\ ~InRest(g, l)
  <2>1. CASE g[l] = f[l]
    BY <2>1
  <2>2. CASE Mentions(f[l]) /\ f[l].ind > 0 /\ g[l] = UncommentLine(f[l])
    <3>1. Mentions(g[l]) /\ g[l].ind > 0
      <4>1. g[l].text = f[l].text /\ g[l].ind = f[l].ind
        BY <1>2
      <4> QED
        BY <2>2, <4>1 DEF Mentions
    <3>2. ~IsKey(f[l]) /\ ~IsKey(g[l])
      BY <2>2, <3>1, Nothing
    <3>3. ~Option(f[l]) /\ ~Option(g[l]) /\ ~Key(f[l])
      BY <2>2, <3>1, Zenon DEF Option, Key
    <3> QED
      BY <3>2, <3>3 DEF InRest
  <2> QED
    BY <1>6, <2>1, <2>2
<1>7. ~Option(f[k]) /\ ~Option(g[k]) /\ ~InRest(f, k) /\ ~InRest(g, k)
  BY <1>2, <1>3, Nothing DEF Option
<1>8. Key(f[k]) => Key(g[k])
  BY <1>4, KeyIsKey
<1>9. \A l \in 1 .. Len(f) : Silenced(g[l]) => Silenced(f[l])
  <2>1. ~Silenced(g[k])
    BY <1>3 DEF Silenced
  <2>2. ASSUME NEW l \in 1 .. Len(f), Mentions(f[l]) PROVE ~Silenced(g[l])
    <3>1. Mentions(g[l])
      BY <1>2, <2>2 DEF Mentions
    <3> QED
      BY <3>1, NamesIs DEF Silenced
  <2> QED
    BY <2>1, <2>2
<1>10. CommentedOut(g)
  <2> SUFFICES ASSUME NEW x \in 1 .. Len(f), NEW y \in 1 .. Len(f), x < y,
                      Option(g[y]), Silenced(g[x])
               PROVE  \E s \in x + 1 .. y - 1 : Key(g[s])
    BY CommentedOutIs
  <2>1. Option(f[y]) /\ Silenced(f[x])
    BY <1>6, <1>7, <1>9
  <2>2. PICK s \in x + 1 .. y - 1 : Key(f[s])
    BY <2>1, CommentedOutIs
  <2>3. s \in 1 .. Len(f)
    OBVIOUS
  <2> QED
    BY <1>6, <1>8, <2>2, <2>3
<1>11. ASSUME NEW x \in 1 .. Len(f), Option(f[x])
       PROVE  UnderUnix(f, x) <=> UnderUnix(g, x)
  <2>1. CASE IsKey(f[k]) \/ ~IsKey(g[k]) \/ x <= k
    <3>1. ASSUME NEW s \in 1 .. x - 1
          PROVE  (IsKey(f[s]) <=> IsKey(g[s])) /\ g[s].text = f[s].text
      <4>1. s \in 1 .. Len(f) /\ (x <= k => s # k)
        OBVIOUS
      <4>2. CASE s # k
        BY <1>2, <1>6, <4>1, <4>2
      <4>3. CASE s = k
        BY <1>2, <1>4, <2>1, <4>1, <4>3
      <4> QED
        BY <4>2, <4>3
    <3>2. \A s \in 1 .. x - 1 : \A t \in s + 1 .. x - 1 : t \in 1 .. x - 1
      OBVIOUS
    <3> QED
      BY <3>1, <3>2 DEF UnderUnix
  <2>2. CASE ~IsKey(f[k]) /\ IsKey(g[k]) /\ ~(x <= k)
    <3> DEFINE e == k + 1
    <3>1. /\ k \in Nat /\ e \in Nat /\ x \in Nat /\ 1 <= k /\ k < e /\ e <= x
          /\ k < x /\ \A l \in k + 1 .. e - 1 : FALSE
      BY <2>2
    <3>2. \A t \in e .. x - 1 : t \in 1 .. Len(f) /\ t # k
      BY <3>1
    <3>3. PICK s \in k + 1 .. x - 1 : Key(f[s])
      BY <1>5, <1>11, <2>2, <3>1, CommentedOutIs
    <3> HIDE DEF e
    <3>4. s \in e .. x - 1 /\ IsKey(f[s]) /\ IsKey(g[s])
      BY <1>6, <3>2, <3>3, KeyIsKey DEF e
    <3>5. UnderUnix(f, x) <=> TailUnix(f, e, x)
      BY <3>1, <3>4, UnderBlock
    <3>6. UnderUnix(g, x) <=> TailUnix(g, e, x)
      BY <3>1, <3>4, UnderBlock
    <3>7. TailUnix(f, e, x) <=> TailUnix(g, e, x)
      <4>1. \A t \in e .. x - 1 :
              (IsKey(f[t]) <=> IsKey(g[t])) /\ g[t].text = f[t].text
        BY <1>2, <1>6, <3>2
      <4>2. \A r \in e .. x - 1 : \A t \in r + 1 .. x - 1 : t \in e .. x - 1
        BY <3>1
      <4> QED
        BY <4>1, <4>2 DEF TailUnix
    <3> QED
      BY <3>5, <3>6, <3>7
  <2> QED
    BY <2>1, <2>2
<1>12. ASSUME NEW l \in 1 .. Len(f)
       PROVE  /\ InRest(f, l) <=> InRest(g, l)
              /\ InRest(f, l) => g[l] = f[l]
  <2>1. CASE g[l] = f[l]
    BY <1>11, <2>1 DEF InRest
  <2>2. CASE g[l] # f[l]
    BY <1>6, <1>7, <2>2
  <2> QED
    BY <2>1, <2>2
<1>13. Rest(f) = Rest(g) /\ \A l \in Rest(f) : g[l] = f[l]
  BY <1>12, RestIs
<1>14. SameRest(f, g)
  <2> DEFINE at == [l \in Rest(f) |-> l]
  <2>1. at \in [Rest(f) -> Rest(g)] /\ \A l \in Rest(f) : at[l] = l
    BY <1>13
  <2> HIDE DEF at
  <2> QED
    BY <1>13, <2>1 DEF SameRest
<1> QED
  BY <1>10, <1>14

\* The plugin's entry is not of the rest, nor is its key.
LEMMA EntryApart ==
  ASSUME NEW g, NEW i
  PROVE  /\ g[i] = TopKey => /\ ~InRest(g, i) /\ ~Silenced(g[i]) /\ Key(g[i])
         /\ Mentions(g[i]) /\ g[i].ind > 0 /\ g[i].marks = 0 =>
              /\ ~InRest(g, i) /\ ~Silenced(g[i]) /\ ~Option(g[i])
              /\ ~IsKey(g[i])
<1>1. ASSUME g[i].marks = 0 PROVE ~Commented(g[i])
  BY <1>1 DEF Commented
<1>2. ASSUME g[i] = TopKey
      PROVE  /\ ~InRest(g, i) /\ ~Silenced(g[i]) /\ Key(g[i])
  <2>1. /\ g[i] # Blank /\ ~Mentions(g[i]) /\ Names(g[i], "plugins:")
        /\ g[i].ind = 0 /\ ~Commented(g[i])
    BY <1>1, <1>2, TopKeyIs
  <2>2. ~Silenced(g[i]) /\ Key(g[i])
    BY <2>1, Zenon DEF Silenced, Key
  <2>3. g[i].text = "plugins:"
    BY <2>1 DEF Names
  <2>4. ~InRest(g, i)
    BY <2>3, Nothing
  <2> QED
    BY <2>2, <2>4
<1>3. ASSUME Mentions(g[i]), g[i].ind > 0, g[i].marks = 0
      PROVE  /\ ~InRest(g, i) /\ ~Silenced(g[i]) /\ ~Option(g[i])
             /\ ~IsKey(g[i])
  <2>1. ~Silenced(g[i]) /\ ~Option(g[i])
    BY <1>1, <1>3, Zenon DEF Silenced, Option
  <2>2. ~IsKey(g[i])
    BY <1>3, Nothing
  <2> QED
    BY <2>1, <2>2 DEF InRest
<1> QED
  BY <1>2, <1>3

LEMMA PluginsStepRest ==
  ASSUME NEW f \in Seq(Lines), NEW g \in Seq(Lines), NEW ndpi, IsPlugin(ndpi),
         PluginsStep(f, g, NewEntry(ndpi, 0)), CommentedOut(f)
  PROVE  SameRest(f, g) /\ CommentedOut(g)
<1> DEFINE new == NewEntry(ndpi, 0)
<1>1. Mentions(new) /\ new.ind > 0 /\ new.marks = 0
  <2>1. Mentions(new) /\ new.ind = 2 /\ new.marks = 0
    BY NewEntryIs
  <2> HIDE DEF new
  <2>2. new.ind > 0
    BY <2>1
  <2> QED
    BY <2>1, <2>2
<1>2. PluginsStep(f, g, new)
  OBVIOUS
<1> HIDE DEF new
<1>3. CASE AddsSection(f, g, new)
  <2> DEFINE s == Separated(f)
             m == Len(s)
             i == m + 1
             c == m + 3
  <2>1. s \in Seq(Lines) /\ SameRest(f, s) /\ CommentedOut(s)
    BY SeparatedRest
  <2>2. /\ Len(g) = m + 2 /\ \A l \in 1 .. m : g[l] = s[l]
        /\ g[m + 1] = TopKey /\ g[m + 2] = new
    BY <1>3 DEF AddsSection
  <2> HIDE DEF s
  <2>3. m \in Nat /\ m = Len(s)
    BY <2>1
  <2> HIDE DEF m
  <2>4. /\ i \in 1 .. m + 1 /\ i \in i .. m + 1 /\ c \in i .. Len(g) + 1
        /\ Len(g) - c = m - i /\ i # c
        /\ \A l \in 1 .. i - 1 : l \in 1 .. m
        /\ \A l \in c .. Len(g) : FALSE
        /\ \A l \in i .. i - 1 : FALSE
        /\ \A l \in i .. c - 1 : l = m + 1 \/ l = m + 2
    BY <2>2, <2>3
  <2>5. g[i] = TopKey /\ \A l \in i .. c - 1 : g[l] = TopKey \/ g[l] = new
    BY <2>2, <2>4
  <2> HIDE DEF i, c
  <2>6. Spliced(s, g, i, i, c)
    BY <2>2, <2>3, <2>4 DEF Spliced
  <2>7. \A l \in i .. c - 1 : ~InRest(g, l) /\ ~Silenced(g[l])
    BY <1>1, <2>5, EntryApart
  <2>8. Key(g[i])
    BY <2>5, EntryApart
  <2>9. SameRest(s, g)
    BY <2>1, <2>4, <2>6, <2>7, SplicedRest
  <2>10. CommentedOut(g)
    BY <2>1, <2>4, <2>6, <2>7, <2>8, SplicedComments
  <2> QED
    BY <2>1, <2>9, <2>10, SameRestTransitive
<1>4. ASSUME NEW k \in Nat, NEW e \in Nat, AddsEntry(f, g, new, k, e)
      PROVE  SameRest(f, g) /\ CommentedOut(g)
  <2> DEFINE h == Open(f, k)
             L == Len(f)
             c == e + 1
  <2>1. k \in 1 .. L /\ Names(f[k], "plugins:") /\ e \in k + 1 .. L + 1
    BY <1>4 DEF AddsEntry, FirstKey, EndsBlock
  <2>2. /\ h \in Seq(Lines) /\ Len(h) = L
        /\ \A l \in 1 .. L :
             h[l] = IF l = k THEN UncommentLine(f[l]) ELSE f[l]
    BY <2>1, OpenAt
  <2> HIDE DEF h
  <2>3. SameRest(f, h) /\ CommentedOut(h)
    BY <2>1, <2>2, OpenedRest
  <2>4. /\ Len(g) = L + 1
        /\ \A l \in 1 .. L + 1 :
             g[l] = IF l = k THEN UncommentLine(f[l])
                    ELSE IF l < e THEN f[l]
                    ELSE IF l = e THEN new
                    ELSE f[l - 1]
    BY <1>4 DEF AddsEntry
  <2>5. L \in Nat /\ L = Len(f)
    OBVIOUS
  <2> HIDE DEF L
  <2>6. /\ e \in 1 .. L + 1 /\ e \in e .. L + 1 /\ c \in e .. Len(g) + 1
        /\ Len(g) - c = L - e
        /\ \A l \in e .. e - 1 : FALSE
        /\ \A l \in e .. c - 1 : l = e
        /\ \A l \in 1 .. e - 1 : l \in 1 .. L /\ l \in 1 .. L + 1 /\ l < e
        /\ \A l \in c .. Len(g) :
             /\ l \in 1 .. L + 1 /\ l # k /\ ~(l < e) /\ l # e
             /\ l - 1 \in 1 .. L /\ l - 1 # k /\ (l - c) + e = l - 1
        /\ e \in 1 .. L + 1 /\ e # k /\ ~(e < e)
    BY <2>1, <2>4, <2>5
  <2>7. g[e] = new
    BY <2>4, <2>6
  <2>8. \A l \in 1 .. e - 1 : g[l] = h[l]
    BY <2>2, <2>4, <2>6
  <2>9. \A l \in c .. Len(g) : g[l] = h[(l - c) + e]
    <3>1. \A l \in c .. Len(g) : g[l] = f[l - 1] /\ h[l - 1] = f[l - 1]
      BY <2>2, <2>4, <2>6
    <3> QED
      BY <2>6, <3>1
  <2> HIDE DEF c
  <2>10. Spliced(h, g, e, e, c)
    BY <2>2, <2>6, <2>8, <2>9 DEF Spliced
  <2>11. \A l \in e .. c - 1 :
           ~InRest(g, l) /\ ~Silenced(g[l]) /\ ~Option(g[l]) /\ ~IsKey(g[l])
    BY <1>1, <2>6, <2>7, EntryApart
  <2>12. \A x \in c .. Len(g) : UnderUnix(g, x) <=> UnderUnix(h, (x - c) + e)
    BY <2>2, <2>6, <2>10, <2>11, SplicedUnder
  <2>13. SameRest(h, g)
    BY <2>2, <2>6, <2>10, <2>11, <2>12, SplicedRest
  <2>14. CommentedOut(g)
    BY <2>2, <2>3, <2>10, <2>11, SplicedComments
  <2> QED
    BY <2>2, <2>3, <2>13, <2>14, SameRestTransitive
<1>5. ASSUME NEW k \in Nat, NEW e \in Nat, NEW j \in Nat,
             OpensEntry(f, g, k, e, j)
      PROVE  SameRest(f, g) /\ CommentedOut(g)
  <2>1. /\ k \in 1 .. Len(f) /\ Names(f[k], "plugins:") /\ Len(g) = Len(f)
        /\ j \in k + 1 .. e - 1 /\ Mentions(f[j])
        /\ \A l \in k + 1 .. e - 1 : f[l] = Blank \/ f[l].ind > 0
        /\ \A l \in 1 .. Len(f) :
             g[l] = IF l = k \/ l = j THEN UncommentLine(f[l]) ELSE f[l]
    BY <1>5 DEF OpensEntry, FirstKey, EndsBlock
  <2>2. f[j].ind > 0
    BY <2>1, MentionIsText
  <2>3. \A l \in 1 .. Len(f) : l # k =>
          \/ g[l] = f[l]
          \/ Mentions(f[l]) /\ f[l].ind > 0 /\ g[l] = UncommentLine(f[l])
    BY <2>1, <2>2
  <2>4. g[k] = UncommentLine(f[k])
    BY <2>1
  <2> QED
    BY <2>1, <2>3, <2>4, OpenedRest
<1> QED
  BY <1>2, <1>3, <1>4, <1>5 DEF PluginsStep

\* The patch as a whole.
LEMMA PatchRest ==
  ASSUME TemplateFlush, NEW f \in Files, UnixFlush(f), CommentedOut(f)
  PROVE  /\ SameRest(f, PatchFromTemplate(Template, f).lines)
         /\ CommentedOut(PatchFromTemplate(Template, f).lines)
<1> DEFINE b == UnixBlock
           u == UnixPatched(f).lines
           p == PluginsPatched(f).lines
<1>1. f \in Seq(Lines) /\ u \in Seq(Lines)
  BY UnixPatchedIs DEF Files
<1>2. SameRest(f, u) /\ CommentedOut(u)
  <2>1. CASE KeyLines(Template, "unix-command:") = {}
    <3>1. u = f
      BY <2>1, UnixPatchedSteps
    <3> HIDE DEF u
    <3>2. Len(f) \in Nat /\ \A l \in 1 .. Len(f) : f[l] = f[l]
      BY <1>1
    <3>3. SameRest(f, f)
      BY <1>1, <3>2, LongerRest
    <3> QED
      BY <3>1, <3>3
  <2>2. CASE KeyLines(Template, "unix-command:") # {}
    <3>1. PlainBlock(b) /\ UnixStep(f, u, b)
      BY <2>2, UnixBlockPlain, UnixPatchedSteps
    <3> HIDE DEF b, u
    <3> QED
      BY <1>1, <3>1, UnixStepRest
  <2> QED
    BY <2>1, <2>2
<1>3. p \in Seq(Lines) /\ PluginsStep(u, p, NewEntry(TemplateEntry, 0))
  BY <1>1, TemplateEntryIs, PluginsStepIs DEF PluginsPatched
<1>4. PatchFromTemplate(Template, f).lines = Terminated(p)
  BY PatchIsBoth DEF Patched
<1> HIDE DEF u, p
<1>5. SameRest(u, p) /\ CommentedOut(p)
  BY <1>1, <1>2, <1>3, TemplateEntryIs, PluginsStepRest
<1>6. SameRest(p, Terminated(p)) /\ CommentedOut(Terminated(p))
  BY <1>3, <1>5, TerminatedRest
<1>7. SameRest(f, Terminated(p))
  BY <1>2, <1>5, <1>6, SameRestTransitive
<1> QED
  BY <1>4, <1>6, <1>7

\* The mark of the plugin's line takes nothing out of a section.
LEMMA ToggleKeepsComments ==
  ASSUME NEW f \in Files, Configured(f), CommentedOut(f), NEW enable \in BOOLEAN
  PROVE  CommentedOut(SetEnabled(f, enable))
<1> DEFINE g == SetEnabled(f, enable)
           k == PluginLine(f)
           m == After(f[k].marks, enable)
<1>1. Agree(f, g, k, m)
  BY SetEnabledIs
<1>2. k \in 1 .. Len(f) /\ Mentions(f[k]) /\ f[k] \in Lines
  BY PluginLineIs, MentionIsText DEF Files
<1>0. m \in Nat
  BY <1>2, AfterIs
<1> HIDE DEF g, k, m
<1>3. f \in Seq(Lines) /\ g \in Seq(Lines)
  BY <1>1 DEF Agree, Files
<1>4. /\ \A l \in 1 .. Len(g) : g[l] # Blank => l \in 1 .. Len(f)
      /\ \A l \in 1 .. Len(f) : f[l] # Blank => l \in 1 .. Len(g)
      /\ \A l \in 1 .. Len(g) :
           l \in 1 .. Len(f) /\ l # k => g[l] = f[l]
  BY <1>1 DEF Agree
<1>5. k \in 1 .. Len(g) => Mentions(g[k])
  <2>1. k \in 1 .. Len(g) => g[k] = Marked(f[k], m)
    BY <1>1, <1>2 DEF Agree
  <2>2. Mentions(Marked(f[k], m))
    BY <1>0, <1>2, MarkedIs
  <2> QED
    BY <2>1, <2>2
<1>6. \A line : Mentions(line) => ~Option(line) /\ ~Silenced(line) /\ ~Key(line)
  <2> SUFFICES ASSUME NEW line, Mentions(line)
               PROVE  ~Option(line) /\ ~Silenced(line) /\ ~Key(line)
    OBVIOUS
  <2>1. ~Option(line) /\ ~Key(line)
    BY Zenon DEF Option, Key
  <2>2. ~Names(line, "plugins:") /\ ~Names(line, "unix-command:")
    BY NamesIs
  <2> QED
    BY <2>1, <2>2, Zenon DEF Silenced
<1>7. \A line : Option(line) \/ Silenced(line) \/ Key(line) => line # Blank
  <2>1. \A line : Option(line) \/ Key(line) => line # Blank
    BY Zenon DEF Option, Key
  <2>2. ~Silenced(Blank)
    BY BlankIs, Zenon DEF Silenced
  <2> QED
    BY <2>1, <2>2
<1>8. \A l \in 1 .. Len(g) : Option(g[l]) \/ Silenced(g[l]) =>
        l \in 1 .. Len(f) /\ g[l] = f[l]
  BY <1>4, <1>5, <1>6, <1>7
<1>9. \A l \in 1 .. Len(f) : Key(f[l]) => l \in 1 .. Len(g) /\ g[l] = f[l]
  BY <1>2, <1>4, <1>6, <1>7
<1>10. CommentedOut(g)
  <2> SUFFICES ASSUME NEW x \in 1 .. Len(g), NEW y \in 1 .. Len(g), x < y,
                      Option(g[y]), Silenced(g[x])
               PROVE  \E s \in x + 1 .. y - 1 : Key(g[s])
    BY <1>3, CommentedOutIs
  <2>1. /\ x \in 1 .. Len(f) /\ y \in 1 .. Len(f)
        /\ Option(f[y]) /\ Silenced(f[x])
    BY <1>8
  <2>2. PICK s \in x + 1 .. y - 1 : Key(f[s])
    BY <1>3, <2>1, CommentedOutIs
  <2>3. s \in 1 .. Len(f)
    BY <1>3, <2>1
  <2> QED
    BY <1>9, <2>2, <2>3
<1> QED
  BY <1>10 DEF g

\* SuricataConfig.tla: if no file has the key of the control socket indented,
\* or a key commented out without what belongs to it, a patch neither loses nor
\* reorders nor adds anything but that key's section and the plugin's entry.
THEOREM RestIsKept ==
  ASSUME \A f \in InitialFiles : UnixFlush(f) /\ CommentedOut(f), TemplateFlush
  PROVE  Spec => []PatchKeepsTheRest
<1> DEFINE IInv == TypeOK /\ UnixFlush(file) /\ CommentedOut(file)
<1>1. Init => CommentedOut(file)
  BY DEF Init
<1>2. IInv /\ [Next]_vars => CommentedOut(file)'
  <2> SUFFICES ASSUME IInv, [Next]_vars PROVE CommentedOut(file')
    OBVIOUS
  <2>1. CASE Reconcile
    <3>1. CommentedOut(PatchFromTemplate(Template, file).lines)
      BY PatchRest DEF TypeOK
    <3> QED
      BY <2>1, <3>1 DEF Reconcile
  <2>2. ASSUME NEW enable \in BOOLEAN, Toggle(enable)
        PROVE  CommentedOut(file')
    <3>1. Configured(file) => CommentedOut(SetEnabled(file, enable))
      BY ToggleKeepsComments DEF TypeOK
    <3> QED
      BY <2>2, <3>1 DEF Toggle
  <2>3. CASE UNCHANGED vars
    BY <2>3 DEF vars
  <2> QED
    BY <2>1, <2>2, <2>3 DEF Next
<1>3. IInv => PatchKeepsTheRest
  BY PatchRest DEF TypeOK, PatchKeepsTheRest
<1>4. Spec => [](TypeOK /\ UnixFlush(file))
  BY FlushKept
<1> QED
  BY <1>1, <1>2, <1>3, <1>4, PTL DEF Spec

=============================================================================

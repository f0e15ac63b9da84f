----------------------------- MODULE SuricataYaml ------------------------------
(***************************************************************************)
(* How suricata.yaml is edited: the patch that Reconcile applies           *)
(* (integration/patch_suricata_config.go) and the toggle of the plugin     *)
(* line (integration/ndpi_toggle.go), as operators on sequences of lines.  *)
(*                                                                         *)
(* A line is what the editing tells apart: its text without indentation    *)
(* and comment marks, its indentation, and how many marks stand between    *)
(* the two: the code takes off one at a time.  Blanks next to a mark are   *)
(* not told apart: it writes "# - x" where "#- x" was.  A file is what     *)
(* splitting it at the newlines gives, so that the last line of one that   *)
(* ends with a newline is blank.                                           *)
(***************************************************************************)
EXTENDS Naturals, Sequences

Line(text, ind, marks) == [text |-> text, ind |-> ind, marks |-> marks]
Blank == Line("", 0, 0)
Commented(line) == line.marks > 0

\* The lines the patch takes for the plugin's are all that name ndpi.so: the
\* entry of the plugin list, "ndpi", and prose with or without a "-", "note"
\* and "hint".  The toggle wants the "-" too.  Neither counts the marks.
Mentions(line) == line.text \in {"ndpi", "note", "hint"}
Matches(line) == line.text \in {"ndpi", "note"}

\* The key of a block may be commented, but only once.
Names(line, key) == line.text = key /\ line.marks <= 1

Least(S) == CHOOSE i \in S : \A j \in S : i <= j
LastOf(lines) == lines[Len(lines)]

CommentLine(line) == IF Commented(line) THEN line ELSE [line EXCEPT !.marks = 1]

\* A plausible bug: the indentation goes with the comment mark.
UncommentLineFlush(line) ==
  IF Commented(line) THEN [line EXCEPT !.marks = @ - 1, !.ind = 0] ELSE line

\* One mark, of as many as there are.
UncommentLine(line) ==
  IF Commented(line) THEN [line EXCEPT !.marks = @ - 1] ELSE line

\* A file is written with a newline at its end.
Terminated(lines) ==
  IF Len(lines) >= 2 /\ LastOf(lines) = Blank THEN lines ELSE Append(lines, Blank)

-----------------------------------------------------------------------------
(* PatchSuricataConfigFromTemplate *)

KeyLines(lines, key) == {i \in DOMAIN lines : Names(lines[i], key)}

\* The first line after i, with no more than the given indentation, that is
\* not blank: the end of a block.  A comment ends it like any other line.
BlockEnd(lines, i, indent) ==
  Least({j \in i + 1 .. Len(lines) :
           lines[j] # Blank /\ lines[j].ind <= indent} \cup {Len(lines) + 1})

\* A plausible bug: the end of a block taken for its last line.
ReplaceOneMore(lines, first, end, block) ==
  SubSeq(lines, 1, first - 1) \o block \o SubSeq(lines, end + 1, Len(lines))

Replace(lines, first, end, block) ==
  SubSeq(lines, 1, first - 1) \o block \o SubSeq(lines, end, Len(lines))

FirstBlock(lines, key) ==
  LET i == Least(KeyLines(lines, key))
  IN  SubSeq(lines, i, BlockEnd(lines, i, lines[i].ind) - 1)

MakeBlockUncommented(block) == [i \in DOMAIN block |-> UncommentLine(block[i])]

\* A block appended to a file begins on a line after a blank one.
Separated(lines) ==
  IF lines # <<>> /\ LastOf(lines) # Blank THEN Append(lines, Blank) ELSE lines

Patched(lines, changed) == [lines |-> lines, changed |-> changed]

\* A plausible bug: a block is replaced without a look at what it is.
EnsureBlockAlways(lines, tplBlock, key) ==
  LET tpl   == MakeBlockUncommented(tplBlock)
      first == Least(KeyLines(lines, key))
      end   == BlockEnd(lines, first, lines[first].ind)
  IN  IF KeyLines(lines, key) = {}
        THEN Patched(Separated(lines) \o tpl, TRUE)
        ELSE Patched(Replace(lines, first, end, tpl), TRUE)

\* ensureBlockExact
EnsureBlockExact(lines, tplBlock, key) ==
  LET tpl   == MakeBlockUncommented(tplBlock)
      first == Least(KeyLines(lines, key))
      end   == BlockEnd(lines, first, lines[first].ind)
  IN  IF KeyLines(lines, key) = {}
        THEN Patched(Separated(lines) \o tpl, TRUE)
      ELSE IF SubSeq(lines, first, end - 1) = tpl
        THEN Patched(lines, FALSE)
        ELSE Patched(Replace(lines, first, end, tpl), TRUE)

\* A plausible bug: the entry is indented from the entries, not from the key.
NewEntryDeeper(ndpi, indent) == [ndpi EXCEPT !.ind = indent + 4]

NewEntry(ndpi, indent) == [ndpi EXCEPT !.ind = indent + 2]

\* A plausible bug: the whole rest of the file is searched.
PluginEntriesBelow(lines, key, end) ==
  {j \in key + 1 .. Len(lines) : Mentions(lines[j])}

PluginEntries(lines, key, end) ==
  {j \in key + 1 .. end - 1 : Mentions(lines[j])}

\* A plausible bug: the line stays commented out.
OpenNot(lines, i) == lines

Open(lines, i) == [lines EXCEPT ![i] = UncommentLine(lines[i])]

\* ensurePluginsNDPI: uncommenting the key alone does not count as a change,
\* taking one mark off an entry that keeps another does.
EnsurePluginsNDPI(lines, indent, ndpi) ==
  LET key   == Least(KeyLines(lines, "plugins:"))
      end   == BlockEnd(lines, key, indent)
      open  == Open(lines, key)
      found == PluginEntries(lines, key, end)
  IN  IF KeyLines(lines, "plugins:") = {}
        THEN Patched(Separated(lines) \o
                     <<Line("plugins:", 0, 0), NewEntry(ndpi, 0)>>, TRUE)
      ELSE IF found = {}
        THEN Patched(Replace(open, end, end, <<NewEntry(ndpi, indent)>>), TRUE)
        ELSE LET j == Least(found)
             IN  Patched(Open(open, j), Commented(open[j]))

\* Callers check first that the template has both blocks and the plugin line.
TemplateOK(template) ==
  /\ KeyLines(template, "plugins:") # {}
  /\ \E i \in DOMAIN FirstBlock(template, "plugins:") :
        Mentions(FirstBlock(template, "plugins:")[i])

PatchFromTemplate(template, current) ==
  LET plugins == FirstBlock(template, "plugins:")
      ndpi    == plugins[Least({i \in DOMAIN plugins : Mentions(plugins[i])})]
      unix    == IF KeyLines(template, "unix-command:") = {}
                   THEN Patched(current, FALSE)
                   ELSE EnsureBlockExact(current,
                          FirstBlock(template, "unix-command:"), "unix-command:")
      both    == EnsurePluginsNDPI(unix.lines, plugins[1].ind, ndpi)
  IN  Patched(Terminated(both.lines), unix.changed \/ both.changed)

-----------------------------------------------------------------------------
(* SetNDPIEnabledWithFS and NDPIStatusWithFS *)

\* bufio.Scanner drops the end of the last line, and with it one blank line.
ReadLines(file) ==
  IF LastOf(file) = Blank THEN SubSeq(file, 1, Len(file) - 1) ELSE file

PluginLines(file) == {i \in DOMAIN ReadLines(file) : Matches(file[i])}
PluginLine(file) == Least(PluginLines(file))

\* Status and the toggles look at the first such line of the whole file.
Configured(file) == PluginLines(file) # {}
Enabled(file) == ~Commented(file[PluginLine(file)])

SetEnabled(file, enable) ==
  IF Enabled(file) = enable THEN file
  ELSE Terminated([ReadLines(file) EXCEPT ![PluginLine(file)] =
         IF enable THEN UncommentLine(@) ELSE CommentLine(@)])

=============================================================================

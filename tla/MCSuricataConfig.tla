--------------------------- MODULE MCSuricataConfig ---------------------------
(* Instances of SuricataConfig for TLC: every file of a few lines. *)
EXTENDS SuricataConfig

CONSTANTS
  MaxLines,   \* of the files with any lines
  CleanLines  \* of the files with the line of the plugin where it belongs

KeyLine(name) == Line(name, 0, 0)
Entry(name) == Line(name, 2, 0)

\* config/suricata.yaml.tpl, which does not end with a newline.
ShippedTemplate ==
  <<KeyLine("plugins:"), Entry("ndpi"), Blank, KeyLine("unix-command:"), Entry("option")>>
TerminatedTemplate == Append(ShippedTemplate, Blank)

PluginLineForms ==
  {Entry("ndpi"), Line("ndpi", 2, 1), Line("ndpi", 2, 2), Line("ndpi", 0, 1)}
OtherLines ==
  {Blank, KeyLine("plugins:"), CommentLine(KeyLine("plugins:")), Entry("plugin"),
   KeyLine("unix-command:"), CommentLine(KeyLine("unix-command:")), Entry("option"),
   KeyLine("other:")}
Prose == {Line("note", 0, 1), Line("hint", 2, 1)}

\* Files Suricata accepts, commented as an administrator would.
FilesOf(alphabet, max) ==
  {f \in UNION {[1 .. n -> alphabet] : n \in 1 .. max} :
     Valid(f) /\ CommentedOut(f)}

\* One line of the file mentions the plugin, and it is the entry of the only
\* plugins section.
PluginLineInPlace(lines) ==
  /\ \A i, j \in DOMAIN lines :
        \/ Mentions(lines[i]) /\ Mentions(lines[j])
        \/ lines[i].text = "plugins:" /\ lines[j].text = "plugins:"
        => i = j
  /\ \A i \in DOMAIN lines : Mentions(lines[i]) =>
        \E k \in 1 .. i - 1 :
           /\ lines[k].text = "plugins:"
           /\ \A j \in k + 1 .. i : lines[j] = Blank \/ lines[j].ind > 0

CleanFiles ==
  {f \in FilesOf(OtherLines \cup {Entry("ndpi"), CommentLine(Entry("ndpi"))}, CleanLines) :
     PluginLineInPlace(f)}
AllFiles == FilesOf(OtherLines \cup PluginLineForms, MaxLines)
FilesWithProse == FilesOf(OtherLines \cup PluginLineForms \cup Prose, MaxLines)
FilesOfBothKinds == FilesWithProse \cup CleanFiles

=============================================================================

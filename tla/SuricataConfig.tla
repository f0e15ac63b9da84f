---------------------------- MODULE SuricataConfig ----------------------------
(***************************************************************************)
(* The life of one suricata.yaml: the integration service reconciles it    *)
(* with its template, the host agent switches the plugin on and off, in    *)
(* any order.  Each request is one step here; HostAgent looks inside.      *)
(* What Suricata makes of the file is external.                            *)
(***************************************************************************)
EXTENDS SuricataYaml

CONSTANTS
  Template,      \* the lines of suricata.yaml.tpl
  InitialFiles   \* the files an administrator may have left

Texts == {"", "plugins:", "unix-command:", "other:", "ndpi", "note", "hint",
          "plugin", "option"}
Lines == [text : Texts, ind : {0, 2}, marks : Nat]

\* What is split at the newlines has at least one piece.
Files == Seq(Lines) \ {<<>>}

\* A template of active lines, whose plugins key is not indented and whose
\* plugin is an item of a list.
ASSUME TemplateAssumption ==
  /\ Template \in Seq(Lines)
  /\ TemplateOK(Template)
  /\ \A i \in DOMAIN Template :
        /\ ~Commented(Template[i])
        /\ Template[i].text # "hint"
        /\ Template[i].text = "plugins:" => Template[i].ind = 0

ASSUME InitialFilesAssumption == InitialFiles \subseteq Files

VARIABLES
  file,      \* the lines of suricata.yaml
  last,      \* the last request: "enable", "disable", "reconcile" or "none"
  reply,     \* its answer
  managed    \* whether a Reconcile has written the file out of one that had
             \* no line naming ndpi.so commented more than once

vars == <<file, last, reply, managed>>

-----------------------------------------------------------------------------
(* Suricata: which files it accepts, and which make it load the plugin. *)

Active(lines) == {i \in DOMAIN lines : lines[i] # Blank /\ ~Commented(lines[i])}
Keys(lines) == {i \in Active(lines) : lines[i].ind = 0 /\ lines[i].text # "ndpi"}
Entries(lines) == {i \in Active(lines) : lines[i].text \in {"ndpi", "plugin"}}

\* The key an active line belongs to, 0 if there is none.
Section(lines, i) ==
  LET above == {k \in Keys(lines) : k < i}
  IN  IF above = {} THEN 0 ELSE CHOOSE k \in above : \A j \in above : j <= k

Valid(lines) ==
  /\ \A i \in Active(lines) : lines[i].text \notin {"note", "hint"}
  /\ \A i \in Active(lines) \ Keys(lines) :
        /\ Section(lines, i) # 0
        /\ i \in Entries(lines) <=> lines[Section(lines, i)].text = "plugins:"
  /\ \A i, j \in Entries(lines) :
        Section(lines, i) = Section(lines, j) => lines[i].ind = lines[j].ind
  /\ \A i, j \in Keys(lines) : lines[i].text = lines[j].text => i = j

Loaded(lines) ==
  Valid(lines) /\ \E i \in Entries(lines) : lines[i].text = "ndpi"

-----------------------------------------------------------------------------
(* Files an administrator may be expected to leave *)

\* The key of the control socket is not indented.
UnixFlush(lines) ==
  \A i \in KeyLines(lines, "unix-command:") : lines[i].ind = 0

Key(line) == line # Blank /\ ~Commented(line) /\ line.ind = 0 /\ ~Mentions(line)
Option(line) ==
  /\ line # Blank /\ ~Commented(line) /\ line.ind > 0 /\ ~Mentions(line)
  /\ line.text \notin {"plugins:", "unix-command:"}

\* A key that is commented out is so with all that belongs to it, and not in
\* the middle of another section.
CommentedOut(lines) ==
  \A i, j \in DOMAIN lines :
    /\ i < j /\ Option(lines[j])
    /\ Commented(lines[i])
    /\ Names(lines[i], "plugins:") \/ Names(lines[i], "unix-command:")
    => \E s \in i + 1 .. j - 1 : Key(lines[s])

\* No line that names ndpi.so is commented more than once, and only one does.
OnceCommented(lines) ==
  \A i \in DOMAIN lines : Mentions(lines[i]) => lines[i].marks <= 1
MentionedOnce(lines) ==
  \A i, j \in DOMAIN lines : Mentions(lines[i]) /\ Mentions(lines[j]) => i = j

-----------------------------------------------------------------------------
TypeOK ==
  /\ file \in Files
  /\ last \in {"none", "enable", "disable", "reconcile"}
  /\ reply \in {"none", "changed", "unchanged", "not_configured", "invalid"}
  /\ managed \in BOOLEAN

Init ==
  /\ file \in InitialFiles
  /\ last = "none"
  /\ reply = "none"
  /\ managed = FALSE

\* POST /plan: patch, have Suricata test the result, replace, restart.
Reconcile ==
  LET patched == PatchFromTemplate(Template, file)
  IN  /\ last' = "reconcile"
      /\ \/ /\ ~patched.changed
            /\ reply' = "unchanged"
            /\ UNCHANGED <<file, managed>>
         \/ /\ patched.changed /\ ~Valid(patched.lines)
            /\ reply' = "invalid"
            /\ UNCHANGED <<file, managed>>
         \/ /\ patched.changed /\ Valid(patched.lines)
            /\ file' = patched.lines
            /\ reply' = "changed" /\ managed' = OnceCommented(file)

\* POST /ndpi/enable and /ndpi/disable
Toggle(enable) ==
  /\ last' = (IF enable THEN "enable" ELSE "disable")
  /\ \/ /\ ~Configured(file)
        /\ reply' = "not_configured"
        /\ UNCHANGED file
     \/ /\ Configured(file)
        /\ file' = SetEnabled(file, enable)
        /\ reply' = IF Enabled(file) = enable THEN "unchanged" ELSE "changed"
  /\ UNCHANGED managed

Next == Reconcile \/ \E enable \in BOOLEAN : Toggle(enable)

Spec == Init /\ [][Next]_vars

-----------------------------------------------------------------------------
(* Properties *)

\* The template of the repository ends with its unix-command block, without a
\* newline.  The same block of a file that has a line after it takes in the
\* blank one that follows, and never compares equal.
LeftOpen(lines) ==
  /\ KeyLines(Template, "unix-command:") # {}
  /\ LastOf(FirstBlock(Template, "unix-command:")) # Blank
  /\ LastOf(FirstBlock(lines, "unix-command:")) = Blank

SameUpToABlank(f, g) ==
  f = g \/ \E b \in DOMAIN f : f[b] = Blank /\ g = Replace(f, b, b + 1, <<>>)

\* patch_suricata_config.go:9-47: patching what was patched changes nothing
\* more, whatever the file was and whatever was toggled in between, and says so;
\* but for the blank line after a block that is left open.  A line commented
\* twice is uncommented by two patches.
PatchConverges ==
  OnceCommented(file) =>
    LET p     == PatchFromTemplate(Template, file).lines
        again == PatchFromTemplate(Template, p)
    IN  (again.changed <=> LeftOpen(p)) /\ SameUpToABlank(p, again.lines)

\* README.md:310 describes Reconcile as restarting Suricata if needed, so it
\* does not replace the file by itself, which restarts Suricata.
RestartOnlyIfFileChanges ==
  [][last' = "reconcile" /\ reply' = "changed" => file' # file]_vars

\* patch_suricata_config.go:144-168: with any template, it does so only over a
\* block that is left open.
RestartForNothingOnlyIfOpen ==
  [][last' = "reconcile" /\ reply' = "changed" /\ file' = file
       => LeftOpen(file)]_vars

\* patch_suricata_config.go:194-234: a Reconcile that finds nothing to do in a
\* file that mentions the plugin once leaves one that loads it, but for the
\* plugins key, which may still be commented out: to open it does not count as
\* a change, and so it stays as it is.
UnchangedReconcileLoads ==
  last = "reconcile" /\ reply = "unchanged" /\ MentionedOnce(file) =>
    Loaded(Open(file, Least(KeyLines(file, "plugins:"))))

\* patch_suricata_config.go:182-234: when it does write, the plugin is loaded,
\* unless a line that names it was commented more than once.
ReconcileLoads ==
  [][last' = "reconcile" /\ reply' = "changed" /\ OnceCommented(file)
       => Loaded(file')]_vars

\* patch_suricata_config.go:144-234: of what Suricata reads in the file, a
\* patch replaces the unix-command section and the plugin's entry, and neither
\* loses nor reorders nor adds anything else.
Rest(lines) ==
  {i \in Keys(lines) : lines[i].text \notin {"plugins:", "unix-command:"}}
  \cup {i \in DOMAIN lines :
          /\ Option(lines[i])
          /\ \/ Section(lines, i) = 0
             \/ lines[Section(lines, i)].text # "unix-command:"}
SameRest(f, g) ==
  \E at \in [Rest(f) -> Rest(g)] :
     /\ \A i \in Rest(f) : g[at[i]] = f[i]
     /\ \A i, j \in Rest(f) : i < j => at[i] < at[j]
     /\ \A l \in Rest(g) : \E i \in Rest(f) : at[i] = l
PatchKeepsTheRest == SameRest(file, PatchFromTemplate(Template, file).lines)

\* ndpi_toggle.go:37-166: switching the plugin and switching it back gives the
\* lines of the file again, up to the blank ones at its end and to the blanks
\* behind a mark, if the plugin's is not commented twice.
Trimmed(lines) ==
  LET text == {i \in DOMAIN lines : lines[i] # Blank}
  IN  SubSeq(lines, 1, CHOOSE n \in text : \A i \in text : i <= n)
RoundTrip ==
  Configured(file) /\ file[PluginLine(file)].marks <= 1 =>
    LET there == SetEnabled(file, ~Enabled(file))
        back  == SetEnabled(there, Enabled(file))
    IN  Enabled(there) # Enabled(file) /\ Trimmed(back) = Trimmed(file)

\* README.md:217-218: once a Reconcile has written the file, the plugin line
\* the agent finds is the one that decides: enabling it makes Suricata load the
\* plugin, and disabling it keeps it from doing so.  That is of files in which
\* it was commented no more than once: one mark less still leaves a comment.
TogglesDecide ==
  managed /\ last \in {"enable", "disable"} => (Loaded(file) <=> last = "enable")

\* ndpi_toggle.go:37-101, patch_suricata_config.go:182-234: it does decide in
\* every file that mentions the plugin only once.
TogglesDecideIfMentionedOnce == MentionedOnce(file) => TogglesDecide

\* patch_suricata_config.go:9-47, ndpi_toggle.go:37-101: a toggle of what was
\* patched makes the next patch report a change exactly if it switched the
\* plugin off or the block is left open, and what comes out is what the toggle
\* found.  It is what IntegrationService.tla makes of the patch.
PatchUndoesDisable ==
  LET p == PatchFromTemplate(Template, file).lines
  IN  MentionedOnce(p) /\ OnceCommented(file) /\ Configured(p) =>
        \A enable \in BOOLEAN :
          LET again == PatchFromTemplate(Template, SetEnabled(p, enable))
          IN  /\ again.changed <=> ~enable \/ LeftOpen(p)
              /\ SameUpToABlank(Trimmed(p), Trimmed(again.lines))

=============================================================================

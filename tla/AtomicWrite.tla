----------------------------- MODULE AtomicWrite ------------------------------
(***************************************************************************)
(* writeFileAtomic (integration/atomic_write.go), which every write of     *)
(* suricata.yaml goes through: any number of writers replace one file by   *)
(* way of a temporary file in the same directory, while the file has       *)
(* readers, system calls fail, processes are killed and power is lost.     *)
(*                                                                         *)
(* The file system is external: inodes and one directory, each with a      *)
(* cached state the processes see and a durable one that follows it in its *)
(* own time, or at once when asked to sync.  The names CreateTemp draws    *)
(* are taken to be distinct.                                               *)
(***************************************************************************)

CONSTANTS
  Writers,  \* calls of writeFileAtomic; w is also the inode w writes
  Old,      \* the inode the file has at first
  NoFile,   \* the absence of an inode
  Faults    \* the faults that may happen, a subset of AllFaults

Inodes == Writers \cup {Old}

AllFaults ==
  {"io",      \* a call up to and including the rename fails
   "unlink",  \* the temporary file cannot be removed
   "kill",    \* a writer is killed
   "power"}   \* the host loses power

ASSUME InodesAssumption == Old \notin Writers /\ NoFile \notin Inodes
ASSUME FaultsAssumption == Faults \subseteq AllFaults

VARIABLES
  cached,   \* cached[i]: data and mode of inode i, as processes see them
  durable,  \* durable[i]: the same, as the disk has them
  dir,      \* the directory as processes see it: the file, temporary files
  ddir,     \* the directory as the disk has it
  reader,   \* the inode that a process which opened the file is reading
  pc,       \* pc[w]: the call w makes next; "left" is "done", but for the
            \* temporary file, which could not be removed
  err       \* err[w]: whether w is going to return an error

diskVars == <<durable, ddir>>
vars == <<cached, durable, dir, ddir, reader, pc, err>>

-----------------------------------------------------------------------------
InodeStates == [data : {"empty", "part", "all"}, mode : {"private", "given"}]
Directories == [target : Inodes, temps : SUBSET Writers]
Calls == {"create", "write", "chmod", "sync", "close", "rename", "syncdir",
          "remove"}

TypeOK ==
  /\ cached \in [Inodes -> InodeStates]
  /\ durable \in [Inodes -> InodeStates]
  /\ dir \in Directories
  /\ ddir \in Directories
  /\ reader \in Inodes \cup {NoFile}
  /\ pc \in [Writers -> Calls \cup {"done", "left", "dead"}]
  /\ err \in [Writers -> BOOLEAN]

Fresh == [data |-> "empty", mode |-> "private"]
Whole == [data |-> "all", mode |-> "given"]

-----------------------------------------------------------------------------
Init ==
  /\ cached = [i \in Inodes |-> IF i = Old THEN Whole ELSE Fresh]
  /\ durable = cached
  /\ dir = [target |-> Old, temps |-> {}]
  /\ ddir = dir
  /\ reader = NoFile
  /\ pc = [w \in Writers |-> "create"]
  /\ err = [w \in Writers |-> FALSE]

GoTo(w, call) == pc' = [pc EXCEPT ![w] = call]

\* A failed call returns its error by way of the given next call.
FailTo(w, call) ==
  /\ "io" \in Faults
  /\ err' = [err EXCEPT ![w] = TRUE]
  /\ GoTo(w, call)
  /\ UNCHANGED <<cached, diskVars, dir, reader>>

\* CreateTemp: a new file that only its owner may open.
Create(w) ==
  /\ pc[w] = "create"
  /\ \/ FailTo(w, "done")
     \/ /\ dir' = [dir EXCEPT !.temps = @ \cup {w}]
        /\ GoTo(w, "write")
        /\ UNCHANGED <<cached, diskVars, reader, err>>

\* A plausible bug: a short write taken for a complete one.
WriteShort(w) ==
  /\ pc[w] = "write"
  /\ cached' = [cached EXCEPT ![w].data = "part"]
  /\ GoTo(w, "chmod")
  /\ UNCHANGED <<diskVars, dir, reader, err>>

\* The data arrive piece by piece.
Write(w) ==
  /\ pc[w] = "write"
  /\ \/ FailTo(w, "remove")
     \/ /\ cached[w].data = "empty"
        /\ cached' = [cached EXCEPT ![w].data = "part"]
        /\ UNCHANGED <<diskVars, dir, reader, pc, err>>
     \/ /\ cached[w].data = "part"
        /\ cached' = [cached EXCEPT ![w].data = "all"]
        /\ GoTo(w, "chmod")
        /\ UNCHANGED <<diskVars, dir, reader, err>>

\* A plausible bug: the mode is left to the umask of the process.
ChmodDefault(w) ==
  /\ pc[w] = "chmod"
  /\ cached' = [cached EXCEPT ![w].mode = "umask"]
  /\ GoTo(w, "sync")
  /\ UNCHANGED <<diskVars, dir, reader, err>>

Chmod(w) ==
  /\ pc[w] = "chmod"
  /\ \/ FailTo(w, "remove")
     \/ /\ cached' = [cached EXCEPT ![w].mode = "given"]
        /\ GoTo(w, "sync")
        /\ UNCHANGED <<diskVars, dir, reader, err>>

\* A plausible bug: the file is not synced before it is renamed.
SyncSkipped(w) ==
  /\ pc[w] = "sync"
  /\ GoTo(w, "close")
  /\ UNCHANGED <<cached, diskVars, dir, reader, err>>

\* The file that OSFS creates is an *os.File, so the type assertion holds.
Sync(w) ==
  /\ pc[w] = "sync"
  /\ \/ FailTo(w, "remove")
     \/ /\ durable' = [durable EXCEPT ![w] = cached[w]]
        /\ GoTo(w, "close")
        /\ UNCHANGED <<cached, dir, ddir, reader, err>>

\* A plausible bug: an error return that skips the removal.
CloseKeepsTemp(w) ==
  /\ pc[w] = "close"
  /\ \/ FailTo(w, "done")
     \/ /\ GoTo(w, "rename")
        /\ UNCHANGED <<cached, diskVars, dir, reader, err>>

Close(w) ==
  /\ pc[w] = "close"
  /\ \/ FailTo(w, "remove")
     \/ /\ GoTo(w, "rename")
        /\ UNCHANGED <<cached, diskVars, dir, reader, err>>

Rename(w) ==
  /\ pc[w] = "rename"
  /\ \/ FailTo(w, "remove")
     \/ /\ dir' = [target |-> w, temps |-> dir.temps \ {w}]
        /\ GoTo(w, "syncdir")
        /\ UNCHANGED <<cached, diskVars, reader, err>>

\* A plausible bug: a failure to sync the directory is returned.
SyncDirChecked(w) ==
  /\ pc[w] = "syncdir"
  /\ \/ FailTo(w, "remove")
     \/ /\ ddir' = dir
        /\ GoTo(w, "remove")
        /\ UNCHANGED <<cached, durable, dir, reader, err>>

\* Whether the directory could be opened and synced is ignored.
SyncDir(w) ==
  /\ pc[w] = "syncdir"
  /\ \/ ddir' = dir
     \/ "io" \in Faults /\ UNCHANGED ddir
  /\ GoTo(w, "remove")
  /\ UNCHANGED <<cached, durable, dir, reader, err>>

\* The deferred Remove, on every path after CreateTemp, whether or not the
\* rename has left it something to remove.  Its error is ignored.
Remove(w) ==
  /\ pc[w] = "remove"
  /\ \/ dir' = [dir EXCEPT !.temps = @ \ {w}] /\ GoTo(w, "done")
     \/ "unlink" \in Faults /\ GoTo(w, "left") /\ UNCHANGED dir
  /\ UNCHANGED <<cached, diskVars, reader, err>>

-----------------------------------------------------------------------------
(* Readers, the file system's own pace, and what may befall a process *)

\* ReadFile opens the file; the inode stays the reader's until it closes it.
Open ==
  /\ reader' = dir.target
  /\ UNCHANGED <<cached, diskVars, dir, pc, err>>

FlushInode(i) ==
  /\ durable' = [durable EXCEPT ![i] = cached[i]]
  /\ UNCHANGED <<cached, dir, ddir, reader, pc, err>>

FlushDir ==
  /\ ddir' = dir
  /\ UNCHANGED <<cached, durable, dir, reader, pc, err>>

Kill(w) ==
  /\ "kill" \in Faults
  /\ pc[w] \in Calls
  /\ GoTo(w, "dead")
  /\ UNCHANGED <<cached, diskVars, dir, reader, err>>

\* Every process dies; what has not begun may begin after the reboot.
PowerLoss ==
  /\ "power" \in Faults
  /\ cached' = durable
  /\ dir' = ddir
  /\ reader' = NoFile
  /\ pc' = [w \in Writers |->
              IF pc[w] \in Calls \ {"create"} THEN "dead" ELSE pc[w]]
  /\ UNCHANGED <<diskVars, err>>

-----------------------------------------------------------------------------
WriteFileAtomic(w) ==
  \/ Create(w) \/ Write(w) \/ Chmod(w) \/ Sync(w)
  \/ Close(w) \/ Rename(w) \/ SyncDir(w) \/ Remove(w)

Next ==
  \/ \E w \in Writers : WriteFileAtomic(w) \/ Kill(w)
  \/ \E i \in Inodes : FlushInode(i)
  \/ Open
  \/ FlushDir
  \/ PowerLoss

Spec == Init /\ [][Next]_vars

-----------------------------------------------------------------------------
(* The AtomicFile that the calls implement. *)

Phase(w) ==
  CASE pc[w] = "dead" -> "dead"
    [] pc[w] \in {"done", "left"} /\ err[w] -> "error"
    [] pc[w] \in {"done", "left"} /\ ~err[w] -> "ok"
    [] pc[w] = "syncdir" \/ (pc[w] = "remove" /\ ~err[w]) -> "replaced"
    [] OTHER -> "running"

\* Contents that are torn or have the wrong mode are nobody's.
Contents(inode, state) == IF state = Whole THEN inode ELSE NoFile

File == INSTANCE AtomicFile WITH
  visible <- Contents(dir.target, cached[dir.target]),
  stable <- Contents(ddir.target, durable[ddir.target]),
  phase <- [w \in Writers |-> Phase(w)]

-----------------------------------------------------------------------------
(* Properties *)

\* atomic_write.go:23-45: whoever opened the file reads contents written by
\* one call, complete and with the requested mode, however many calls replace
\* the file meanwhile.
ReaderSeesWholeFile == reader # NoFile => cached[reader] = Whole

\* atomic_write.go:32-45: what a loss of power leaves under the file's name is
\* complete as well, at every moment.
PowerLossLeavesWholeFile == durable[ddir.target] = Whole

\* atomic_write.go:21: whatever else failed, a call that returned and could
\* remove its temporary file has left none behind, except that a loss of power
\* may bring one back that the disk still has.
NoLitter == \A w \in dir.temps : pc[w] = "done" => w \in ddir.temps

\* atomic_write.go:10-53: a call replaces the file as a whole or not at all,
\* and returns nil exactly if it put its contents in place.
ImplementsAtomicFile == File!Spec

=============================================================================

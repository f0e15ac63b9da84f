-------------------------- MODULE AtomicWriteProofs ---------------------------
(***************************************************************************)
(* Theorems about AtomicWrite, for any number of writers and any faults.   *)
(***************************************************************************)
EXTENDS AtomicWrite, TLAPS

(* How much of its inode a writer has prepared; an error ends the writing. *)
Prepared(w) ==
  /\ pc[w] = "chmod" => cached[w].data = "all"
  /\ pc[w] \in {"sync", "close", "rename"} => cached[w] = Whole
  /\ pc[w] \in {"close", "rename"} => durable[w] = Whole
  /\ err[w] => pc[w] \in {"remove", "done", "left", "dead"}

(* An inode that was given the file's name is whole, on disk too, and its  *)
(* writer is done with it: nothing but a flush will touch it again.        *)
Published(i) ==
  /\ cached[i] = Whole /\ durable[i] = Whole
  /\ i # Old => pc[i] \in {"syncdir", "remove", "done", "left", "dead"}

Inv ==
  /\ \A w \in Writers : Prepared(w)
  /\ Published(dir.target)
  /\ Published(ddir.target)
  /\ reader # NoFile => Published(reader)

-----------------------------------------------------------------------------
LEMMA WholeType == Whole \in InodeStates /\ Fresh \in InodeStates
BY DEF Whole, Fresh, InodeStates

LEMMA TypeOKStep == TypeOK /\ [Next]_vars => TypeOK'
<1> SUFFICES ASSUME TypeOK, [Next]_vars PROVE TypeOK'
  OBVIOUS
<1> USE DEF TypeOK, diskVars, Calls, GoTo, Inodes
<1>1. ASSUME NEW w \in Writers, NEW call \in {"done", "remove"}, FailTo(w, call)
      PROVE  TypeOK'
  BY <1>1 DEF FailTo
<1>2. ASSUME NEW w \in Writers, NEW d \in {"part", "all"},
             cached' = [cached EXCEPT ![w].data = d],
             UNCHANGED <<diskVars, dir, reader, err>>,
             pc' = pc \/ GoTo(w, "chmod")
      PROVE  TypeOK'
  <2>1. [cached[w] EXCEPT !.data = d] \in InodeStates
    BY DEF InodeStates
  <2>2. cached' \in [Inodes -> InodeStates]
    BY <1>2, <2>1
  <2> QED
    BY <1>2, <2>2
<1>3. ASSUME NEW w \in Writers, WriteFileAtomic(w)
      PROVE  TypeOK'
  <2>1. CASE Create(w)
    BY <1>1, <2>1 DEF Create, Directories
  <2>2. CASE Write(w)
    BY <1>1, <1>2, <2>2 DEF Write
  <2>3. CASE Chmod(w)
    BY <1>1, <2>3 DEF Chmod, InodeStates
  <2>4. CASE Sync(w)
    BY <1>1, <2>4 DEF Sync
  <2>5. CASE Close(w)
    BY <1>1, <2>5 DEF Close
  <2>6. CASE Rename(w)
    BY <1>1, <2>6 DEF Rename, Directories
  <2>7. CASE SyncDir(w)
    BY <2>7 DEF SyncDir
  <2>8. CASE Remove(w)
    BY <2>8 DEF Remove, Directories
  <2> QED
    BY <1>3, <2>1, <2>2, <2>3, <2>4, <2>5, <2>6, <2>7, <2>8 DEF WriteFileAtomic
<1>4. ASSUME NEW w \in Writers, Kill(w)
      PROVE  TypeOK'
  BY <1>4 DEF Kill
<1>5. ASSUME NEW i \in Inodes, FlushInode(i)
      PROVE  TypeOK'
  BY <1>5 DEF FlushInode
<1>6. CASE Open \/ FlushDir \/ PowerLoss \/ UNCHANGED vars
  BY <1>6 DEF Open, FlushDir, PowerLoss, vars, Directories
<1> QED
  BY <1>3, <1>4, <1>5, <1>6 DEF Next

(* The type invariant of the atomic write.                                 *)
THEOREM TypeCorrect == Spec => []TypeOK
<1>1. Init => TypeOK
  BY WholeType DEF Init, TypeOK, Directories, Inodes, Calls
<1> QED
  BY <1>1, TypeOKStep, PTL DEF Spec

-----------------------------------------------------------------------------
LEMMA InvStep == TypeOK /\ Inv /\ [Next]_vars => Inv'
<1> SUFFICES ASSUME TypeOK, Inv, [Next]_vars PROVE Inv'
  OBVIOUS
<1> USE InodesAssumption DEF TypeOK, diskVars, Calls, GoTo, Inodes, Inv
<1>1. dir.target \in Inodes /\ ddir.target \in Inodes
  BY DEF Directories
<1>2. ASSUME NEW w \in Writers, NEW call \in {"done", "remove"}, FailTo(w, call)
      PROVE  Inv'
  BY <1>1, <1>2 DEF FailTo, Prepared, Published
\* A writer that has not renamed yet works on an inode nobody has a name for.
<1>3. ASSUME NEW w \in Writers, pc[w] \in {"write", "chmod"},
             NEW s, cached' = [cached EXCEPT ![w] = s],
             \/ pc' = pc
             \/ pc' = [pc EXCEPT ![w] = "chmod"] /\ s.data = "all"
             \/ pc' = [pc EXCEPT ![w] = "sync"] /\ s = Whole,
             s.data = "all" \/ pc[w] = "write",
             UNCHANGED <<diskVars, dir, reader, err>>
      PROVE  Inv'
  BY <1>1, <1>3 DEF Prepared, Published
<1>4. ASSUME NEW w \in Writers, WriteFileAtomic(w)
      PROVE  Inv'
  <2>1. CASE Create(w)
    BY <1>1, <1>2, <2>1 DEF Create, Directories, Prepared, Published
  <2>2. CASE Write(w)
    <3>1. cached[w] \in InodeStates
      OBVIOUS
    <3>2. CASE FailTo(w, "remove")
      BY <1>2, <3>2
    <3>3. ASSUME NEW d \in {"part", "all"},
                 cached' = [cached EXCEPT ![w].data = d],
                 UNCHANGED <<diskVars, dir, reader, err>>,
                 \/ pc' = pc
                 \/ pc' = [pc EXCEPT ![w] = "chmod"] /\ d = "all"
          PROVE  Inv'
      <4> DEFINE s == [cached[w] EXCEPT !.data = d]
      <4>1. s.data = d
        BY <3>1 DEF InodeStates
      <4>2. cached' = [cached EXCEPT ![w] = s]
        BY <3>3
      <4> HIDE DEF s
      <4> QED
        BY <1>3, <2>2, <3>3, <4>1, <4>2 DEF Write
    <3> QED
      BY <2>2, <3>2, <3>3 DEF Write
  <2>3. CASE Chmod(w)
    <3>1. cached[w] \in InodeStates /\ cached[w].data = "all"
      BY <2>3 DEF Chmod, Prepared
    <3>2. [cached[w] EXCEPT !.mode = "given"] = Whole
      BY <3>1 DEF InodeStates, Whole
    <3>3. ASSUME cached' = [cached EXCEPT ![w].mode = "given"]
          PROVE  cached' = [cached EXCEPT ![w] = Whole]
      BY <3>2, <3>3
    <3> QED
      BY <1>2, <1>3, <2>3, <3>3 DEF Chmod, Whole
  <2>4. CASE Sync(w)
    BY <1>1, <1>2, <2>4 DEF Sync, Prepared, Published
  <2>5. CASE Close(w)
    BY <1>1, <1>2, <2>5 DEF Close, Prepared, Published
  <2>6. CASE Rename(w)
    BY <1>1, <1>2, <2>6 DEF Rename, Prepared, Published
  <2>7. CASE SyncDir(w)
    BY <1>1, <2>7 DEF SyncDir, Prepared, Published
  <2>8. CASE Remove(w)
    BY <1>1, <2>8 DEF Remove, Directories, Prepared, Published
  <2> QED
    BY <1>4, <2>1, <2>2, <2>3, <2>4, <2>5, <2>6, <2>7, <2>8 DEF WriteFileAtomic
<1>5. ASSUME NEW w \in Writers, Kill(w)
      PROVE  Inv'
  BY <1>1, <1>5 DEF Kill, Prepared, Published
<1>6. ASSUME NEW i \in Inodes, FlushInode(i)
      PROVE  Inv'
  BY <1>1, <1>6 DEF FlushInode, Prepared, Published
<1>7. CASE Open \/ FlushDir \/ UNCHANGED vars
  BY <1>7 DEF Open, FlushDir, vars, Prepared, Published
\* What the disk has of a published inode is all a reboot needs.
<1>8. CASE PowerLoss
  BY <1>1, <1>8 DEF PowerLoss, Prepared, Published
<1> QED
  BY <1>4, <1>5, <1>6, <1>7, <1>8 DEF Next

LEMMA Invariant == Spec => [](TypeOK /\ Inv)
<1>1. Init => Inv
  BY InodesAssumption DEF Init, Inv, Prepared, Published, Inodes
<1> QED
  BY <1>1, TypeCorrect, InvStep, PTL DEF Spec

(* Nobody who opened the file ever reads part of what a call writes.       *)
THEOREM ReadersSeeWholeFiles == Spec => []ReaderSeesWholeFile
<1>1. Inv => ReaderSeesWholeFile
  BY DEF Inv, Published, ReaderSeesWholeFile
<1> QED
  BY <1>1, Invariant, PTL

(* Whenever power is lost, the file that is left is complete.              *)
THEOREM PowerLossIsSafe == Spec => []PowerLossLeavesWholeFile
<1>1. Inv => PowerLossLeavesWholeFile
  BY DEF Inv, Published, PowerLossLeavesWholeFile
<1> QED
  BY <1>1, Invariant, PTL

-----------------------------------------------------------------------------
(* A writer that has not begun has no temporary file, on disk either.      *)
Unborn == \A w \in Writers : pc[w] = "create" => w \notin dir.temps \cup ddir.temps

LEMMA LitterStep ==
  TypeOK /\ Unborn /\ NoLitter /\ [Next]_vars => Unborn' /\ NoLitter'
<1> SUFFICES ASSUME TypeOK, Unborn, NoLitter, [Next]_vars
             PROVE  Unborn' /\ NoLitter'
  OBVIOUS
<1> USE DEF TypeOK, diskVars, GoTo, Directories, Unborn, NoLitter
<1>1. ASSUME NEW w \in Writers, Create(w)
      PROVE  Unborn' /\ NoLitter'
  BY <1>1 DEF Create, FailTo
<1>2. ASSUME NEW w \in Writers,
             Write(w) \/ Chmod(w) \/ Sync(w) \/ Close(w) \/ Kill(w)
      PROVE  Unborn' /\ NoLitter'
  BY <1>2 DEF Write, Chmod, Sync, Close, Kill, FailTo
<1>3. ASSUME NEW w \in Writers, Rename(w)
      PROVE  Unborn' /\ NoLitter'
  BY <1>3 DEF Rename, FailTo
<1>4. ASSUME NEW w \in Writers, SyncDir(w) \/ Remove(w)
      PROVE  Unborn' /\ NoLitter'
  BY <1>4 DEF SyncDir, Remove
<1>5. ASSUME NEW i \in Inodes, FlushInode(i)
      PROVE  Unborn' /\ NoLitter'
  BY <1>5 DEF FlushInode
<1>6. CASE Open \/ FlushDir \/ PowerLoss \/ UNCHANGED vars
  BY <1>6 DEF Open, FlushDir, PowerLoss, vars
<1> QED
  BY <1>1, <1>2, <1>3, <1>4, <1>5, <1>6 DEF Next, WriteFileAtomic

(* No temporary file of a call that returned stays, if it can be removed.   *)
THEOREM NoTempFileStays == Spec => []NoLitter
<1>1. Init => Unborn /\ NoLitter
  BY DEF Init, Unborn, NoLitter
<1> QED
  BY <1>1, TypeCorrect, LitterStep, PTL DEF Spec

-----------------------------------------------------------------------------
(* The refinement of AtomicFile.                                           *)
PhaseOf == [w \in Writers |-> Phase(w)]
Visible == Contents(dir.target, cached[dir.target])
Stable == Contents(ddir.target, durable[ddir.target])

LEMMA FileStep ==
  TypeOK /\ Inv /\ Inv' /\ [Next]_vars => [File!Next]_(File!fileVars)
<1> SUFFICES ASSUME TypeOK, Inv, Inv', [Next]_vars
             PROVE  File!Next \/ UNCHANGED <<Visible, Stable, PhaseOf>>
  BY DEF File!fileVars, Visible, Stable, PhaseOf
<1> USE DEF diskVars
<1>1. /\ Visible = dir.target /\ Stable = ddir.target
      /\ Visible' = dir'.target /\ Stable' = ddir'.target
  BY DEF Inv, Published, Visible, Stable, Contents
<1>2. ASSUME UNCHANGED <<dir.target, ddir.target, PhaseOf>>
      PROVE  UNCHANGED <<Visible, Stable, PhaseOf>>
  BY <1>1, <1>2
<1>3. ASSUME NEW w \in Writers, NEW call \in {"done", "remove"}, FailTo(w, call),
             pc[w] \in {"create", "write", "chmod", "sync", "close", "rename"},
             call = "done" <=> pc[w] = "create"
      PROVE  File!Next \/ UNCHANGED PhaseOf
  <2>1. CASE call = "remove"
    BY <1>3, <2>1 DEF FailTo, GoTo, PhaseOf, Phase, TypeOK
  <2>2. CASE call = "done"
    <3>1. PhaseOf[w] = "running" /\ PhaseOf' = [PhaseOf EXCEPT ![w] = "error"]
      BY <1>3, <2>2 DEF FailTo, GoTo, PhaseOf, Phase, TypeOK
    <3>2. UNCHANGED <<Visible, Stable>>
      BY <1>1, <1>3 DEF FailTo
    <3>3. File!Return(w)
      BY <3>1, <3>2 DEF File!Return, File!Become, PhaseOf, Visible, Stable
    <3> QED
      BY <3>3 DEF File!Next
  <2> QED
    BY <2>1, <2>2
<1>4. ASSUME NEW w \in Writers,
             Create(w) \/ Write(w) \/ Chmod(w) \/ Sync(w) \/ Close(w)
      PROVE  File!Next \/ UNCHANGED <<Visible, Stable, PhaseOf>>
  <2>1. CASE \E call \in {"done", "remove"} :
               FailTo(w, call) /\ (call = "done" <=> pc[w] = "create")
    <3>1. UNCHANGED <<dir.target, ddir.target>>
      BY <2>1 DEF FailTo
    <3> QED
      BY <1>2, <1>3, <1>4, <2>1, <3>1
      DEF Create, Write, Chmod, Sync, Close
  <2>2. CASE UNCHANGED err
    <3>1. UNCHANGED PhaseOf
      BY <1>4, <2>2
      DEF Create, Write, Chmod, Sync, Close, FailTo, GoTo, PhaseOf, Phase,
          TypeOK, Inv, Prepared
    <3>2. UNCHANGED <<dir.target, ddir.target>>
      BY <1>4, <2>2
      DEF Create, Write, Chmod, Sync, Close, FailTo, TypeOK, Directories
    <3> QED
      BY <1>2, <3>1, <3>2
  <2> QED
    BY <1>4, <2>1, <2>2 DEF Create, Write, Chmod, Sync, Close
<1>5. ASSUME NEW w \in Writers, Rename(w)
      PROVE  File!Next \/ UNCHANGED <<Visible, Stable, PhaseOf>>
  <2>1. CASE FailTo(w, "remove")
    BY <1>2, <1>3, <1>5, <2>1 DEF Rename, FailTo
  <2>2. CASE dir' = [target |-> w, temps |-> dir.temps \ {w}]
             /\ GoTo(w, "syncdir") /\ UNCHANGED <<diskVars, err>>
    <3>1. PhaseOf[w] = "running" /\ PhaseOf' = [PhaseOf EXCEPT ![w] = "replaced"]
      BY <1>5, <2>2 DEF Rename, GoTo, PhaseOf, Phase, TypeOK
    <3>2. Visible' = w /\ UNCHANGED Stable
      BY <1>1, <2>2
    <3>3. File!Replace(w)
      BY <3>1, <3>2 DEF File!Replace, File!Become, PhaseOf, Visible, Stable
    <3> QED
      BY <3>3 DEF File!Next
  <2> QED
    BY <1>5, <2>1, <2>2 DEF Rename
<1>6. ASSUME ddir' = dir, UNCHANGED <<dir.target, PhaseOf>>
      PROVE  File!Next
  BY <1>1, <1>6 DEF File!Next, File!Settle, Visible, Stable, PhaseOf
<1>7. ASSUME NEW w \in Writers, SyncDir(w)
      PROVE  File!Next \/ UNCHANGED <<Visible, Stable, PhaseOf>>
  <2>1. UNCHANGED PhaseOf
    BY <1>7 DEF SyncDir, GoTo, PhaseOf, Phase, TypeOK, Inv, Prepared
  <2> QED
    BY <1>2, <1>6, <1>7, <2>1 DEF SyncDir
<1>8. ASSUME NEW w \in Writers, Remove(w)
      PROVE  File!Next
  <2>1. UNCHANGED <<dir.target, ddir.target>>
    BY <1>8 DEF Remove, TypeOK, Directories
  <2>2. \/ PhaseOf[w] = "running" /\ PhaseOf' = [PhaseOf EXCEPT ![w] = "error"]
        \/ PhaseOf[w] = "replaced" /\ PhaseOf' = [PhaseOf EXCEPT ![w] = "ok"]
    BY <1>8 DEF Remove, GoTo, PhaseOf, Phase, TypeOK
  <2>3. File!Return(w)
    BY <1>1, <2>1, <2>2
    DEF File!Return, File!Become, PhaseOf, Visible, Stable
  <2> QED
    BY <2>3 DEF File!Next
<1>9. ASSUME NEW w \in Writers, Kill(w)
      PROVE  File!Next
  <2>1. /\ PhaseOf[w] \in {"running", "replaced"}
        /\ PhaseOf' = [PhaseOf EXCEPT ![w] = "dead"]
    BY <1>9 DEF Kill, GoTo, PhaseOf, Phase, TypeOK, Calls
  <2>2. File!Kill(w)
    BY <1>1, <1>9, <2>1
    DEF Kill, File!Kill, File!Become, PhaseOf, Visible, Stable
  <2> QED
    BY <2>2 DEF File!Next
<1>10. CASE (\E i \in Inodes : FlushInode(i)) \/ Open \/ UNCHANGED vars
  BY <1>2, <1>10 DEF FlushInode, Open, vars, PhaseOf, Phase
<1>11. CASE FlushDir
  BY <1>6, <1>11 DEF FlushDir, PhaseOf, Phase
<1>12. CASE PowerLoss
  <2> DEFINE D == {w \in Writers : pc[w] \in Calls \ {"create"}}
  <2>1. D \subseteq {w \in Writers : PhaseOf[w] \in {"running", "replaced"}}
    BY DEF PhaseOf, Phase, Calls
  <2>2. \A w \in Writers : PhaseOf[w] = "replaced" => w \in D
    BY DEF PhaseOf, Phase, Calls
  <2>3. PhaseOf' = [w \in Writers |-> IF w \in D THEN "dead" ELSE PhaseOf[w]]
    BY <1>12 DEF PowerLoss, PhaseOf, Phase
  <2>4. Visible' = Stable /\ UNCHANGED Stable
    BY <1>1, <1>12 DEF PowerLoss
  <2>5. File!PowerLoss
    BY <2>1, <2>2, <2>3, <2>4 DEF File!PowerLoss, PhaseOf, Visible, Stable
  <2> QED
    BY <2>5 DEF File!Next
<1> QED
  BY <1>4, <1>5, <1>7, <1>8, <1>9, <1>10, <1>11, <1>12
  DEF Next, WriteFileAtomic

(* writeFileAtomic keeps the promise of AtomicFile.                        *)
THEOREM WriteIsAtomic == Spec => ImplementsAtomicFile
<1>1. Init => File!Init
  <2> SUFFICES ASSUME Init PROVE File!Init
    OBVIOUS
  <2>1. /\ dir.target = Old /\ ddir.target = Old
        /\ cached[Old] = Whole /\ durable[Old] = Whole
    BY DEF Init, Inodes
  <2>2. \A w \in Writers : Phase(w) = "running"
    BY DEF Init, Phase
  <2> QED
    BY <2>1, <2>2 DEF File!Init, Contents
<1> QED
  BY <1>1, Invariant, FileStep, PTL DEF Spec, ImplementsAtomicFile, File!Spec

=============================================================================

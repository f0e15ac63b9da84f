--------------------------- MODULE HostAgentProofs ---------------------------
(***************************************************************************)
(* Theorems about HostAgent, for any set of requests, any contents of the  *)
(* file and any set of faults.                                             *)
(***************************************************************************)
EXTENDS HostAgent, TLAPS

(* Every handler has a request, only clients that may hang up do, and the  *)
(* file a toggle is about to write has the line as the toggle wants it.    *)
Bookkeeping ==
  /\ gone # {} => "hangup" \in Faults
  /\ \A r \in Requests :
        /\ pc[r] = "idle" <=> op[r] = "none"
        /\ pc[r] = "write" =>
             snap[r].ndpi = Target(op[r]) /\ cfg.ndpi # "missing"
        /\ resp[r] \in {"changed", "unchanged"} => op[r] \in Toggles

(* Nobody asks for the opposite of o. *)
Unopposed(o) == \A q \in Requests : op[q] \in Toggles => op[q] = o

(* What a toggle may rely on from its write to its answer, unopposed.      *)
Progress(r) ==
  /\ pc[r] \in {"restart", "wait"} \/ resp[r] = "changed" =>
       cfg.ndpi = Target(op[r])
  /\ systemctl[r] = "running" => job # "none"
  /\ systemctl[r] = "ok" \/ resp[r] = "changed" =>
       (unit = "active" => plugin = (op[r] = "enable"))

Loading ==
  \A r \in Requests : op[r] \in Toggles /\ Unopposed(op[r]) => Progress(r)

-----------------------------------------------------------------------------
LEMMA ClassifyErrType ==
  \A kind \in ErrorKinds : ClassifyErr(kind) \in Failures
BY DEF ClassifyErr, ErrorKinds, Failures

LEMMA TypeOKStep == TypeOK /\ [Next]_vars => TypeOK'
<1> SUFFICES ASSUME TypeOK, [Next]_vars PROVE TypeOK'
  OBVIOUS
<1> USE DEF TypeOK, hostVars, Reloading, Attempts
<1>1. ASSUME NEW r \in Requests, NEW o \in Ops, Arrive(r, o)
      PROVE  TypeOK'
  BY <1>1 DEF Arrive, GoTo, Entry, InFlight, Ops, Toggles
<1>2. ASSUME NEW r \in Requests, ReadConfig(r)
      PROVE  TypeOK'
  <2>1. CASE \E code \in Answers : Answer(r, code) /\ UNCHANGED snap
    BY <1>2, <2>1 DEF ReadConfig, Answer, GoTo, InFlight, Ops, Toggles,
                      Answers, Failures
  <2>2. CASE /\ snap' = [snap EXCEPT ![r] = [cfg EXCEPT !.ndpi = Target(op[r])]]
             /\ GoTo(r, "write") /\ UNCHANGED resp
    <3>1. [cfg EXCEPT !.ndpi = Target(op[r])] \in Contents
      BY DEF Contents, Target
    <3> QED
      BY <1>2, <2>2, <3>1 DEF ReadConfig, GoTo, InFlight, Ops, Toggles
  <2> QED
    BY <1>2, <2>1, <2>2, ClassifyErrType
    DEF ReadConfig, Answers, Failures, ErrorKinds
<1>3. ASSUME NEW r \in Requests, WriteConfig(r)
      PROVE  TypeOK'
  <2>1. CASE \E code \in Answers : Answer(r, code) /\ UNCHANGED cfg
    BY <1>3, <2>1 DEF WriteConfig, Answer, GoTo, InFlight, Ops, Toggles,
                      Answers, Failures
  <2>2. CASE cfg' = snap[r] /\ GoTo(r, "restart") /\ UNCHANGED resp
    BY <1>3, <2>2 DEF WriteConfig, GoTo, InFlight, Ops, Toggles
  <2> QED
    BY <1>3, <2>1, <2>2, ClassifyErrType DEF WriteConfig, Answers, ErrorKinds
<1>4. ASSUME NEW r \in Requests, Connect(r)
      PROVE  TypeOK'
  BY <1>4 DEF Connect, Answer, GoTo, InFlight, Ops, Toggles, Answers, Failures
<1>5. ASSUME NEW r \in Requests, CallRestart(r)
      PROVE  TypeOK'
  BY <1>5 DEF CallRestart, Answer, GoTo, InFlight, Ops, Toggles, Answers,
              Failures, RestartError
<1>6. ASSUME NEW r \in Requests, WaitRestart(r)
      PROVE  TypeOK'
  BY <1>6 DEF WaitRestart, Answer, GoTo, InFlight, Ops, Toggles, Answers,
              Failures, RestartError
<1>7. ASSUME NEW r \in Requests, Poll(r)
      PROVE  TypeOK'
  BY <1>7 DEF Poll, Answer, GoTo, InFlight, Ops, Toggles, Answers, Failures
<1>8. ASSUME NEW r \in Requests, Hangup(r)
      PROVE  TypeOK'
  BY <1>8 DEF Hangup
<1>9. CASE UnitStop
  BY <1>9 DEF UnitStop
<1>10. CASE UnitStart
  BY <1>10 DEF UnitStart
<1>11. CASE Boot
  BY <1>11 DEF Boot, Loads
<1>12. CASE Death
  BY <1>12 DEF Death
<1>13. CASE AgentCrash
  BY <1>13 DEF AgentCrash, InFlight
<1>14. CASE UNCHANGED vars
  BY <1>14 DEF vars
<1>15. ASSUME NEW r \in Requests, FindSocket(r) \/ WaitReady(r)
       PROVE  TypeOK'
  BY <1>15 DEF FindSocket, WaitReady, Answer, GoTo, InFlight, Ops, Toggles,
               Answers, Failures
<1>16. ASSUME NEW r \in Requests, TryReload(r)
       PROVE  TypeOK'
  <2>1. op[r] = "reload" /\ (pc[r] # "try5" => AfterTry[pc[r]] \in Attempts)
    BY <1>16 DEF TryReload, AfterTry
  <2> QED
    BY <1>16, <2>1 DEF TryReload, Answer, GoTo, InFlight,
                       Ops, Toggles, Answers, Failures
<1> QED
  BY <1>1, <1>2, <1>3, <1>4, <1>5, <1>6, <1>7, <1>8, <1>9, <1>10, <1>11, <1>12,
     <1>13, <1>14, <1>15, <1>16 DEF Next, Handler, Systemd

(* The type invariant of the host agent. *)
THEOREM TypeCorrect == Spec => []TypeOK
<1>1. Init => TypeOK
  BY DEF Init, TypeOK, Contents, Loads, Reloading, Attempts
<1> QED
  BY <1>1, TypeOKStep, PTL DEF Spec

-----------------------------------------------------------------------------
(* Nothing but systemd's own steps stops and starts Suricata: only a job    *)
(* stops it, and only its start ends that job.                              *)
LEMMA NeverLeftStoppedStep ==
  TypeOK /\ NeverLeftStopped /\ [Next]_vars => NeverLeftStopped'
<1> SUFFICES ASSUME TypeOK, NeverLeftStopped, [Next]_vars
             PROVE  NeverLeftStopped'
  OBVIOUS
<1> USE DEF TypeOK, NeverLeftStopped, hostVars, GoTo, Answer
<1>1. ASSUME NEW r \in Requests, NEW o \in Ops, Arrive(r, o)
      PROVE  NeverLeftStopped'
  BY <1>1 DEF Arrive, Entry, Attempts
<1>2. \A error : ClassifyErr(error) \notin
        {"already_running", "started", "changed", "reloaded"}
  BY DEF ClassifyErr
<1>3. ASSUME NEW r \in Requests, ReadConfig(r) \/ WriteConfig(r)
      PROVE  NeverLeftStopped'
  BY <1>2, <1>3 DEF ReadConfig, WriteConfig, Attempts
<1>4. ASSUME NEW r \in Requests, Connect(r) \/ CallRestart(r)
      PROVE  NeverLeftStopped'
  BY <1>4 DEF Connect, CallRestart, RestartError, Attempts
<1>5. ASSUME NEW r \in Requests, WaitRestart(r) \/ Poll(r)
      PROVE  NeverLeftStopped'
  BY <1>5 DEF WaitRestart, Poll, RestartError, Attempts
<1>6. ASSUME NEW r \in Requests, FindSocket(r) \/ WaitReady(r)
      PROVE  NeverLeftStopped'
  BY <1>6 DEF FindSocket, WaitReady, Attempts
<1>7. ASSUME NEW r \in Requests, TryReload(r)
      PROVE  NeverLeftStopped'
  BY <1>7 DEF TryReload
<1>8. CASE Systemd \/ Death
  BY <1>8 DEF Systemd, UnitStop, UnitStart, Boot, Death
<1>9. CASE AgentCrash \/ (\E r \in Requests : Hangup(r)) \/ UNCHANGED vars
  BY <1>9 DEF AgentCrash, Hangup, vars, Attempts
<1> QED
  BY <1>1, <1>3, <1>4, <1>5, <1>6, <1>7, <1>8, <1>9 DEF Next, Handler

(* Any number of restarts that run into each other, are given up or lose    *)
(* the agent: whoever was told that Suricata runs, or had it restarted, is  *)
(* not left with one that is stopped for good (handlers.go:37-188).         *)
THEOREM RestartIsFinished == Spec => []NeverLeftStopped
<1>1. Init => NeverLeftStopped
  BY DEF Init, NeverLeftStopped, Attempts
<1> QED
  BY <1>1, TypeCorrect, NeverLeftStoppedStep, PTL DEF Spec

-----------------------------------------------------------------------------
(* Only Boot gives a process its plugin, and only a toggle's write changes  *)
(* what the file says of it.                                                *)
LEMMA BookkeepingStep ==
  TypeOK /\ Bookkeeping /\ [Next]_vars => Bookkeeping'
<1> SUFFICES ASSUME TypeOK, Bookkeeping, [Next]_vars PROVE Bookkeeping'
  OBVIOUS
<1> USE DEF TypeOK, Bookkeeping, hostVars
<1>1. ASSUME NEW r \in Requests, NEW o \in Ops, Arrive(r, o)
      PROVE  Bookkeeping'
  BY <1>1 DEF Arrive, GoTo, Entry, Ops, Toggles
<1>2. ASSUME NEW r \in Requests, ReadConfig(r)
      PROVE  Bookkeeping'
  <2>1. CASE \E code \in Answers \ {"changed"} :
               /\ Answer(r, code)
               /\ UNCHANGED <<hostVars, op, snap, gone>>
    BY <1>2, <2>1 DEF ReadConfig, Answer, GoTo, InFlight, Toggles
  <2>2. CASE /\ snap' = [snap EXCEPT ![r] = [cfg EXCEPT !.ndpi = Target(op[r])]]
             /\ cfg.ndpi # "missing"
             /\ GoTo(r, "write") /\ UNCHANGED <<hostVars, op, gone, resp>>
    <3>1. snap'[r].ndpi = Target(op[r])
      BY <2>2 DEF Contents
    <3> QED
      BY <1>2, <2>2, <3>1 DEF ReadConfig, GoTo
  <2> QED
    BY <1>2, <2>1, <2>2, ClassifyErrType
    DEF ReadConfig, ErrorKinds, Answers, Failures
<1>3. ASSUME NEW r \in Requests, WriteConfig(r)
      PROVE  Bookkeeping'
  <2>1. cfg'.ndpi # "missing"
    BY <1>3 DEF WriteConfig, Target
  <2> QED
    BY <1>3, <2>1, ClassifyErrType
    DEF WriteConfig, Answer, GoTo, ErrorKinds, Failures
<1>4. ASSUME NEW r \in Requests, Connect(r)
      PROVE  Bookkeeping'
  BY <1>4 DEF Connect, Answer, GoTo
<1>5. ASSUME NEW r \in Requests, CallRestart(r)
      PROVE  Bookkeeping'
  BY <1>5 DEF CallRestart, Answer, GoTo, RestartError
<1>6. ASSUME NEW r \in Requests, WaitRestart(r)
      PROVE  Bookkeeping'
  BY <1>6 DEF WaitRestart, Answer, GoTo, RestartError, Ops
<1>7. ASSUME NEW r \in Requests, Poll(r)
      PROVE  Bookkeeping'
  BY <1>7 DEF Poll, Answer, GoTo
<1>8. ASSUME NEW r \in Requests, Hangup(r)
      PROVE  Bookkeeping'
  BY <1>8 DEF Hangup
<1>9. CASE Systemd \/ Death \/ UNCHANGED vars
  BY <1>9 DEF Systemd, UnitStop, UnitStart, Boot, Death, vars
<1>10. CASE AgentCrash
  BY <1>10 DEF AgentCrash, InFlight
<1>11. ASSUME NEW r \in Requests, FindSocket(r) \/ WaitReady(r) \/ TryReload(r)
       PROVE  Bookkeeping'
  <2>1. /\ pc[r] # "idle" /\ pc'[r] \notin {"idle", "write"}
        /\ resp'[r] \in {resp[r], "SURICATA_NOT_READY", "RELOAD_FAILED", "reloaded"}
        /\ UNCHANGED <<hostVars, op, snap, gone>>
    BY <1>11 DEF FindSocket, WaitReady, TryReload, Answer, GoTo, Attempts,
                 AfterTry
  <2> QED
    BY <1>11, <2>1 DEF FindSocket, WaitReady, TryReload, Answer, GoTo
<1> QED
  BY <1>1, <1>2, <1>3, <1>4, <1>5, <1>6, <1>7, <1>8, <1>9, <1>10, <1>11
  DEF Next, Handler

LEMMA Bookkept == Spec => [](TypeOK /\ Bookkeeping)
<1>1. Init => Bookkeeping
  BY DEF Init, Bookkeeping
<1> QED
  BY <1>1, TypeCorrect, BookkeepingStep, PTL DEF Spec

-----------------------------------------------------------------------------
LEMMA RestartOwedStep ==
  TypeOK /\ Bookkeeping /\ RestartOwed /\ [Next]_vars => RestartOwed'
<1> SUFFICES ASSUME TypeOK, Bookkeeping, RestartOwed, [Next]_vars, Disagree'
             PROVE  \/ job' # "none"
                    \/ \E r \in Requests :
                          /\ op'[r] \in Toggles
                          /\ pc'[r] = "restart" \/ (RestartMayBeLost /\ Lost(r)')
  BY DEF RestartOwed
<1> DEFINE Owes(r) == /\ op[r] \in Toggles
                      /\ pc[r] = "restart" \/ (RestartMayBeLost /\ Lost(r))
<1> USE DEF TypeOK, hostVars, Disagree, Lost
\* Nothing a step does to one request takes the debt of another away.
<1>1. ASSUME NEW r \in Requests, NEW o \in Ops, Arrive(r, o)
      PROVE  job' # "none" \/ \E q \in Requests : Owes(q)'
  <2>1. Disagree
    BY <1>1 DEF Arrive
  <2>2. op[r] = "none"
    BY <1>1 DEF Arrive, Bookkeeping
  <2> QED
    BY <1>1, <2>1, <2>2 DEF Arrive, GoTo, RestartOwed, Toggles
<1>2. ASSUME NEW r \in Requests, ReadConfig(r)
      PROVE  job' # "none" \/ \E q \in Requests : Owes(q)'
  BY <1>2 DEF ReadConfig, Answer, GoTo, RestartOwed
<1>3. ASSUME NEW r \in Requests, WriteConfig(r)
      PROVE  job' # "none" \/ \E q \in Requests : Owes(q)'
  BY <1>3 DEF WriteConfig, Answer, GoTo, RestartOwed
<1>4. ASSUME NEW r \in Requests, Connect(r)
      PROVE  job' # "none" \/ \E q \in Requests : Owes(q)'
  BY <1>4 DEF Connect, Answer, GoTo, RestartOwed
\* A restart that is not submitted leaves the debt, and the reason for it.
<1>5. ASSUME NEW r \in Requests, CallRestart(r)
      PROVE  job' # "none" \/ \E q \in Requests : Owes(q)'
  <2>1. CASE UNCHANGED job /\ op[r] \in Toggles
    BY <1>5, <2>1
    DEF CallRestart, Answer, GoTo, RestartOwed, Bookkeeping, RestartMayBeLost,
        RestartError, Toggles
  <2>2. CASE UNCHANGED job /\ op[r] \notin Toggles
    BY <1>5, <2>2 DEF CallRestart, Answer, GoTo, RestartOwed
  <2> QED
    BY <1>5, <2>1, <2>2 DEF CallRestart
<1>6. ASSUME NEW r \in Requests, WaitRestart(r)
      PROVE  job' # "none" \/ \E q \in Requests : Owes(q)'
  BY <1>6 DEF WaitRestart, Answer, GoTo, RestartOwed
<1>7. ASSUME NEW r \in Requests, Poll(r)
      PROVE  job' # "none" \/ \E q \in Requests : Owes(q)'
  BY <1>7 DEF Poll, Answer, GoTo, RestartOwed
<1>8. ASSUME NEW r \in Requests, Hangup(r)
      PROVE  job' # "none" \/ \E q \in Requests : Owes(q)'
  BY <1>8 DEF Hangup, RestartOwed
\* The job cannot end, and a process cannot boot, into a disagreement.
<1>9. CASE Systemd \/ Death \/ UNCHANGED vars
  BY <1>9 DEF Systemd, UnitStop, UnitStart, Boot, Death, Loads, vars, RestartOwed
<1>10. CASE AgentCrash
  BY <1>10 DEF AgentCrash, InFlight, RestartOwed, RestartMayBeLost
<1>11. ASSUME NEW r \in Requests, FindSocket(r) \/ WaitReady(r) \/ TryReload(r)
       PROVE  job' # "none" \/ \E q \in Requests : Owes(q)'
  BY <1>11 DEF FindSocket, WaitReady, TryReload, Answer, GoTo, Attempts,
               RestartOwed
<1> QED
  BY <1>1, <1>2, <1>3, <1>4, <1>5, <1>6, <1>7, <1>8, <1>9, <1>10, <1>11
  DEF Next, Handler

(* A running Suricata that differs from suricata.yaml is always on its way  *)
(* to a restart, unless a restart failed, a client hung up or the agent     *)
(* died: under any set of faults, whatever the interleaving.                *)
THEOREM RestartIsOwed == Spec => []RestartOwed
<1>1. Init => RestartOwed
  BY DEF Init, RestartOwed, Disagree, Loads
<1> QED
  BY <1>1, Bookkept, RestartOwedStep, PTL DEF Spec

-----------------------------------------------------------------------------
(* Requests never change their mind, so an opposition can only begin.      *)
LEMMA StaysUnopposed ==
  ASSUME TypeOK, Bookkeeping, [Next]_vars, NEW o, Unopposed(o)'
  PROVE  Unopposed(o)
<1> USE DEF TypeOK, Bookkeeping, hostVars
<1>1. ASSUME NEW r \in Requests, NEW w \in Ops, Arrive(r, w)
      PROVE  Unopposed(o)
  BY <1>1 DEF Arrive, Unopposed, Toggles
<1>2. CASE UNCHANGED op
  BY <1>2 DEF Unopposed
<1> QED
  BY <1>1, <1>2
  DEF Next, Handler, ReadConfig, WriteConfig, Connect, CallRestart, WaitRestart,
      Poll, FindSocket, WaitReady, TryReload, Hangup, Systemd, UnitStop,
      UnitStart, Boot, Death, AgentCrash, vars

LEMMA LoadingStep ==
  TypeOK /\ Bookkeeping /\ Loading /\ [Next]_vars => Loading'
<1> SUFFICES ASSUME TypeOK, Bookkeeping, Loading, [Next]_vars,
                    NEW r \in Requests, op'[r] \in Toggles, Unopposed(op[r])'
             PROVE  Progress(r)'
  BY DEF Loading
<1> USE DEF TypeOK, Bookkeeping, hostVars
<1>1. ASSUME NEW q \in Requests, NEW o \in Ops, Arrive(q, o)
      PROVE  Progress(r)'
  <2>1. CASE q = r
    BY <1>1, <2>1 DEF Arrive, GoTo, Entry, Progress
  <2>2. CASE q # r
    <3>1. op'[r] = op[r]
      BY <1>1, <2>2 DEF Arrive
    <3>2. Unopposed(op[r])
      BY <3>1, StaysUnopposed
    <3> QED
      BY <1>1, <2>2, <3>1, <3>2 DEF Arrive, GoTo, Entry, Progress, Loading
  <2> QED
    BY <2>1, <2>2
<1>2. ASSUME UNCHANGED op
      PROVE  op[r] \in Toggles /\ Unopposed(op[r]) /\ Progress(r)
  BY <1>2, StaysUnopposed DEF Loading
<1>3. ASSUME NEW q \in Requests, ReadConfig(q)
      PROVE  Progress(r)'
  <2>1. pc'[r] \in {"write", "done"} \/ pc'[r] = pc[r]
    BY <1>3 DEF ReadConfig, Answer, GoTo
  <2>2. resp'[r] = "changed" => resp[r] = "changed"
    BY <1>3, ClassifyErrType DEF ReadConfig, Answer, GoTo, ErrorKinds, Failures
  <2> QED
    BY <1>2, <1>3, <2>1, <2>2 DEF ReadConfig, Progress
\* The one step that could take the line away writes what r wants as well.
<1>4. ASSUME NEW q \in Requests, WriteConfig(q)
      PROVE  Progress(r)'
  <2>1. op[q] = op[r] /\ op' = op
    BY <1>2, <1>4 DEF WriteConfig, Unopposed
  <2>2. CASE UNCHANGED cfg
    <3>1. resp'[r] = "changed" => resp[r] = "changed"
      BY <1>4, <2>2, ClassifyErrType
      DEF WriteConfig, Answer, GoTo, ErrorKinds, Failures
    <3>2. CASE q = r
      BY <1>2, <1>4, <2>1, <2>2, <3>1, <3>2
      DEF WriteConfig, Answer, GoTo, Progress
    <3>3. CASE q # r
      BY <1>2, <1>4, <2>1, <2>2, <3>1, <3>3
      DEF WriteConfig, Answer, GoTo, Progress
    <3> QED
      BY <3>2, <3>3
  <2>3. CASE cfg' = snap[q] /\ UNCHANGED resp
    <3>1. cfg'.ndpi = Target(op[r])
      BY <1>4, <2>1, <2>3 DEF WriteConfig
    <3> QED
      BY <1>2, <1>4, <2>1, <2>3, <3>1 DEF WriteConfig, Progress
  <2> QED
    BY <1>4, <2>2, <2>3 DEF WriteConfig
<1>5. ASSUME NEW q \in Requests, Connect(q) \/ Poll(q)
      PROVE  Progress(r)'
  <2>1. q # r
    BY <1>2, <1>5 DEF Connect, Poll, Toggles
  <2> QED
    BY <1>2, <1>5, <2>1 DEF Connect, Poll, Answer, GoTo, Progress
<1>6. ASSUME NEW q \in Requests, CallRestart(q)
      PROVE  Progress(r)'
  <2>1. resp'[r] = "changed" => resp[r] = "changed"
    BY <1>6 DEF CallRestart, Answer, RestartError
  <2> QED
    BY <1>2, <1>6, <2>1 DEF CallRestart, Answer, GoTo, Progress
<1>7. ASSUME NEW q \in Requests, WaitRestart(q)
      PROVE  Progress(r)'
  <2>1. CASE q = r
    BY <1>2, <1>7, <2>1
    DEF WaitRestart, Answer, GoTo, Progress, RestartError, Toggles
  <2>2. CASE q # r
    BY <1>2, <1>7, <2>2 DEF WaitRestart, Answer, GoTo, Progress
  <2> QED
    BY <2>1, <2>2
\* A process that boots after the job ended reads a file that agrees.
<1>8. CASE Boot
  BY <1>2, <1>8 DEF Boot, Loads, Progress, Target, Toggles
<1>9. CASE UnitStop \/ Death \/ UNCHANGED vars
  BY <1>2, <1>9 DEF UnitStop, Death, vars, Progress
<1>10. CASE UnitStart
  BY <1>2, <1>10 DEF UnitStart, Progress
<1>11. ASSUME NEW q \in Requests, Hangup(q)
       PROVE  Progress(r)'
  BY <1>2, <1>11 DEF Hangup, Progress
<1>12. CASE AgentCrash
  BY <1>2, <1>12 DEF AgentCrash, InFlight, Progress
<1>13. ASSUME NEW q \in Requests, FindSocket(q) \/ WaitReady(q) \/ TryReload(q)
       PROVE  Progress(r)'
  <2>1. q # r
    BY <1>2, <1>13 DEF FindSocket, WaitReady, TryReload, Reloading, Toggles
  <2> QED
    BY <1>2, <1>13, <2>1
    DEF FindSocket, WaitReady, TryReload, Answer, GoTo, Progress
<1> QED
  BY <1>1, <1>3, <1>4, <1>5, <1>6, <1>7, <1>8, <1>9, <1>10, <1>11, <1>12,
     <1>13 DEF Next, Handler, Systemd

(* An answer 200 with changed=true is true of every running Suricata as     *)
(* long as nobody asks for the opposite, whatever fails and however many    *)
(* requests interleave.                                                     *)
THEOREM ChangedIsLoaded == Spec => []ChangedMeansLoaded
<1>1. Init => Loading
  BY DEF Init, Loading, Toggles
<1>2. TypeOK /\ Bookkeeping /\ Loading => ChangedMeansLoaded
  BY DEF Bookkeeping, Loading, Progress, Unopposed, ChangedMeansLoaded
<1> QED
  BY <1>1, <1>2, Bookkept, LoadingStep, PTL DEF Spec

-----------------------------------------------------------------------------
(* The refinement of ToggleRegister: two steps of HostAgent change the      *)
(* register's state, the others answer or stutter.                          *)
Wants == [r \in Requests |-> IF IsToggle(r) THEN op[r] ELSE "none"]
PhaseOf == [r \in Requests |-> Phase(r)]
OutcomeOf == [r \in Requests |-> Outcome(r)]
View == <<cfg.ndpi, Wants, PhaseOf, OutcomeOf>>

(* A step that touches neither the line nor what a caller can see.          *)
LEMMA Stutter ==
  ASSUME cfg'.ndpi = cfg.ndpi, UNCHANGED op,
         \A q \in Requests : Phase(q)' = Phase(q) /\ Outcome(q)' = Outcome(q)
  PROVE  UNCHANGED View
BY DEF View, Wants, PhaseOf, OutcomeOf, IsToggle

(* The answer a toggle gets while its call is pending or taken.             *)
LEMMA AnswerView ==
  ASSUME TypeOK, NEW r \in Requests, NEW code \in Answers, op[r] \in Toggles,
         Answer(r, code), UNCHANGED op, cfg'.ndpi = cfg.ndpi,
         NEW outcome, Outcome(r)' = outcome
  PROVE  Register!Return(r, outcome)
<1> USE DEF TypeOK
<1>1. PhaseOf' = [PhaseOf EXCEPT ![r] = "done"]
  BY DEF Answer, GoTo, PhaseOf, Phase, IsToggle
<1>2. OutcomeOf' = [OutcomeOf EXCEPT ![r] = outcome]
  BY DEF Answer, GoTo, OutcomeOf, Outcome, IsToggle
<1>3. UNCHANGED <<cfg.ndpi, Wants>>
  BY DEF Wants, IsToggle
<1> QED
  BY <1>1, <1>2, <1>3 DEF Register!Return, PhaseOf, OutcomeOf, Wants

LEMMA RegisterStep ==
  TypeOK /\ Bookkeeping /\ [Next]_vars =>
    [Register!Next]_(Register!regVars)
<1> SUFFICES ASSUME TypeOK, Bookkeeping, [Next]_vars
             PROVE  Register!Next \/ UNCHANGED View
  BY DEF Register!regVars, View, Wants, PhaseOf, OutcomeOf
<1> USE DEF TypeOK, Bookkeeping, hostVars
<1>1. ASSUME NEW r \in Requests, NEW o \in Ops, Arrive(r, o)
      PROVE  Register!Next \/ UNCHANGED View
  <2>1. CASE o \in {"ensure", "reload"}
    <3>1. \A q \in Requests : Phase(q)' = Phase(q) /\ Outcome(q)' = Outcome(q)
      BY <1>1, <2>1 DEF Arrive, GoTo, Phase, Outcome, IsToggle, Toggles
    <3>2. Wants' = Wants
      BY <1>1, <2>1 DEF Arrive, Wants, IsToggle, Toggles
    <3> QED
      BY <1>1, <3>1, <3>2 DEF Arrive, View, PhaseOf, OutcomeOf
  <2>2. CASE o \in Toggles
    <3>1. Wants' = [Wants EXCEPT ![r] = o]
      BY <1>1, <2>2 DEF Arrive, Wants, IsToggle, Toggles
    <3>2. PhaseOf' = [PhaseOf EXCEPT ![r] = "pending"] /\ PhaseOf[r] = "idle"
      BY <1>1, <2>2 DEF Arrive, GoTo, Entry, PhaseOf, Phase, IsToggle, Toggles
    <3>3. OutcomeOf' = OutcomeOf
      BY <1>1, <2>2 DEF Arrive, GoTo, OutcomeOf, Outcome, IsToggle, Toggles
    <3>4. Register!Call(r, o)
      BY <1>1, <3>1, <3>2, <3>3
      DEF Arrive, Register!Call, Wants, PhaseOf, OutcomeOf
    <3> QED
      BY <2>2, <3>4 DEF Register!Next, Toggles
  <2> QED
    BY <2>1, <2>2 DEF Ops
<1>2. ASSUME NEW r \in Requests, ReadConfig(r)
      PROVE  Register!Next \/ UNCHANGED View
  <2>1. op[r] \in Toggles /\ PhaseOf[r] = "pending" /\ Wants[r] = op[r]
    BY <1>2 DEF ReadConfig, PhaseOf, Phase, Wants, IsToggle
  <2>2. ASSUME NEW kind \in {"notexist", "permission", "other"},
               Answer(r, ClassifyErr(kind))
        PROVE  Register!ReturnPending(r)
    <3>1. ClassifyErr(kind) \in {"NOT_FOUND", "PERMISSION", "INTERNAL"}
      BY <2>2 DEF ClassifyErr
    <3>2. Outcome(r)' = "not_written"
      BY <1>2, <2>1, <2>2, <3>1 DEF ReadConfig, Answer, Outcome, IsToggle
    <3> QED
      BY <1>2, <2>1, <2>2, <3>1, <3>2, AnswerView
      DEF ReadConfig, Register!ReturnPending, PhaseOf, Answers, Failures
  <2>3. ASSUME cfg.ndpi = "missing", Answer(r, ClassifyErr("noline"))
        PROVE  Register!ReturnPending(r)
    <3>1. Outcome(r)' = "not_configured"
      BY <1>2, <2>1, <2>3
      DEF ReadConfig, Answer, Outcome, IsToggle, ClassifyErr
    <3> QED
      BY <1>2, <2>1, <2>3, <3>1, AnswerView, ClassifyErrType
      DEF ReadConfig, Register!ReturnPending, PhaseOf, Answers, ErrorKinds
  <2>4. ASSUME cfg.ndpi = Target(op[r]), Answer(r, "unchanged")
        PROVE  Register!ReturnPending(r)
    <3>1. Outcome(r)' = "unchanged"
      BY <1>2, <2>1, <2>4 DEF ReadConfig, Answer, Outcome, IsToggle
    <3>2. Register!Return(r, "unchanged")
      BY <1>2, <2>1, <2>4, <3>1, AnswerView DEF ReadConfig, Answers
    <3>3. cfg.ndpi = Register!Wanted(Wants[r])
      BY <2>1, <2>4 DEF Target, Register!Wanted
    <3> QED
      BY <2>1, <3>2, <3>3 DEF Register!ReturnPending, PhaseOf, Wants
  <2>5. ASSUME GoTo(r, "write"), UNCHANGED resp
        PROVE  UNCHANGED View
    <3>1. \A q \in Requests : Phase(q)' = Phase(q) /\ Outcome(q)' = Outcome(q)
      BY <1>2, <2>5 DEF ReadConfig, GoTo, Phase, Outcome, IsToggle
    <3> QED
      BY <1>2, <3>1, Stutter DEF ReadConfig
  <2> QED
    BY <1>2, <2>2, <2>3, <2>4, <2>5 DEF ReadConfig, Register!Next
<1>3. ASSUME NEW r \in Requests, WriteConfig(r)
      PROVE  Register!Next \/ UNCHANGED View
  <2>1. op[r] \in Toggles /\ PhaseOf[r] = "pending" /\ Wants[r] = op[r]
    BY <1>3 DEF WriteConfig, PhaseOf, Phase, Wants, IsToggle
  <2>2. ASSUME NEW kind \in {"notexist", "permission", "other"},
               Answer(r, ClassifyErr(kind)), UNCHANGED cfg
        PROVE  Register!ReturnPending(r)
    <3>1. ClassifyErr(kind) \in {"NOT_FOUND", "PERMISSION", "INTERNAL"}
      BY <2>2 DEF ClassifyErr
    <3>2. Outcome(r)' = "not_written"
      BY <1>3, <2>1, <2>2, <3>1 DEF WriteConfig, Answer, Outcome, IsToggle
    <3> QED
      BY <1>3, <2>1, <2>2, <3>1, <3>2, AnswerView
      DEF WriteConfig, Register!ReturnPending, PhaseOf, Answers, Failures
  <2>3. ASSUME cfg' = snap[r], GoTo(r, "restart"), UNCHANGED resp
        PROVE  Register!TakeEffect(r)
    <3>1. cfg'.ndpi = Register!Wanted(Wants[r])
      BY <1>3, <2>1, <2>3 DEF WriteConfig, Target, Register!Wanted
    <3>2. PhaseOf' = [PhaseOf EXCEPT ![r] = "taken"]
      BY <1>3, <2>1, <2>3 DEF WriteConfig, GoTo, PhaseOf, Phase, IsToggle
    <3>3. UNCHANGED <<Wants, OutcomeOf>>
      BY <1>3, <2>3 DEF WriteConfig, Wants, OutcomeOf, Outcome, IsToggle
    <3> QED
      BY <1>3, <2>1, <3>1, <3>2, <3>3
      DEF WriteConfig, Register!TakeEffect, Wants, PhaseOf, OutcomeOf
  <2> QED
    BY <1>3, <2>2, <2>3 DEF WriteConfig, Register!Next
<1>4. ASSUME NEW r \in Requests, Connect(r) \/ Poll(r)
      PROVE  UNCHANGED View
  <2>1. op[r] = "ensure"
    BY <1>4 DEF Connect, Poll
  <2>2. \A q \in Requests : Phase(q)' = Phase(q) /\ Outcome(q)' = Outcome(q)
    BY <1>4, <2>1
    DEF Connect, Poll, Answer, GoTo, Phase, Outcome, IsToggle, Toggles
  <2> QED
    BY <1>4, <2>2, Stutter DEF Connect, Poll
<1>5. ASSUME NEW r \in Requests, CallRestart(r) \/ WaitRestart(r)
      PROVE  Register!Next \/ UNCHANGED View
  <2>1. CASE op[r] \notin Toggles
    <3>1. \A q \in Requests : Phase(q)' = Phase(q) /\ Outcome(q)' = Outcome(q)
      BY <1>5, <2>1
      DEF CallRestart, WaitRestart, Answer, GoTo, Phase, Outcome, IsToggle
    <3> QED
      BY <1>5, <3>1, Stutter DEF CallRestart, WaitRestart
  <2>2. ASSUME op[r] \in Toggles, NEW code \in {"RESTART_FAILED", "changed"},
               Answer(r, code)
        PROVE  Register!ReturnTaken(r)
    <3>1. PhaseOf[r] = "taken"
      BY <1>5, <2>2 DEF CallRestart, WaitRestart, PhaseOf, Phase, IsToggle
    <3>2. Outcome(r)' \in {"not_restarted", "changed"}
      BY <1>5, <2>2
      DEF CallRestart, WaitRestart, Answer, Outcome, IsToggle
    <3>3. Register!Return(r, Outcome(r)')
      BY <1>5, <2>2, AnswerView DEF CallRestart, WaitRestart, Answers, Failures
    <3> QED
      BY <3>1, <3>2, <3>3 DEF Register!ReturnTaken, PhaseOf
  <2>3. ASSUME op[r] \in Toggles, GoTo(r, "wait"), pc[r] = "restart",
               UNCHANGED <<op, cfg, resp>>
        PROVE  UNCHANGED View
    <3>1. \A q \in Requests : Phase(q)' = Phase(q) /\ Outcome(q)' = Outcome(q)
      BY <2>3 DEF GoTo, Phase, Outcome, IsToggle
    <3> QED
      BY <2>3, <3>1, Stutter
  <2> QED
    BY <1>5, <2>1, <2>2, <2>3
    DEF CallRestart, WaitRestart, RestartError, Toggles, Register!Next
<1>6. CASE Systemd \/ Death \/ UNCHANGED vars
           \/ \E r \in Requests : Hangup(r)
  <2>1. UNCHANGED <<op, pc, resp>> /\ cfg'.ndpi = cfg.ndpi
    BY <1>6
    DEF Systemd, UnitStop, UnitStart, Boot, Death, Hangup, vars,
        Contents
  <2> QED
    BY <2>1, Stutter DEF Phase, Outcome, IsToggle
<1>7. CASE AgentCrash
  <2>1. PhaseOf' = [r \in Requests |->
          IF PhaseOf[r] \in {"pending", "taken"} THEN "aborted" ELSE PhaseOf[r]]
    BY <1>7 DEF AgentCrash, PhaseOf, Phase, IsToggle, InFlight, Toggles
  <2>2. UNCHANGED <<cfg.ndpi, Wants, OutcomeOf>>
    BY <1>7 DEF AgentCrash, Wants, OutcomeOf, Outcome, IsToggle
  <2>3. Register!Crash
    BY <2>1, <2>2 DEF Register!Crash, PhaseOf, Wants, OutcomeOf
  <2> QED
    BY <2>3 DEF Register!Next
<1>8. ASSUME NEW r \in Requests, FindSocket(r) \/ WaitReady(r) \/ TryReload(r)
      PROVE  UNCHANGED View
  <2>1. op[r] = "reload"
    BY <1>8 DEF FindSocket, WaitReady, TryReload, Reloading
  <2>2. \A q \in Requests : Phase(q)' = Phase(q) /\ Outcome(q)' = Outcome(q)
    BY <1>8, <2>1
    DEF FindSocket, WaitReady, TryReload, Answer, GoTo, Phase, Outcome, IsToggle,
        Toggles
  <2> QED
    BY <1>8, <2>2, Stutter DEF FindSocket, WaitReady, TryReload
<1> QED
  BY <1>1, <1>2, <1>3, <1>4, <1>5, <1>6, <1>7, <1>8 DEF Next, Handler

(* However the calls interleave and whatever fails, /ndpi/enable and        *)
(* /ndpi/disable act on the plugin line at one instant or not at all, and   *)
(* their answers say which.                                                 *)
THEOREM AgentImplementsRegister == Spec => ImplementsRegister
<1>1. Init => Register!Init
  BY DEF Init, Register!Init, Register!Values, Contents, Phase, Outcome,
         IsToggle, Toggles
<1> QED
  BY <1>1, Bookkept, RegisterStep, PTL
  DEF Spec, ImplementsRegister, Register!Spec

=============================================================================

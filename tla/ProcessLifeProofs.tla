-------------------------- MODULE ProcessLifeProofs ---------------------------
(***************************************************************************)
(* Type correctness of ProcessLife and the clean exit of its processes,    *)
(* for any number of connections and any number of signals and faults.     *)
(*                                                                         *)
(* CleanExit is about the step in which a process ends.  The invariant     *)
(* says what must have led there: why Start has come to its end (EndCause) *)
(* and how far RunWithSignals is with the server (MainStage).              *)
(***************************************************************************)
EXTENDS ProcessLife, TLAPS

-----------------------------------------------------------------------------
(* The inductive invariant *)

\* Serve ends with an error or because somebody shuts the server down, which
\* nobody does before a signal; Start of the agent shuts down only after one.
EndCause ==
  /\ serveErr => server = "closed"
  /\ server = "closed" => serveErr \/ cancelled
  /\ start = "shut" => cancelled

\* RunWithSignals does not stay in its first select when there is a signal,
\* unless Start had failed before; Shutdown returns nil only when the listener
\* is closed and nothing is being served.
MainStage ==
  /\ main = "wait" /\ cancelled => errCh = "error"
  /\ main = "drain" => server = "closed"
  /\ main = "join" <=> stopErr # "none"
  /\ main # "off" => exit = "none"
  /\ main = "off" => ~cancelled /\ ~serveErr /\ server = "none"
  /\ stopErr = "nil" => server = "closed" /\ flight = {}

IInv == TypeOK /\ EndCause /\ MainStage

-----------------------------------------------------------------------------
LEMMA InitIInv == Init => IInv
<1> SUFFICES ASSUME Init PROVE IInv
  OBVIOUS
<1>1. budget \in 0 .. MaxFaults
  BY MaxFaultsAssumption DEF Init
<1>2. access \in BOOLEAN /\ job \in BOOLEAN /\ cancelled \in BOOLEAN /\ serveErr \in BOOLEAN /\ late \in BOOLEAN
  BY DEF Init
<1>3. TypeOK
  BY <1>1, <1>2 DEF Init, TypeOK, Checking, Stopping
<1> QED
  BY <1>3 DEF Init, IInv, EndCause, MainStage, Checking

LEMMA IInvStep == IInv /\ [Next]_vars => IInv'
<1> SUFFICES ASSUME IInv, [Next]_vars PROVE IInv'
  OBVIOUS
<1> USE MaxFaultsAssumption
    DEF IInv, TypeOK, EndCause, MainStage, Checking, Stopping, host,
        StartStep, NoFault, Fault, Proceed, Return, Checked
<1>1. ASSUME Launch PROVE IInv'
  BY <1>1 DEF Launch
<1>2. ASSUME LoadConfig PROVE IInv'
  BY <1>2 DEF LoadConfig
<1>3. ASSUME ValidateLocalResources PROVE IInv'
  BY <1>3 DEF ValidateLocalResources
<1>4. ASSUME ValidateNDPIConfig PROVE IInv'
  BY <1>4 DEF ValidateNDPIConfig
<1>5. ASSUME Dial PROVE IInv'
  BY <1>5 DEF Dial
<1>6. ASSUME CallRestart PROVE IInv'
  <2>1. job' \in BOOLEAN
    BY <1>6 DEF CallRestart
  <2> QED
    BY <1>6, <2>1 DEF CallRestart
<1>7. ASSUME AwaitRestart PROVE IInv'
  BY <1>7 DEF AwaitRestart
<1>8. ASSUME Recheck PROVE IInv'
  BY <1>8 DEF Recheck
<1>9. ASSUME Connect PROVE IInv'
  BY <1>9 DEF Connect
<1>10. ASSUME Listen PROVE IInv'
  BY <1>10 DEF Listen
<1>11. ASSUME AwaitEnd PROVE IInv'
  BY <1>11 DEF AwaitEnd
<1>12. ASSUME AgentShut PROVE IInv'
  BY <1>12 DEF AgentShut
<1>13. ASSUME Serve PROVE IInv'
  BY <1>13 DEF Serve, ServerStep
<1>14. ASSUME ServeFails PROVE IInv'
  BY <1>14 DEF ServeFails, ServerStep
<1>15. ASSUME ShutdownOnCancel PROVE IInv'
  BY <1>15 DEF ShutdownOnCancel, ServerStep
<1>16. ASSUME NEW c \in Calls, Accept(c) PROVE IInv'
  BY <1>16 DEF Accept, ServerStep
<1>17. ASSUME NEW c \in Calls, Finish(c) PROVE IInv'
  BY <1>17 DEF Finish, ServerStep
<1>18. ASSUME Signal PROVE IInv'
  BY <1>18 DEF Signal
<1>19. ASSUME StartEnded PROVE IInv'
  BY <1>19 DEF StartEnded, MainStep, Exit
<1>20. ASSUME Join PROVE IInv'
  BY <1>20 DEF Join, MainStep, Exit
<1>21. ASSUME Stop PROVE IInv'
  BY <1>21 DEF Stop, MainStep
<1>22. ASSUME Drain PROVE IInv'
  BY <1>22 DEF Drain, MainStep
<1>23. ASSUME Deadline PROVE IInv'
  BY <1>23 DEF Deadline, MainStep
<1>24. ASSUME Kill PROVE IInv'
  <2>1. cancelled' \in BOOLEAN /\ serveErr' \in BOOLEAN /\ late' \in BOOLEAN
    BY <1>24 DEF Kill, Exit
  <2> QED
    BY <1>24, <2>1 DEF Kill, Exit
<1>25. ASSUME RestartJob PROVE IInv'
  <2>1. job' \in BOOLEAN
    BY <1>25 DEF RestartJob
  <2> QED
    BY <1>25, <2>1 DEF RestartJob, HostStep, process
<1>26. ASSUME Boot PROVE IInv'
  BY <1>26 DEF Boot, HostStep, process
<1>27. ASSUME Death PROVE IInv'
  BY <1>27 DEF Death, HostStep, process
<1>28. ASSUME RestartByAnother PROVE IInv'
  BY <1>28 DEF RestartByAnother, HostStep, process
<1>29. CASE UNCHANGED vars
  BY <1>29 DEF vars, process
<1> QED
  BY <1>1, <1>2, <1>3, <1>4, <1>5, <1>6, <1>7, <1>8, <1>9, <1>10,
     <1>11, <1>12, <1>13, <1>14, <1>15, <1>16, <1>17, <1>18, <1>19, <1>20,
     <1>21, <1>22, <1>23, <1>24, <1>25, <1>26, <1>27, <1>28, <1>29
  DEF Next, Start, Main

LEMMA Inductive == Spec => []IInv
BY InitIInv, IInvStep, PTL DEF Spec

-----------------------------------------------------------------------------
(* Whatever signals and faults come, Start returns without an error only   *)
(* when a signal has come, and has no server before its start-up is over   *)
(* (runner.go:43-98, server.go:109-136).                                   *)
THEOREM TypeCorrect == Spec => []TypeOK
<1>1. IInv => TypeOK
  BY DEF IInv
<1> QED
  BY <1>1, Inductive, PTL

(* The only steps with which a process ends with success are those of      *)
(* RunWithSignals.                                                         *)
LEMMA CleanExitStep ==
  ASSUME IInv, [Next]_vars, exit' = "ok", main # "off"
  PROVE  cancelled /\ (stopErr # "skipped" => flight = {})
<1> USE DEF IInv, TypeOK, EndCause, MainStage, Checking, Stopping
<1>1. exit' # exit
  OBVIOUS
<1>2. CASE StartEnded
  BY <1>2 DEF StartEnded, Exit
<1>3. CASE Join
  BY <1>3 DEF Join, Exit
<1>4. CASE Kill
  BY <1>4 DEF Kill, Exit
<1>5. CASE Launch
  BY <1>5 DEF Launch
<1>6. CASE Stop \/ Drain \/ Deadline \/ Signal
  BY <1>1, <1>6 DEF Stop, Drain, Deadline, Signal
<1>7. CASE Start
  BY <1>1, <1>7
  DEF Start, StartStep, LoadConfig, ValidateLocalResources, ValidateNDPIConfig,
      Dial, CallRestart, AwaitRestart, Recheck, Connect, Listen, AwaitEnd, AgentShut
<1>8. CASE Serve \/ ServeFails \/ ShutdownOnCancel
  BY <1>1, <1>8 DEF Serve, ServeFails, ShutdownOnCancel, ServerStep
<1>9. CASE \E c \in Calls : Accept(c) \/ Finish(c)
  BY <1>1, <1>9 DEF Accept, Finish, ServerStep
<1>10. CASE RestartJob \/ Boot \/ Death \/ RestartByAnother
  BY <1>1, <1>10 DEF RestartJob, Boot, Death, RestartByAnother, HostStep, process
<1>11. CASE UNCHANGED vars
  BY <1>1, <1>11 DEF vars, process
<1> QED
  BY <1>2, <1>3, <1>4, <1>5, <1>6, <1>7, <1>8, <1>9, <1>10, <1>11 DEF Next, Main

(* Any number of connections, any signals and faults: success is reported  *)
(* after a signal only, and only when nobody is cut off, unless the        *)
(* server came to be after Stop had looked (run.go:26-46).                 *)
THEOREM ExitIsClean == Spec => CleanExit
<1>1. IInv /\ [Next]_vars =>
        [exit' = "ok" /\ main # "off" =>
           cancelled /\ (stopErr # "skipped" => flight = {})]_vars
  BY CleanExitStep
<1> QED
  BY <1>1, Inductive, PTL DEF Spec, CleanExit

=============================================================================

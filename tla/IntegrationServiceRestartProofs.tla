------------------- MODULE IntegrationServiceRestartProofs -------------------
(***************************************************************************)
(* What the composition of the service and the agent says of Suricata, for *)
(* any set of calls, any versions of the file and any set of faults: the   *)
(* types, the restarts that are owed and the answers that can be believed. *)
(* That HostAgent keeps its types is proved in HostAgentProofs and cited.  *)
(***************************************************************************)
EXTENDS IntegrationService, TLAPS

Facts == INSTANCE HostAgentProofs WITH Requests <- Calls

-----------------------------------------------------------------------------
(* The steps of the agent are those of HostAgent, and keep its types *)

LEMMA SameAssumptions == Faults \subseteq Facts!AllFaults /\ Versions # {}
BY ServiceFaultsAssumption, ServiceVersionsAssumption
DEF Agent!AllFaults, Facts!AllFaults

LEMMA SameTypes == Agent!TypeOK <=> Facts!TypeOK
BY DEF Agent!TypeOK, Facts!TypeOK, Agent!Contents, Facts!Contents,
       Agent!InFlight, Facts!InFlight, Agent!Reloading, Facts!Reloading,
       Agent!Attempts, Facts!Attempts, Agent!Ops, Facts!Ops, Agent!Toggles,
       Facts!Toggles, Agent!Answers, Facts!Answers, Agent!Failures,
       Facts!Failures

LEMMA SameHandler ==
  ASSUME NEW c \in Calls, Agent!Handler(c)
  PROVE  Facts!Handler(c)
<1>1. Agent!ReadConfig(c) => Facts!ReadConfig(c)
  BY DEF Agent!ReadConfig, Facts!ReadConfig, Agent!Answer, Facts!Answer,
      Agent!GoTo, Facts!GoTo, Agent!ClassifyErr, Facts!ClassifyErr,
      Agent!Target, Facts!Target, Agent!hostVars, Facts!hostVars
<1>2. Agent!WriteConfig(c) => Facts!WriteConfig(c)
  BY DEF Agent!WriteConfig, Facts!WriteConfig, Agent!Answer, Facts!Answer,
      Agent!GoTo, Facts!GoTo, Agent!ClassifyErr, Facts!ClassifyErr
<1>3. Agent!Connect(c) => Facts!Connect(c)
  BY DEF Agent!Connect, Facts!Connect, Agent!Answer, Facts!Answer, Agent!GoTo,
      Facts!GoTo, Agent!hostVars, Facts!hostVars
<1>4. Agent!CallRestart(c) => Facts!CallRestart(c)
  BY DEF Agent!CallRestart, Facts!CallRestart, Agent!Answer, Facts!Answer,
      Agent!GoTo, Facts!GoTo, Agent!RestartError, Facts!RestartError
<1>5. Agent!WaitRestart(c) => Facts!WaitRestart(c)
  BY DEF Agent!WaitRestart, Facts!WaitRestart, Agent!Answer, Facts!Answer,
      Agent!GoTo, Facts!GoTo, Agent!RestartError, Facts!RestartError,
      Agent!hostVars, Facts!hostVars
<1>6. Agent!Poll(c) => Facts!Poll(c)
  BY DEF Agent!Poll, Facts!Poll, Agent!Answer, Facts!Answer, Agent!GoTo,
      Facts!GoTo, Agent!hostVars, Facts!hostVars
<1>7. Agent!FindSocket(c) => Facts!FindSocket(c)
  BY DEF Agent!FindSocket, Facts!FindSocket, Agent!Answer, Facts!Answer,
      Agent!GoTo, Facts!GoTo, Agent!hostVars, Facts!hostVars
<1>8. Agent!WaitReady(c) => Facts!WaitReady(c)
  BY DEF Agent!WaitReady, Facts!WaitReady, Agent!Answer, Facts!Answer, Agent!GoTo,
      Facts!GoTo, Agent!hostVars, Facts!hostVars
<1>9. Agent!TryReload(c) => Facts!TryReload(c)
  BY DEF Agent!TryReload, Facts!TryReload, Agent!Answer, Facts!Answer, Agent!GoTo,
      Facts!GoTo, Agent!hostVars, Facts!hostVars, Agent!Attempts,
      Facts!Attempts, Agent!AfterTry, Facts!AfterTry
<1> QED
  BY <1>1, <1>2, <1>3, <1>4, <1>5, <1>6, <1>7, <1>8, <1>9
  DEF Agent!Handler, Facts!Handler

\* The steps that touch the agent and the host as HostAgent does.
AgentOnly ==
  \/ \E c \in Calls, k \in Toggles \cup {"ensure"} : Agent!Arrive(c, k)
  \/ \E c \in Calls : Agent!Handler(c) \/ Agent!Hangup(c)
  \/ Agent!UnitStop \/ Agent!UnitStart \/ Agent!Boot \/ Agent!Death
  \/ Agent!AgentCrash
  \/ UNCHANGED <<hostVars, agentVars>>

LEMMA SameStep == AgentOnly => [Facts!Next]_(Facts!vars)
<1> SUFFICES ASSUME AgentOnly PROVE [Facts!Next]_(Facts!vars)
  OBVIOUS
<1>1. ASSUME NEW c \in Calls, NEW o \in Toggles \cup {"ensure"}, Agent!Arrive(c, o)
      PROVE  Facts!Arrive(c, o) /\ o \in Facts!Ops
  BY <1>1 DEF Toggles, Facts!Ops, Facts!Toggles,
      Agent!Arrive, Facts!Arrive, Agent!Entry, Facts!Entry, Agent!GoTo,
      Facts!GoTo, Agent!hostVars, Facts!hostVars
<1>2. ASSUME NEW c \in Calls, Agent!Hangup(c)
      PROVE  Facts!Hangup(c)
  BY <1>2 DEF Agent!Hangup, Facts!Hangup, Agent!InFlight, Facts!InFlight,
      Agent!Reloading, Facts!Reloading, Agent!Attempts, Facts!Attempts,
      Agent!hostVars, Facts!hostVars
<1>3. ASSUME Agent!UnitStop \/ Agent!UnitStart \/ Agent!Boot
      PROVE  Facts!Systemd
  BY <1>3 DEF Facts!Systemd, Agent!UnitStop, Facts!UnitStop, Agent!UnitStart, Facts!UnitStart,
      Agent!Boot, Facts!Boot, Agent!Loads, Facts!Loads
<1>4. ASSUME Agent!Death
      PROVE  Facts!Death
  BY <1>4 DEF Agent!Death, Facts!Death
<1>5. ASSUME Agent!AgentCrash
      PROVE  Facts!AgentCrash
  BY <1>5 DEF Agent!AgentCrash, Facts!AgentCrash, Agent!InFlight, Facts!InFlight,
      Agent!Reloading, Facts!Reloading, Agent!Attempts, Facts!Attempts,
      Agent!hostVars, Facts!hostVars
<1>6. ASSUME UNCHANGED <<hostVars, agentVars>>
      PROVE  UNCHANGED Facts!vars
  BY <1>6 DEF hostVars, agentVars, Facts!vars
<1> QED
  BY <1>1, <1>2, <1>3, <1>4, <1>5, <1>6, SameHandler DEF AgentOnly, Facts!Next

LEMMA AgentTypes == Agent!TypeOK /\ AgentOnly => Agent!TypeOK'
<1>1. Facts!TypeOK /\ [Facts!Next]_(Facts!vars) => Facts!TypeOK'
  BY Facts!TypeOKStep, SameAssumptions
<1>2. Agent!TypeOK' <=> Facts!TypeOK'
  BY SameTypes, PTL
<1> QED
  BY <1>1, <1>2, SameTypes, SameStep

-----------------------------------------------------------------------------
(* Types and the state of a call *)

(* What a call has come to says what it asks for, and what the agent was    *)
(* asked on its behalf.                                                     *)
Books ==
  \A c \in Calls :
    /\ kind[c] = "none" <=> at[c] = "idle"
    /\ reply[c] # "none" <=> at[c] = "done"
    /\ at[c] \in {"validate", "replace", "restart", "wait"} => kind[c] = "reconcile"
    /\ at[c] \in {"send", "await"} => kind[c] \in Toggles \cup {"apply"}
    /\ at[c] \in Waiting => kind[c] # "none"
    /\ at[c] \in {"relock", "reload"} => kind[c] = "apply"
    /\ at[c] = "read" => kind[c] \in {"plan", "reconcile"}
    /\ reply[c] = "changed" => kind[c] \in Toggles \cup {"reconcile"}
    /\ restart[c] # "none" => at[c] = "wait"
    /\ pc[c] = "idle" <=> op[c] = "none"
    /\ op[c] # "none" =>
         kind[c] \in Toggles \cup {"apply"} /\ op[c] = Request(kind[c])
    /\ op[c] \in Toggles =>
         resp[c] \in Agent!Failures \cup {"none", "changed", "unchanged"}

Typed == TypeOK /\ Books

(* The steps of the service itself. *)
OwnStep(c) ==
  \/ \E k \in Kinds : Begin(c, k)
  \/ Lock(c) \/ Receive(c) \/ Reload(c) \/ Plan(c)
  \/ ReadConfig(c) \/ Validate(c) \/ WaitRestart(c)

LEMMA OwnStepTyped ==
  ASSUME Typed, NEW c \in Calls, OwnStep(c)
  PROVE  Typed'
<1> USE DEF Typed, TypeOK, Books, GoTo, Return, Locked, Waiting, Replies
<1>1. Agent!TypeOK'
  <2>1. AgentOnly
    BY DEF OwnStep, Begin, Lock, Receive, Reload, Plan, ReadConfig, Validate,
           WaitRestart, AgentOnly
  <2> QED
    BY <2>1, AgentTypes
<1>2. UNCHANGED <<hostVars, agentVars>> /\ UNCHANGED <<pc, op, resp>>
  BY DEF OwnStep, Begin, Lock, Receive, Reload, Plan, ReadConfig, Validate,
         WaitRestart, agentVars
<1>3. cfg \in Agent!Contents
  BY DEF Agent!TypeOK
<1>4. CASE \E k \in Kinds : Begin(c, k)
  BY <1>1, <1>2, <1>4 DEF Begin, Kinds, Toggles
<1>5. CASE Lock(c)
  BY <1>1, <1>2, <1>5 DEF Lock, Kinds, Toggles
<1>6. CASE Receive(c)
  <2>1. resp[c] \notin Agent!Failures /\ kind[c] \in Toggles /\ pc[c] = "done" =>
          resp[c] \in {"changed", "unchanged"}
    BY DEF Agent!TypeOK, Request, Toggles
  <2> QED
    BY <1>1, <1>2, <1>6, <2>1 DEF Receive
<1>7. CASE Reload(c) \/ Plan(c)
  BY <1>1, <1>2, <1>7 DEF Reload, Plan
<1>8. CASE ReadConfig(c)
  BY <1>1, <1>2, <1>3, <1>8 DEF ReadConfig
<1>9. CASE Validate(c)
  BY <1>1, <1>2, <1>9 DEF Validate
<1>10. CASE WaitRestart(c)
  BY <1>1, <1>2, <1>10 DEF WaitRestart
<1> QED
  BY <1>4, <1>5, <1>6, <1>7, <1>8, <1>9, <1>10 DEF OwnStep

(* The steps of the service that touch the host or the agent. *)
LEMMA SendTyped ==
  ASSUME Typed, NEW c \in Calls, Send(c)
  PROVE  Typed'
<1> USE DEF Typed, TypeOK, Books, GoTo, Return, Locked, Waiting, Replies
<1>1. CASE Return(c, "error") /\ UNCHANGED <<hostVars, agentVars>>
  <2>1. Agent!TypeOK'
    BY <1>1, AgentTypes DEF AgentOnly
  <2> QED
    BY <1>1, <2>1 DEF Send, agentVars
<1>2. CASE /\ Agent!Arrive(c, Request(kind[c]))
           /\ GoTo(c, "await") /\ UNCHANGED <<mutex, reply>>
  <2>1. Request(kind[c]) \in Toggles \cup {"ensure"}
    BY DEF Send, Request, Toggles
  <2>2. Agent!TypeOK'
    BY <1>2, <2>1, AgentTypes DEF AgentOnly
  <2>3. resp[c] = "none"
    BY <1>2 DEF Agent!Arrive, Agent!TypeOK
  <2>4. pc' = [pc EXCEPT ![c] = Agent!Entry(Request(kind[c]))]
        /\ op' = [op EXCEPT ![c] = Request(kind[c])] /\ UNCHANGED resp
    BY <1>2 DEF Agent!Arrive, Agent!GoTo
  <2>5. Agent!Entry(Request(kind[c])) # "idle" /\ Request(kind[c]) # "none"
    BY <2>1 DEF Agent!Entry, Toggles
  <2> HIDE DEF TypeOK
  <2>6. Books'
    BY <1>2, <2>1, <2>3, <2>4, <2>5 DEF Send, TypeOK, Agent!TypeOK
  <2> QED
    BY <1>2, <2>2, <2>6 DEF Send, TypeOK
<1> QED
  BY <1>1, <1>2 DEF Send

LEMMA GiveUpTyped ==
  ASSUME Typed, NEW c \in Calls, GiveUp(c)
  PROVE  Typed'
<1> USE DEF Typed, TypeOK, Books, GoTo, Return, Locked, Waiting, Replies
<1>1. Agent!TypeOK'
  BY AgentTypes DEF AgentOnly, GiveUp
<1>2. UNCHANGED <<pc, op, resp>>
  BY DEF GiveUp, Agent!Hangup
<1> QED
  BY <1>1, <1>2 DEF GiveUp

LEMMA FileTyped ==
  ASSUME Typed, NEW c \in Calls, ReplaceConfig(c) \/ CallRestart(c)
  PROVE  Typed'
<1> USE DEF Typed, TypeOK, Books, GoTo, Return, Locked, Waiting, Replies
<1>1. Patch(base[c]) \in Agent!Contents
  <2>1. base[c] \in Agent!Contents
    OBVIOUS
  <2> HIDE DEF Typed
  <2> QED
    BY <2>1, PatchedAssumption DEF Patch, Agent!Contents
<1>2. cfg' \in Agent!Contents /\ job' \in {"none", "stop", "start"}
  BY <1>1 DEF ReplaceConfig, CallRestart, Agent!TypeOK
<1>3. Agent!TypeOK'
  BY <1>2 DEF ReplaceConfig, CallRestart, agentVars, Agent!TypeOK
<1>4. CASE ReplaceConfig(c)
  BY <1>3, <1>4 DEF ReplaceConfig, agentVars
<1>5. CASE CallRestart(c)
  BY <1>3, <1>5 DEF CallRestart, agentVars
<1> QED
  BY <1>4, <1>5

LEMMA CrashTyped == ASSUME Typed, ServiceCrash PROVE Typed'
<1> USE DEF Typed, TypeOK, Books, Locked, Waiting
<1>1. Agent!TypeOK'
  BY DEF ServiceCrash, hostVars, Agent!TypeOK
<1> QED
  BY <1>1 DEF ServiceCrash

LEMMA HostTyped ==
  ASSUME Typed, HostStep \/ (Agent!AgentCrash /\ UNCHANGED serviceVars)
  PROVE  Typed'
<1> USE DEF Typed, TypeOK, Books
<1>1. Agent!TypeOK'
  BY AgentTypes DEF AgentOnly, HostStep, UnitStart
<1>2. CASE UnitStart
  BY <1>1, <1>2 DEF UnitStart, Agent!UnitStart
<1>3. CASE (Agent!UnitStop \/ Agent!Boot \/ Agent!Death) /\ UNCHANGED serviceVars
  BY <1>1, <1>3 DEF Agent!UnitStop, Agent!Boot, Agent!Death, serviceVars
<1>4. CASE Agent!AgentCrash /\ UNCHANGED serviceVars
  BY <1>1, <1>4 DEF Agent!AgentCrash, Agent!InFlight, Agent!Reloading,
                    Agent!Attempts, serviceVars
<1> QED
  BY <1>2, <1>3, <1>4 DEF HostStep

(* A handler of the agent goes from one of its steps to another, or ends.  *)
LEMMA HandlerMoves ==
  ASSUME NEW c \in Calls, Agent!Handler(c)
  PROVE  /\ pc[c] \in Agent!InFlight
         /\ \E label \in Agent!InFlight \cup {"done"} :
               pc' = [pc EXCEPT ![c] = label]
BY DEF Agent!Handler, Agent!ReadConfig, Agent!WriteConfig, Agent!Connect,
       Agent!CallRestart, Agent!WaitRestart, Agent!Poll, Agent!FindSocket,
       Agent!WaitReady, Agent!TryReload, Agent!GoTo, Agent!Answer,
       Agent!InFlight, Agent!Reloading, Agent!Attempts, Agent!AfterTry

LEMMA AgentHandlerTyped ==
  ASSUME Typed, NEW c \in Calls, Agent!Handler(c), UNCHANGED serviceVars
  PROVE  Typed'
<1> USE DEF Typed, TypeOK, Books
<1>1. Agent!TypeOK'
  BY AgentTypes DEF AgentOnly
<1>2. /\ pc[c] # "idle" /\ pc'[c] # "idle"
      /\ \A q \in Calls \ {c} : pc'[q] = pc[q] /\ resp'[q] = resp[q]
      /\ UNCHANGED op
  <2>1. pc[c] \in Agent!InFlight /\ \E label \in Agent!InFlight \cup {"done"} :
          pc' = [pc EXCEPT ![c] = label]
    BY HandlerMoves
  <2>2. /\ UNCHANGED op
        /\ UNCHANGED resp \/ \E code : resp' = [resp EXCEPT ![c] = code]
    BY DEF Agent!Handler, Agent!ReadConfig, Agent!WriteConfig, Agent!Connect,
           Agent!CallRestart, Agent!WaitRestart, Agent!Poll, Agent!FindSocket,
           Agent!WaitReady, Agent!TryReload, Agent!Answer, Agent!hostVars
  <2> QED
    BY <2>1, <2>2 DEF Agent!TypeOK, Agent!InFlight, Agent!Reloading, Agent!Attempts
<1>3. op[c] \in Toggles =>
        resp'[c] \in Agent!Failures \cup {"none", "changed", "unchanged"}
  <2>1. CASE UNCHANGED resp
    BY <1>2, <2>1
  <2>2. CASE \E code \in Agent!Failures \cup {"changed", "unchanged"} :
               resp' = [resp EXCEPT ![c] = code]
    BY <2>2 DEF Agent!TypeOK
  <2>3. \A error : Agent!ClassifyErr(error) \in Agent!Failures
    BY DEF Agent!ClassifyErr, Agent!Failures
  <2>4. CASE Agent!ReadConfig(c) \/ Agent!WriteConfig(c)
    BY <2>1, <2>2, <2>3, <2>4
    DEF Agent!ReadConfig, Agent!WriteConfig, Agent!Answer
  <2>5. CASE Agent!CallRestart(c) \/ Agent!WaitRestart(c)
    BY <2>1, <2>2, <2>5
    DEF Agent!CallRestart, Agent!WaitRestart, Agent!Answer, Agent!RestartError,
        Agent!Failures, Toggles
  <2>6. CASE \/ Agent!Connect(c) \/ Agent!Poll(c) \/ Agent!FindSocket(c)
             \/ Agent!WaitReady(c) \/ Agent!TryReload(c)
    BY <1>2, <2>6
    DEF Agent!Connect, Agent!Poll, Agent!FindSocket, Agent!WaitReady,
        Agent!TryReload, Agent!TypeOK, Agent!Reloading, Toggles
  <2> QED
    BY <2>4, <2>5, <2>6 DEF Agent!Handler
<1> QED
  BY <1>1, <1>2, <1>3 DEF serviceVars

LEMMA TypedStep == Typed /\ [Next]_vars => Typed'
<1> SUFFICES ASSUME Typed, [Next]_vars PROVE Typed'
  OBVIOUS
<1>1. CASE \E c \in Calls : OwnStep(c)
  BY <1>1, OwnStepTyped
<1>2. CASE \E c \in Calls :
             Send(c) \/ GiveUp(c) \/ ReplaceConfig(c) \/ CallRestart(c)
  BY <1>2, SendTyped, GiveUpTyped, FileTyped
<1>3. CASE ServiceCrash \/ HostStep \/ AgentStep
  BY <1>3, CrashTyped, HostTyped, AgentHandlerTyped DEF AgentStep
<1>4. CASE UNCHANGED vars
  <2>1. Agent!TypeOK'
    BY <1>4, AgentTypes DEF AgentOnly, Typed, TypeOK, vars
  <2> QED
    BY <1>4, <2>1 DEF vars, agentVars, serviceVars, Typed, TypeOK, Books
<1> QED
  BY <1>1, <1>2, <1>3, <1>4 DEF Next, Handler, OwnStep

LEMMA AlwaysTyped == Spec => []Typed
<1>1. Init => Typed
  <2> SUFFICES ASSUME Init PROVE Typed
    OBVIOUS
  <2>1. Agent!TypeOK
    BY DEF Init, Agent!Init, Agent!TypeOK, Agent!Contents, Agent!Loads,
           Agent!Reloading, Agent!Attempts
  <2> QED
    BY <2>1 DEF Init, Agent!Init, Agent!TypeOK, Typed, TypeOK, Books, Waiting
<1> QED
  BY <1>1, TypedStep, PTL DEF Spec

(* Type correctness of the service and of the agent it calls: what a call  *)
(* may be answered, for any number of calls (internal/httpapi/handlers.go).*)
THEOREM TypeCorrect == Spec => []TypeOK
<1>1. Typed => TypeOK
  BY DEF Typed
<1> QED
  BY <1>1, AlwaysTyped, PTL

-----------------------------------------------------------------------------
(* The restart that is owed *)

(* Call c, or the agent on its behalf, is about to restart Suricata, or has *)
(* failed with the file written.                                            *)
Owes(c) ==
  \/ pc[c] = "restart" /\ op[c] \in Toggles
  \/ at[c] = "restart"
  \/ pc[c] = "aborted" \/ resp[c] = "RESTART_FAILED"
  \/ kind[c] = "reconcile" /\ (at[c] = "aborted" \/ reply[c] = "error")

Debt == Disagree => job # "none" \/ \E c \in Calls : Owes(c)

(* A step that keeps the debts of all other calls, and that of its own.     *)
LEMMA DebtKept ==
  ASSUME Debt, UNCHANGED <<job, unit, plugin, cfg>>,
         \A q \in Calls : Owes(q) => Owes(q)'
  PROVE  Debt'
BY DEF Debt, Disagree

LEMMA OwnStepDebt ==
  ASSUME Typed, Debt, NEW c \in Calls, OwnStep(c)
  PROVE  Debt'
<1> USE DEF Typed, TypeOK, Books, GoTo, Return, Locked, Waiting, Owes
<1>1. /\ UNCHANGED <<hostVars, agentVars>>
      /\ UNCHANGED <<job, unit, plugin, cfg, pc, op, resp>>
  BY DEF OwnStep, Begin, Lock, Receive, Reload, Plan, ReadConfig, Validate,
         WaitRestart, agentVars, hostVars
<1>2. \A q \in Calls : Owes(q) => Owes(q)'
  <2>1. CASE \E k \in Kinds : Begin(c, k)
    BY <1>1, <2>1 DEF Begin
  <2>2. CASE Lock(c) \/ Receive(c) \/ Reload(c)
    BY <1>1, <2>2 DEF Lock, Receive, Reload
  <2>3. CASE Plan(c) \/ ReadConfig(c) \/ Validate(c) \/ WaitRestart(c)
    BY <1>1, <2>3 DEF Plan, ReadConfig, Validate, WaitRestart
  <2> QED
    BY <2>1, <2>2, <2>3 DEF OwnStep
<1> QED
  BY <1>1, <1>2, DebtKept

LEMMA CallStepDebt ==
  ASSUME Typed, Debt, NEW c \in Calls,
         Send(c) \/ GiveUp(c) \/ ReplaceConfig(c) \/ CallRestart(c)
  PROVE  Debt'
<1> USE DEF Typed, TypeOK, Books, GoTo, Return, Locked, Waiting, Owes
<1>1. CASE Send(c)
  <2>1. UNCHANGED <<job, unit, plugin, cfg, resp>>
    BY <1>1 DEF Send, Agent!Arrive, Agent!hostVars, hostVars, agentVars
  <2>2. \A q \in Calls : Owes(q) => Owes(q)'
    <3>1. CASE Return(c, "error") /\ UNCHANGED <<hostVars, agentVars>>
      BY <1>1, <3>1 DEF Send, agentVars
    <3>2. CASE Agent!Arrive(c, Request(kind[c])) /\ GoTo(c, "await")
               /\ UNCHANGED <<mutex, reply>>
      <4>1. \A q \in Calls : ~(q = c /\ (pc[q] \in {"restart", "aborted"}))
        BY <3>2 DEF Agent!Arrive
      <4>2. \A q \in Calls \ {c} :
              pc'[q] = pc[q] /\ op'[q] = op[q] /\ at'[q] = at[q]
        BY <3>2 DEF Agent!Arrive, Agent!GoTo, Agent!TypeOK
      <4> QED
        BY <1>1, <2>1, <3>2, <4>1, <4>2 DEF Send
    <3> QED
      BY <1>1, <3>1, <3>2 DEF Send
  <2> QED
    BY <2>1, <2>2, DebtKept
<1>2. CASE GiveUp(c)
  <2>1. UNCHANGED <<job, unit, plugin, cfg>>
    BY <1>2 DEF GiveUp, Agent!Hangup, Agent!hostVars
  <2>2. \A q \in Calls : Owes(q) => Owes(q)'
    BY <1>2 DEF GiveUp, Agent!Hangup
  <2> QED
    BY <2>1, <2>2, DebtKept
\* Whoever replaced the file restarts Suricata next, or fails to.
<1>3. CASE ReplaceConfig(c)
  <2>1. CASE UNCHANGED cfg
    <3>1. \A q \in Calls : Owes(q) => Owes(q)'
      BY <1>3, <2>1 DEF ReplaceConfig, agentVars
    <3> QED
      BY <1>3, <2>1, <3>1, DebtKept DEF ReplaceConfig
  <2>2. CASE GoTo(c, "restart")
    BY <2>2 DEF Debt
  <2> QED
    BY <1>3, <2>1, <2>2 DEF ReplaceConfig
<1>4. CASE CallRestart(c)
  <2>1. CASE job' = "stop"
    BY <2>1 DEF Debt
  <2>2. CASE Return(c, "error") /\ UNCHANGED <<job, restart>>
    <3>1. \A q \in Calls : Owes(q) => Owes(q)'
      BY <1>4, <2>2 DEF CallRestart, agentVars
    <3> QED
      BY <1>4, <2>2, <3>1, DebtKept DEF CallRestart
  <2> QED
    BY <1>4, <2>1, <2>2 DEF CallRestart
<1> QED
  BY <1>1, <1>2, <1>3, <1>4

LEMMA AgentHandlerDebt ==
  ASSUME Typed, Debt, NEW c \in Calls, Agent!Handler(c), UNCHANGED serviceVars
  PROVE  Debt'
<1> USE DEF Typed, TypeOK, Books, Owes, serviceVars, Agent!GoTo, Agent!Answer,
            Agent!TypeOK, Agent!hostVars
<1>1. CASE Agent!ReadConfig(c)
  <2>1. \A q \in Calls : Owes(q) => Owes(q)'
    BY <1>1 DEF Agent!ReadConfig
  <2> QED
    BY <1>1, <2>1, DebtKept DEF Agent!ReadConfig
<1>2. CASE Agent!WriteConfig(c)
  <2>1. CASE UNCHANGED cfg
    <3>1. \A q \in Calls : Owes(q) => Owes(q)'
      BY <1>2, <2>1 DEF Agent!WriteConfig
    <3> QED
      BY <1>2, <2>1, <3>1, DebtKept DEF Agent!WriteConfig
  <2>2. CASE Agent!GoTo(c, "restart")
    BY <1>2, <2>2 DEF Agent!WriteConfig, Agent!Toggles, Toggles, Debt
  <2> QED
    BY <1>2, <2>1, <2>2 DEF Agent!WriteConfig
<1>3. CASE Agent!CallRestart(c)
  <2>1. CASE job' = "stop"
    BY <2>1 DEF Debt
  <2>2. CASE /\ Agent!Answer(c, Agent!RestartError(op[c]))
             /\ UNCHANGED <<job, systemctl>>
    <3>1. \A q \in Calls \ {c} : Owes(q) => Owes(q)'
      BY <1>3, <2>2 DEF Agent!CallRestart
    <3>2. op[c] \in Toggles => resp'[c] = "RESTART_FAILED"
      BY <2>2 DEF Agent!RestartError, Toggles
    <3>3. op[c] \notin Toggles => (Owes(c) => Owes(c)')
      BY <1>3, <2>2 DEF Agent!CallRestart
    <3>4. \A q \in Calls : Owes(q) => Owes(q)'
      BY <3>1, <3>2, <3>3
    <3> QED
      BY <1>3, <2>2, <3>4, DebtKept DEF Agent!CallRestart
  <2> QED
    BY <1>3, <2>1, <2>2 DEF Agent!CallRestart
<1>4. CASE \/ Agent!Connect(c) \/ Agent!WaitRestart(c) \/ Agent!Poll(c)
           \/ Agent!FindSocket(c) \/ Agent!WaitReady(c) \/ Agent!TryReload(c)
  <2>1. \A q \in Calls : Owes(q) => Owes(q)'
    BY <1>4 DEF Agent!Connect, Agent!WaitRestart, Agent!Poll, Agent!FindSocket,
                Agent!WaitReady, Agent!TryReload, Agent!Attempts
  <2> QED
    BY <1>4, <2>1, DebtKept
    DEF Agent!Connect, Agent!WaitRestart, Agent!Poll, Agent!FindSocket,
        Agent!WaitReady, Agent!TryReload
<1> QED
  BY <1>1, <1>2, <1>3, <1>4 DEF Agent!Handler

LEMMA DebtStep == Typed /\ Debt /\ [Next]_vars => Debt'
<1> SUFFICES ASSUME Typed, Debt, [Next]_vars PROVE Debt'
  OBVIOUS
<1>1. CASE \E c \in Calls : OwnStep(c)
  BY <1>1, OwnStepDebt
<1>2. CASE \E c \in Calls :
             Send(c) \/ GiveUp(c) \/ ReplaceConfig(c) \/ CallRestart(c)
  BY <1>2, CallStepDebt
<1>3. CASE ServiceCrash
  <2>1. \A q \in Calls : Owes(q) => Owes(q)'
    BY <1>3 DEF ServiceCrash, Owes, Typed, Books, TypeOK, Locked, Waiting
  <2> QED
    BY <1>3, <2>1, DebtKept DEF ServiceCrash, hostVars
\* The job cannot end, and a process cannot boot, into a disagreement.
<1>4. CASE HostStep
  BY <1>4 DEF HostStep, UnitStart, Agent!UnitStart, Agent!UnitStop, Agent!Boot,
              Agent!Death, Agent!Loads, serviceVars, Debt, Disagree, Owes
<1>5. CASE Agent!AgentCrash /\ UNCHANGED serviceVars
  <2>1. \A q \in Calls : Owes(q) => Owes(q)'
    BY <1>5 DEF Agent!AgentCrash, Agent!InFlight, Owes, serviceVars, Typed, TypeOK,
                Agent!TypeOK
  <2> QED
    BY <1>5, <2>1, DebtKept DEF Agent!AgentCrash, Agent!hostVars
<1>6. CASE \E c \in Calls : Agent!Handler(c) /\ UNCHANGED serviceVars
  BY <1>6, AgentHandlerDebt
<1>7. CASE UNCHANGED vars
  BY <1>7 DEF vars, hostVars, agentVars, serviceVars, Debt, Disagree, Owes
<1> QED
  BY <1>1, <1>2, <1>3, <1>4, <1>5, <1>6, <1>7
  DEF Next, AgentStep, Handler, OwnStep

(* Between two writers of suricata.yaml and two ways to restart Suricata,   *)
(* no restart is forgotten, whatever fails: reconcile_config.go:116-147,    *)
(* handlers.go:118-188.                                                     *)
THEOREM RestartIsOwed == Spec => []RestartOwed
<1>1. Init => Debt
  BY DEF Init, Agent!Init, Agent!Loads, Debt, Disagree
<1>2. Debt => RestartOwed
  BY DEF Debt, Owes, RestartOwed
<1> QED
  BY <1>1, <1>2, AlwaysTyped, DebtStep, PTL DEF Spec

-----------------------------------------------------------------------------
(* An answer changed=true is true of Suricata *)

Wants(k) == IF k = "disable" THEN "off" ELSE "on"

(* Nobody asks for the opposite of what k wants.                            *)
Unopposed(k) ==
  \A q \in Calls : kind[q] \in Writers => (kind[q] = "disable" <=> k = "disable")

(* The file a toggle is about to write has the line as the toggle wants it. *)
Prepared ==
  \A c \in Calls : pc[c] = "write" =>
    op[c] \in Toggles /\ snap[c].ndpi = Wants(kind[c])

(* What an unopposed call may rely on from its write to its answer.         *)
Written(c) ==
  \/ pc[c] \in {"restart", "wait"} \/ resp[c] = "changed"
  \/ at[c] \in {"restart", "wait"} \/ reply[c] = "changed"

Progress(c) ==
  /\ Written(c) => cfg.ndpi = Wants(kind[c])
  /\ systemctl[c] = "running" \/ restart[c] = "running" => job # "none"
  /\ (systemctl[c] = "ok" \/ restart[c] = "ok"
        \/ resp[c] = "changed" \/ reply[c] = "changed") =>
       (unit = "active" => plugin = (kind[c] # "disable"))

Loading ==
  \A c \in Calls : kind[c] \in Writers /\ Unopposed(kind[c]) => Progress(c)

(* Calls never change their mind, so an opposition can only begin.          *)
LEMMA KindKept ==
  ASSUME Typed, [Next]_vars
  PROVE  \/ UNCHANGED kind
         \/ \E c \in Calls, k \in Kinds : Begin(c, k)
<1> QED
  BY DEF Next, Handler, Lock, Send, Receive, Reload, Plan, ReadConfig, Validate,
         ReplaceConfig, CallRestart, WaitRestart, GiveUp, ServiceCrash, AgentStep,
         HostStep, UnitStart, serviceVars, vars

LEMMA StaysUnopposed ==
  ASSUME Typed, [Next]_vars, NEW k, Unopposed(k)'
  PROVE  Unopposed(k)
<1>1. ASSUME NEW c \in Calls, NEW w \in Kinds, Begin(c, w)
      PROVE  Unopposed(k)
  BY <1>1 DEF Begin, Unopposed, Writers, Toggles, Typed, TypeOK, Books
<1>2. CASE UNCHANGED kind
  BY <1>2 DEF Unopposed
<1> QED
  BY <1>1, <1>2, KindKept

LEMMA PreparedStep == Typed /\ Prepared /\ [Next]_vars => Prepared'
<1> SUFFICES ASSUME Typed, Prepared, [Next]_vars PROVE Prepared'
  OBVIOUS
<1> USE DEF Prepared, Typed, TypeOK, Agent!TypeOK
<1>1. ASSUME NEW c \in Calls, NEW k \in Kinds, Begin(c, k)
      PROVE  Prepared'
  BY <1>1 DEF Begin, agentVars, Books, Toggles
<1>2. CASE UNCHANGED <<pc, snap, op, kind>>
  BY <1>2
<1>3. ASSUME NEW c \in Calls,
             OwnStep(c) \/ GiveUp(c) \/ ReplaceConfig(c) \/ CallRestart(c)
      PROVE  Prepared'
  BY <1>1, <1>2, <1>3
  DEF OwnStep, Lock, Receive, Reload, Plan, ReadConfig, Validate, WaitRestart,
      GiveUp, Agent!Hangup, ReplaceConfig, CallRestart, agentVars
<1>4. ASSUME NEW c \in Calls, Send(c)
      PROVE  Prepared'
  BY <1>2, <1>4 DEF Send, Agent!Arrive, Agent!GoTo, Agent!Entry, agentVars
<1>5. CASE ServiceCrash \/ HostStep \/ UNCHANGED vars
  BY <1>2, <1>5
  DEF ServiceCrash, HostStep, UnitStart, Agent!UnitStart, Agent!UnitStop,
      Agent!Boot, Agent!Death, serviceVars, vars, agentVars
<1>6. CASE Agent!AgentCrash /\ UNCHANGED serviceVars
  BY <1>6 DEF Agent!AgentCrash, Agent!InFlight, serviceVars
<1>7. ASSUME NEW c \in Calls, Agent!Handler(c), UNCHANGED serviceVars
      PROVE  Prepared'
  <2>1. CASE pc'[c] # "write" /\ UNCHANGED <<snap, op, kind>>
             /\ \A q \in Calls \ {c} : pc'[q] = pc[q]
    BY <2>1
  <2>2. CASE /\ snap' = [snap EXCEPT ![c] = [cfg EXCEPT !.ndpi = Agent!Target(op[c])]]
             /\ Agent!GoTo(c, "write") /\ UNCHANGED <<op, kind>> /\ pc[c] = "read"
    <3>1. [cfg EXCEPT !.ndpi = Agent!Target(op[c])].ndpi = Agent!Target(op[c])
      BY DEF Agent!Contents
    <3>2. op[c] \in Toggles /\ op[c] = kind[c]
      BY <2>2 DEF Books, Request, Toggles, Agent!Toggles
    <3>3. snap'[c].ndpi = Wants(kind[c])
      BY <2>2, <3>1, <3>2 DEF Agent!Target, Wants, Toggles
    <3> QED
      BY <2>2, <3>2, <3>3 DEF Agent!GoTo
  <2> QED
    BY <1>7, <2>1, <2>2
    DEF Agent!Handler, Agent!ReadConfig, Agent!WriteConfig, Agent!Connect,
        Agent!CallRestart, Agent!WaitRestart, Agent!Poll, Agent!FindSocket,
        Agent!WaitReady, Agent!TryReload, Agent!GoTo, Agent!Answer, Agent!Attempts,
        Agent!AfterTry, serviceVars
<1> QED
  BY <1>3, <1>4, <1>5, <1>6, <1>7 DEF Next, AgentStep, Handler, OwnStep

LEMMA AlwaysPrepared == Spec => []Prepared
<1>1. Init => Prepared
  BY DEF Init, Agent!Init, Prepared
<1> QED
  BY <1>1, PreparedStep, AlwaysTyped, PTL DEF Spec

(* A step that keeps the plugin, the line, the job and what r relies on.    *)
LEMMA ProgressKept ==
  ASSUME NEW r \in Calls, Progress(r), UNCHANGED kind, UNCHANGED <<unit, plugin, job>>,
         cfg'.ndpi = cfg.ndpi, Written(r)' => Written(r),
         systemctl'[r] \in {systemctl[r], "none"}, restart'[r] \in {restart[r], "none"},
         resp'[r] = "changed" => resp[r] = "changed" \/ systemctl[r] = "ok",
         reply'[r] = "changed" =>
           reply[r] = "changed" \/ resp[r] = "changed" \/ restart[r] = "ok"
  PROVE  Progress(r)'
BY DEF Progress

LEMMA OwnStepProgress ==
  ASSUME Typed, NEW r \in Calls, Progress(r), UNCHANGED kind,
         NEW c \in Calls, OwnStep(c)
  PROVE  Progress(r)'
<1> USE DEF Typed, TypeOK, Books, GoTo, Return, Locked, Waiting
<1>1. UNCHANGED <<cfg, unit, plugin, job, pc, op, resp, systemctl>>
  BY DEF OwnStep, Begin, Lock, Receive, Reload, Plan, ReadConfig, Validate,
         WaitRestart, agentVars, hostVars
<1>2. CASE \E k \in Kinds : Begin(c, k)
  BY <1>1, <1>2, ProgressKept DEF Begin, Written
<1>3. CASE Lock(c)
  BY <1>1, <1>3, ProgressKept DEF Lock, Written
<1>4. CASE Receive(c)
  BY <1>1, <1>4, ProgressKept DEF Receive, Written
<1>5. CASE Reload(c) \/ Plan(c)
  BY <1>1, <1>5, ProgressKept DEF Reload, Plan, Written
<1>6. CASE ReadConfig(c) \/ Validate(c)
  BY <1>1, <1>6, ProgressKept DEF ReadConfig, Validate, Written
<1>7. CASE WaitRestart(c)
  BY <1>1, <1>7, ProgressKept DEF WaitRestart, Written
<1> QED
  BY <1>2, <1>3, <1>4, <1>5, <1>6, <1>7 DEF OwnStep

LEMMA CallStepProgress ==
  ASSUME Typed, NEW r \in Calls, Progress(r), UNCHANGED kind,
         kind[r] \in Writers, Unopposed(kind[r]),
         NEW c \in Calls, Send(c) \/ GiveUp(c) \/ ReplaceConfig(c) \/ CallRestart(c)
  PROVE  Progress(r)'
<1> USE DEF Typed, TypeOK, Books, GoTo, Return, Locked, Waiting
<1>1. CASE Send(c)
  <2>1. UNCHANGED <<cfg, unit, plugin, job, resp, systemctl, restart>>
    BY <1>1 DEF Send, Agent!Arrive, Agent!hostVars, hostVars, agentVars
  <2>2. pc'[r] \in {"restart", "wait"} => pc[r] = pc'[r]
    BY <1>1 DEF Send, Agent!Arrive, Agent!GoTo, Agent!Entry, agentVars, Agent!TypeOK
  <2>3. at'[r] \in {"restart", "wait"} => at[r] = at'[r]
    BY <1>1 DEF Send
  <2>4. reply'[r] = "changed" => reply[r] = "changed"
    BY <1>1 DEF Send
  <2> QED
    BY <2>1, <2>2, <2>3, <2>4, ProgressKept DEF Written
<1>2. CASE GiveUp(c)
  BY <1>2, ProgressKept DEF GiveUp, Agent!Hangup, Agent!hostVars, Written
\* A Reconcile wants what r wants.
<1>3. CASE ReplaceConfig(c)
  <2>1. CASE UNCHANGED cfg /\ Return(c, "error")
    BY <1>3, <2>1, ProgressKept DEF ReplaceConfig, agentVars, Written
  <2>2. CASE cfg' = Patch(base[c]) /\ GoTo(c, "restart") /\ UNCHANGED reply
    <3>1. base[c] \in Agent!Contents
      OBVIOUS
    <3>2. Patch(base[c]).ndpi = "on"
      BY <3>1 DEF Patch, Agent!Contents
    <3>3. Wants(kind[r]) = "on"
      BY <1>3 DEF ReplaceConfig, Unopposed, Writers, Wants
    <3> QED
      BY <1>3, <2>2, <3>2, <3>3 DEF ReplaceConfig, agentVars, Progress
  <2> QED
    BY <1>3, <2>1, <2>2 DEF ReplaceConfig
<1>4. CASE CallRestart(c)
  <2>1. CASE Return(c, "error") /\ UNCHANGED <<job, restart>>
    BY <1>4, <2>1, ProgressKept DEF CallRestart, agentVars, Written
  <2>2. CASE /\ job' = "stop" /\ GoTo(c, "wait") /\ UNCHANGED reply
             /\ restart' = [restart EXCEPT ![c] = "running"]
    BY <1>4, <2>2 DEF CallRestart, agentVars, Written, Progress
  <2> QED
    BY <1>4, <2>1, <2>2 DEF CallRestart
<1> QED
  BY <1>1, <1>2, <1>3, <1>4

LEMMA AgentStepProgress ==
  ASSUME Typed, Prepared, NEW r \in Calls, Progress(r),
         kind[r] \in Writers, Unopposed(kind[r]),
         NEW c \in Calls, Agent!Handler(c), UNCHANGED serviceVars
  PROVE  Progress(r)'
<1> USE DEF Typed, TypeOK, Books, Agent!TypeOK, serviceVars, Agent!hostVars,
            Agent!GoTo, Agent!Answer
<1>1. \A error : Agent!ClassifyErr(error) # "changed"
  BY DEF Agent!ClassifyErr
<1>2. CASE Agent!ReadConfig(c)
  BY <1>1, <1>2, ProgressKept DEF Agent!ReadConfig, Written
\* The one step of the agent that changes the line writes what r wants as well.
<1>3. CASE Agent!WriteConfig(c)
  <2>1. CASE UNCHANGED cfg /\ \E error : Agent!Answer(c, Agent!ClassifyErr(error))
    BY <1>1, <1>3, <2>1, ProgressKept DEF Agent!WriteConfig, Written
  <2>2. CASE cfg' = snap[c] /\ Agent!GoTo(c, "restart") /\ UNCHANGED resp
    <3>1. op[c] \in Toggles /\ kind[c] = op[c]
      BY <1>3 DEF Agent!WriteConfig, Prepared, Request, Toggles
    <3>2. cfg'.ndpi = Wants(kind[r])
      BY <1>3, <2>2, <3>1
      DEF Agent!WriteConfig, Prepared, Wants, Unopposed, Writers, Toggles
    <3> QED
      BY <1>3, <2>2, <3>2 DEF Agent!WriteConfig, Progress
  <2> QED
    BY <1>3, <2>1, <2>2 DEF Agent!WriteConfig
<1>4. CASE Agent!CallRestart(c)
  <2>1. CASE /\ Agent!Answer(c, Agent!RestartError(op[c]))
             /\ UNCHANGED <<job, systemctl>>
    BY <1>4, <2>1, ProgressKept DEF Agent!CallRestart, Agent!RestartError, Written
  <2>2. CASE /\ job' = "stop" /\ Agent!GoTo(c, "wait") /\ UNCHANGED resp
             /\ systemctl' = [systemctl EXCEPT ![c] = "running"]
    BY <1>4, <2>2 DEF Agent!CallRestart, Written, Progress
  <2> QED
    BY <1>4, <2>1, <2>2 DEF Agent!CallRestart
<1>5. CASE Agent!WaitRestart(c)
  BY <1>5, ProgressKept DEF Agent!WaitRestart, Agent!RestartError, Written
<1>6. CASE \/ Agent!Connect(c) \/ Agent!Poll(c) \/ Agent!FindSocket(c)
           \/ Agent!WaitReady(c) \/ Agent!TryReload(c)
  <2>1. c # r
    BY <1>6
    DEF Agent!Connect, Agent!Poll, Agent!FindSocket, Agent!WaitReady,
        Agent!TryReload, Agent!Reloading, Request, Writers, Toggles
  <2> QED
    BY <1>6, <2>1, ProgressKept
    DEF Agent!Connect, Agent!Poll, Agent!FindSocket, Agent!WaitReady,
        Agent!TryReload, Written
<1> QED
  BY <1>2, <1>3, <1>4, <1>5, <1>6 DEF Agent!Handler

LEMMA BeginProgress ==
  ASSUME Typed, Loading, NEW r \in Calls, kind'[r] \in Writers, Unopposed(kind[r])',
         [Next]_vars, NEW c \in Calls, NEW k \in Kinds, Begin(c, k)
  PROVE  Progress(r)'
<1> USE DEF Typed, TypeOK, Books, Begin, GoTo, hostVars, agentVars
<1>1. CASE c = r
  <2>1. op[r] = "none" /\ pc[r] = "idle" /\ reply[r] = "none" /\ restart[r] = "none"
    BY <1>1 DEF Toggles
  <2>2. resp[r] = "none" /\ systemctl[r] = "none"
    BY <2>1 DEF Agent!TypeOK
  <2> QED
    BY <1>1, <2>1, <2>2 DEF Progress, Written
<1>2. CASE c # r
  <2>1. kind'[r] = kind[r]
    BY <1>2
  <2>2. Unopposed(kind[r])
    BY <2>1, StaysUnopposed
  <2>3. Progress(r)
    BY <2>1, <2>2 DEF Loading
  <2> QED
    BY <1>2, <2>1, <2>3 DEF Progress, Written
<1> QED
  BY <1>1, <1>2

LEMMA LoadingStep == Typed /\ Prepared /\ Loading /\ [Next]_vars => Loading'
<1> SUFFICES ASSUME Typed, Prepared, Loading, [Next]_vars,
                    NEW r \in Calls, kind'[r] \in Writers, Unopposed(kind[r])'
             PROVE  Progress(r)'
  BY DEF Loading
<1>1. CASE \E c \in Calls, k \in Kinds : Begin(c, k)
  BY <1>1, BeginProgress
<1>2. ASSUME UNCHANGED kind
      PROVE  kind[r] \in Writers /\ Unopposed(kind[r]) /\ Progress(r)
  BY <1>2, StaysUnopposed DEF Loading
<1>3. CASE UNCHANGED kind /\ \E c \in Calls : OwnStep(c)
  BY <1>2, <1>3, OwnStepProgress
<1>4. CASE /\ UNCHANGED kind
           /\ \E c \in Calls : Send(c) \/ GiveUp(c) \/ ReplaceConfig(c) \/ CallRestart(c)
  BY <1>2, <1>4, CallStepProgress
<1>5. CASE UNCHANGED serviceVars /\ \E c \in Calls : Agent!Handler(c)
  BY <1>2, <1>5, AgentStepProgress DEF serviceVars
<1>6. CASE ServiceCrash
  BY <1>2, <1>6
  DEF ServiceCrash, hostVars, Progress, Written, Typed, TypeOK, Locked, Waiting
<1>7. CASE Agent!AgentCrash /\ UNCHANGED serviceVars
  BY <1>2, <1>7
  DEF Agent!AgentCrash, Agent!hostVars, Agent!InFlight, serviceVars, Progress, Written
\* A process that boots after the job ended reads a file that agrees.
<1>8. CASE Agent!Boot /\ UNCHANGED serviceVars
  BY <1>2, <1>8
  DEF Agent!Boot, Agent!Loads, serviceVars, Progress, Written, Wants, Writers,
      Toggles, Typed, TypeOK, Agent!TypeOK, Books
<1>9. CASE (Agent!UnitStop \/ Agent!Death) /\ UNCHANGED serviceVars
  BY <1>2, <1>9 DEF Agent!UnitStop, Agent!Death, serviceVars, Progress, Written
<1>10. CASE UnitStart
  BY <1>2, <1>10 DEF UnitStart, Agent!UnitStart, Progress, Written
<1>11. CASE UNCHANGED vars
  BY <1>2, <1>11 DEF vars, hostVars, agentVars, serviceVars, Progress, Written
<1> QED
  BY <1>1, <1>3, <1>4, <1>5, <1>6, <1>7, <1>8, <1>9, <1>10, <1>11, KindKept
  DEF Next, AgentStep, Handler, OwnStep, HostStep, serviceVars

(* Any number of calls, any faults: an answer 200 with changed=true from    *)
(* the service is true of every running Suricata as long as nobody asks     *)
(* for the opposite (reconcile_config.go:116-149, http_server.go:113-134).  *)
THEOREM ChangedIsLoaded == Spec => []ChangedMeansLoaded
<1>1. Init => Loading
  BY DEF Init, Loading, Writers, Toggles
<1>2. Typed /\ Loading => ChangedMeansLoaded
  <2> SUFFICES ASSUME Typed, Loading, NEW c \in Calls, reply[c] = "changed",
                      \A q \in Calls : kind[q] \in {"enable", "disable", "reconcile"} =>
                        (kind[q] = "disable" <=> kind[c] = "disable"),
                      unit = "active"
               PROVE  plugin = (kind[c] # "disable")
    BY DEF ChangedMeansLoaded
  <2>1. kind[c] \in Writers
    BY DEF Typed, Books, Writers
  <2>2. Unopposed(kind[c])
    BY DEF Unopposed, Writers, Toggles
  <2> QED
    BY <2>1, <2>2 DEF Loading, Progress
<1> QED
  BY <1>1, <1>2, AlwaysTyped, AlwaysPrepared, LoadingStep, PTL DEF Spec

=============================================================================

---------------------- MODULE IntegrationServiceProofs ----------------------
(***************************************************************************)
(* What the mutex of the service is for, for any set of calls, any         *)
(* versions of the file and any set of faults: whoever writes suricata.yaml *)
(* writes what it has read, nobody waits for the mutex for ever, and so    *)
(* service and agent together implement the register of ConfigRegister.    *)
(***************************************************************************)
EXTENDS IntegrationServiceRestartProofs

AgentLabels == Agent!InFlight \cup {"idle", "done", "aborted"}
ServiceLabels == Locked \cup Waiting \cup {"idle", "done", "aborted"}

(* As much of the types as the mutual exclusion rests on.                  *)
Shape ==
  /\ cfg \in Agent!Contents
  /\ pc \in [Calls -> AgentLabels]
  /\ snap \in [Calls -> Agent!Contents]
  /\ gone \subseteq Calls
  /\ mutex \in Calls \cup {Nobody}
  /\ at \in [Calls -> ServiceLabels]
  /\ base \in [Calls -> Agent!Contents]

(* A handler at work holds the mutex, and the agent works for nobody else: *)
(* its handler has a call that awaits it, or one that gave up.             *)
Held == \A c \in Calls : at[c] \in Locked => mutex = c
Awaited == \A c \in Calls :
  pc[c] \in Agent!InFlight /\ c \notin gone => at[c] = "await"

(* What was read to be written back is still what the file holds.          *)
Fresh ==
  Late = {} =>
    \A c \in Calls :
      /\ pc[c] = "write" => cfg.rest = snap[c].rest /\ cfg.ndpi # snap[c].ndpi
      /\ at[c] \in {"validate", "replace"} => base[c] = cfg /\ Reported(cfg)

Inv == Shape /\ Held /\ Awaited /\ Fresh

(* Only giving up makes a call late. *)
LEMMA LateKept ==
  ASSUME UNCHANGED <<kind, gone>>
  PROVE  Late' = Late
BY DEF Late

LEMMA LateStays ==
  ASSUME gone \subseteq Calls, gone \subseteq gone',
         \A q \in Calls : kind[q] \in Toggles => kind'[q] = kind[q]
  PROVE  Late' = {} => Late = {}
BY DEF Late

(* While nobody is late, whoever writes for a call is awaited by it. *)
LEMMA WriterIsAwaited ==
  ASSUME Typed, Late = {}, NEW c \in Calls, pc[c] = "write"
  PROVE  c \notin gone
BY DEF Typed, TypeOK, Books, Agent!TypeOK, Late, Request, Toggles,
       Agent!Toggles

-----------------------------------------------------------------------------
(* A step that leaves the file, the agent and the mutex's holder alone but *)
(* for the place where one handler stands.                                 *)
LEMMA ServiceMove ==
  ASSUME Typed, Inv, NEW c \in Calls, UNCHANGED <<cfg, pc, snap, gone>>,
         NEW label \in ServiceLabels, at' = [at EXCEPT ![c] = label],
         at[c] # "await" \/ pc[c] \notin Agent!InFlight,
         \/ label \notin Locked /\ mutex' \in {mutex, Nobody}
                                /\ (mutex' = mutex \/ mutex = c)
         \/ label \in Locked /\ mutex' = c /\ mutex \in {c, Nobody},
         Late' = {} => Late = {},
         \/ UNCHANGED base /\ (label \in {"validate", "replace"} =>
                                 at[c] \in {"validate", "replace"})
         \/ base' = [base EXCEPT ![c] = cfg] /\ Reported(cfg)
  PROVE  Inv'
<1> USE DEF Inv, Shape
<1>1. Shape'
  OBVIOUS
<1>2. Held'
  BY CallsAssumption DEF Held
<1>3. Awaited'
  BY DEF Awaited
<1>4. Fresh'
  BY DEF Fresh
<1> QED
  BY <1>1, <1>2, <1>3, <1>4

LEMMA ServiceStep ==
  ASSUME Typed, Inv, NEW c \in Calls, Handler(c)
  PROVE  Inv'
<1> USE DEF agentVars, hostVars, GoTo, Return, Locked, Waiting, ServiceLabels
<1>1. at[c] \in Locked => mutex = c
  BY DEF Inv, Held
<1>0. Late' = Late
  BY LateKept
  DEF Handler, Lock, Send, Receive, Reload, Plan, ReadConfig, Validate,
      ReplaceConfig, CallRestart, WaitRestart, Agent!Arrive
<1>2. CASE Lock(c)
  BY <1>2, <1>0, ServiceMove DEF Lock
<1>3. CASE Send(c)
  <2>1. CASE Return(c, "error") /\ UNCHANGED <<hostVars, agentVars>>
    BY <1>1, <1>3, <2>1, <1>0, ServiceMove DEF Send
  <2>2. CASE Agent!Arrive(c, Request(kind[c])) /\ GoTo(c, "await")
             /\ UNCHANGED mutex
    <3> USE DEF Inv, Shape, Send, Agent!Arrive, Agent!GoTo, Agent!hostVars
    <3>1. pc' \in [Calls -> AgentLabels] /\ pc'[c] # "write"
      BY <1>3, <2>2 DEF AgentLabels, Agent!InFlight, Agent!Entry, Agent!Reloading
    <3>2. Held' /\ Awaited'
      BY <1>1, <1>3, <2>2 DEF Held, Awaited
    <3>3. Fresh'
      BY <1>0, <1>3, <2>2, <3>1 DEF Fresh
    <3> QED
      BY <1>3, <2>2, <3>1, <3>2, <3>3
  <2> QED
    BY <1>3, <2>1, <2>2 DEF Send
<1>4. CASE Receive(c)
  <2>1. pc[c] \notin Agent!InFlight
    BY <1>4 DEF Receive, Agent!InFlight, Agent!Reloading, Agent!Attempts
  <2> QED
    BY <1>1, <1>4, <2>1, <1>0, ServiceMove DEF Receive
<1>5. CASE Reload(c)
  BY <1>1, <1>5, <1>0, ServiceMove DEF Reload
<1>6. CASE ReadConfig(c)
  BY <1>1, <1>6, <1>0, ServiceMove DEF ReadConfig
<1>7. CASE Validate(c)
  BY <1>1, <1>7, <1>0, ServiceMove DEF Validate
<1>8. CASE ReplaceConfig(c)
  <2>1. CASE UNCHANGED cfg
    BY <1>1, <1>8, <2>1, <1>0, ServiceMove DEF ReplaceConfig
  <2>2. CASE cfg' = Patch(base[c]) /\ GoTo(c, "restart") /\ UNCHANGED mutex
    <3> USE DEF Inv, Shape, ReplaceConfig
    <3>1. cfg' \in Agent!Contents
      BY <2>2, PatchedAssumption DEF Patch, Agent!Contents
    <3>2. mutex = c
      BY <1>1, <1>8
    \* Nobody else has read the file: that takes the mutex, too.
    <3>3. Late = {} => \A q \in Calls :
            pc[q] # "write" /\ (q # c => at[q] \notin {"validate", "replace"})
      BY <1>8, <3>2, WriterIsAwaited DEF Held, Awaited, Agent!InFlight
    <3>4. Held' /\ Awaited'
      BY <1>8, <2>2, <3>2 DEF Held, Awaited
    <3>5. Fresh'
      BY <1>0, <1>8, <2>2, <3>3 DEF Fresh
    <3> QED
      BY <1>8, <2>2, <3>1, <3>4, <3>5
  <2> QED
    BY <1>8, <2>1, <2>2 DEF ReplaceConfig
<1>9. CASE CallRestart(c)
  BY <1>1, <1>9, <1>0, ServiceMove DEF CallRestart
<1>10. CASE WaitRestart(c)
  BY <1>1, <1>10, <1>0, ServiceMove DEF WaitRestart
<1>11. CASE Plan(c)
  BY <1>1, <1>11, <1>0, ServiceMove DEF Plan
<1> QED
  BY <1>2, <1>3, <1>4, <1>5, <1>6, <1>7, <1>8, <1>9, <1>10, <1>11 DEF Handler

-----------------------------------------------------------------------------
(* A step of a handler of the agent other than the write.                  *)
LEMMA AgentMove ==
  ASSUME Inv, NEW c \in Calls, UNCHANGED <<serviceVars, cfg, gone>>,
         pc[c] \in Agent!InFlight,
         NEW label \in AgentLabels, pc' = [pc EXCEPT ![c] = label],
         \/ label # "write" /\ UNCHANGED snap
         \/ /\ snap' \in [Calls -> Agent!Contents]
            /\ \A q \in Calls \ {c} : snap'[q] = snap[q]
            /\ cfg.rest = snap'[c].rest /\ cfg.ndpi # snap'[c].ndpi
  PROVE  Inv'
<1> USE DEF Inv, Shape, serviceVars
<1>1. Held' /\ Awaited'
  BY DEF Held, Awaited
<1>2. Late' = Late
  BY LateKept
<1>3. Fresh'
  BY <1>2 DEF Fresh
<1> QED
  BY <1>1, <1>3

LEMMA AgentHandlerStep ==
  ASSUME Typed, Inv, NEW c \in Calls, Agent!Handler(c), UNCHANGED serviceVars
  PROVE  Inv'
<1> USE DEF Agent!hostVars, Agent!GoTo, Agent!Answer, AgentLabels, Agent!InFlight,
           Agent!Reloading, Agent!Attempts
<1>1. CASE Agent!ReadConfig(c)
  <2>1. CASE UNCHANGED snap /\ Agent!GoTo(c, "done")
    BY <1>1, <2>1, AgentMove DEF Agent!ReadConfig
  <2>2. CASE /\ cfg.ndpi \notin {"missing", Agent!Target(op[c])}
             /\ snap' = [snap EXCEPT ![c] =
                           [cfg EXCEPT !.ndpi = Agent!Target(op[c])]]
             /\ Agent!GoTo(c, "write")
    <3>1. /\ [cfg EXCEPT !.ndpi = Agent!Target(op[c])] \in Agent!Contents
          /\ [cfg EXCEPT !.ndpi = Agent!Target(op[c])].rest = cfg.rest
          /\ [cfg EXCEPT !.ndpi = Agent!Target(op[c])].ndpi # cfg.ndpi
      BY <2>2 DEF Agent!Contents, Agent!Target, Inv, Shape
    <3>2. /\ snap' \in [Calls -> Agent!Contents]
          /\ snap'[c] = [cfg EXCEPT !.ndpi = Agent!Target(op[c])]
          /\ \A q \in Calls \ {c} : snap'[q] = snap[q]
      BY <2>2, <3>1 DEF Inv, Shape
    <3> QED
      BY <1>1, <2>2, <3>1, <3>2, AgentMove DEF Agent!ReadConfig
  <2> QED
    BY <1>1, <2>1, <2>2 DEF Agent!ReadConfig
<1>2. CASE Agent!WriteConfig(c)
  <2>1. CASE UNCHANGED cfg
    BY <1>2, <2>1, AgentMove DEF Agent!WriteConfig
  <2>2. CASE cfg' = snap[c] /\ Agent!GoTo(c, "restart")
    <3> USE DEF Inv, Shape, Agent!WriteConfig, serviceVars
    \* The call that awaits this handler holds the mutex.
    <3>1. Late = {} => \A q \in Calls :
            /\ q # c => pc[q] # "write"
            /\ at[q] \notin {"validate", "replace"}
      BY <1>2, WriterIsAwaited DEF Held, Awaited, Locked
    <3>2. Held' /\ Awaited'
      BY <1>2, <2>2 DEF Held, Awaited
    <3>3. Fresh'
      BY <1>2, <2>2, <3>1, LateKept DEF Fresh
    <3> QED
      BY <1>2, <2>2, <3>2, <3>3
  <2> QED
    BY <1>2, <2>1, <2>2 DEF Agent!WriteConfig
<1>3. CASE Agent!Connect(c) \/ Agent!CallRestart(c)
  BY <1>3, AgentMove DEF Agent!Connect, Agent!CallRestart
<1>4. CASE Agent!WaitRestart(c) \/ Agent!Poll(c)
  BY <1>4, AgentMove DEF Agent!WaitRestart, Agent!Poll
<1>5. CASE Agent!FindSocket(c) \/ Agent!WaitReady(c)
  BY <1>5, AgentMove DEF Agent!FindSocket, Agent!WaitReady
<1>6. CASE Agent!TryReload(c)
  <2>1. pc[c] # "try5" => Agent!AfterTry[pc[c]] \in Agent!Attempts
    BY <1>6 DEF Agent!TryReload, Agent!AfterTry
  <2> QED
    BY <1>6, <2>1, AgentMove DEF Agent!TryReload
<1> QED
  BY <1>1, <1>2, <1>3, <1>4, <1>5, <1>6 DEF Agent!Handler

-----------------------------------------------------------------------------
LEMMA InvStep == Typed /\ Inv /\ [Next]_vars => Inv'
<1> SUFFICES ASSUME Typed, Inv, [Next]_vars PROVE Inv'
  OBVIOUS
<1> USE DEF hostVars, agentVars
<1>1. gone \subseteq Calls
  BY DEF Inv, Shape
<1>2. ASSUME NEW c \in Calls, NEW k \in Kinds, Begin(c, k)
      PROVE  Inv'
  <2>1. kind[c] = "none"
    BY <1>2 DEF Begin, Typed, Books
  <2>2. Late' = {} => Late = {}
    BY <1>1, <1>2, <2>1, LateStays DEF Begin, Typed, TypeOK, Toggles
  <2> QED
    BY <1>2, <2>2, ServiceMove DEF Begin, GoTo, ServiceLabels, Waiting, Locked
<1>3. ASSUME NEW c \in Calls, GiveUp(c)
      PROVE  Inv'
  <2>1. Late' = {} => Late = {}
    BY <1>1, <1>3, LateStays DEF GiveUp, Agent!Hangup
  <2> QED
    BY <1>3, <2>1 DEF GiveUp, Return, GoTo, Agent!Hangup, Agent!hostVars, Inv,
       Shape, Held, Awaited, Fresh, Locked, ServiceLabels
\* Whoever waited for the agent has given up on it by dying.
<1>4. CASE ServiceCrash
  <2>1. Late' = {} => Late = {}
    BY <1>1, <1>4, LateStays DEF ServiceCrash
  <2> QED
    BY <1>4, <2>1 DEF ServiceCrash, Inv, Shape, Held, Awaited, Fresh, Locked,
       Waiting, ServiceLabels
<1>5. CASE Agent!AgentCrash /\ UNCHANGED serviceVars
  <2>1. Late' = Late
    BY <1>5, LateKept DEF Agent!AgentCrash, serviceVars
  <2> QED
    BY <1>5, <2>1 DEF Agent!AgentCrash, Agent!hostVars, serviceVars, Inv, Shape,
       Held, Awaited, Fresh, AgentLabels, Agent!InFlight
<1>6. CASE UNCHANGED <<cfg, pc, snap, gone, kind, mutex, at, base>>
  BY <1>6, LateKept DEF Inv, Shape, Held, Awaited, Fresh
<1>7. CASE HostStep \/ UNCHANGED vars
  BY <1>6, <1>7 DEF HostStep, UnitStart, Agent!UnitStart, Agent!UnitStop,
     Agent!Boot, Agent!Death, serviceVars, vars
<1> QED
  BY <1>2, <1>3, <1>4, <1>5, <1>7, ServiceStep, AgentHandlerStep
  DEF Next, AgentStep

LEMMA Invariant == Spec => []Inv
<1>1. Init => Inv
  BY CallsAssumption
  DEF Init, Agent!Init, Inv, Shape, Held, Awaited, Fresh, AgentLabels,
      Agent!InFlight, Agent!Reloading, Agent!Attempts, ServiceLabels, Locked,
      Waiting
<1> QED
  BY <1>1, InvStep, AlwaysTyped, PTL DEF Spec

(* The mutex of the service serialises all writes of suricata.yaml, its own *)
(* and the agent's, for as long as no call gives up on the agent.           *)
THEOREM MutexSerialisesWrites == Spec => WritesAreFresh
<1>1. Inv /\ [Next]_vars =>
        [gone = {} =>
           \A c \in Calls :
             /\ ToggleWrites(c) =>
                  cfg.rest = snap[c].rest /\ cfg.ndpi # snap[c].ndpi
             /\ ReconcileWrites(c) => base[c] = cfg]_vars
  BY DEF Inv, Fresh, Late, ToggleWrites, ReconcileWrites
<1> QED
  BY <1>1, Invariant, PTL DEF Spec, WritesAreFresh

-----------------------------------------------------------------------------
(* Nobody holds the mutex but a handler at work, and the agent knows of the *)
(* requests it has been sent and of no others.                              *)
Released == mutex # Nobody => at[mutex] \in Locked
Sent ==
  /\ \A c \in Calls :
        /\ at[c] = "await" => pc[c] # "idle"
        /\ at[c] \in {"idle", "lock", "send"} => pc[c] = "idle"
        /\ at[c] = "aborted" /\ kind[c] \in Toggles /\ c \notin gone =>
             pc[c] = "idle"
  /\ \A c \in gone : at[c] \in {"done", "aborted"}

LEMMA OwnStepServed ==
  ASSUME Typed, Inv, Released, Sent, NEW c \in Calls,
         OwnStep(c) \/ ReplaceConfig(c) \/ CallRestart(c)
  PROVE  Released' /\ Sent'
<1> USE DEF Typed, TypeOK, GoTo, Return, Locked, Waiting
<1>1. /\ UNCHANGED <<pc, gone>>
      /\ at[c] \in {"idle"} \cup Locked \cup Waiting
  BY DEF OwnStep, Begin, Lock, Receive, Reload, Plan, ReadConfig, Validate,
         WaitRestart, ReplaceConfig, CallRestart, agentVars
<1>2. at[c] \in Locked => mutex = c
  BY DEF Inv, Held
<1>3. \E label \in (Locked \ {"await"}) \cup Waiting \cup {"done"} :
        /\ at' = [at EXCEPT ![c] = label]
        /\ label = "lock" => at[c] = "idle"
        /\ label = "send" => at[c] = "lock"
        /\ IF label \in Locked THEN mutex' = c
           ELSE mutex' = IF at[c] \in Locked THEN Nobody ELSE mutex
  <2>1. CASE \/ \E k \in Kinds : Begin(c, k)
             \/ Lock(c) \/ Receive(c) \/ Reload(c)
    BY <1>2, <2>1 DEF Begin, Lock, Receive, Reload
  <2>2. CASE \/ Plan(c) \/ ReadConfig(c) \/ Validate(c) \/ WaitRestart(c)
             \/ ReplaceConfig(c) \/ CallRestart(c)
    BY <1>2, <2>2
    DEF Plan, ReadConfig, Validate, WaitRestart, ReplaceConfig, CallRestart
  <2> QED
    BY <2>1, <2>2 DEF OwnStep
<1>4. Released'
  BY <1>1, <1>2, <1>3, CallsAssumption DEF Released
<1>5. \A q \in Calls : kind'[q] # kind[q] => at'[q] = "lock"
  BY DEF OwnStep, Begin, Lock, Receive, Reload, Plan, ReadConfig, Validate,
         WaitRestart, ReplaceConfig, CallRestart
<1>6. Sent'
  BY <1>1, <1>3, <1>5 DEF Sent, Agent!TypeOK
<1> QED
  BY <1>4, <1>6

LEMMA ServedStep == Typed /\ Inv /\ Released /\ Sent /\ [Next]_vars =>
                      Released' /\ Sent'
<1> SUFFICES ASSUME Typed, Inv, Released, Sent, [Next]_vars
             PROVE  Released' /\ Sent'
  OBVIOUS
<1>1. ASSUME NEW c \in Calls, OwnStep(c) \/ ReplaceConfig(c) \/ CallRestart(c)
      PROVE  Released' /\ Sent'
  BY <1>1, OwnStepServed
<1>2. ASSUME NEW c \in Calls, Send(c)
      PROVE  Released' /\ Sent'
  <2> USE DEF Typed, TypeOK, GoTo, Return, Locked
  <2>1. mutex = c
    BY <1>2 DEF Send, Inv, Held
  <2>2. CASE Return(c, "error") /\ UNCHANGED <<hostVars, agentVars>>
    BY <1>2, <2>2 DEF Send, agentVars, Released, Sent
  <2>3. CASE Agent!Arrive(c, Request(kind[c])) /\ GoTo(c, "await")
             /\ UNCHANGED mutex
    <3>1. Agent!Entry(Request(kind[c])) # "idle"
      BY DEF Agent!Entry
    <3>2. pc' = [pc EXCEPT ![c] = Agent!Entry(Request(kind[c]))]
          /\ UNCHANGED gone /\ pc[c] = "idle"
      BY <2>3 DEF Agent!Arrive, Agent!GoTo
    <3> QED
      BY <1>2, <2>1, <2>3, <3>1, <3>2 DEF Send, Released, Sent, Agent!TypeOK
  <2> QED
    BY <1>2, <2>2, <2>3 DEF Send
<1>3. ASSUME NEW c \in Calls, GiveUp(c)
      PROVE  Released' /\ Sent'
  BY <1>3 DEF GiveUp, Return, GoTo, Agent!Hangup, Released, Sent, Typed, TypeOK
<1>4. CASE ServiceCrash
  <2>1. gone \subseteq Calls
    BY DEF Inv, Shape
  <2>2. \A q \in Calls : kind[q] \in Toggles =>
          at[q] \in {"lock", "send", "await", "done", "aborted"}
    BY DEF Typed, TypeOK, Books, Toggles, Locked, Waiting
  <2>3. Released' /\ mutex' = Nobody
    BY <1>4 DEF ServiceCrash, Released
  <2>4. Sent'
    BY <1>4, <2>1, <2>2
    DEF ServiceCrash, Sent, Typed, TypeOK, Locked, Waiting
  <2> QED
    BY <2>3, <2>4
<1>5. CASE UNCHANGED <<mutex, kind, at, gone>> /\ \A c \in Calls :
             pc[c] # "idle" <=> pc'[c] # "idle"
  BY <1>5 DEF Released, Sent
<1>6. CASE AgentStep
  <2>1. UNCHANGED <<mutex, kind, at, gone>>
    BY <1>6 DEF AgentStep, serviceVars, Agent!AgentCrash, Agent!Handler,
       Agent!ReadConfig, Agent!WriteConfig, Agent!Connect, Agent!CallRestart,
       Agent!WaitRestart, Agent!Poll, Agent!FindSocket, Agent!WaitReady,
       Agent!TryReload
  <2>2. \A c \in Calls : pc[c] # "idle" <=> pc'[c] # "idle"
    <3>1. CASE \E c \in Calls : Agent!Handler(c)
      BY <3>1, HandlerMoves DEF Typed, TypeOK, Agent!TypeOK, Agent!InFlight,
         Agent!Reloading, Agent!Attempts
    <3>2. CASE Agent!AgentCrash
      BY <3>2 DEF Agent!AgentCrash, Agent!InFlight, Agent!Reloading,
         Agent!Attempts
    <3> QED
      BY <1>6, <3>1, <3>2 DEF AgentStep
  <2> QED
    BY <1>5, <2>1, <2>2
<1>7. CASE HostStep \/ UNCHANGED vars
  BY <1>5, <1>7 DEF HostStep, UnitStart, Agent!UnitStart, Agent!UnitStop,
     Agent!Boot, Agent!Death, serviceVars, vars, agentVars
<1> QED
  BY <1>1, <1>2, <1>3, <1>4, <1>6, <1>7 DEF Next, Handler, OwnStep

LEMMA AlwaysServed == Spec => [](Released /\ Sent)
<1>1. Init => Released /\ Sent
  BY DEF Init, Agent!Init, Released, Sent
<1> QED
  BY <1>1, ServedStep, AlwaysTyped, Invariant, PTL DEF Spec

(* Nobody waits in vain: the mutex is with a handler at work, never with    *)
(* one that has answered, died or waits for the mutex itself, and a handler *)
(* that awaits the agent has sent what it awaits the answer of.             *)
THEOREM MutexIsReleased == Spec => []WaitersAreServed
<1>1. Typed /\ Released /\ Sent => WaitersAreServed
  BY DEF Typed, TypeOK, Released, Sent, WaitersAreServed
<1> QED
  BY <1>1, AlwaysTyped, AlwaysServed, PTL

-----------------------------------------------------------------------------
(* The refinement of ConfigRegister: the two steps that write the file are  *)
(* the instants at which calls take effect, two that read it find nothing   *)
(* to do; the others answer, give up, drop calls or stutter.                *)
Asked == [c \in Calls |-> IF kind[c] \in Writers THEN kind[c] ELSE "none"]
PhaseOf == [c \in Calls |-> Phase(c)]
Told == [c \in Calls |-> IF kind[c] \in Writers THEN reply[c] ELSE "none"]
View == <<cfg, Asked, PhaseOf, Told, Late>>
Shown == Register!Next \/ UNCHANGED View

(* The agent has prepared a write only of a file that has the line.         *)
HasLine == (\E c \in Calls : pc[c] = "write") => cfg.ndpi # "missing"

LEMMA HasLineStep == Typed /\ Prepared /\ HasLine /\ [Next]_vars => HasLine'
<1> SUFFICES ASSUME Typed, Prepared, HasLine, [Next]_vars PROVE HasLine'
  OBVIOUS
<1> USE DEF HasLine, Typed, TypeOK, Agent!TypeOK
<1>1. CASE UNCHANGED <<cfg, pc>>
  BY <1>1
<1>2. ASSUME NEW c \in Calls,
             (\E k \in Kinds : Begin(c, k)) \/ Lock(c) \/ Receive(c)
               \/ GiveUp(c) \/ Reload(c) \/ Plan(c) \/ ReadConfig(c)
               \/ Validate(c) \/ CallRestart(c) \/ WaitRestart(c)
      PROVE  HasLine'
  BY <1>1, <1>2 DEF Begin, Lock, Receive, GiveUp, Agent!Hangup, Reload, Plan,
     ReadConfig, Validate, CallRestart, WaitRestart, hostVars, agentVars,
     Agent!hostVars
<1>3. ASSUME NEW c \in Calls, Send(c)
      PROVE  HasLine'
  BY <1>1, <1>3 DEF Send, Agent!Arrive, Agent!GoTo, Agent!Entry, hostVars,
     agentVars, Agent!hostVars
<1>4. ASSUME NEW c \in Calls, ReplaceConfig(c)
      PROVE  HasLine'
  <2>1. Patch(base[c]).ndpi # "missing"
    BY DEF Patch, Agent!Contents
  <2> QED
    BY <1>1, <1>4, <2>1 DEF ReplaceConfig, agentVars
<1>5. CASE ServiceCrash \/ HostStep \/ UNCHANGED vars
  BY <1>1, <1>5
  DEF ServiceCrash, HostStep, UnitStart, Agent!UnitStart, Agent!UnitStop,
      Agent!Boot, Agent!Death, hostVars, vars, agentVars
<1>6. CASE Agent!AgentCrash
  BY <1>6 DEF Agent!AgentCrash, Agent!InFlight, Agent!hostVars
<1>7. ASSUME NEW c \in Calls, Agent!Handler(c)
      PROVE  HasLine'
  <2>1. CASE UNCHANGED cfg /\ (pc'[c] = "write" => cfg.ndpi # "missing")
             /\ \A q \in Calls \ {c} : pc'[q] = pc[q]
    BY <2>1
  <2>2. CASE pc[c] = "write" /\ cfg' = snap[c]
    BY <2>2 DEF Prepared, Wants
  <2> QED
    BY <1>7, <2>1, <2>2
    DEF Agent!Handler, Agent!ReadConfig, Agent!WriteConfig, Agent!Connect,
        Agent!CallRestart, Agent!WaitRestart, Agent!Poll, Agent!FindSocket,
        Agent!WaitReady, Agent!TryReload, Agent!GoTo, Agent!Answer,
        Agent!hostVars, Agent!Attempts, Agent!AfterTry
<1> QED
  BY <1>2, <1>3, <1>4, <1>5, <1>6, <1>7 DEF Next, AgentStep, Handler

(* Calls whose handlers do not move look as before.                         *)
LEMMA OthersKept ==
  ASSUME NEW c \in Calls,
         \A q \in Calls \ {c} : /\ kind'[q] = kind[q] /\ pc'[q] = pc[q]
                                /\ at'[q] = at[q] /\ resp'[q] = resp[q]
                                /\ reply'[q] = reply[q]
  PROVE  /\ \A q \in Calls \ {c} : Phase(q)' = Phase(q)
         /\ \A q \in Calls \ {c} : Asked'[q] = Asked[q] /\ Told'[q] = Told[q]
<1>1. ASSUME NEW q \in Calls \ {c}
      PROVE  Phase(q)' = Phase(q)
  <2>1. TogglePhase(q)' = TogglePhase(q)
    BY DEF TogglePhase
  <2>2. ReconcilePhase(q)' = ReconcilePhase(q)
    BY DEF ReconcilePhase
  <2> QED
    BY <2>1, <2>2 DEF Phase
<1>2. \A q \in Calls \ {c} : Asked'[q] = Asked[q] /\ Told'[q] = Told[q]
  BY DEF Asked, Told
<1> QED
  BY <1>1, <1>2

(* No call moves on in the register.                                         *)
LEMMA PhasesKept ==
  ASSUME NEW c \in Calls, Phase(c)' = Phase(c),
         \A q \in Calls \ {c} : Phase(q)' = Phase(q)
  PROVE  PhaseOf' = PhaseOf
BY DEF PhaseOf

LEMMA Stutter ==
  ASSUME NEW c \in Calls, UNCHANGED <<cfg, kind, gone>>,
         \A q \in Calls \ {c} : /\ pc'[q] = pc[q] /\ at'[q] = at[q]
                                /\ resp'[q] = resp[q] /\ reply'[q] = reply[q],
         \/ kind[c] \notin Writers
         \/ reply'[c] = reply[c] /\ Phase(c)' = Phase(c)
  PROVE  Shown
<1>1. Late' = Late
  BY LateKept
<1>2. kind[c] \notin Writers => Phase(c)' = Phase(c)
  BY DEF Phase, Writers
<1>3. PhaseOf' = PhaseOf
  BY <1>2, OthersKept DEF PhaseOf
<1>4. Asked' = Asked /\ Told' = Told
  BY DEF Asked, Told
<1> QED
  BY <1>1, <1>3, <1>4 DEF Shown, View

(* One call moves on in the register, and no other does.                    *)
LEMMA PhaseSet ==
  ASSUME NEW c \in Calls, NEW v, Phase(c)' = v,
         \A q \in Calls \ {c} : Phase(q)' = Phase(q)
  PROVE  PhaseOf' = [PhaseOf EXCEPT ![c] = v] /\ PhaseOf[c] = Phase(c)
BY DEF PhaseOf

(* The service answers.                                                     *)
LEMMA Answered ==
  ASSUME Typed, NEW c \in Calls, at[c] # "done", kind[c] \in Writers,
         UNCHANGED <<cfg, pc, resp, kind, gone>>,
         NEW answer, reply' = [reply EXCEPT ![c] = answer], GoTo(c, "done"),
         NEW outcome, Phase(c)' = outcome,
         \/ answer = "changed" /\ outcome = "taken" /\ Phase(c) = "taken"
         \/ answer = "unchanged" /\ outcome = "kept"
              /\ \/ Phase(c) = "kept"
                 \/ Phase(c) = "pending" /\ ~Register!Due(kind[c], cfg)
         \/ answer = "error" /\ outcome = "over"
              /\ Phase(c) \in Register!Working
  PROVE  Shown
<1> USE DEF Typed, TypeOK
<1>1. PhaseOf' = [PhaseOf EXCEPT ![c] = outcome]
  <2>1. \A q \in Calls \ {c} : Phase(q)' = Phase(q)
    BY OthersKept DEF GoTo
  <2> QED
    BY <2>1, PhaseSet
<1>2. Told' = [Told EXCEPT ![c] = answer] /\ Asked' = Asked
  BY DEF Told, Asked
<1>3. Told[c] = "none" /\ Asked[c] = kind[c] /\ PhaseOf[c] = Phase(c)
  BY DEF Told, Asked, PhaseOf, Books
<1>4. Late' = Late
  BY LateKept
<1>5. Register!Return(c, answer, outcome)
  BY <1>1, <1>2, <1>3, <1>4 DEF Register!Return, Told, Asked, PhaseOf
<1>6. Register!Answer(c)
  BY <1>3, <1>5 DEF Register!Answer, Told, Asked, PhaseOf
<1> QED
  BY <1>6 DEF Shown, Register!Next

(* A call has failed, which is not an answer yet.                           *)
LEMMA Dropped ==
  ASSUME NEW c \in Calls, Phase(c) \in Register!Working, Phase(c)' = "over",
         UNCHANGED <<cfg, kind, gone, reply>>,
         \A q \in Calls \ {c} : /\ pc'[q] = pc[q] /\ at'[q] = at[q]
                                /\ resp'[q] = resp[q]
  PROVE  Shown
<1>1. PhaseOf' = [q \in Calls |-> IF q \in {c} THEN "over" ELSE PhaseOf[q]]
  BY OthersKept DEF PhaseOf
<1>2. UNCHANGED <<cfg, Asked, Told, Late>>
  BY LateKept DEF Asked, Told
<1>3. Register!Drop({c})
  BY <1>1, <1>2 DEF Register!Drop, PhaseOf, Asked, Told
<1> QED
  BY <1>3 DEF Shown, Register!Next

(* A Reconcile writes what the register makes of the rest it has read.       *)
LEMMA PatchIsResult ==
  ASSUME NEW f \in Agent!Contents, NEW g \in Agent!Contents
  PROVE  /\ Patch(f) = Register!Result("reconcile", f)
         /\ Patch(f) = Register!Result("reconcile", [g EXCEPT !.rest = f.rest])
<1>1. Patched[f.rest] \in Versions
  BY PatchedAssumption DEF Agent!Contents
<1>2. /\ Patch(f) \in Agent!Contents
      /\ Patch(f).ndpi = "on" /\ Patch(f).rest = Patched[f.rest]
  BY <1>1 DEF Patch, Agent!Contents
<1>3. Patch(f) = [ndpi |-> "on", rest |-> Patched[f.rest]]
  BY <1>2 DEF Agent!Contents
<1>4. [g EXCEPT !.rest = f.rest].rest = f.rest
  BY DEF Agent!Contents
<1> QED
  BY <1>3, <1>4 DEF Register!Result, Register!Line

(* What the patch reports is what the register has to do.                    *)
LEMMA ReportedIsDue ==
  Reported(cfg) <=> Register!Due("reconcile", cfg)
BY DEF Reported, Register!Due, Register!Line

LEMMA BeginShown ==
  ASSUME Typed, Sent, NEW c \in Calls, NEW k \in Kinds, Begin(c, k)
  PROVE  Shown
<1> USE DEF Typed, TypeOK
<1>1. /\ kind[c] = "none" /\ pc[c] = "idle" /\ resp[c] = "none"
      /\ reply[c] = "none" /\ c \notin gone /\ Phase(c) = "idle"
  BY DEF Begin, Books, Sent, Agent!TypeOK, Phase, Toggles
<1>2. /\ kind' = [kind EXCEPT ![c] = k] /\ at' = [at EXCEPT ![c] = "lock"]
      /\ UNCHANGED <<cfg, pc, resp, gone, reply>>
  BY DEF Begin, GoTo, hostVars, agentVars
<1>3. Late' = Late
  BY <1>1, <1>2 DEF Late
<1>4. \A q \in Calls \ {c} :
        Phase(q)' = Phase(q) /\ Asked'[q] = Asked[q] /\ Told'[q] = Told[q]
  BY <1>2, OthersKept
<1>5. CASE k \notin Writers
  <2>1. Phase(c)' = "idle"
    BY <1>2, <1>5 DEF Phase, Writers
  <2>2. PhaseOf' = PhaseOf
    BY <1>1, <1>4, <2>1, PhasesKept
  <2>3. Asked' = Asked /\ Told' = Told
    BY <1>1, <1>2, <1>5 DEF Asked, Told, Writers, Toggles
  <2> QED
    BY <1>2, <1>3, <2>2, <2>3 DEF Shown, View
<1>6. CASE k \in Writers
  <2>1. Phase(c)' = "pending"
    BY <1>1, <1>2, <1>6
    DEF Phase, TogglePhase, ReconcilePhase, Writers, Toggles
  <2>2. PhaseOf' = [PhaseOf EXCEPT ![c] = "pending"] /\ PhaseOf[c] = "idle"
    BY <1>1, <1>4, <2>1, PhaseSet
  <2>3. Asked' = [Asked EXCEPT ![c] = k] /\ Told' = Told
    BY <1>1, <1>2, <1>6 DEF Asked, Told, Writers, Toggles
  <2>4. Register!Call(c, k)
    BY <1>2, <1>3, <2>2, <2>3 DEF Register!Call, PhaseOf, Asked, Told
  <2> QED
    BY <1>6, <2>4
    DEF Shown, Register!Next, Writers, Register!Toggles, Toggles
<1> QED
  BY <1>5, <1>6

(* What the handlers of a call of each kind have to show for it.            *)
LEMMA PhaseOfToggle ==
  ASSUME NEW c \in Calls, kind[c] \in Toggles
  PROVE  Phase(c) = TogglePhase(c)
BY DEF Phase, Toggles

LEMMA PhaseOfReconcile ==
  ASSUME NEW c \in Calls, kind[c] = "reconcile"
  PROVE  Phase(c) = ReconcilePhase(c)
BY DEF Phase, Toggles

LEMMA ReconcileShown ==
  ASSUME Typed, NEW c \in Calls, kind[c] = "reconcile",
         ReadConfig(c) \/ Validate(c) \/ CallRestart(c) \/ WaitRestart(c)
  PROVE  Shown
<1> USE DEF Typed, TypeOK
<1>1. UNCHANGED <<cfg, pc, resp, kind, gone>>
  BY DEF ReadConfig, Validate, CallRestart, WaitRestart, hostVars, agentVars
<1>2. kind[c] \in Writers /\ at[c] # "done" /\ kind'[c] = "reconcile"
  BY <1>1 DEF ReadConfig, Validate, CallRestart, WaitRestart, Writers
<1>3. Phase(c) = IF at[c] \in {"restart", "wait"} THEN "taken" ELSE "pending"
  <2>1. at[c] \in {"read", "validate", "restart", "wait"} /\ reply[c] = "none"
    BY <1>2 DEF ReadConfig, Validate, CallRestart, WaitRestart, Books
  <2> QED
    BY <2>1, PhaseOfReconcile DEF ReconcilePhase
<1>4. CASE Return(c, "error")
  <2>1. Phase(c)' = "over"
    BY <1>2, <1>4 DEF Return, GoTo, Phase, Toggles, ReconcilePhase
  <2> QED
    BY <1>1, <1>2, <1>3, <1>4, <2>1, Answered DEF Return, Register!Working
<1>5. CASE at[c] = "read" /\ ~Reported(cfg) /\ Return(c, "unchanged")
  <2>1. Phase(c)' = "kept"
    BY <1>2, <1>5 DEF Return, GoTo, Phase, Toggles, ReconcilePhase
  <2>2. ~Register!Due(kind[c], cfg)
    BY <1>5, ReportedIsDue
  <2> QED
    BY <1>1, <1>2, <1>3, <1>5, <2>1, <2>2, Answered DEF Return
<1>6. CASE at[c] = "wait" /\ Return(c, "changed")
  <2>1. Phase(c)' = "taken"
    BY <1>2, <1>6 DEF Return, GoTo, Phase, Toggles, ReconcilePhase
  <2> QED
    BY <1>1, <1>2, <1>3, <1>6, <2>1, Answered DEF Return
<1>7. CASE /\ UNCHANGED reply
           /\ \/ at[c] \in {"read", "validate"}
                   /\ (GoTo(c, "validate") \/ GoTo(c, "replace"))
              \/ at[c] = "restart" /\ GoTo(c, "wait")
  <2>1. Phase(c)' = Phase(c)
    BY <1>2, <1>3, <1>7 DEF GoTo, Phase, Toggles, ReconcilePhase
  <2> QED
    BY <1>1, <1>7, <2>1, Stutter DEF GoTo
<1> QED
  BY <1>4, <1>5, <1>6, <1>7 DEF ReadConfig, Validate, CallRestart, WaitRestart

(* The instant at which a Reconcile takes effect.                           *)
LEMMA ReplaceShown ==
  ASSUME Typed, Inv, NEW c \in Calls, ReplaceConfig(c)
  PROVE  Shown
<1> USE DEF Typed, TypeOK
<1>1. UNCHANGED <<pc, resp, kind, gone>> /\ at[c] = "replace"
  BY DEF ReplaceConfig, agentVars
<1>2. kind[c] = "reconcile" /\ kind[c] \in Writers /\ reply[c] = "none"
  BY <1>1 DEF Books, Writers
<1>3. Phase(c) = "pending"
  BY <1>1, <1>2, PhaseOfReconcile DEF ReconcilePhase
<1>4. CASE UNCHANGED cfg /\ Return(c, "error")
  <2>1. Phase(c)' = "over"
    BY <1>1, <1>2, <1>4 DEF Return, GoTo, Phase, Toggles, ReconcilePhase
  <2> QED
    BY <1>1, <1>2, <1>3, <1>4, <2>1, Answered DEF Return, Register!Working
<1>5. CASE cfg' = Patch(base[c]) /\ GoTo(c, "restart") /\ UNCHANGED reply
  <2>1. Phase(c)' = "taken"
    BY <1>1, <1>2, <1>5 DEF GoTo, Phase, Toggles, ReconcilePhase
  <2>2. PhaseOf' = [PhaseOf EXCEPT ![c] = "taken"] /\ PhaseOf[c] = "pending"
    <3>1. \A q \in Calls \ {c} : Phase(q)' = Phase(q)
      BY <1>1, <1>5, OthersKept DEF GoTo
    <3> QED
      BY <1>3, <2>1, <3>1, PhaseSet
  <2>3. /\ UNCHANGED <<Asked, Told, Late>>
        /\ Asked[c] = "reconcile" /\ Told[c] = "none"
    BY <1>1, <1>2, <1>5, LateKept DEF Asked, Told
  <2>4. cfg \in Agent!Contents /\ base[c] \in Agent!Contents
    BY DEF Agent!TypeOK
  <2>5. Late = {} => cfg' = Register!Result("reconcile", cfg)
    BY <1>1, <1>5, <2>4, PatchIsResult DEF Inv, Fresh
  <2>6. Late = {} => Register!Due("reconcile", cfg)
    BY <1>1, ReportedIsDue DEF Inv, Fresh
  \* Once a call is late, what is patched may be an old file.
  <2>7. \E v \in Versions :
          cfg' = Register!Result("reconcile", [cfg EXCEPT !.rest = v])
    <3>1. base[c].rest \in Versions
      BY <2>4 DEF Agent!Contents
    <3>2. cfg' = Register!Result("reconcile", [cfg EXCEPT !.rest = base[c].rest])
      BY <1>5, <2>4, PatchIsResult
    <3> QED
      BY <3>1, <3>2
  <2>8. Register!TakeEffect(c)
    BY <2>2, <2>3, <2>5, <2>6, <2>7
    DEF Register!TakeEffect, Register!Toggles, PhaseOf, Asked, Told
  <2> QED
    BY <2>8 DEF Shown, Register!Next
<1> QED
  BY <1>4, <1>5 DEF ReplaceConfig

LEMMA LockShown ==
  ASSUME Typed, NEW c \in Calls, Lock(c) \/ Reload(c) \/ Plan(c)
  PROVE  Shown
<1> USE DEF Typed, TypeOK
<1>1. UNCHANGED <<cfg, pc, resp, kind, gone>>
  BY DEF Lock, Reload, Plan, hostVars, agentVars
<1>2. \A q \in Calls \ {c} : at'[q] = at[q] /\ reply'[q] = reply[q]
  BY DEF Lock, Reload, Plan, GoTo, Return
<1>3. CASE Lock(c)
  <2>1. UNCHANGED reply /\ kind[c] # "none"
    BY <1>3 DEF Lock, Waiting, Books
  <2>2. CASE kind[c] \in Toggles
    <3>1. at[c] = "lock" /\ at'[c] = "send"
      BY <1>3, <2>2 DEF Lock, GoTo, Books, Waiting, Toggles
    <3>2. Phase(c)' = TogglePhase(c)'
      BY <1>1, <2>2 DEF Phase, Toggles
    <3>3. Phase(c)' = Phase(c)
      BY <1>1, <2>2, <3>1, <3>2, PhaseOfToggle DEF TogglePhase
    <3> QED
      BY <1>1, <1>2, <2>1, <3>3, Stutter
  <2>3. CASE kind[c] = "reconcile"
    <3>1. at[c] = "lock" /\ at'[c] = "read" /\ reply[c] = "none"
      BY <1>3, <2>3 DEF Lock, GoTo, Books, Waiting
    <3>2. Phase(c) = "pending"
      BY <2>3, <3>1, PhaseOfReconcile DEF ReconcilePhase
    <3>3. Phase(c)' = "pending"
      BY <1>1, <2>1, <2>3, <3>1 DEF Phase, Toggles, ReconcilePhase
    <3> QED
      BY <1>1, <1>2, <2>1, <3>2, <3>3, Stutter
  <2>4. CASE kind[c] \notin Writers
    BY <1>1, <1>2, <2>4, Stutter
  <2> QED
    BY <2>2, <2>3, <2>4 DEF Writers
<1>4. CASE Reload(c) \/ Plan(c)
  <2>1. kind[c] \notin Writers
    BY <1>4 DEF Reload, Plan, Books, Writers, Toggles
  <2> QED
    BY <1>1, <1>2, <2>1, Stutter
<1> QED
  BY <1>3, <1>4

LEMMA SendShown ==
  ASSUME Typed, Sent, NEW c \in Calls, Send(c)
  PROVE  Shown
<1> USE DEF Typed, TypeOK
<1>1. UNCHANGED <<cfg, resp, kind, gone>>
  BY DEF Send, Agent!Arrive, Agent!hostVars, hostVars, agentVars
<1>2. /\ kind[c] \in Toggles \cup {"apply"} /\ at[c] = "send"
      /\ pc[c] = "idle" /\ resp[c] = "none"
  BY DEF Send, Sent, Books, Agent!TypeOK
<1>3. kind[c] \in Toggles => Phase(c) = "pending"
  BY <1>2, PhaseOfToggle DEF TogglePhase
<1>4. CASE Return(c, "error") /\ UNCHANGED <<hostVars, agentVars>>
  <2>1. UNCHANGED pc
    BY <1>4 DEF agentVars
  <2>2. CASE kind[c] \in Toggles
    <3>1. Phase(c)' = "over"
      BY <1>1, <1>2, <1>4, <2>1, <2>2
      DEF Return, GoTo, Phase, Toggles, TogglePhase
    <3> QED
      BY <1>1, <1>2, <1>3, <1>4, <2>1, <2>2, <3>1, Answered
      DEF Return, Writers, Register!Working
  <2>3. CASE kind[c] = "apply"
    BY <1>1, <1>4, <2>1, <2>3, Stutter DEF Return, GoTo, Writers, Toggles
  <2> QED
    BY <1>2, <2>2, <2>3
<1>5. CASE /\ Agent!Arrive(c, Request(kind[c]))
           /\ GoTo(c, "await") /\ UNCHANGED <<mutex, reply>>
  <2>1. \A q \in Calls \ {c} : pc'[q] = pc[q] /\ at'[q] = at[q]
    BY <1>5 DEF Agent!Arrive, Agent!GoTo, Agent!TypeOK, GoTo
  <2>2. CASE kind[c] \in Toggles
    <3>1. pc'[c] = "read"
      BY <1>5, <2>2 DEF Agent!Arrive, Agent!GoTo, Agent!TypeOK, Agent!Entry,
         Request, Toggles
    <3>2. Phase(c)' = "pending"
      BY <1>1, <1>2, <2>2, <3>1 DEF Phase, Toggles, TogglePhase
    <3> QED
      BY <1>1, <1>3, <1>5, <2>1, <2>2, <3>2, Stutter
  <2>3. CASE kind[c] = "apply"
    BY <1>1, <1>5, <2>1, <2>3, Stutter DEF Writers, Toggles
  <2> QED
    BY <1>2, <2>2, <2>3
<1> QED
  BY <1>4, <1>5 DEF Send

LEMMA ReceiveShown ==
  ASSUME Typed, NEW c \in Calls, Receive(c)
  PROVE  Shown
<1> USE DEF Typed, TypeOK
<1>1. /\ UNCHANGED <<cfg, pc, resp, kind, gone>>
      /\ at[c] = "await" /\ kind[c] \in Toggles \cup {"apply"}
  BY DEF Receive, hostVars, agentVars, Books
<1>2. CASE kind[c] = "apply"
  BY <1>1, <1>2, Stutter DEF Receive, GoTo, Return, Writers, Toggles
<1>3. CASE kind[c] \in Toggles
  <2>1. /\ kind[c] \in Writers /\ kind[c] # "apply"
        /\ Phase(c) = TogglePhase(c) /\ Phase(c)' = TogglePhase(c)'
    BY <1>1, <1>3, PhaseOfToggle DEF Writers, Toggles, Phase
  <2>2. CASE pc[c] = "aborted" /\ Return(c, "error")
    <3>1. resp[c] = "none"
      BY <2>2 DEF Agent!TypeOK
    <3>2. Phase(c) = "over" /\ Phase(c)' = "over"
      BY <1>1, <2>1, <2>2, <3>1 DEF TogglePhase
    <3> QED
      BY <1>1, <2>1, <2>2, <3>2, Answered DEF Return, Register!Working
  <2>3. CASE pc[c] = "done" /\ resp[c] \in Agent!Failures /\ Return(c, "error")
    <3>1. Phase(c) = "over" /\ Phase(c)' = "over"
      BY <1>1, <2>1, <2>3 DEF TogglePhase, Agent!Failures
    <3> QED
      BY <1>1, <2>1, <2>3, <3>1, Answered DEF Return, Register!Working
  <2>4. CASE pc[c] = "done" /\ resp[c] \notin Agent!Failures
             /\ Return(c, resp[c])
    <3>1. resp[c] \in {"changed", "unchanged"}
      BY <1>3, <2>4 DEF Agent!TypeOK, Books, Request, Toggles
    <3>2. Phase(c)' = Phase(c)
          /\ Phase(c) = IF resp[c] = "changed" THEN "taken" ELSE "kept"
      BY <1>1, <2>1, <2>4, <3>1 DEF TogglePhase
    <3> QED
      BY <1>1, <2>1, <2>4, <3>1, <3>2, Answered DEF Return
  <2> QED
    BY <1>3, <2>1, <2>2, <2>3, <2>4 DEF Receive
<1> QED
  BY <1>1, <1>2, <1>3

LEMMA GiveUpShown ==
  ASSUME Typed, NEW c \in Calls, GiveUp(c)
  PROVE  Shown
<1> USE DEF Typed, TypeOK
<1>1. /\ UNCHANGED <<cfg, pc, op, resp, kind>> /\ gone' = gone \cup {c}
      /\ at[c] = "await" /\ kind[c] \in Toggles \cup {"apply"}
      /\ pc[c] \in Agent!InFlight
  BY DEF GiveUp, Agent!Hangup, Agent!hostVars, Books
<1>2. /\ at' = [at EXCEPT ![c] = "done"]
      /\ reply' = [reply EXCEPT ![c] = "error"] /\ reply[c] = "none"
  BY <1>1 DEF GiveUp, Return, GoTo, Books
<1>3. CASE kind[c] = "apply"
  <2>1. Late' = Late
    BY <1>1, <1>3 DEF Late, Toggles
  <2>2. Phase(c) = "idle" /\ Phase(c)' = "idle"
    BY <1>1, <1>3 DEF Phase, Toggles
  <2>3. PhaseOf' = PhaseOf
    <3>1. \A q \in Calls \ {c} : Phase(q)' = Phase(q)
      BY <1>1, <1>2, OthersKept
    <3> QED
      BY <2>2, <3>1, PhasesKept
  <2>4. Asked' = Asked /\ Told' = Told
    BY <1>1, <1>2, <1>3 DEF Asked, Told, Writers, Toggles
  <2> QED
    BY <1>1, <2>1, <2>3, <2>4 DEF Shown, View
<1>4. CASE kind[c] \in Toggles
  <2>1. pc[c] \in {"read", "write", "restart", "wait"} /\ resp[c] = "none"
    BY <1>1, <1>4 DEF Agent!InFlight, Agent!TypeOK, Books, Request, Toggles
  <2>2. Phase(c)' = Phase(c)
    <3>1. TogglePhase(c)' = TogglePhase(c)
      BY <1>1, <2>1 DEF TogglePhase
    <3> QED
      BY <1>1, <1>4, <3>1 DEF Phase, Toggles
  <2>3. PhaseOf' = PhaseOf
    <3>1. \A q \in Calls \ {c} : Phase(q)' = Phase(q)
      BY <1>1, <1>2, OthersKept
    <3> QED
      BY <2>2, <3>1, PhasesKept
  <2>4. /\ Asked' = Asked /\ Told' = [Told EXCEPT ![c] = "error"]
        /\ Asked[c] \in Toggles /\ Told[c] = "none"
    BY <1>1, <1>2, <1>4 DEF Asked, Told, Writers
  <2>5. Late' = Late \cup {c}
    BY <1>1, <1>4 DEF Late
  <2>6. Register!GiveUp(c)
    BY <1>1, <2>3, <2>4, <2>5
    DEF Register!GiveUp, Register!Toggles, Toggles, PhaseOf, Asked, Told
  <2> QED
    BY <2>6 DEF Shown, Register!Next
<1> QED
  BY <1>1, <1>3, <1>4

(* The toggles that the agent goes on with are late from then on.           *)
LEMMA CrashShown ==
  ASSUME Typed, Inv, Sent, ServiceCrash
  PROVE  Shown
<1> USE DEF Typed, TypeOK
<1> DEFINE left == {q \in Late' : reply[q] = "none"}
<1>1. /\ UNCHANGED <<cfg, pc, resp, kind, reply>>
      /\ gone' = gone \cup {q \in Calls : at[q] = "await"}
      /\ at' = [q \in Calls |->
           IF at[q] \in Locked \cup Waiting THEN "aborted" ELSE at[q]]
  BY DEF ServiceCrash, hostVars
<1>2. gone \subseteq Calls
  BY DEF Inv, Shape
<1>3. UNCHANGED <<Asked, Told>>
  BY <1>1 DEF Asked, Told
<1>4. \A q \in left : /\ q \in Calls
                      /\ Asked[q] \in Register!Toggles /\ Told[q] = "none"
  BY <1>1, <1>2 DEF Late, Asked, Told, Writers, Register!Toggles, Toggles
<1>5. Late' = Late \cup left
  BY <1>1, <1>2 DEF Late, Books, Toggles
<1>6. ASSUME NEW q \in Calls
      PROVE  Phase(q)' = IF /\ Phase(q) \in Register!Working
                            /\ Told[q] = "none" /\ q \notin left
                           THEN "over" ELSE Phase(q)
  <2>1. CASE kind[q] \in Toggles
    <3>1. /\ Phase(q) = TogglePhase(q) /\ Phase(q)' = TogglePhase(q)'
          /\ Told[q] = reply[q]
      BY <1>1, <2>1, PhaseOfToggle DEF Phase, Toggles, Told, Writers
    <3>2. CASE at[q] \in {"lock", "send"}
      <4>1. pc[q] = "idle" /\ resp[q] = "none" /\ reply[q] = "none"
            /\ q \notin gone /\ at'[q] = "aborted" /\ q \notin left
        BY <1>1, <3>2
        DEF Sent, Agent!TypeOK, Books, Locked, Waiting, Late
      <4> QED
        BY <1>1, <3>1, <3>2, <4>1 DEF TogglePhase, Register!Working
    <3>3. CASE at[q] = "await"
      <4>1. pc[q] # "idle" /\ reply[q] = "none" /\ q \in left
        BY <1>1, <2>1, <3>3 DEF Sent, Books, Late
      <4>2. TogglePhase(q)' = TogglePhase(q)
        BY <1>1, <4>1 DEF TogglePhase
      <4> QED
        BY <3>1, <4>1, <4>2
    <3>4. CASE at[q] = "done"
      <4>1. at'[q] = at[q] /\ reply[q] # "none"
        BY <1>1, <3>4 DEF Locked, Waiting, Books
      <4>2. TogglePhase(q)' = TogglePhase(q)
        BY <1>1, <4>1 DEF TogglePhase
      <4> QED
        BY <3>1, <4>1, <4>2
    <3>5. CASE at[q] = "aborted"
      <4>1. at'[q] = at[q] /\ reply[q] = "none"
        BY <1>1, <3>5 DEF Locked, Waiting, Books
      <4>2. TogglePhase(q)' = TogglePhase(q)
        BY <1>1, <4>1 DEF TogglePhase
      <4>3. CASE q \in gone
        BY <1>1, <2>1, <3>1, <4>1, <4>2, <4>3 DEF Late
      <4>4. CASE q \notin gone
        <5>1. pc[q] = "idle" /\ resp[q] = "none"
          BY <2>1, <3>5, <4>4 DEF Sent, Agent!TypeOK
        <5>2. TogglePhase(q) = "over"
          BY <3>5, <5>1 DEF TogglePhase
        <5> QED
          BY <3>1, <4>2, <5>2
      <4> QED
        BY <4>3, <4>4
    <3> QED
      BY <2>1, <3>2, <3>3, <3>4, <3>5
      DEF Books, Toggles, Locked, Waiting
  <2>2. CASE kind[q] = "reconcile"
    <3>1. /\ Phase(q) = ReconcilePhase(q) /\ Phase(q)' = ReconcilePhase(q)'
          /\ Told[q] = reply[q] /\ q \notin left
      BY <1>1, <2>2, PhaseOfReconcile
      DEF Phase, Toggles, Told, Writers, Late
    <3>2. CASE at[q] = "done"
      <4>1. at'[q] = at[q] /\ reply[q] # "none"
        BY <1>1, <3>2 DEF Locked, Waiting, Books
      <4>2. ReconcilePhase(q)' = ReconcilePhase(q)
        BY <1>1, <4>1 DEF ReconcilePhase
      <4> QED
        BY <3>1, <4>1, <4>2
    <3>3. CASE at[q] # "done"
      <4>1. reply[q] = "none" /\ at[q] # "idle"
        BY <2>2, <3>3 DEF Books
      <4>2. at'[q] = "aborted"
        BY <1>1, <3>3, <4>1
      <4>3. ReconcilePhase(q)' = "over"
        BY <1>1, <4>1, <4>2 DEF ReconcilePhase
      <4>4. ReconcilePhase(q) \in Register!Working
        BY DEF ReconcilePhase, Register!Working
      <4> QED
        BY <3>1, <4>1, <4>3, <4>4
    <3> QED
      BY <3>2, <3>3
  <2>3. CASE kind[q] \notin Writers
    <3>1. Phase(q) = "idle" /\ Phase(q)' = "idle"
      BY <1>1, <2>3 DEF Phase, Writers
    <3> QED
      BY <3>1 DEF Register!Working
  <2> QED
    BY <2>1, <2>2, <2>3 DEF Writers
<1> HIDE DEF left
<1>7. PhaseOf' = [q \in Calls |->
        IF PhaseOf[q] \in Register!Working /\ Told[q] = "none" /\ q \notin left
          THEN "over" ELSE PhaseOf[q]]
  BY <1>6 DEF PhaseOf
<1>8. Register!Crash(left)
  BY <1>1, <1>3, <1>4, <1>5, <1>7
  DEF Register!Crash, Asked, Told, PhaseOf
<1>9. left \in SUBSET Calls
  BY <1>4
<1> QED
  BY <1>8, <1>9 DEF Shown, Register!Next

(* A toggle takes effect when the agent's handler writes the file.  Once a  *)
(* call is late, what it writes may bring back an old rest.                 *)
LEMMA WriteShown ==
  ASSUME Typed, Inv, Prepared, HasLine, NEW c \in Calls, pc[c] = "write",
         cfg' = snap[c], Phase(c) = "pending", Phase(c)' = "taken",
         UNCHANGED <<kind, gone, reply>>,
         \A q \in Calls \ {c} : /\ pc'[q] = pc[q] /\ at'[q] = at[q]
                                /\ resp'[q] = resp[q]
  PROVE  Shown
<1> USE DEF Typed, TypeOK, Agent!TypeOK
<1>1. /\ kind[c] \in Toggles /\ kind[c] \in Writers
      /\ snap[c].ndpi = Register!Line(kind[c])
  BY DEF Prepared, Books, Request, Toggles, Writers, Wants, Register!Line
<1>2. PhaseOf' = [PhaseOf EXCEPT ![c] = "taken"] /\ PhaseOf[c] = "pending"
  <2>1. \A q \in Calls \ {c} : Phase(q)' = Phase(q)
    BY OthersKept
  <2> QED
    BY <2>1, PhaseSet
<1>3. UNCHANGED <<Asked, Told, Late>> /\ Asked[c] = kind[c]
  BY <1>1, LateKept DEF Asked, Told
<1>4. cfg \in Agent!Contents /\ snap[c] \in Agent!Contents
  OBVIOUS
\* Either the call still awaits the agent, or it is late.
<1>5. Told[c] = "none" \/ c \in Late
  <2>1. CASE c \in gone
    BY <1>1, <2>1 DEF Late
  <2>2. CASE c \notin gone
    BY <1>1, <2>2 DEF Inv, Awaited, Agent!InFlight, Books, Told
  <2> QED
    BY <2>1, <2>2
<1>6. cfg.ndpi # "missing"
  BY DEF HasLine
<1>7. ASSUME NEW f \in Agent!Contents, f.rest = snap[c].rest
      PROVE  cfg' = Register!Result(kind[c], f)
  <2>1. snap[c] = [ndpi |-> Register!Line(kind[c]), rest |-> f.rest]
    BY <1>1, <1>4, <1>7 DEF Agent!Contents
  <2> QED
    BY <1>1, <2>1 DEF Register!Result, Toggles
<1>8. Late = {} => cfg' = Register!Result(kind[c], cfg)
                   /\ Register!Due(kind[c], cfg)
  BY <1>1, <1>4, <1>7 DEF Inv, Fresh, Register!Due
<1>9. Late # {} => \E v \in Versions :
        cfg' = Register!Result(kind[c], [cfg EXCEPT !.rest = v])
  <2>1. /\ [cfg EXCEPT !.rest = snap[c].rest] \in Agent!Contents
        /\ [cfg EXCEPT !.rest = snap[c].rest].rest = snap[c].rest
        /\ snap[c].rest \in Versions
    BY <1>4 DEF Agent!Contents
  <2> QED
    BY <1>7, <2>1
<1>10. Register!TakeEffect(c)
  BY <1>2, <1>3, <1>5, <1>6, <1>8, <1>9
  DEF Register!TakeEffect, PhaseOf, Asked, Told
<1> QED
  BY <1>10 DEF Shown, Register!Next

LEMMA KeepShown ==
  ASSUME Typed, NEW c \in Calls, kind[c] \in Toggles,
         cfg.ndpi = Register!Line(kind[c]),
         Phase(c) = "pending", Phase(c)' = "kept",
         UNCHANGED <<cfg, kind, gone, reply>>,
         \A q \in Calls \ {c} : /\ pc'[q] = pc[q] /\ at'[q] = at[q]
                                /\ resp'[q] = resp[q]
  PROVE  Shown
<1>1. PhaseOf' = [PhaseOf EXCEPT ![c] = "kept"] /\ PhaseOf[c] = "pending"
  BY OthersKept, PhaseSet
<1>2. UNCHANGED <<Asked, Told, Late>> /\ Asked[c] = kind[c]
  BY LateKept DEF Asked, Told, Writers
<1>3. ~Register!Due(kind[c], cfg)
  BY DEF Register!Due, Toggles
<1>4. Register!Keep(c)
  BY <1>1, <1>2, <1>3 DEF Register!Keep, PhaseOf, Asked, Told
<1> QED
  BY <1>4 DEF Shown, Register!Next

LEMMA AgentHandlerShown ==
  ASSUME Typed, Inv, Prepared, HasLine, NEW c \in Calls, Agent!Handler(c),
         UNCHANGED serviceVars
  PROVE  Shown
<1> USE DEF Typed, TypeOK
<1>1. /\ pc[c] \in Agent!InFlight /\ resp[c] = "none" /\ op[c] # "none"
      /\ kind[c] \in Toggles \cup {"apply"} /\ op[c] = Request(kind[c])
  BY HandlerMoves DEF Agent!TypeOK, Agent!InFlight, Agent!Reloading,
     Agent!Attempts, Books
<1>2. /\ UNCHANGED <<at, reply, kind>>
      /\ UNCHANGED gone
      /\ \A q \in Calls \ {c} : pc'[q] = pc[q] /\ resp'[q] = resp[q]
  <2>1. UNCHANGED gone /\ (UNCHANGED resp \/ \E code : Agent!Answer(c, code))
    BY DEF Agent!Handler, Agent!ReadConfig, Agent!WriteConfig, Agent!Connect,
           Agent!CallRestart, Agent!WaitRestart, Agent!Poll, Agent!FindSocket,
           Agent!WaitReady, Agent!TryReload
  <2> QED
    BY <2>1, HandlerMoves DEF serviceVars, Agent!TypeOK, Agent!Answer
<1>3. CASE kind[c] = "apply"
  <2>1. pc[c] \notin {"read", "write"} /\ kind[c] \notin Writers
    BY <1>1, <1>3 DEF Agent!TypeOK, Request, Agent!Toggles, Writers, Toggles
  <2>2. UNCHANGED cfg
    BY <2>1 DEF Agent!Handler, Agent!ReadConfig, Agent!WriteConfig,
       Agent!Connect, Agent!CallRestart, Agent!WaitRestart, Agent!Poll,
       Agent!FindSocket, Agent!WaitReady, Agent!TryReload, Agent!hostVars
  <2> QED
    BY <1>2, <2>1, <2>2, Stutter
<1>4. CASE kind[c] \in Toggles
  <2> USE DEF Agent!GoTo, Agent!Answer
  <2>1. /\ op[c] = kind[c] /\ op[c] \in Toggles
        /\ Phase(c) = TogglePhase(c) /\ Phase(c)' = TogglePhase(c)'
        /\ Agent!Target(op[c]) = Register!Line(kind[c])
    BY <1>1, <1>2, <1>4, PhaseOfToggle
    DEF Request, Toggles, Phase, Agent!Target, Register!Line
  <2>2. \A error : Agent!ClassifyErr(error) \in Agent!Failures
    BY DEF Agent!ClassifyErr, Agent!Failures
  <2>3. ASSUME NEW code \in Agent!Failures, Agent!Answer(c, code), UNCHANGED cfg,
               Phase(c) \in {"pending", "taken"}
        PROVE  Shown
    <3>1. pc'[c] = "done" /\ resp'[c] = code
      BY <2>3 DEF Agent!TypeOK
    <3>2. Phase(c)' = "over"
      BY <2>1, <2>3, <3>1 DEF TogglePhase, Agent!Failures
    <3> QED
      BY <1>2, <2>3, <3>2, Dropped DEF Register!Working
  <2>4. CASE Agent!ReadConfig(c)
    <3>1. Phase(c) = "pending" /\ UNCHANGED cfg
      BY <1>1, <2>1, <2>4 DEF Agent!ReadConfig, Agent!hostVars, TogglePhase
    <3>2. CASE \E code \in Agent!Failures : Agent!Answer(c, code)
      BY <2>3, <3>1, <3>2
    <3>3. CASE cfg.ndpi = Agent!Target(op[c]) /\ Agent!Answer(c, "unchanged")
      <4>1. pc'[c] = "done" /\ resp'[c] = "unchanged"
        BY <3>3 DEF Agent!TypeOK
      <4>2. Phase(c)' = "kept"
        BY <2>1, <4>1 DEF TogglePhase
      <4> QED
        BY <1>2, <1>4, <2>1, <3>1, <3>3, <4>2, KeepShown
    <3>4. CASE Agent!GoTo(c, "write") /\ UNCHANGED resp
      <4>1. Phase(c)' = "pending"
        BY <1>1, <2>1, <3>4 DEF TogglePhase, Agent!TypeOK
      <4> QED
        BY <1>2, <3>1, <4>1, Stutter
    <3> QED
      BY <2>2, <2>4, <3>2, <3>3, <3>4 DEF Agent!ReadConfig
  <2>5. CASE Agent!WriteConfig(c)
    <3>1. Phase(c) = "pending" /\ pc[c] = "write"
      BY <1>1, <2>1, <2>5 DEF Agent!WriteConfig, TogglePhase
    <3>2. CASE /\ \E code \in Agent!Failures : Agent!Answer(c, code)
               /\ UNCHANGED cfg
      BY <2>3, <3>1, <3>2
    <3>3. CASE cfg' = snap[c] /\ Agent!GoTo(c, "restart") /\ UNCHANGED resp
      <4>1. Phase(c)' = "taken"
        BY <1>1, <2>1, <3>3 DEF TogglePhase, Agent!TypeOK
      <4> QED
        BY <1>2, <3>1, <3>3, <4>1, WriteShown
    <3> QED
      BY <2>2, <2>5, <3>2, <3>3 DEF Agent!WriteConfig
  <2>6. CASE Agent!CallRestart(c) \/ Agent!WaitRestart(c)
    <3>1. Phase(c) = "taken" /\ UNCHANGED cfg
      BY <1>1, <2>1, <2>6
      DEF Agent!CallRestart, Agent!WaitRestart, Agent!hostVars, TogglePhase
    <3>2. CASE Agent!Answer(c, Agent!RestartError(op[c]))
      BY <2>1, <2>3, <3>1, <3>2 DEF Agent!RestartError, Agent!Failures
    <3>3. CASE Agent!Answer(c, "changed")
      <4>1. pc'[c] = "done" /\ resp'[c] = "changed"
        BY <3>3 DEF Agent!TypeOK
      <4>2. Phase(c)' = "taken"
        BY <2>1, <4>1 DEF TogglePhase
      <4> QED
        BY <1>2, <3>1, <4>2, Stutter
    <3>4. CASE Agent!GoTo(c, "wait") /\ UNCHANGED resp
      <4>1. Phase(c)' = "taken"
        BY <1>1, <2>1, <3>4 DEF TogglePhase, Agent!TypeOK
      <4> QED
        BY <1>2, <3>1, <4>1, Stutter
    <3> QED
      BY <2>1, <2>6, <3>2, <3>3, <3>4
      DEF Agent!CallRestart, Agent!WaitRestart, Toggles
  <2>7. ~(\/ Agent!Connect(c) \/ Agent!Poll(c) \/ Agent!FindSocket(c)
          \/ Agent!WaitReady(c) \/ Agent!TryReload(c))
    BY <2>1 DEF Agent!Connect, Agent!Poll, Agent!FindSocket, Agent!WaitReady,
       Agent!TryReload, Agent!TypeOK, Agent!Reloading, Toggles
  <2> QED
    BY <2>4, <2>5, <2>6, <2>7 DEF Agent!Handler
<1> QED
  BY <1>1, <1>3, <1>4

(* An agent that dies drops the toggles it has been working on.             *)
LEMMA AgentCrashShown ==
  ASSUME Typed, Agent!AgentCrash, UNCHANGED serviceVars
  PROVE  Shown
<1> USE DEF Typed, TypeOK
<1> DEFINE dropped ==
      {q \in Calls : kind[q] \in Toggles /\ pc[q] \in Agent!InFlight}
<1>1. /\ UNCHANGED <<cfg, resp, gone, kind, at, reply>>
      /\ pc' = [q \in Calls |->
                  IF pc[q] \in Agent!InFlight THEN "aborted" ELSE pc[q]]
  BY DEF Agent!AgentCrash, Agent!hostVars, serviceVars
<1>2. UNCHANGED <<cfg, Asked, Told, Late>>
  BY <1>1, LateKept DEF Asked, Told
<1>3. ASSUME NEW q \in Calls
      PROVE  /\ Phase(q)' = IF q \in dropped THEN "over" ELSE Phase(q)
             /\ q \in dropped => Phase(q) \in Register!Working
  <2>1. CASE q \in dropped
    <3>1. /\ resp[q] = "none"
          /\ pc[q] \in {"read", "write", "restart", "wait"}
      BY <2>1 DEF Agent!TypeOK, Agent!InFlight, Agent!Reloading,
         Agent!Attempts, Books, Request, Toggles
    <3>2. TogglePhase(q)' = "over"
      BY <1>1, <2>1, <3>1 DEF TogglePhase
    <3>3. TogglePhase(q) \in {"pending", "taken"}
      BY <3>1 DEF TogglePhase
    <3> QED
      BY <1>1, <2>1, <3>2, <3>3, PhaseOfToggle
      DEF Phase, Toggles, Register!Working
  <2>2. CASE q \notin dropped /\ kind[q] \in Toggles
    <3>1. TogglePhase(q)' = TogglePhase(q)
      BY <1>1, <2>2 DEF TogglePhase
    <3> QED
      BY <1>1, <2>2, <3>1, PhaseOfToggle DEF Phase, Toggles
  <2>3. CASE kind[q] \notin Toggles
    <3>1. ReconcilePhase(q)' = ReconcilePhase(q)
      BY <1>1 DEF ReconcilePhase
    <3> QED
      BY <1>1, <2>3, <3>1 DEF Phase
  <2> QED
    BY <2>1, <2>2, <2>3
<1> HIDE DEF dropped
<1>4. PhaseOf' = [q \in Calls |-> IF q \in dropped THEN "over" ELSE PhaseOf[q]]
  BY <1>3 DEF PhaseOf
<1>5. dropped \subseteq Calls
  BY DEF dropped
<1>6. Register!Drop(dropped)
  BY <1>2, <1>3, <1>4, <1>5 DEF Register!Drop, PhaseOf, Asked, Told
<1> QED
  BY <1>5, <1>6 DEF Shown, Register!Next

LEMMA RegisterStep ==
  Typed /\ Inv /\ Sent /\ Prepared /\ HasLine /\ [Next]_vars =>
    [Register!Next]_(Register!regVars)
<1> SUFFICES ASSUME Typed, Inv, Sent, Prepared, HasLine, [Next]_vars
             PROVE  Shown
  BY DEF Shown, Register!regVars, View, Asked, PhaseOf, Told
<1>1. ASSUME NEW c \in Calls, NEW k \in Kinds, Begin(c, k)
      PROVE  Shown
  BY <1>1, BeginShown
<1>2. ASSUME NEW c \in Calls, Handler(c)
      PROVE  Shown
  <2>1. CASE Lock(c) \/ Reload(c) \/ Plan(c)
    BY <2>1, LockShown
  <2>2. CASE Send(c)
    BY <2>2, SendShown
  <2>3. CASE Receive(c)
    BY <2>3, ReceiveShown
  <2>4. CASE ReadConfig(c) \/ Validate(c) \/ CallRestart(c) \/ WaitRestart(c)
    <3>1. kind[c] = "reconcile"
      BY <2>4 DEF ReadConfig, Validate, CallRestart, WaitRestart, Typed, Books
    <3> QED
      BY <2>4, <3>1, ReconcileShown
  <2>5. CASE ReplaceConfig(c)
    BY <2>5, ReplaceShown
  <2> QED
    BY <1>2, <2>1, <2>2, <2>3, <2>4, <2>5 DEF Handler
<1>3. ASSUME NEW c \in Calls, GiveUp(c)
      PROVE  Shown
  BY <1>3, GiveUpShown
<1>4. CASE ServiceCrash
  BY <1>4, CrashShown
<1>5. CASE AgentStep
  BY <1>5, AgentHandlerShown, AgentCrashShown DEF AgentStep
<1>6. CASE HostStep \/ UNCHANGED vars
  <2>1. UNCHANGED <<cfg, kind, at, pc, resp, gone, reply>>
    BY <1>6 DEF HostStep, UnitStart, Agent!UnitStart, Agent!UnitStop,
       Agent!Boot, Agent!Death, serviceVars, vars, hostVars, agentVars
  <2>2. ASSUME NEW q \in Calls
        PROVE  Phase(q)' = Phase(q)
    <3>1. TogglePhase(q)' = TogglePhase(q)
      BY <2>1 DEF TogglePhase
    <3>2. ReconcilePhase(q)' = ReconcilePhase(q)
      BY <2>1 DEF ReconcilePhase
    <3> QED
      BY <2>1, <3>1, <3>2 DEF Phase
  <2>3. PhaseOf' = PhaseOf
    BY <2>2 DEF PhaseOf
  <2>4. UNCHANGED <<cfg, Asked, Told, Late>>
    BY <2>1, LateKept DEF Asked, Told
  <2> QED
    BY <2>3, <2>4 DEF Shown, View
<1> QED
  BY <1>1, <1>2, <1>3, <1>4, <1>5, <1>6 DEF Next

LEMMA RegisterInit == Init => Register!Init
<1> SUFFICES ASSUME Init PROVE Register!Init
  OBVIOUS
<1>1. \A c \in Calls : Phase(c) = "idle"
  BY DEF Init, Phase, Toggles
<1>2. cfg \in [ndpi : {"on", "off", "missing"}, rest : Versions]
  BY DEF Init, Agent!Init, Agent!Contents
<1>3. Late = {}
  BY DEF Init, Agent!Init, Late
<1>4. /\ \A c \in Calls : kind[c] \notin Writers
      /\ kind = [c \in Calls |-> "none"]
  BY DEF Init, Writers, Toggles
<1> QED
  BY <1>1, <1>2, <1>3, <1>4 DEF Register!Init

LEMMA AlwaysHasLine == Spec => []HasLine
<1>1. Init => HasLine
  BY DEF Init, Agent!Init, HasLine
<1> QED
  BY <1>1, HasLineStep, AlwaysTyped, AlwaysPrepared, PTL DEF Spec

(* Two programs work on suricata.yaml, one of them behind the back of the   *)
(* mutex once a call has given up on it; still every call takes effect at   *)
(* one instant or not at all, is answered accordingly, and changes nothing  *)
(* it is not about unless a call is late (http_server.go:71-166,            *)
(* reconcile_config.go:20-149, handlers.go:118-188).                        *)
THEOREM ServiceImplementsRegister == Spec => ImplementsRegister
<1> QED
  BY RegisterInit, RegisterStep, AlwaysTyped, Invariant, AlwaysServed,
     AlwaysPrepared, AlwaysHasLine, PTL
  DEF Spec, ImplementsRegister, Register!Spec

=============================================================================

------------------------- MODULE AgentListenerProofs -------------------------
(***************************************************************************)
(* Theorems about AgentListener, for any number of agents.                 *)
(***************************************************************************)
EXTENDS AgentListener, TLAPS

(* Who may be listening where, when agents start one at a time: nobody      *)
(* serves while another is about to remove what the path names.             *)
Inv ==
  /\ \A a \in Agents : sock[a] \in {a, Systemd, Nothing}
  /\ ~Overlap =>
       /\ \A a, b \in Agents : pc[a] \in Starting /\ pc[b] \in Starting => a = b
       /\ \A a \in Agents : pc[a] \in {"listen", "serving"} => path = sock[a]
       /\ \A a, b \in Agents : pc[a] = "remove" => pc[b] # "serving"

LEMMA TypeOKStep == TypeOK /\ [Next]_vars => TypeOK'
<1> SUFFICES ASSUME TypeOK, [Next]_vars PROVE TypeOK'
  OBVIOUS
<1> USE SpecialAssumption DEF TypeOK, GoTo, Hold, Starting, Gone, Special
<1>1. ASSUME NEW a \in Agents, Start(a)
      PROVE  TypeOK'
  BY <1>1 DEF Start
<1>2. ASSUME NEW a \in Agents, Startup(a)
      PROVE  TypeOK'
  BY <1>2 DEF Startup, Lstat, Dial, Remove, Bind, Listen
<1>3. ASSUME NEW a \in Agents, Stop(a) \/ Crash(a)
      PROVE  TypeOK'
  BY <1>3 DEF Stop, Crash
<1>4. CASE UNCHANGED vars
  BY <1>4 DEF vars
<1> QED
  BY <1>1, <1>2, <1>3, <1>4 DEF Next

(* The type invariant: an agent holds a socket exactly while it listens.    *)
THEOREM TypeCorrect == Spec => []TypeOK
<1>1. Init => TypeOK
  BY DEF Init, TypeOK
<1> QED
  BY <1>1, TypeOKStep, PTL DEF Spec

LEMMA InvStep == TypeOK /\ Inv /\ [Next]_vars => Inv'
<1> SUFFICES ASSUME TypeOK, Inv, [Next]_vars PROVE Inv'
  OBVIOUS
<1> USE SpecialAssumption DEF TypeOK, Inv, GoTo, Hold, Starting, Gone, Special
<1>1. ASSUME NEW a \in Agents, Start(a)
      PROVE  Inv'
  BY <1>1 DEF Start
<1>2. ASSUME NEW a \in Agents, Lstat(a)
      PROVE  Inv'
  BY <1>2 DEF Lstat
\* A connection that nobody accepts means that nobody serves.
<1>3. ASSUME NEW a \in Agents, Dial(a)
      PROVE  Inv'
  <2>1. CASE path \in Accepting
    BY <1>3, <2>1 DEF Dial
  <2>2. CASE path \notin Accepting
    <3>1. ~Overlap => \A b \in Agents : pc[b] # "serving"
      BY <2>2 DEF Accepting
    <3> QED
      BY <1>3, <2>2, <3>1 DEF Dial
  <2> QED
    BY <2>1, <2>2
<1>4. ASSUME NEW a \in Agents, Remove(a)
      PROVE  Inv'
  BY <1>4 DEF Remove
<1>5. ASSUME NEW a \in Agents, Bind(a)
      PROVE  Inv'
  BY <1>5 DEF Bind
<1>6. ASSUME NEW a \in Agents, Listen(a)
      PROVE  Inv'
  BY <1>6 DEF Listen
<1>7. ASSUME NEW a \in Agents, Stop(a)
      PROVE  Inv'
  BY <1>7 DEF Stop
<1>8. ASSUME NEW a \in Agents, Crash(a)
      PROVE  Inv'
  BY <1>8 DEF Crash
<1>9. CASE UNCHANGED vars
  BY <1>9 DEF vars
<1> QED
  BY <1>1, <1>2, <1>3, <1>4, <1>5, <1>6, <1>7, <1>8, <1>9 DEF Next, Startup

(* Whoever serves is reachable by the path, if agents start one at a time.  *)
THEOREM ServingIsReachable == Spec => []Reachable
<1>1. Init => Inv
  BY DEF Init, Inv, Starting
<1>2. Inv => Reachable
  BY DEF Inv, Reachable
<1> QED
  BY <1>1, <1>2, TypeCorrect, InvStep, PTL DEF Spec

-----------------------------------------------------------------------------
(* A start-up that has come to the bind has the path to itself. *)
Checked ==
  ~Overlap => \A a \in Agents : pc[a] = "bind" => path = Nothing

LEMMA CheckedStep == TypeOK /\ Inv /\ Checked /\ [Next]_vars => Checked'
<1> SUFFICES ASSUME TypeOK, Inv, Checked, [Next]_vars, ~Overlap PROVE Checked'
  BY DEF Checked
<1> USE SpecialAssumption
    DEF TypeOK, Inv, Checked, GoTo, Hold, Starting, Gone, Special
<1>1. ASSUME NEW a \in Agents, Start(a)
      PROVE  Checked'
  BY <1>1 DEF Start
<1>2. ASSUME NEW a \in Agents, Lstat(a) \/ Dial(a)
      PROVE  Checked'
  BY <1>2 DEF Lstat, Dial
<1>3. ASSUME NEW a \in Agents, Remove(a)
      PROVE  Checked'
  BY <1>3 DEF Remove
<1>4. ASSUME NEW a \in Agents, Bind(a) \/ Listen(a)
      PROVE  Checked'
  BY <1>4 DEF Bind, Listen
<1>5. ASSUME NEW a \in Agents, Stop(a)
      PROVE  Checked'
  BY <1>5 DEF Stop
<1>6. ASSUME NEW a \in Agents, Crash(a)
      PROVE  Checked'
  BY <1>6 DEF Crash
<1>7. CASE UNCHANGED vars
  BY <1>7 DEF vars
<1> QED
  BY <1>1, <1>2, <1>3, <1>4, <1>5, <1>6, <1>7 DEF Next, Startup

\* Who takes the path away while a start-up stands between its look and the
\* removal: the start-up itself, or the agent that listens there.
Fails(a) == pc[a] \in Starting /\ pc'[a] = "failed"
Reason(a) ==
  \/ pc[a] \in {"lstat", "dial"} /\ path \in {Foreign} \cup Accepting
  \/ pc[a] = "remove" /\ path = Nothing
Vanishes(a) == pc[a] \in {"dial", "remove"} /\ path # Nothing /\ path' = Nothing
Taken(a) ==
  \/ pc[a] = "remove" /\ pc'[a] = "bind"
  \/ \E b \in Agents : /\ pc[b] = "serving" /\ pc'[b] = "stopped"
                       /\ path = sock[b]

LEMMA ReasonStep ==
  ASSUME TypeOK, Inv, Checked, Next, ~Overlap, NEW a \in Agents
  PROVE  (Fails(a) => Reason(a)) /\ (Vanishes(a) => Taken(a))
<1>1. PICK b \in Agents : Start(b) \/ Startup(b) \/ Stop(b) \/ Crash(b)
  BY DEF Next
<1>2. ASSUME Fails(a)
      PROVE  Reason(a)
  <2>1. a = b /\ (Lstat(a) \/ Dial(a) \/ Remove(a) \/ Bind(a))
    BY <1>1, <1>2 DEF Fails, TypeOK, Start, Startup, Lstat, Dial, Remove, Bind,
       Listen, Stop, Crash, GoTo, Starting
  <2> QED
    BY <1>2, <2>1
    DEF Fails, Reason, TypeOK, Checked, Lstat, Dial, Remove, Bind, GoTo
<1>3. ASSUME Vanishes(a)
      PROVE  Taken(a)
  <2>1. Remove(b) \/ Stop(b)
    BY <1>1, <1>3, SpecialAssumption
    DEF Vanishes, Start, Startup, Lstat, Dial, Bind, Listen, Crash, Special
  \* Nobody else is starting.
  <2>2. CASE Remove(b)
    <3>1. a = b
      BY <1>3, <2>2 DEF Vanishes, Inv, Remove, Starting
    <3> QED
      BY <1>3, <2>2, <3>1 DEF Vanishes, Taken, Remove, GoTo, TypeOK
  <2>3. CASE Stop(b)
    BY <1>3, <2>3 DEF Vanishes, Taken, Stop, Inv, GoTo, TypeOK
  <2> QED
    BY <2>1, <2>2, <2>3
<1> QED
  BY <1>2, <1>3

(* A start-up gives up over a live listener or over something that is not a *)
(* socket, never over the remains of a dead agent nor at the bind; or when  *)
(* the agent that listened there has stopped and removed the socket first   *)
(* (server.go:148-196).                                                     *)
THEOREM StartUpFailsForAReason == Spec => FailsForAReason
<1>1. Init => Inv /\ Checked
  BY DEF Init, Inv, Checked, Starting
<1>2. TypeOK /\ Inv /\ Checked /\ [Next]_vars =>
        [~Overlap =>
           \A a \in Agents :
             /\ pc[a] \in Starting /\ pc'[a] = "failed" =>
                  \/ pc[a] \in {"lstat", "dial"} /\ path \in {Foreign} \cup Accepting
                  \/ pc[a] = "remove" /\ path = Nothing
             /\ pc[a] \in {"dial", "remove"} /\ path # Nothing /\ path' = Nothing =>
                  \/ pc[a] = "remove" /\ pc'[a] = "bind"
                  \/ \E b \in Agents : /\ pc[b] = "serving" /\ pc'[b] = "stopped"
                                       /\ path = sock[b]]_vars
  BY ReasonStep DEF Fails, Reason, Vanishes, Taken
<1> QED
  BY <1>1, <1>2, TypeCorrect, InvStep, CheckedStep, PTL
  DEF Spec, FailsForAReason

=============================================================================

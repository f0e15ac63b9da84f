---------------------------- MODULE AgentListener -----------------------------
(***************************************************************************)
(* How the host agent gets hold of its unix socket and gives it back       *)
(* (pkg/hostagent/server.go): from systemd, or by binding the path itself  *)
(* after it has made sure that what is there is a stale socket.  The check *)
(* and the removal are separate system calls, and closing the listener     *)
(* removes whatever the path names by then.                                *)
(*                                                                         *)
(* The path, and what a process at either end of a socket can see of it,   *)
(* are external.  The modes of the socket are left out.                    *)
(***************************************************************************)
CONSTANTS
  Agents,    \* processes "host-agent serve"; each starts once
  Nothing,   \* nothing at the path
  Foreign,   \* something at the path that is not a socket
  Stale,     \* a socket at the path whose process is gone
  Systemd,   \* the socket of ndpi-agent.socket, which systemd listens on
  Overlap    \* whether an agent may start while another is starting

VARIABLES
  path,   \* what the path names: one of the above, or the socket of an agent
  sock,   \* sock[a]: the socket agent a listens on
  pc      \* pc[a]: where agent a stands

vars == <<path, sock, pc>>

Special == {Nothing, Foreign, Stale, Systemd}
ASSUME SpecialAssumption ==
  /\ Agents \cap Special = {}
  /\ Nothing \notin {Foreign, Stale, Systemd}
  /\ Systemd \notin {Foreign, Stale}
ASSUME OverlapAssumption == Overlap \in BOOLEAN

Starting == {"lstat", "dial", "remove", "bind", "listen"}
Gone == {"failed", "stopped", "crashed"}

TypeOK ==
  /\ path \in Agents \cup Special
  /\ sock \in [Agents -> Agents \cup {Nothing, Systemd}]
  /\ pc \in [Agents -> {"down", "serving"} \cup Starting \cup Gone]
  /\ \A a \in Agents : sock[a] = Nothing <=> pc[a] \notin {"listen", "serving"}

GoTo(a, label) == pc' = [pc EXCEPT ![a] = label]
Hold(a, socket) == sock' = [sock EXCEPT ![a] = socket]

\* Sockets that accept connections.  One that is bound, but not yet listening,
\* refuses them like a stale one.
Accepting == {Systemd} \cup {sock[a] : a \in {b \in Agents : pc[b] = "serving"}}

-----------------------------------------------------------------------------
Init ==
  /\ path \in Special
  /\ sock = [a \in Agents |-> Nothing]
  /\ pc = [a \in Agents |-> "down"]

\* getListener: systemd passes its socket on to the agent it starts; an agent
\* started in any other way looks for a socket to remove first.
Start(a) ==
  /\ pc[a] = "down"
  /\ Overlap \/ \A b \in Agents : pc[b] \notin Starting
  /\ \/ path = Systemd /\ Hold(a, Systemd) /\ GoTo(a, "serving")
     \/ GoTo(a, "lstat") /\ UNCHANGED sock
  /\ UNCHANGED path

\* removeIfSocket
Lstat(a) ==
  /\ pc[a] = "lstat"
  /\ \/ path = Nothing /\ GoTo(a, "bind")
     \/ path = Foreign /\ GoTo(a, "failed")
     \/ path \notin {Nothing, Foreign} /\ GoTo(a, "dial")
  /\ UNCHANGED <<path, sock>>

\* A plausible bug: a connection that is refused is taken for an unexpected
\* error.
DialRefusedFails(a) ==
  /\ pc[a] = "dial"
  /\ GoTo(a, IF path = Nothing THEN "remove" ELSE "failed")
  /\ UNCHANGED <<path, sock>>

\* A plausible bug: a listener that is too busy to accept within the timeout is
\* taken for a stale one.
DialBusyRemoves(a) ==
  /\ pc[a] = "dial"
  /\ \/ path \in Accepting /\ GoTo(a, "failed")
     \/ GoTo(a, "remove")
  /\ UNCHANGED <<path, sock>>

\* Only a refused connection, or a path that is gone, passes for stale; a
\* listener too busy to accept gives another error.
Dial(a) ==
  /\ pc[a] = "dial"
  /\ GoTo(a, IF path \in Accepting THEN "failed" ELSE "remove")
  /\ UNCHANGED <<path, sock>>

Remove(a) ==
  /\ pc[a] = "remove"
  /\ GoTo(a, IF path = Nothing THEN "failed" ELSE "bind")
  /\ path' = Nothing
  /\ UNCHANGED sock

\* net.Listen binds the path, which fails if it exists, and then listens.
Bind(a) ==
  /\ pc[a] = "bind"
  /\ \/ path # Nothing /\ GoTo(a, "failed") /\ UNCHANGED <<path, sock>>
     \/ path = Nothing /\ path' = a /\ Hold(a, a) /\ GoTo(a, "listen")

Listen(a) ==
  /\ pc[a] = "listen"
  /\ GoTo(a, "serving")
  /\ UNCHANGED <<path, sock>>

\* A plausible bug: Stop does not close the listener.
StopKeepsListener(a) ==
  /\ pc[a] = "serving"
  /\ GoTo(a, "stopped")
  /\ UNCHANGED <<path, sock>>

\* Shutdown, and Close of a listener that is closed already: the path goes with
\* a socket the agent has bound, not with one it was passed.
Stop(a) ==
  /\ pc[a] = "serving"
  /\ path' = IF sock[a] = Systemd THEN path ELSE Nothing
  /\ Hold(a, Nothing)
  /\ GoTo(a, "stopped")

Crash(a) ==
  /\ pc[a] \in Starting \cup {"serving"}
  /\ Hold(a, Nothing)
  /\ GoTo(a, "crashed")
  /\ UNCHANGED path

Startup(a) == Lstat(a) \/ Dial(a) \/ Remove(a) \/ Bind(a) \/ Listen(a)

Next == \E a \in Agents : Start(a) \/ Startup(a) \/ Stop(a) \/ Crash(a)

Spec == Init /\ [][Next]_vars

\* A start-up waits for nothing but a dial with a timeout.
FairSpec == Spec /\ \A a \in Agents : WF_vars(Startup(a))

-----------------------------------------------------------------------------
(* Properties *)

\* server.go:90-175: as long as agents do not start at the same time, whoever
\* serves is reachable by the path: nobody removes the socket of an agent that
\* is alive, however agents start, fail, stop and crash.
Reachable ==
  ~Overlap => \A a \in Agents : pc[a] = "serving" => path = sock[a]

\* server.go:90-107, 148-196: as long as agents do not start at the same time, a
\* start-up gives up over a file that is not a socket or a socket that accepts
\* connections, never over what a dead agent left behind nor once it has come to
\* the bind; or else when the path has gone since it was looked at, and only the
\* agent that listened there, by stopping, makes it go.
FailsForAReason ==
  [][~Overlap =>
       \A a \in Agents :
         /\ pc[a] \in Starting /\ pc'[a] = "failed" =>
              \/ pc[a] \in {"lstat", "dial"} /\ path \in {Foreign} \cup Accepting
              \/ pc[a] = "remove" /\ path = Nothing
         /\ pc[a] \in {"dial", "remove"} /\ path # Nothing /\ path' = Nothing =>
              \/ pc[a] = "remove" /\ pc'[a] = "bind"
              \/ \E b \in Agents : /\ pc[b] = "serving" /\ pc'[b] = "stopped"
                                   /\ path = sock[b]]_vars

\* server.go:148-175: what an agent that crashed or was killed left behind does
\* not keep another from starting: one that starts while no other is up serves.
StaleNeverBlocks ==
  \A a \in Agents :
    (/\ pc[a] = "lstat"
     /\ path \notin {Foreign, Systemd}
     /\ \A b \in Agents \ {a} : pc[b] \in Gone \cup {"down"})
    ~> pc[a] \in {"serving", "crashed"}

=============================================================================

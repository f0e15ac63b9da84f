----------------------------- MODULE ProcessLife ------------------------------
(***************************************************************************)
(* The life of the two processes, from their start, by hand or by docker   *)
(* (the integration service) or systemd (the host agent), to their exit:   *)
(* RunWithSignals (internal/app/run.go), which they share; Start and Stop  *)
(* of the service (integration/runner.go) with its start-up checks and the *)
(* restart of Suricata it may do (start_suricata.go); Start and Stop of    *)
(* the agent (pkg/hostagent/server.go).                                    *)
(*                                                                         *)
(* Four goroutines take part besides the handlers: the main one, the one   *)
(* of Start, the one of http.Server.Serve and, in the service, one that    *)
(* shuts the server down when the base context ends.  What the handlers do *)
(* is in HostAgent and IntegrationService; here they only take time.       *)
(*                                                                         *)
(* Signals and everything else that may go wrong take from a budget, so    *)
(* that what must happen once they end can be stated.  What is no fault is *)
(* that the service has no access to systemd: in its container there is    *)
(* no systemctl.  External: whoever starts the programs, systemd and       *)
(* Suricata, clients, net/http.                                            *)
(***************************************************************************)
EXTENDS Naturals

CONSTANTS
  Calls,      \* the connections a process may serve at a time
  MaxFaults   \* how many signals and faults there may be altogether

ASSUME MaxFaultsAssumption == MaxFaults \in Nat

VARIABLES
  program,    \* "integration" or "host-agent"; never changes
  access,     \* whether it can run systemctl; never changes
  main,       \* where RunWithSignals stands; "off" if there is no process
  start,      \* where Start stands
  errCh,      \* what Start has returned: "none", "nil", "canceled" or "error"
  cancelled,  \* whether a signal has cancelled the base context
  server,     \* the HTTP server: "none", "set" (and listening), "serving", "closed"
  serveErr,   \* whether Serve has returned an error
  flight,     \* the connections that are being served
  late,       \* whether the shutdown deadline has passed
  stopErr,    \* what Stop has returned: "skipped" is its nil without a server
  exit,       \* how the last process ended
  unit,       \* Suricata: "down", "starting" or "active"
  job,        \* whether systemd has a restart of Suricata to do
  systemctl,  \* the systemctl process Start waits for
  budget      \* what is left of MaxFaults

process == <<main, start, errCh, cancelled, server, serveErr, flight, late,
             stopErr, exit>>
host == <<unit, job>>
vars == <<program, access, process, host, systemctl, budget>>

-----------------------------------------------------------------------------
(* Types *)

Checking == {"load", "local", "ndpi", "dial", "restart", "systemctl", "recheck",
             "connect", "listen"}
Stopping == {"stop", "drain", "join"}

TypeOK ==
  /\ program \in {"integration", "host-agent"}
  /\ access \in BOOLEAN
  /\ main \in {"off", "wait"} \cup Stopping
  /\ start \in Checking \cup {"none", "serve", "shut", "returned"}
  /\ errCh \in {"none", "nil", "canceled", "error"}
  /\ cancelled \in BOOLEAN
  /\ server \in {"none", "set", "serving", "closed"}
  /\ serveErr \in BOOLEAN
  /\ flight \subseteq Calls
  /\ late \in BOOLEAN
  /\ stopErr \in {"none", "nil", "skipped", "deadline"}
  /\ exit \in {"none", "ok", "error", "killed"}
  /\ unit \in {"down", "starting", "active"}
  /\ job \in BOOLEAN
  /\ systemctl \in {"none", "running", "ok", "failed"}
  /\ budget \in 0 .. MaxFaults
  /\ main = "off" <=> start = "none"
  /\ main \in Stopping => cancelled
  /\ errCh # "none" <=> start = "returned"
  /\ errCh \in {"nil", "canceled"} => cancelled
  /\ start \in Checking => program = "integration" /\ server = "none"
  /\ server = "none" => flight = {}
  /\ systemctl # "none" => start = "systemctl"

-----------------------------------------------------------------------------
(* Helpers *)

\* One fault less from now on.
Fault == budget > 0 /\ budget' = budget - 1
NoFault == UNCHANGED budget

\* Start goes on, or returns.
Proceed(label) == start' = label /\ UNCHANGED errCh
Return(result) == start' = "returned" /\ errCh' = result

\* Runner.checkContext comes before every step of the start-up but the first.
Checked(label) ==
  IF cancelled THEN Return("canceled") ELSE Proceed(label)

\* The process ends with all its goroutines.  A systemctl it has started may
\* outlive it, but nobody waits for that one any more.
Exit(code) ==
  /\ exit' = code
  /\ main' = "off" /\ start' = "none" /\ errCh' = "none"
  /\ cancelled' = FALSE /\ late' = FALSE /\ stopErr' = "none"
  /\ server' = "none" /\ serveErr' = FALSE /\ flight' = {}
  /\ systemctl' = "none"

-----------------------------------------------------------------------------
Init ==
  /\ program \in {"integration", "host-agent"}
  /\ access \in BOOLEAN
  /\ main = "off" /\ start = "none" /\ errCh = "none"
  /\ cancelled = FALSE /\ late = FALSE /\ stopErr = "none"
  /\ server = "none" /\ serveErr = FALSE /\ flight = {}
  /\ exit = "none"
  /\ unit \in {"down", "active"} /\ job = FALSE /\ systemctl = "none"
  /\ budget = MaxFaults

\* The program is started, again and whatever it ended with if docker does it
\* or the next connection to the agent's socket.  The agent has its listener
\* (module AgentListener) before it runs.
Launch ==
  /\ main = "off"
  /\ main' = "wait"
  /\ \/ program = "integration" /\ start' = "load" /\ UNCHANGED server
     \/ program = "host-agent" /\ start' = "serve" /\ server' = "set"
  /\ exit' = "none"
  /\ UNCHANGED <<program, access, errCh, cancelled, serveErr, flight, late,
                 stopErr, host, systemctl, budget>>

-----------------------------------------------------------------------------
(* Start: first the steps of the service's start-up *)

StartStep ==
  UNCHANGED <<program, access, main, cancelled, serveErr, flight, late, stopErr,
              exit>>

LoadConfig ==
  /\ start = "load"
  /\ \/ NoFault /\ Checked("local")
     \/ Fault /\ Return("error")
  /\ UNCHANGED <<server, host, systemctl>> /\ StartStep

\* The directory of the rules and the template are there, or they are not.
ValidateLocalResources ==
  /\ start = "local"
  /\ \/ NoFault /\ Checked("ndpi")
     \/ Fault /\ Return("error")
  /\ UNCHANGED <<server, host, systemctl>> /\ StartStep

\* The plugin, the rules, the template and suricatasc are what they should be,
\* and the reload is not configured to shut Suricata down; or not.
ValidateNDPIConfig ==
  /\ start = "ndpi"
  /\ \/ NoFault /\ Checked("dial")
     \/ Fault /\ Return("error")
  /\ UNCHANGED <<server, host, systemctl>> /\ StartStep

\* A plausible bug: Suricata is restarted without a look whether it runs.
DialNot ==
  /\ start = "dial"
  /\ NoFault /\ Proceed("restart")
  /\ UNCHANGED <<server, host, systemctl>> /\ StartStep

\* EnsureSuricataStarted: a Suricata that answers on its control socket is left
\* alone.  One that still starts does not answer.
Dial ==
  /\ start = "dial"
  /\ \/ unit = "active" /\ NoFault /\ Proceed("connect")
     \/ unit # "active" /\ NoFault /\ Proceed("restart")
     \/ Fault /\ Proceed("restart")
  /\ UNCHANGED <<server, host, systemctl>> /\ StartStep

\* The restart runs under a context of its own, which no signal cancels.
CallRestart ==
  /\ start = "restart"
  /\ \/ /\ access /\ NoFault /\ Proceed("systemctl")
        /\ job' = TRUE /\ systemctl' = "running"
     \/ /\ access /\ Fault /\ Return("error")
        /\ UNCHANGED <<job, systemctl>>
     \/ /\ ~access /\ NoFault /\ Return("error")
        /\ UNCHANGED <<job, systemctl>>
  /\ UNCHANGED <<server, unit>> /\ StartStep

\* systemctl returns, or StartTimeout passes first, as it may whenever it has
\* not returned.
AwaitRestart ==
  /\ start = "systemctl"
  /\ \/ systemctl = "ok" /\ Proceed("recheck")
     \/ systemctl # "ok" /\ Return("error")
  /\ NoFault
  /\ systemctl' = "none"
  /\ UNCHANGED <<server, host>> /\ StartStep

\* The socket is tried once more, at once.
Recheck ==
  /\ start = "recheck"
  /\ \/ unit = "active" /\ NoFault /\ Proceed("connect")
     \/ unit # "active" /\ NoFault /\ Return("error")
     \/ Fault /\ Return("error")
  /\ UNCHANGED <<server, host, systemctl>> /\ StartStep

\* ConnectSuricataWithDialer connects a last time.
Connect ==
  /\ start = "connect"
  /\ \/ unit = "active" /\ NoFault /\ Checked("listen")
     \/ unit # "active" /\ NoFault /\ Return("error")
     \/ Fault /\ Return("error")
  /\ UNCHANGED <<server, host, systemctl>> /\ StartStep

\* startHTTPServer listens, lets Stop know of the server and starts the
\* goroutines that serve and that shut down.
Listen ==
  /\ start = "listen"
  /\ \/ NoFault /\ server' = "set" /\ Proceed("serve")
     \/ Fault /\ Return("error") /\ UNCHANGED server
  /\ UNCHANGED <<host, systemctl>> /\ StartStep

\* A plausible bug: whoever waits for Serve does not get its error.
AwaitEndQuiet ==
  /\ start = "serve"
  /\ \/ serveErr /\ Return("nil") /\ UNCHANGED server
     \/ /\ cancelled /\ program = "integration"
        /\ Return("nil") /\ UNCHANGED server
     \/ /\ cancelled /\ program = "host-agent"
        /\ Proceed("shut") /\ server' = "closed"
     \/ /\ program = "host-agent" /\ server = "closed" /\ ~serveErr
        /\ Return("nil") /\ UNCHANGED server
  /\ NoFault
  /\ UNCHANGED <<host, systemctl>> /\ StartStep

\* The select at the end of Start, in both programs.  The agent shuts its
\* server down by itself, whatever comes of that; should RunWithSignals have
\* done so already, Serve has returned and Start may return as well.
AwaitEnd ==
  /\ start = "serve"
  /\ \/ serveErr /\ Return("error") /\ UNCHANGED server
     \/ /\ cancelled /\ program = "integration"
        /\ Return("nil") /\ UNCHANGED server
     \/ /\ cancelled /\ program = "host-agent"
        /\ Proceed("shut") /\ server' = "closed"
     \/ /\ program = "host-agent" /\ server = "closed" /\ ~serveErr
        /\ Return("nil") /\ UNCHANGED server
  /\ NoFault
  /\ UNCHANGED <<host, systemctl>> /\ StartStep

\* Shutdown with ten seconds of its own, the end of which is no error.
AgentShut ==
  /\ start = "shut"
  /\ Return("nil")
  /\ NoFault
  /\ UNCHANGED <<server, host, systemctl>> /\ StartStep

Start ==
  \/ LoadConfig \/ ValidateLocalResources \/ ValidateNDPIConfig
  \/ Dial \/ CallRestart \/ AwaitRestart \/ Recheck \/ Connect
  \/ Listen \/ AwaitEnd \/ AgentShut

-----------------------------------------------------------------------------
(* The server, its connections and the goroutine that shuts it down *)

ServerStep ==
  UNCHANGED <<program, access, main, start, errCh, cancelled, late, stopErr,
              exit, host, systemctl>>

Serve ==
  /\ server = "set"
  /\ server' = "serving"
  /\ UNCHANGED <<serveErr, flight, budget>> /\ ServerStep

\* Accept fails for good; what is being served goes on.
ServeFails ==
  /\ server = "serving"
  /\ Fault
  /\ server' = "closed" /\ serveErr' = TRUE
  /\ UNCHANGED flight /\ ServerStep

\* The service's own goroutine, with its ten seconds; its Shutdown closes the
\* listener at once, and nobody waits for the rest of it.
ShutdownOnCancel ==
  /\ program = "integration"
  /\ cancelled
  /\ server \in {"set", "serving"}
  /\ server' = "closed"
  /\ UNCHANGED <<serveErr, flight, budget>> /\ ServerStep

Accept(c) ==
  /\ server = "serving"
  /\ c \notin flight
  /\ flight' = flight \cup {c}
  /\ UNCHANGED <<server, serveErr, budget>> /\ ServerStep

Finish(c) ==
  /\ c \in flight
  /\ flight' = flight \ {c}
  /\ UNCHANGED <<server, serveErr, budget>> /\ ServerStep

-----------------------------------------------------------------------------
(* RunWithSignals *)

MainStep == UNCHANGED <<program, access, host, budget>>

\* SIGINT or SIGTERM.  RunWithSignals waits in its first select by then: it
\* learns of the signal before anything that follows from it, and of what Start
\* returned earlier before the signal.
Signal ==
  /\ main # "off" /\ ~cancelled
  /\ Fault
  /\ cancelled' = TRUE
  /\ main' = IF main = "wait" /\ errCh = "none" THEN "stop" ELSE main
  /\ UNCHANGED <<program, access, start, errCh, server, serveErr, flight, late,
                 stopErr, exit, host, systemctl>>

\* Start has returned without a signal.
StartEnded ==
  /\ main = "wait"
  /\ errCh # "none"
  /\ Exit(IF errCh = "nil" THEN "ok" ELSE "error")
  /\ MainStep

\* A plausible bug: the server is closed, but what it serves is not waited for.
StopAtOnce ==
  /\ main = "stop"
  /\ \/ /\ server = "none" \/ (server = "set" /\ program = "integration")
        /\ stopErr' = "skipped" /\ UNCHANGED server
     \/ server # "none" /\ stopErr' = "nil" /\ server' = "closed"
  /\ main' = "join"
  /\ UNCHANGED <<start, errCh, cancelled, serveErr, flight, late, exit, systemctl>>
  /\ MainStep

\* Stop: Shutdown closes the listener first.  The service has no server to shut
\* down before its start-up is over; a Start that is just past its last check
\* of the context sets one all the same, after Stop has looked.  The assignment
\* and the look are a data race: Stop may miss a server that has just been set.
Stop ==
  /\ main = "stop"
  /\ \/ /\ server = "none" \/ (server = "set" /\ program = "integration")
        /\ stopErr' = "skipped" /\ main' = "join" /\ UNCHANGED server
     \/ /\ server # "none"
        /\ server' = "closed" /\ main' = "drain" /\ UNCHANGED stopErr
  /\ UNCHANGED <<start, errCh, cancelled, serveErr, flight, late, exit, systemctl>>
  /\ MainStep

\* A plausible bug: Shutdown gets a context without a deadline.
DrainUnbounded ==
  /\ main = "drain"
  /\ flight = {}
  /\ stopErr' = "nil" /\ main' = "join"
  /\ UNCHANGED <<start, errCh, cancelled, server, serveErr, flight, late, exit,
                 systemctl>>
  /\ MainStep

\* Shutdown waits for the connections, or for the deadline.
Drain ==
  /\ main = "drain"
  /\ \/ flight = {} /\ stopErr' = "nil"
     \/ late /\ stopErr' = "deadline"
  /\ main' = "join"
  /\ UNCHANGED <<start, errCh, cancelled, server, serveErr, flight, late, exit,
                 systemctl>>
  /\ MainStep

\* The second select: Start's error counts, unless it is the cancellation; then
\* Stop's.
Join ==
  /\ main = "join"
  /\ \/ errCh = "error" /\ Exit("error")
     \/ errCh \in {"nil", "canceled"} /\ stopErr = "deadline" /\ Exit("error")
     \/ errCh \in {"nil", "canceled"} /\ stopErr # "deadline" /\ Exit("ok")
     \/ late /\ Exit("error")
  /\ MainStep

Deadline ==
  /\ main \in Stopping /\ ~late
  /\ late' = TRUE
  /\ UNCHANGED <<main, start, errCh, cancelled, server, serveErr, flight,
                 stopErr, exit, systemctl>>
  /\ MainStep

Kill ==
  /\ main # "off"
  /\ Fault
  /\ Exit("killed")
  /\ UNCHANGED <<program, access, host>>

Main == StartEnded \/ Stop \/ Drain \/ Join

-----------------------------------------------------------------------------
(* systemd and Suricata *)

HostStep == UNCHANGED <<program, access, process>>

\* systemctl learns when the process has been forked.
RestartJob ==
  /\ job
  /\ job' = FALSE
  /\ \/ /\ NoFault /\ unit' = "starting"
        /\ systemctl' = IF systemctl = "running" THEN "ok" ELSE systemctl
     \/ /\ Fault /\ unit' = "down"
        /\ systemctl' = IF systemctl = "running" THEN "failed" ELSE systemctl
  /\ HostStep

Boot ==
  /\ unit = "starting"
  /\ \/ NoFault /\ unit' = "active"
     \/ Fault /\ unit' = "down"
  /\ UNCHANGED <<job, systemctl>> /\ HostStep

Death ==
  /\ unit = "active"
  /\ Fault
  /\ unit' = "down"
  /\ UNCHANGED <<job, systemctl>> /\ HostStep

\* Another process has Suricata restarted: the host agent, on behalf of a call
\* that an earlier process has left behind.
RestartByAnother ==
  /\ ~job
  /\ Fault
  /\ job' = TRUE
  /\ UNCHANGED <<unit, systemctl>> /\ HostStep

-----------------------------------------------------------------------------
Next ==
  \/ Launch \/ Start \/ Main
  \/ Signal \/ Deadline \/ Kill
  \/ Serve \/ ServeFails \/ ShutdownOnCancel
  \/ \E c \in Calls : Accept(c) \/ Finish(c)
  \/ RestartJob \/ Boot \/ Death \/ RestartByAnother

Spec == Init /\ [][Next]_vars

\* Goroutines are not starved and deadlines pass.  Nothing makes a handler end:
\* its client may read for ever.  Nobody need start a program again, and neither
\* systemd nor Suricata need do anything.
Fairness ==
  /\ WF_vars(Start) /\ WF_vars(Main) /\ WF_vars(Deadline) /\ WF_vars(Serve)

FairSpec == Spec /\ Fairness

-----------------------------------------------------------------------------
(* Properties *)

\* run.go:26-46, runner.go:92-106, server.go:127-146: a process reports success
\* only after a signal, and has then cut off nobody it was serving, whatever the
\* order in which its goroutines learn of the signal; the exception is a service
\* whose server was set only when Stop had looked for it.
CleanExit ==
  [][exit' = "ok" /\ main # "off" =>
       cancelled /\ (stopErr # "skipped" => flight = {})]_vars

\* run.go:32-45: a signal ends the process, in whatever step of its start-up or
\* shutdown it arrives, and whoever never finishes.
SignalEndsProcess == cancelled ~> main = "off"

\* runner.go:43-98, start_suricata.go:24-42: start-ups fail while Suricata is
\* not ready, and where they can they restart it; once Suricata stays up,
\* whoever has started it, signals and faults are over and somebody starts the
\* program whenever it has ended, it serves for good, whether or not it has
\* access to systemd and whatever the start-ups before have left behind.
ServesOnceSuricataStays ==
  <>[](unit = "active") /\ []<>(main # "off") => <>[](server = "serving")

=============================================================================

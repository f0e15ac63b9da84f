# Integration-Suricata-nDPI in TLA+

A formal model of the integration service and the host agent that switch the
nDPI plugin of Suricata on and off, with TLC configurations that check it on
small instances and TLAPS proofs about every instance.

    tlc -config HostAgentFaults.cfg MCHostAgent     # one line per run, see below
    tlapm HostAgentProofs.tla                       # likewise the other *Proofs

## The system

    caller --HTTP--> integration service --HTTP over a unix socket--> host agent
                       |  mutex Runner.mu                               |  no lock
                       |  POST /plan: writes suricata.yaml,             |  writes suricata.yaml,
                       |              systemctl restart                 |  systemctl restart
                       |  POST /apply: suricatasc                       |
                       +---------------> the host: suricata.yaml, <-----+
                                         systemd, Suricata and its control socket

| Component | State | Operations | What makes it correct |
|---|---|---|---|
| Host agent: toggles and ensure (`pkg/hostagent/handlers.go`, `pkg/systemd`, `integration/connect_suricata.go`) | none of its own: the file, the unit, the control socket; one goroutine and one systemctl process per request | `POST /ndpi/enable`, `/ndpi/disable`, `/suricata/ensure`; `GET /health`, `/ndpi/status` | whenever Suricata differs from the file somebody still owes the restart; "changed" is true of the running process; the line behaves as an atomic register; every request is answered |
| Atomic file replacement (`integration/atomic_write.go`) | a temporary file, the directory entry, what of both the disk has | create, write, chmod, fsync, close, rename, fsync the directory, remove | a reader, and a reboot, find a whole file; the error returned says whether the file was replaced; no litter |
| Editing of suricata.yaml (`patch_suricata_config.go`, `ndpi_toggle.go`) | the lines of the file | patch from the template, comment or uncomment the plugin line, status | idempotent but for a block it leaves open; loses nothing; loads the plugin where it was commented once at most; toggles undo each other |
| Integration service (`internal/httpapi`, `http_server.go`, `reconcile_config.go`, `apply_config.go`, `plan_config.go`, `pkg/agentclient`) | one mutex; per call the contents it read and the processes it runs | `GET /plan`, `POST /plan`, `/apply`, `/ndpi/enable`, `/ndpi/disable` | the two writers of the file do not overwrite each other; no restart is forgotten; the mutex is always released |
| Host agent: listener (`pkg/hostagent/server.go`) | the socket's path, who listens on it | take systemd's socket, check, remove, bind, listen, stop | a live agent's socket is never removed; a dead one's blocks nobody |
| Host agent: reload (`handlers_reload.go`, `suricata_ready.go`, `suricata_sc.go`) | none | `POST /suricata/reload`: look for the socket, wait until ready, five attempts | answered although the retry loop is not left at its deadline, and whatever else restarts Suricata meanwhile |
| Start-up and validation (`runner.go`, `service_manager.go`, `start_suricata.go`, `validate_*.go`) | how far `Start` is; Suricata, which it may restart | check files and plugin, ensure Suricata, start the server | once Suricata stays up a start-up succeeds, whatever earlier ones have left behind and whether or not the service may call systemctl |
| Process life cycle (`internal/app/run.go`, `Stop` of service and agent) | the base context, the HTTP server, the shutdown deadline; four goroutines | signals, shutdown, exit, the next start | success is reported only when nobody was cut off; a signal always ends the process |
| Template rendering (`render_template.go`) | none | substitute variables | no variable is left |

Configuration, command line, wiring and logging hold no state the rest depends
on.

The hard behaviours are listed with their lines under "hazards" in
`PROJECT.json`. In short: handlers of the agent interleave without a lock on a
file that is read, edited and written back as a whole; systemd's restart jobs
outlive the handlers that asked for them; each wait has a deadline, so that the
work goes on after the answer; the service and the agent both write the file
and both restart Suricata; every system call of a write may fail, and power
with it.

## Modules

    ToggleRegister <= HostAgent <- IntegrationService
    ConfigRegister <= IntegrationService                   AgentListener
    AtomicFile     <= AtomicWrite                          ProcessLife
                      SuricataYaml <- SuricataConfig
    (A <= B: B implements A; A <- B: B uses A)

**HostAgent.** `pc[r]` is where the handler of request `r` stands. A toggle is
`ReadConfig` (`SetNDPIEnabledWithFS` up to the decision, with the early return
when nothing is to change), `WriteConfig`, `CallRestart` (systemctl is started
and systemd takes the job) and `WaitRestart` (systemctl returns, or the
deadline or the client's hang-up kills it while the job goes on). An ensure is
`Connect`, the same two, and `Poll`, the loop of `ConnectSuricataWithDialer`. A
reload is `FindSocket`, `WaitReady` and five times `TryReload`, whose `pc`
counts the attempts. `Answer` carries the codes of `classifyErr` and
`writeErrPublic`, but for two that are never sent: `TIMEOUT`, as the file
operations take no context, and `SURICATASC_NOT_CONFIGURED`, as the
configuration is refused without a `suricatasc`
(`internal/config/validate.go:15-17`). External, from how the handlers use
them: `UnitStop`, `UnitStart` (systemd merges restart requests into one job and
tells every systemctl that waits for it), `Boot` (Suricata reads the file and
opens its socket), `Death`, `Hangup`, `AgentCrash`.

Reading the file and renaming a new one over it are single steps there, because
of **AtomicWrite**, which models `writeFileAtomic` call by call over inodes and
a directory with a cached and a durable state each, and is shown to implement
**AtomicFile**: contents that change as a whole or not at all, for readers and
across a loss of power, and callers that are told which.

**ToggleRegister** is what the toggles promise: the plugin line is a register on
which every call takes effect at one instant between its arrival and its answer
or never, and the answer does not lie about which.

**SuricataYaml** has the patch and the toggle as operators on sequences of
lines. A line keeps what the code's comparisons tell apart: its text, its
indentation and how many comment marks it has, of which `UncommentLine` takes
off one, as the code does. Blanks behind a mark are not kept (the code writes
`# - x` where `#- x` was). A key may be commented once to be found (`Names`);
the patch takes every line that names `ndpi.so` for the plugin's (`Mentions`),
the toggles only list items (`Matches`); `hint` and `note` are prose without
and with a `-`. A file that ends with a newline has a blank last line, as
`strings.Split` gives it. **SuricataConfig** applies both in any order to any
file Suricata accepts; which files it accepts and when they load the plugin
(`Valid`, `Loaded`) is external.

**IntegrationService** instantiates HostAgent with the calls of the service as
its requests and adds the service: `Begin` (dispatch by `httpapi`), `Lock`
(`Runner.mu`, taken once per handler and twice for `/apply`), `Send`, `Receive`
and `GiveUp` (the client of the agent with its timeout; the agent sees a
hang-up), `Reload`, `Plan`, and Reconcile as `ReadConfig`, `Validate`,
`ReplaceConfig`, `CallRestart`, `WaitRestart`. There the file is only its
plugin line and a version of everything else. The patch switches the plugin on
and makes `Patched[v]` of version `v`; it reports a change (`Reported`) if the
plugin was off or if `v` is not in `Settled`. The two need not agree: with the
template of the repository a file whose unix-command block a blank line follows
is not settled although the patch leaves it as it is, so that each Reconcile
replaces it by itself and restarts Suricata; one whose block another key
follows is settled. That a patch does no more is what `PatchConverges`,
`PatchUndoesDisable` and `ReconcileLoads` say of the lines, of files that
mention the plugin on one line, commented once at most; IntegrationService is
about such files. `AgentStep` is any step of the agent's handlers or its crash;
`UnitStart` tells the service's own systemctl, too.

**ConfigRegister** is what service and agent together promise: suricata.yaml is
a register of two fields, the plugin line and the rest; each `/ndpi/enable`,
`/ndpi/disable` and `POST /plan` takes effect on it at one instant between its
arrival and its answer, or never, or finds at such an instant that there is
nothing to do, and its answer does not lie about which. A Reconcile has
something to do with every file that is not settled (`Due`), and then says it
changed the file whether or not it is another one now. The exceptions are part
of the promise: a toggle the service gave up on, or died over (`late`), may
take effect after its answer, and from then on a toggle may bring back an old
rest, which is the lost update of `ServiceLostUpdate`. The mapping is
`Register` in IntegrationService: a call's phase is read off where its handlers
in the two programs stand.

**AgentListener** has one process per start of `host-agent serve`. The check
(`Lstat`, `Dial`), the removal and the bind are separate steps; a bound socket
refuses connections until `Listen`; `Stop` closes the listener, which removes
the path unless systemd owns the socket. Errors of the system calls themselves,
a directory the agent may not write to, are left out.

**ProcessLife** is one process, of either program, from its start (`Launch`; by
hand, by docker or by systemd) to its exit, again and again. `access` is
whether it can call systemctl: the service's container cannot
(`README.md:224-227`), and then every restart it asks for fails. `main` is
where `RunWithSignals` stands (`Signal`, `Stop`, `Drain`, `Join`,
`StartEnded`), `start` where `Start` stands: the service's `LoadConfig`,
`ValidateLocalResources`, `ValidateNDPIConfig`, `Dial`, `CallRestart`,
`AwaitRestart`, `Recheck`, `Connect` and `Listen`, then for both programs the
select at its end (`AwaitEnd`). `Serve` and `ShutdownOnCancel` are the
goroutines `startHTTPServer` leaves behind. `Runner.Stop` reads the field that
`startHTTPServer` sets without a lock; that race is the choice `Stop` has while
the server is just "set". It may miss that server, which `CleanExit` then
leaves out. The handlers are in the other modules; here they are connections
that take time and may never end (`flight`), and what the signal does to them
through the base context is the hang-up of HostAgent and IntegrationService.

Modules `MC...` give the constants of these values for TLC. An operator whose
comment begins "A plausible bug" is the operator after it with a mistake that
would be easy to make; no specification uses it. Each is what a property of a
run is there to find (`PROJECT.json`, "mutants").

## What the runs check

Runs that pass:

| Run | Instance | Properties |
|---|---|---|
| `HostAgentFaults` | 2 requests of any kind, all faults, fairness | `TypeOK`, `RestartOwed`, `ChangedMeansLoaded`, `NeverLeftStopped`, `EveryRequestAnswered`, `EnsureConverges`, `ImplementsRegister` |
| `AtomicWriteFaults` | 2 writers, all faults | `TypeOK`, `ReaderSeesWholeFile`, `PowerLossLeavesWholeFile`, `NoLitter`, `ImplementsAtomicFile` |
| `YamlAnyFile` | the shipped template; every accepted file of up to 4 lines, and of up to 5 with the plugin's line in place | `TypeOK`, `PatchConverges`, `ReconcileLoads`, `UnchangedReconcileLoads`, `PatchKeepsTheRest`, `RoundTrip`, `TogglesDecideIfMentionedOnce`, `PatchUndoesDisable`, `RestartForNothingOnlyIfOpen` |
| `ServiceFaults` | 2 calls, a file that is settled and one that is not, all faults, fairness | `TypeOK`, `RestartOwed`, `ChangedMeansLoaded`, `WaitersAreServed`, `WritesAreFresh`, `ImplementsRegister`, `EveryCallAnswered` |
| `ListenerRestarts` | 4 agents, one start at a time, fairness | `TypeOK`, `Reachable`, `StaleNeverBlocks`, `FailsForAReason` |
| `ProcessFaults` | either program, with and without access to systemd, 2 connections, 5 signals or faults, fairness | `TypeOK`, `CleanExit`, `SignalEndsProcess`, `ServesOnceSuricataStays` |

Runs that TLC ends with a counterexample, each of one sentence of the
repository's README that the code does not keep:

| Run | Property | What happens |
|---|---|---|
| `HostAgentRetry` | `UnchangedMeansLoaded` | the file is written, the restart fails (500); the retry finds the file as asked, answers 200 "unchanged" and restarts nothing |
| `YamlShippedTemplate` | `RestartOnlyIfFileChanges` | the shipped template has no newline at its end, the block in the file takes in the blank rest after its own; the two do not compare equal, so every Reconcile of such a file restarts Suricata |
| `YamlOtherLine` | `TogglesDecide` | the toggles take the first line of the file that mentions the plugin, prose and other sections included |
| `ServiceLostUpdate` | `TogglesTouchOnlyPluginLine` | the service's client times out and frees the mutex while the agent's handler goes on; a Reconcile replaces the file; the agent writes back what it had read before |
| `ServiceApply` | `ApplyReachesSuricata` | the mutex is free between the ensure and the reload of `/apply`, and another call's restart comes in between |
| `ServiceToggles` | `ServiceRestartsToggleNothing` | an administrator has the plugin switched off; the next Reconcile switches it on and restarts Suricata by itself, past the agent |

Two more things the code does are left to the conditions of properties that
pass. A `plugins:` key that is commented out is opened without being counted as
a change: when the agent has enabled the line below it, a Reconcile answers
"unchanged" and the plugin is not loaded (`UnchangedReconcileLoads`, which
makes an exception of that key). And of a line that is commented twice one mark
is taken off: the answer is "changed" and the line still a comment
(`ReconcileLoads`, `RoundTrip`, `PatchConverges` and the others are of lines
commented once at most).

Bounds. Two requests show every pairwise interleaving, of the writes and of the
restarts, with every fault at any moment; what needs a third is left to the
theorems, which hold for any number. Each request is served once, which bounds
the behaviours, and a retry is a second request. Two writers are enough for one
to rename over another's file while a reader has the first one open. Files of
four lines hold two sections with an entry each, five a section before and one
after the plugin's; lines that name the plugin are commented up to twice, keys
once. Of the two versions in `ServiceFaults` the patch leaves both as they are,
and reports a change of one; `ServiceLostUpdate` has one that is patched into
another, which is what a lost update needs. Any patch is in the theorems. Four
agents let one start while another serves and the remains of a third are in the
way. `MaxFaults` is how many signals and faults ProcessLife has to spend: with
five, a start-up can fail, its successor's Suricata die, and the process after
that be told to stop and be killed over it. The property that something happens
once they are over needs a bound of that kind; the theorems hold for every one.
No other counter is bounded, because there is none. `CHECK_DEADLOCK` is off
where all requests may have been served.

Faults. `Faults` is the set of what may go wrong; the theorems hold for every
such set. The refuted properties are run with as few as the
counterexample needs, or none.

Fairness. Weak fairness of each handler (goroutines are not starved, and each
wait has a deadline), of systemd's steps and of Suricata's start, which systemd
and the kernel carry out by themselves; none of any fault, client or crash. A
handler that waits for the mutex is served although weak fairness alone does
not say so of a lock that is contended for ever: calls are finitely many here,
and Go's `sync.Mutex` hands the lock over after a millisecond of waiting.
`ProcessLife` assumes weak fairness of the goroutines and of the deadline, but
not of the connections' end, which is up to clients, nor of systemd, of
Suricata or of whoever starts the program. `ServesOnceSuricataStays` has what
it needs of those as its premises: from some time on Suricata is up, and the
program is started whenever it has ended. It promises no more because the code
cannot: each start-up restarts a Suricata that does not answer yet, the
repository sets no pause between start-ups, and in the container the restart
always fails, so a Suricata that is down stays down until somebody else starts
it. A `RunWithSignals` that is told of a signal is taken to stand in its first
select, where it is parked for all of the process's life but its first
instants. `AgentListener` assumes only that a start-up that has begun goes on,
which waits for nothing but a dial with a timeout.

## What is proved

`*Proofs.tla`, by tlapm, for any set of requests, calls, writers or agents and
any set of faults, from the modules' own ASSUMEs (constants that are distinct,
faults from the given set, files of lines and a template with its keys flush
left) and, for some theorems about the patch, the hypotheses below:

| Theorem | Statement | Argument |
|---|---|---|
| `HostAgentProofs!TypeCorrect` | `TypeOK` | inductive, with the steps each operation can stand at |
| `HostAgentProofs!RestartIsOwed` | `RestartOwed` | inductive with `Bookkeeping`: a toggle that writes owes the restart from that step on; a job in progress stops Suricata before it can disagree |
| `HostAgentProofs!ChangedIsLoaded` | `ChangedMeansLoaded` | `Loading`: as long as nobody asks for the opposite, the file has the line as asked from a toggle's write on, so whatever starts Suricata after its restart was called loads it so; "ok" from systemctl means that start has happened |
| `HostAgentProofs!AgentImplementsRegister` | `ImplementsRegister` | `WriteConfig` is the instant a call takes effect, answers map to returns, all else stutters |
| `HostAgentProofs!RestartIsFinished` | `NeverLeftStopped` | inductive with `TypeOK`: only `UnitStop` makes the unit inactive, and it leaves the second half of the job; a handler knows of no restart that has not been handed to systemd |
| `AtomicWriteProofs!TypeCorrect` | `TypeOK` | inductive |
| `AtomicWriteProofs!ReadersSeeWholeFiles`, `PowerLossIsSafe` | `ReaderSeesWholeFile`, `PowerLossLeavesWholeFile` | `Published`: an inode that has the file's name, in the cache, on the disk or with a reader, is whole in both states and its writer is past the rename |
| `AtomicWriteProofs!NoTempFileStays` | `NoLitter` | inductive, with `Unborn` |
| `AtomicWriteProofs!WriteIsAtomic` | `ImplementsAtomicFile` | the rename is the step that replaces the contents, every flush settles or stutters |
| `IntegrationServiceProofs!MutexSerialisesWrites` | `WritesAreFresh` | `Held` (a handler at work holds the mutex), `Awaited` (the agent works only for a call that waits for it, or gave up), `Fresh` (while no toggle is late, what was read is still what the file has) |
| `IntegrationServiceProofs!MutexIsReleased` | `WaitersAreServed` | `Released` (only a handler at work holds the mutex) with `Sent` (the agent has a request of a call exactly from `Send` on), over every path by which a handler returns and over crashes of either program |
| `IntegrationServiceProofs!ServiceImplementsRegister` | `ImplementsRegister` | the agent's write and Reconcile's replacement are the instants at which calls take effect. `Fresh` makes each a write of what is `Due` while nobody is late, which for a file that is not settled may be the file itself; `Prepared` and `HasLine` say what the agent is about to write and that there is a line to switch; `Awaited` that a toggle the agent works on is unanswered or late. Reading that nothing is to change maps to `Keep`, a crash of the agent to dropping all its calls, all else to answers or stuttering |
| `IntegrationServiceRestartProofs!TypeCorrect` | `TypeOK` of service and agent together | inductive; the agent's half is `HostAgentProofs`', instantiated with the service's calls |
| `IntegrationServiceRestartProofs!RestartIsOwed` | `RestartOwed` | as in the agent, for two kinds of writers and restarts: a call that has written owes the restart until systemd has it or it fails |
| `IntegrationServiceRestartProofs!ChangedIsLoaded` | `ChangedMeansLoaded` | as long as nobody asks for the opposite, a write of either side leaves the line as asked, and each "ok" comes after a start that read it |
| `ProcessLifeProofs!TypeCorrect` | `TypeOK` | inductive, with which states of `main`, `start`, `errCh` and the server go together |
| `ProcessLifeProofs!ExitIsClean` | `CleanExit` | a closed server accepts nobody, so what `Drain` has found empty stays so until the exit; `Start` returns without an error only once cancelled |
| `SuricataConfigProofs!TypeCorrect` | `TypeOK`, for files and templates of any length | each operator of the patch yields lines: `Least` of what is not empty, the end of a block within the file |
| `SuricataConfigProofs!TogglesUndo` | `RoundTrip`, for files of any length | `Agree`: a toggle leaves every line but the plugin's mark, up to blank lines at the end, so the next one finds the same line; of one mark at most, taking it off and putting it on give the line again |
| `SuricataPatchProofs!ReconcileLoadsPlugin` | `ReconcileLoads`, for files and templates of any length | `Opened`: the plugins step leaves an open key with an open entry of the plugin in its section, each later step of the patch keeps both, and an accepted file with such an entry is one that loads it; the entry is open since it had one mark at most (`OnceCommented`) |
| `SuricataPatchProofs!MentionDecides` | `TogglesDecideIfMentionedOnce`, likewise | inductive with `Decisive`: after a Reconcile of a file in which no line that names the plugin is commented more than once (`managed`) the file with its plugin line lit (`Lit`) is accepted. A toggle changes one mark, so what Suricata reads of the two files is the same but for that entry (`Alike`) |
| `SuricataPatchProofs!PatchConverging`, `RestartsAreForAChange` | `PatchConverges`, `RestartForNothingOnlyIfOpen`, for files and templates of any length (1, 2) | `HasBlock`: the patched file has the template's block whole as its first block of that key, with at most one blank line behind it that the template lacks, so a second patch finds it equal or takes out that line, and it finds an open plugin entry. Every operation keeps (1) |
| `SuricataPatchProofs!RestIsKept` | `PatchKeepsTheRest`, for files and templates of any length (1, 2, 3) | each step of the patch puts a piece in the place of another (`Spliced`); the lines of `Rest` on either side of it are matched by an order-preserving map, and the piece has none. Every operation keeps (1) and (3) |
| `AgentListenerProofs!TypeCorrect`, `ServingIsReachable` | `TypeOK`, `Reachable` | nobody serves while another is about to remove what the path names |
| `AgentListenerProofs!StartUpFailsForAReason` | `FailsForAReason` | `Checked`: from its check on, a start-up has the path to itself but for the agent that listened there, which takes it away by stopping, so at the bind there is nothing and before it either what was checked or nothing |

The hypotheses of the theorems about the patch are about what an administrator
may have left in the first file and about the template:

1. `UnixFlush`: the key `unix-command:` is nowhere indented. The patch looks for
   the key at any depth, so an indented, commented one above the real one is the
   one it replaces, and what that takes with it depends on the lines below.
2. `TemplateFlush`: the template's `unix-command:` block begins flush left. The
   shipped template's does.
3. `CommentedOut`: a section that is commented out is so as a whole. The patch
   uncomments or replaces a key, and would take options left without their key
   for its own.

`YamlAnyFile`'s files and its template, the shipped one, satisfy them, and the
theorems show that every file that comes about from such files does. None needs
a file that Suricata accepts.

Each invariant was first checked by TLC on the instances above.

Only model-checked: liveness (`EveryRequestAnswered`, `EnsureConverges`,
`EveryCallAnswered`, `StaleNeverBlocks`, `SignalEndsProcess`,
`ServesOnceSuricataStays`), which is beyond the proof system, since it rests on
fairness and so on ENABLED; `PatchUndoesDisable`, and
`UnchangedReconcileLoads`, which is of files Suricata accepts at first. Of some
of the liveness properties a safety half is proved: `NeverLeftStopped` is why
`EnsureConverges` can hold, as a stopped Suricata has a job that starts it;
`WaitersAreServed` is why no wait for the mutex in `EveryCallAnswered` is for
ever; `FailsForAReason` is what keeps the start-up in `StaleNeverBlocks` from
giving up. Every other property of a passing run is a theorem. The properties
of the runs that end with a counterexample are false.

## What is left out

- The rendering of the template: the shipped one has no variables, and then
  rendering returns its input. With variables it is one pass over one text, with
  no state; that it may fail is part of `ReadConfig` and `Plan`.
- What the start-up checks look at (files, directories, the words in the
  template): each may fail, and its order and its failure are modelled.
- `GET /health` and `GET /ndpi/status`, which change nothing; `Status` shares
  its reading of the file with the toggles (`Configured`, `Enabled`).
- Methods, headers and JSON; configuration, flags, wiring, logging.
- Time: a deadline may pass at any moment, so nothing depends on how long it is.
- The HTTP servers' write timeouts: a late answer is lost, and the handler ends
  as if it had been read.
- Several control sockets or configuration files: the code takes the first that
  exists.
- Agents that start at the same time: `AgentListener` has them (`Overlap`), but
  `Reachable` and `FailsForAReason` make no claim then: one may remove the socket
  the other has just bound. systemd starts one agent per socket.

## Plan

1. The other halves of the liveness properties: that each step of a handler
   brings it nearer to its answer, as an action property over a rank.
2. The calls of ProcessLife's `flight` as those of IntegrationService: one
   specification of a service that is stopped while it reconciles.
3. Rendering, should the template get variables.

----------------------------- MODULE Supervisor -----------------------------
(***************************************************************************)
(* granola's service supervisor (init/granola/src/supervisor): PID 1       *)
(* starts services once their dependencies report READY, listens to their  *)
(* notifications, reaps their exits and restarts them with a budget.       *)
(*                                                                         *)
(* The supervisor is one thread.  Its handlers exclude each other but run  *)
(* against the processes it supervises, so a handler is a few steps of     *)
(* `phase' between which processes may exit and send datagrams.  Clocks    *)
(* are abstracted: a queued restart is waiting or due, and the last        *)
(* restart of a service is inside or outside the restart window.           *)
(***************************************************************************)
EXTENDS Naturals, Sequences

CONSTANTS
    Service,             \* names of the loaded service definitions
    Dep,                 \* Dep[s]: the names s lists in depends_on
    Pid,                 \* process identifiers, reused once reaped
    NoPid,               \* Option<i32>::None of ServiceState::pid
    NoService,           \* "not in the map" of Reaper::known_pids
    Kind,                \* kinds of notification the services send
    Report,              \* (status text, health) pairs the services report
    Reporter,            \* the services that report a status at all
    Healthy,             \* the reports whose health is Health::Healthy
    NoReport,            \* Option::None of ServiceState::last_status
    MaxRestartAttempts,  \* MAX_RESTART_ATTEMPTS
    CountMax,            \* largest restart_count (u32::MAX)
    SocketCapacity       \* datagrams the notify socket holds

ASSUME SupervisorAssumption ==
    /\ NoPid \notin Pid
    /\ NoService \notin Service
    /\ NoReport \notin Report
    /\ Reporter \subseteq Service
    /\ Healthy \subseteq Report
    /\ Kind \subseteq {"READY", "STATUS", "STOPPING", "WATCHDOG"}
    /\ MaxRestartAttempts \in Nat
    /\ CountMax \in Nat
    /\ MaxRestartAttempts <= CountMax
    /\ SocketCapacity \in Nat

VARIABLES
    phase,          \* where the event loop is
    received,       \* process_notifications: some notification was applied
    status,         \* ServiceState::status of each service
    pid,            \* ServiceState::pid
    restart_count,  \* ServiceState::restart_count
    last_restart,   \* ServiceState::last_restart, relative to RESTART_WINDOW
    last_status,    \* ServiceState::last_status
    waiting,        \* waiting[s]: restarts of s queued, not due yet
    due,            \* due[s]: restarts of s queued and due
    todo,           \* todo[s]: starts of s the running loop still has to make
    known_pids,     \* Reaper::known_pids
    child,          \* the kernel's view of the children
    socket,         \* datagrams sent and not read
    published       \* the snapshot in the watch channel

services == <<status, pid, restart_count, last_restart, last_status>>
queue == <<waiting, due>>
procs == <<known_pids, child>>
vars == <<phase, received, services, queue, todo, procs, socket, published>>

-----------------------------------------------------------------------------
(* State *)

Status == {"Pending", "Starting", "Ready", "Degraded", "Stopping", "Failed"}

Datagram == [name: Service, kind: Kind, report: Report \cup {NoReport}]

Phase == {"init", "boot", "idle", "notify", "start", "restart"}

\* Mutant: services that wait for a start are left out.
MutSnapshot(sts, counts) ==
    {[name |-> s, status |-> sts[s], restarts |-> counts[s]] :
        s \in {t \in Service : sts[t] # "Pending"}}

\* status::publish: the report of every service, ordered by name.
Snapshot(sts, counts) ==
    {[name |-> s, status |-> sts[s], restarts |-> counts[s]] : s \in Service}

Publish == published' = Snapshot(status', restart_count')

Queued(s) == waiting[s] + due[s] > 0
Nothing == [s \in Service |-> 0]

-----------------------------------------------------------------------------
(* dependency.rs *)

\* Mutant: any dependency that has not failed will do.
MutAreSatisfied(s) == \A d \in Dep[s] : d \in Service /\ status[d] # "Failed"

AreSatisfied(s) == \A d \in Dep[s] : d \in Service /\ status[d] = "Ready"

\* Mutant: failed services are collected again.
MutCollectStartable ==
    {s \in Service : status[s] \in {"Pending", "Failed"} /\ AreSatisfied(s)}

CollectStartable == {s \in Service : status[s] = "Pending" /\ AreSatisfied(s)}

\* Mutant: without the retain that leaves queued restarts alone.
MutStartableBatch ==
    [s \in Service |-> IF s \in CollectStartable THEN 1 ELSE 0]

\* collect_startable and the retain of start_ready_services.
StartableBatch ==
    [s \in Service |-> IF s \in CollectStartable /\ ~Queued(s) THEN 1 ELSE 0]

-----------------------------------------------------------------------------
(* restart.rs *)

\* Mutant: the attempt budget is not consulted.
MutShouldRestart(s, code) == status[s] # "Stopping" /\ code # "zero"

ShouldRestart(s, code) ==
    /\ status[s] # "Stopping"
    /\ code # "zero"
    /\ last_restart[s] = "expired" \/ restart_count[s] < MaxRestartAttempts

\* Mutant: an addition that does not saturate.
MutNextCount(s) == restart_count[s] + 1

NextCount(s) == IF restart_count[s] < CountMax THEN restart_count[s] + 1 ELSE CountMax

\* begin_attempt, leaving the service in status st.
BeginAttempt(s, st) ==
    /\ status' = [status EXCEPT ![s] = st]
    /\ restart_count' = [restart_count EXCEPT ![s] = NextCount(s)]
    /\ last_restart' = [last_restart EXCEPT ![s] = "recent"]
    /\ UNCHANGED last_status

Enqueue(s) ==
    /\ waiting' = [waiting EXCEPT ![s] = @ + 1]
    /\ UNCHANGED due

Cancel(s) ==
    /\ waiting' = [waiting EXCEPT ![s] = 0]
    /\ due' = [due EXCEPT ![s] = 0]

Schedule(s) == BeginAttempt(s, "Pending") /\ Enqueue(s)

\* A failed spawn is counted, then retried later or given up.
RecordSpawnFailure(s) ==
    \/ NextCount(s) < MaxRestartAttempts /\ Schedule(s)
    \/ NextCount(s) >= MaxRestartAttempts /\ BeginAttempt(s, "Failed") /\ Cancel(s)

\* Mutant: the dependency test is inverted.
MutTakeDue ==
    /\ todo' = [s \in Service |-> IF AreSatisfied(s) THEN 0 ELSE due[s]]
    /\ waiting' = [s \in Service |-> IF AreSatisfied(s) THEN waiting[s] + due[s]
                                     ELSE waiting[s]]
    /\ due' = Nothing

\* Due restarts whose dependencies are not ready wait once more.
TakeDue ==
    /\ todo' = [s \in Service |-> IF AreSatisfied(s) THEN due[s] ELSE 0]
    /\ waiting' = [s \in Service |-> IF AreSatisfied(s) THEN waiting[s]
                                     ELSE waiting[s] + due[s]]
    /\ due' = Nothing

-----------------------------------------------------------------------------
(* notify.rs *)

\* parse_notification yields nothing for a watchdog keepalive.
Parsable(d) == d.kind # "WATCHDOG"

ApplyReady(s) ==
    /\ status' = [status EXCEPT ![s] = "Ready"]
    /\ restart_count' = [restart_count EXCEPT ![s] = 0]
    /\ UNCHANGED last_status

\* Mutant: only a healthy report is remembered.
MutApplyStatusUpdate(s, report) ==
    /\ IF last_status[s] = report
       THEN UNCHANGED <<status, last_status>>
       ELSE /\ last_status' = [last_status EXCEPT ![s] = IF report \in Healthy THEN report ELSE @]
            /\ status' = [status EXCEPT ![s] =
                            IF report \notin Healthy THEN "Degraded"
                            ELSE IF @ = "Degraded" THEN "Ready" ELSE @]
    /\ UNCHANGED restart_count

\* A report equal to the last one is dropped before it can change the status.
ApplyStatusUpdate(s, report) ==
    /\ IF last_status[s] = report
       THEN UNCHANGED <<status, last_status>>
       ELSE /\ last_status' = [last_status EXCEPT ![s] = report]
            /\ status' = [status EXCEPT ![s] =
                            IF report \notin Healthy THEN "Degraded"
                            ELSE IF @ = "Degraded" THEN "Ready" ELSE @]
    /\ UNCHANGED restart_count

ApplyStopping(s) ==
    /\ status' = [status EXCEPT ![s] = "Stopping"]
    /\ UNCHANGED <<restart_count, last_status>>

Apply(d) ==
    \/ d.kind = "READY" /\ ApplyReady(d.name)
    \/ d.kind = "STATUS" /\ ApplyStatusUpdate(d.name, d.report)
    \/ d.kind = "STOPPING" /\ ApplyStopping(d.name)

-----------------------------------------------------------------------------
(* The supervisor: mod.rs *)

Init ==
    /\ phase = "init"
    /\ received = FALSE
    /\ status = [s \in Service |-> "Pending"]
    /\ pid = [s \in Service |-> NoPid]
    /\ restart_count = Nothing
    /\ last_restart = [s \in Service |-> "never"]
    /\ last_status = [s \in Service |-> NoReport]
    /\ waiting = Nothing
    /\ due = Nothing
    /\ todo = Nothing
    /\ known_pids = [p \in Pid |-> NoService]
    /\ child = [p \in Pid |-> "none"]
    /\ socket = <<>>
    /\ published = {}

\* run: the first start_ready_services ...
Run ==
    /\ phase = "init"
    /\ phase' = "boot"
    /\ todo' = StartableBatch
    /\ UNCHANGED <<received, services, queue, procs, socket, published>>

\* ... and the publish before the loop.
EnterLoop ==
    /\ phase = "boot"
    /\ todo = Nothing
    /\ phase' = "idle"
    /\ UNCHANGED <<received, services, queue, todo, procs, socket>>
    /\ Publish

\* spawn_service succeeds for the next name of a start loop.
SpawnService(s, p) ==
    /\ phase \in {"boot", "start", "restart"}
    /\ todo[s] > 0
    /\ child[p] = "none"
    /\ todo' = [todo EXCEPT ![s] = @ - 1]
    /\ pid' = [pid EXCEPT ![s] = p]
    /\ status' = [status EXCEPT ![s] = "Starting"]
    /\ child' = [child EXCEPT ![p] = "running"]
    /\ known_pids' = [known_pids EXCEPT ![p] = s]
    /\ UNCHANGED <<phase, received, restart_count, last_restart, last_status, queue, socket>>
    /\ Publish

\* Mutant: a failed spawn is not published.
MutSpawnFails(s) ==
    /\ phase \in {"boot", "start", "restart"}
    /\ todo[s] > 0
    /\ todo' = [todo EXCEPT ![s] = @ - 1]
    /\ RecordSpawnFailure(s)
    /\ UNCHANGED <<phase, received, pid, procs, socket, published>>

\* spawn_or_log: the spawn fails (binary missing, fork refused).
SpawnFails(s) ==
    /\ phase \in {"boot", "start", "restart"}
    /\ todo[s] > 0
    /\ todo' = [todo EXCEPT ![s] = @ - 1]
    /\ RecordSpawnFailure(s)
    /\ Publish
    /\ UNCHANGED <<phase, received, pid, procs, socket>>

\* The 100 ms tick fires: process_notifications begins.
Tick ==
    /\ phase = "idle"
    /\ phase' = "notify"
    /\ received' = FALSE
    /\ UNCHANGED <<services, queue, todo, procs, socket, published>>

\* poll reads a notification and apply applies it.
ApplyNotification ==
    /\ phase = "notify"
    /\ socket # <<>>
    /\ Parsable(Head(socket))
    /\ socket' = Tail(socket)
    /\ received' = TRUE
    /\ Apply(Head(socket))
    /\ UNCHANGED <<phase, pid, last_restart, queue, todo, procs, published>>

\* poll stops at an empty socket, or at a datagram that it reads and cannot
\* parse; start_ready_services collects its batch.
EndPoll ==
    /\ phase = "notify"
    /\ \/ socket = <<>> /\ UNCHANGED socket
       \/ socket # <<>> /\ ~Parsable(Head(socket)) /\ socket' = Tail(socket)
    /\ phase' = "start"
    /\ todo' = StartableBatch
    /\ UNCHANGED <<received, services, queue, procs, published>>

\* The end of process_notifications; process_pending_restarts takes what is due.
BeginRestarts ==
    /\ phase = "start"
    /\ todo = Nothing
    /\ phase' = "restart"
    /\ UNCHANGED <<received, services, procs, socket>>
    /\ IF received THEN Publish ELSE UNCHANGED published
    /\ TakeDue

EndTick ==
    /\ phase = "restart"
    /\ todo = Nothing
    /\ phase' = "idle"
    /\ UNCHANGED <<received, services, queue, todo, procs, socket, published>>

\* Mutant: the exited process stays the pid of the service.
MutForgetPid(s) == UNCHANGED pid

ForgetPid(s) == pid' = [pid EXCEPT ![s] = NoPid]

\* handle_service_exit: restart the service, or record why it is not restarted.
HandleServiceExit(s, code) ==
    /\ ForgetPid(s)
    /\ \/ ShouldRestart(s, code) /\ Schedule(s)
       \/ /\ ~ShouldRestart(s, code)
          /\ status' = [status EXCEPT ![s] = IF code = "zero" THEN "Stopping" ELSE "Failed"]
          /\ UNCHANGED <<restart_count, last_restart, last_status, queue>>

\* SIGCHLD or the 5 s sweep: waitpid returns p, dispatch_exit forgets it and
\* process_exits handles it.  Reaping several children at once is reaping them
\* one by one.
ReapExit(p) ==
    /\ phase = "idle"
    /\ child[p] \in {"zero", "nonzero"}
    /\ child' = [child EXCEPT ![p] = "none"]
    /\ known_pids' = [known_pids EXCEPT ![p] = NoService]
    /\ HandleServiceExit(known_pids[p], child[p])
    /\ Publish
    /\ UNCHANGED <<phase, received, todo, socket>>

-----------------------------------------------------------------------------
(* provisiond's readiness gate (update/readiness.rs), which reads the snapshot *)

Satisfied(report) ==
    report.status = "Ready" \/ (report.status = "Stopping" /\ report.restarts = 0)

Assess(snapshot) == snapshot # {} /\ \A report \in snapshot : Satisfied(report)

-----------------------------------------------------------------------------
(* The supervised processes and the clock *)

\* A process of service known_pids[p] uses the Notifier of granola::runtime.
Send(p, kind, report) ==
    /\ child[p] = "running"
    /\ Len(socket) < SocketCapacity
    /\ socket' = Append(socket, [name |-> known_pids[p], kind |-> kind, report |-> report])
    /\ UNCHANGED <<phase, received, services, queue, todo, procs, published>>

\* A process exits with code 0, or with another code or a signal.
Exit(p, code) ==
    /\ child[p] = "running"
    /\ child' = [child EXCEPT ![p] = code]
    /\ UNCHANGED <<phase, received, services, queue, todo, known_pids, socket, published>>

\* RESTART_DELAY (or RESCHEDULE_DELAY) elapses for a queued restart.
DelayElapses(s) ==
    /\ waiting[s] > 0
    /\ waiting' = [waiting EXCEPT ![s] = @ - 1]
    /\ due' = [due EXCEPT ![s] = @ + 1]
    /\ UNCHANGED <<phase, received, services, todo, procs, socket, published>>

\* RESTART_WINDOW elapses since the last restart of s.
WindowElapses(s) ==
    /\ last_restart[s] = "recent"
    /\ last_restart' = [last_restart EXCEPT ![s] = "expired"]
    /\ UNCHANGED <<phase, received, status, pid, restart_count, last_status,
                   queue, todo, procs, socket, published>>

-----------------------------------------------------------------------------
Start(s) == (\E p \in Pid : SpawnService(s, p)) \/ SpawnFails(s)

Notify(p) ==
    \/ \E kind \in Kind \ {"STATUS"} : Send(p, kind, NoReport)
    \/ /\ "STATUS" \in Kind /\ known_pids[p] \in Reporter
       /\ \E report \in Report : Send(p, "STATUS", report)

Next ==
    \/ Run \/ EnterLoop \/ Tick \/ ApplyNotification \/ EndPoll
    \/ BeginRestarts \/ EndTick
    \/ \E s \in Service : Start(s) \/ DelayElapses(s) \/ WindowElapses(s)
    \/ \E p \in Pid : \/ ReapExit(p)
                      \/ Notify(p)
                      \/ \E code \in {"zero", "nonzero"} : Exit(p, code)

Spec == Init /\ [][Next]_vars

\* The event loop keeps running, a pending SIGCHLD is served before a tick
\* (select! is biased), and time passes.  Nothing is assumed of the services.
Fairness ==
    /\ WF_vars(Run) /\ WF_vars(EnterLoop) /\ WF_vars(Tick)
    /\ WF_vars(ApplyNotification) /\ SF_vars(EndPoll)
    /\ WF_vars(BeginRestarts) /\ WF_vars(EndTick)
    /\ \A s \in Service : WF_vars(Start(s)) /\ WF_vars(DelayElapses(s))
    /\ \A p \in Pid : SF_vars(ReapExit(p))

FairSpec == Spec /\ Fairness

-----------------------------------------------------------------------------
(* Properties *)

\* Every variable has its type; in particular restart_count stays in its u32
\* and every queued datagram names a service.
TypeOK ==
    /\ phase \in Phase
    /\ received \in BOOLEAN
    /\ status \in [Service -> Status]
    /\ pid \in [Service -> Pid \cup {NoPid}]
    /\ restart_count \in [Service -> 0..CountMax]
    /\ last_restart \in [Service -> {"never", "recent", "expired"}]
    /\ last_status \in [Service -> Report \cup {NoReport}]
    /\ waiting \in [Service -> Nat]
    /\ due \in [Service -> Nat]
    /\ todo \in [Service -> Nat]
    /\ known_pids \in [Pid -> Service \cup {NoService}]
    /\ child \in [Pid -> {"none", "running", "zero", "nonzero"}]
    /\ socket \in Seq(Datagram)
    /\ published \subseteq [name: Service, status: Status, restarts: 0..CountMax]

HasProcess(s) == pid[s] # NoPid

\* Starts of s that are queued or about to be made.
Owed(s) == waiting[s] + due[s] + todo[s]

\* A service has a process, or one start owed to it, or neither: never both and
\* never two.  spawn_service does not look at ServiceState::pid, so this is
\* what keeps two processes of a service from running at once.
OneLifeline ==
    \A s \in Service : Owed(s) <= 1 /\ (HasProcess(s) => Owed(s) = 0)

\* ServiceState::pid, Reaper::known_pids and the kernel agree: a service's pid
\* is the pid that is tracked for it, and exactly the unreaped children are
\* tracked, although pids are reused.
PidsAgree ==
    /\ \A s \in Service, p \in Pid : known_pids[p] = s <=> pid[s] = p
    /\ \A p \in Pid : child[p] = "none" <=> known_pids[p] = NoService

\* Between two handlers the published snapshot is the state of the services:
\* no handler changes a status or a restart count and forgets to publish.
PublishedIsCurrent ==
    phase = "idle" => published = Snapshot(status, restart_count)

\* The stage of each service in ServiceLifecycle.
life ==
    [s \in Service |->
        IF HasProcess(s) THEN "up"
        ELSE IF Owed(s) > 0 THEN "owed"
        ELSE IF status[s] = "Pending" THEN "unstarted" ELSE "down"]

Lifecycle == INSTANCE ServiceLifecycle WITH Service <- Service, life <- life

\* The supervisor implements ServiceLifecycle: in particular a service that
\* failed or exited cleanly is never started again, whatever late datagrams
\* of its dead process do to its status.
ImplementsLifecycle == Lifecycle!Spec

\* The supervisor has spawned s, or tried to, at least once.
Attempted(s) == status[s] # "Pending" \/ last_restart[s] # "never"

\* Services come up in dependency order: when a start of a service is owed, or
\* was ever made, everything it depends on exists and was started before.
\* Restarts and late datagrams never make a dependency look untouched again.
StartOrder ==
    \A s \in Service :
        life[s] # "unstarted" => \A d \in Dep[s] : d \in Service /\ Attempted(d)

\* A Degraded service can recover: its last recorded report is an unhealthy one,
\* so that the next healthy one differs from it and is not dropped as a repetition,
\* although the record outlives restarts, exits and READY.
DegradedIsReported ==
    \A s \in Service : status[s] = "Degraded" => last_status[s] \in Report \ Healthy

\* The readiness gate of an update never passes on a system that is still coming
\* up: whenever a client would find the snapshot it reads in order, also in the
\* middle of a handler, the supervisor has started or tried to start every service.
GateSeesAll == Assess(published) => \A s \in Service : Attempted(s)

\* A service that is restarted over and over keeps reporting READY, or its
\* restarts keep falling outside the restart window: a service that crashes
\* without becoming ready exhausts its budget.
CrashLoopEnds ==
    \A s \in Service :
        []<>(todo[s] > 0) /\ []<>(todo[s] = 0) =>
            \/ []<>(last_restart[s] = "expired")
            \/ []<>(\E i \in DOMAIN socket : socket[i].name = s /\ socket[i].kind = "READY")

\* A service that is pending or queued while its dependencies are ready gets a
\* process or is given up, unless a dependency stops being ready, provided that
\* poll, which reads until the socket is empty, is not kept busy for ever.
StartedWhenPossible ==
    []<>(socket = <<>>) =>
        \A s \in Service :
            (status[s] = "Pending" \/ Owed(s) > 0) /\ AreSatisfied(s)
                ~> HasProcess(s) \/ status[s] = "Failed" \/ ~AreSatisfied(s)

\* restart.rs:87 "Marks a service as permanently failed."
FailedIsPermanent ==
    [][\A s \in Service : status[s] = "Failed" => status'[s] = "Failed"]_vars

=============================================================================

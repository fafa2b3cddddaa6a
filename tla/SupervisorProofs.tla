-------------------------- MODULE SupervisorProofs --------------------------
(***************************************************************************)
(* Proofs about Supervisor, for any services, dependencies, pids, budget   *)
(* and socket capacity.                                                    *)
(***************************************************************************)
EXTENDS Supervisor, TLAPS

\* A service whose status is Pending has no process.
PendingHasNoProcess ==
    \A s \in Service : status[s] = "Pending" => pid[s] = NoPid

\* Outside the start loops nothing is left to start.
LoopsAreOver == phase \in {"init", "idle", "notify"} => todo = Nothing

\* The inductive invariant: OneLifeline needs to know that a Pending service
\* has no process (a start batch is collected by status alone) and that a batch
\* is only collected when the previous one is used up; the types need PidsAgree
\* (an exit is charged to a service because its pid is tracked).
IInv ==
    /\ TypeOK
    /\ OneLifeline
    /\ PidsAgree
    /\ PendingHasNoProcess
    /\ LoopsAreOver

-----------------------------------------------------------------------------
(* Facts about the operators *)

\* A snapshot of well-typed services is a set of well-typed views.
LEMMA SnapshotType ==
    ASSUME NEW sts \in [Service -> Status], NEW counts \in [Service -> 0..CountMax]
    PROVE  Snapshot(sts, counts) \subseteq
               [name: Service, status: Status, restarts: 0..CountMax]
  BY DEF Snapshot

\* The saturated count is in range.
LEMMA NextCountType ==
    ASSUME TypeOK, NEW s \in Service
    PROVE  NextCount(s) \in 0..CountMax
  BY SupervisorAssumption DEF SupervisorAssumption, NextCount, TypeOK

\* A start batch holds each service at most once, and only Pending services
\* that have no queued restart.
LEMMA BatchFacts ==
    ASSUME TypeOK
    PROVE  /\ StartableBatch \in [Service -> Nat]
           /\ \A s \in Service :
                 \/ StartableBatch[s] = 0
                 \/ /\ StartableBatch[s] = 1
                    /\ status[s] = "Pending"
                    /\ AreSatisfied(s)
                    /\ waiting[s] + due[s] = 0
  BY DEF StartableBatch, CollectStartable, Queued, TypeOK

\* What the head and the tail of a non-empty socket are.
LEMMA SocketFacts ==
    ASSUME TypeOK, socket # <<>>
    PROVE  /\ Head(socket) \in Datagram
           /\ Head(socket).name \in Service
           /\ Tail(socket) \in Seq(Datagram)
  <1>1. socket \in Seq(Datagram)
    BY DEF TypeOK
  <1>2. Head(socket) \in Datagram /\ Tail(socket) \in Seq(Datagram)
    BY <1>1
  <1>3. QED
    BY <1>2 DEF Datagram

-----------------------------------------------------------------------------
(* Each action preserves the inductive invariant *)

\* The initial state satisfies the inductive invariant.
LEMMA InitIInv == Init => IInv
  <1> SUFFICES ASSUME Init PROVE IInv
    OBVIOUS
  <1>0. 0 \in 0..CountMax
    BY SupervisorAssumption DEF SupervisorAssumption
  <1>1. TypeOK
    <2>1. Nothing \in [Service -> Nat] /\ Nothing \in [Service -> 0..CountMax]
      BY <1>0 DEF Nothing
    <2>2. /\ status \in [Service -> Status]
          /\ last_restart \in [Service -> {"never", "recent", "expired"}]
          /\ last_status \in [Service -> Report \cup {NoReport}]
          /\ pid \in [Service -> Pid \cup {NoPid}]
      BY DEF Init, Status
    <2>3. /\ known_pids \in [Pid -> Service \cup {NoService}]
          /\ child \in [Pid -> {"none", "running", "zero", "nonzero"}]
      BY DEF Init
    <2>4. phase \in Phase /\ socket \in Seq(Datagram)
      BY DEF Init, Phase
    <2>5. QED
      BY <2>1, <2>2, <2>3, <2>4 DEF Init, TypeOK
  <1>2. OneLifeline
    <2> SUFFICES ASSUME NEW s \in Service
                 PROVE  Owed(s) <= 1 /\ (HasProcess(s) => Owed(s) = 0)
      BY DEF OneLifeline
    <2>1. waiting[s] = 0 /\ due[s] = 0 /\ todo[s] = 0
      BY DEF Init, Nothing
    <2>2. ~HasProcess(s)
      BY DEF Init, HasProcess
    <2>3. QED
      BY <2>1, <2>2 DEF Owed
  <1>3. PidsAgree
    BY SupervisorAssumption DEF SupervisorAssumption, Init, PidsAgree
  <1>4. PendingHasNoProcess /\ LoopsAreOver
    BY DEF Init, PendingHasNoProcess, LoopsAreOver
  <1>5. QED
    BY <1>1, <1>2, <1>3, <1>4 DEF IInv

\* Steps that collect a start batch.
LEMMA CollectIInv == IInv /\ (Run \/ EndPoll) => IInv'
  <1> SUFFICES ASSUME IInv, Run \/ EndPoll PROVE IInv'
    OBVIOUS
  <1>0. /\ todo = Nothing
        /\ todo' = StartableBatch
        /\ phase' \in {"boot", "start"}
        /\ UNCHANGED <<received, status, pid, restart_count, last_restart, last_status,
                       waiting, due, known_pids, child, published>>
        /\ socket' = socket \/ (socket # <<>> /\ socket' = Tail(socket))
    BY DEF IInv, LoopsAreOver, Run, EndPoll, services, queue, procs
  <1>1. TypeOK'
    BY <1>0, BatchFacts, SocketFacts DEF IInv, TypeOK, Phase
  <1>2. OneLifeline'
    BY <1>0, BatchFacts
    DEF IInv, OneLifeline, Owed, HasProcess, Nothing, PendingHasNoProcess, TypeOK
  <1>3. PidsAgree' /\ PendingHasNoProcess' /\ LoopsAreOver'
    BY <1>0 DEF IInv, PidsAgree, PendingHasNoProcess, LoopsAreOver
  <1>4. QED
    BY <1>1, <1>2, <1>3 DEF IInv

\* A successful spawn.
LEMMA SpawnServiceIInv ==
    ASSUME IInv, NEW s \in Service, NEW p \in Pid, SpawnService(s, p)
    PROVE  IInv'
  <1>0. pid[s] = NoPid /\ todo[s] = 1 /\ waiting[s] = 0 /\ due[s] = 0
    BY DEF IInv, OneLifeline, Owed, HasProcess, TypeOK, SpawnService
  <1>1. TypeOK'
    <2>1. status' \in [Service -> Status] /\ restart_count' \in [Service -> 0..CountMax]
      BY DEF IInv, TypeOK, SpawnService, Status
    <2>2. published' \subseteq [name: Service, status: Status, restarts: 0..CountMax]
      BY <2>1, SnapshotType DEF SpawnService, Publish
    <2>3. /\ todo' \in [Service -> Nat]
          /\ pid' \in [Service -> Pid \cup {NoPid}]
          /\ child' \in [Pid -> {"none", "running", "zero", "nonzero"}]
          /\ known_pids' \in [Pid -> Service \cup {NoService}]
      BY <1>0 DEF IInv, TypeOK, SpawnService
    <2>4. QED
      BY <2>1, <2>2, <2>3 DEF IInv, TypeOK, SpawnService, queue
  <1>2. OneLifeline'
    <2> SUFFICES ASSUME NEW t \in Service
                 PROVE  Owed(t)' <= 1 /\ (HasProcess(t)' => Owed(t)' = 0)
      BY DEF OneLifeline
    <2>1. CASE t = s
      BY <1>0, <2>1 DEF IInv, TypeOK, Owed, SpawnService, queue
    <2>2. CASE t # s
      BY <2>2 DEF IInv, TypeOK, OneLifeline, Owed, HasProcess, SpawnService, queue
    <2>3. QED
      BY <2>1, <2>2
  <1>3. PidsAgree'
    BY <1>0, SupervisorAssumption
    DEF SupervisorAssumption, IInv, TypeOK, PidsAgree, SpawnService
  <1>4. PendingHasNoProcess' /\ LoopsAreOver'
    BY DEF IInv, TypeOK, PendingHasNoProcess, LoopsAreOver, SpawnService
  <1>5. QED
    BY <1>1, <1>2, <1>3, <1>4 DEF IInv

\* A failed spawn: the start that was owed becomes a queued retry, or nothing.
LEMMA SpawnFailsIInv ==
    ASSUME IInv, NEW s \in Service, SpawnFails(s)
    PROVE  IInv'
  <1>0. pid[s] = NoPid /\ todo[s] = 1 /\ waiting[s] = 0 /\ due[s] = 0
    BY DEF IInv, OneLifeline, Owed, HasProcess, TypeOK, SpawnFails
  <1>1. PICK st \in {"Pending", "Failed"}, k \in {0, 1} :
           /\ status' = [status EXCEPT ![s] = st]
           /\ restart_count' = [restart_count EXCEPT ![s] = NextCount(s)]
           /\ last_restart' = [last_restart EXCEPT ![s] = "recent"]
           /\ waiting' = [waiting EXCEPT ![s] = k]
           /\ due' = due
           /\ UNCHANGED last_status
    <2>1. CASE Schedule(s)
      BY <1>0, <2>1 DEF Schedule, BeginAttempt, Enqueue, IInv, TypeOK
    <2>2. CASE BeginAttempt(s, "Failed") /\ Cancel(s)
      BY <1>0, <2>2 DEF BeginAttempt, Cancel, IInv, TypeOK
    <2>3. QED
      BY <2>1, <2>2 DEF SpawnFails, RecordSpawnFailure
  <1>2. TypeOK'
    <2>1. status' \in [Service -> Status] /\ restart_count' \in [Service -> 0..CountMax]
      BY <1>1, NextCountType DEF IInv, TypeOK, Status
    <2>2. published' \subseteq [name: Service, status: Status, restarts: 0..CountMax]
      BY <2>1, SnapshotType DEF SpawnFails, Publish
    <2>3. /\ todo' \in [Service -> Nat]
          /\ waiting' \in [Service -> Nat]
          /\ last_restart' \in [Service -> {"never", "recent", "expired"}]
      BY <1>0, <1>1 DEF IInv, TypeOK, SpawnFails
    <2>4. QED
      BY <1>1, <2>1, <2>2, <2>3 DEF IInv, TypeOK, SpawnFails, procs
  <1>3. OneLifeline'
    <2> SUFFICES ASSUME NEW t \in Service
                 PROVE  Owed(t)' <= 1 /\ (HasProcess(t)' => Owed(t)' = 0)
      BY DEF OneLifeline
    <2>1. CASE t = s
      BY <1>0, <1>1, <2>1 DEF IInv, TypeOK, Owed, HasProcess, SpawnFails
    <2>2. CASE t # s
      BY <1>1, <2>2 DEF IInv, TypeOK, OneLifeline, Owed, HasProcess, SpawnFails
    <2>3. QED
      BY <2>1, <2>2
  <1>4. PidsAgree'
    BY DEF IInv, PidsAgree, SpawnFails, procs
  <1>5. PendingHasNoProcess' /\ LoopsAreOver'
    BY <1>0, <1>1 DEF IInv, TypeOK, PendingHasNoProcess, LoopsAreOver, SpawnFails
  <1>6. QED
    BY <1>2, <1>3, <1>4, <1>5 DEF IInv

\* A notification changes a status, a count or a report, never a pid, and makes
\* no service Pending.
LEMMA ApplyFacts ==
    ASSUME TypeOK, ApplyNotification
    PROVE  \E s \in Service :
              /\ s = Head(socket).name
              /\ status' \in [Service -> Status]
              /\ restart_count' \in [Service -> 0..CountMax]
              /\ last_status' \in [Service -> Report \cup {NoReport}]
              /\ \A t \in Service : t # s => status'[t] = status[t]
              /\ status'[s] = "Pending" => status[s] = "Pending"
  <1> DEFINE d == Head(socket)
             s == d.name
  <1>0. d \in Datagram /\ s \in Service
    BY SocketFacts DEF ApplyNotification
  <1>1. CASE ApplyReady(s)
    BY <1>0, <1>1, SupervisorAssumption
    DEF SupervisorAssumption, TypeOK, ApplyReady, Status
  <1>2. CASE ApplyStatusUpdate(s, d.report)
    <2>1. d.report \in Report \cup {NoReport}
      BY <1>0 DEF Datagram
    <2>2. CASE last_status[s] = d.report
      BY <1>0, <1>2, <2>2 DEF TypeOK, ApplyStatusUpdate
    <2>3. CASE last_status[s] # d.report
      <3>1. /\ status' \in [Service -> Status]
            /\ \A t \in Service : t # s => status'[t] = status[t]
            /\ status'[s] = "Pending" => status[s] = "Pending"
        BY <1>0, <1>2, <2>3 DEF TypeOK, ApplyStatusUpdate, Status
      <3>2. last_status' \in [Service -> Report \cup {NoReport}]
        BY <1>0, <1>2, <2>1, <2>3 DEF TypeOK, ApplyStatusUpdate
      <3>3. QED
        BY <1>0, <1>2, <3>1, <3>2 DEF TypeOK, ApplyStatusUpdate
    <2>4. QED
      BY <2>2, <2>3
  <1>3. CASE ApplyStopping(s)
    BY <1>0, <1>3 DEF TypeOK, ApplyStopping, Status
  <1>4. QED
    BY <1>1, <1>2, <1>3 DEF ApplyNotification, Apply

\* Applying a notification.
LEMMA ApplyNotificationIInv == IInv /\ ApplyNotification => IInv'
  <1> SUFFICES ASSUME IInv, ApplyNotification PROVE IInv'
    OBVIOUS
  <1>1. TypeOK'
    BY ApplyFacts, SocketFacts DEF IInv, TypeOK, ApplyNotification, queue, procs
  <1>2. OneLifeline' /\ PidsAgree' /\ LoopsAreOver'
    BY DEF IInv, OneLifeline, Owed, HasProcess, PidsAgree, LoopsAreOver, Nothing,
           ApplyNotification, queue, procs
  <1>3. PendingHasNoProcess'
    BY ApplyFacts DEF IInv, PendingHasNoProcess, ApplyNotification
  <1>4. QED
    BY <1>1, <1>2, <1>3 DEF IInv

\* What reaping p does to the service it belonged to.
LEMMA ReapFacts ==
    ASSUME IInv, NEW p \in Pid, ReapExit(p)
    PROVE  \E s \in Service, st \in {"Pending", "Stopping", "Failed"}, k \in {0, 1} :
              /\ s = known_pids[p]
              /\ pid[s] = p
              /\ waiting[s] = 0 /\ due[s] = 0 /\ todo[s] = 0
              /\ pid' = [pid EXCEPT ![s] = NoPid]
              /\ status' = [status EXCEPT ![s] = st]
              /\ restart_count' \in [Service -> 0..CountMax]
              /\ last_restart' \in [Service -> {"never", "recent", "expired"}]
              /\ \A t \in Service : t # s => last_restart'[t] = last_restart[t]
              /\ last_restart[s] # "never" => last_restart'[s] # "never"
              /\ st = "Pending" => last_restart'[s] # "never"
              /\ waiting' = [waiting EXCEPT ![s] = k]
              /\ k = (IF st = "Pending" THEN 1 ELSE 0)
              /\ UNCHANGED <<due, last_status>>
  <1> DEFINE s == known_pids[p]
  <1>0. s \in Service /\ pid[s] = p /\ p # NoPid
    BY SupervisorAssumption DEF SupervisorAssumption, IInv, TypeOK, PidsAgree, ReapExit
  <1>1. waiting[s] = 0 /\ due[s] = 0 /\ todo[s] = 0
    BY <1>0 DEF IInv, TypeOK, OneLifeline, Owed, HasProcess
  <1>2. pid' = [pid EXCEPT ![s] = NoPid]
    BY DEF ReapExit, HandleServiceExit, ForgetPid
  <1>3. CASE Schedule(s)
    <2>1. NextCount(s) \in 0..CountMax
      BY <1>0, NextCountType DEF IInv
    <2>2. /\ restart_count' \in [Service -> 0..CountMax]
          /\ last_restart' \in [Service -> {"never", "recent", "expired"}]
          /\ \A t \in Service : t # s => last_restart'[t] = last_restart[t]
          /\ last_restart'[s] = "recent"
          /\ waiting' = [waiting EXCEPT ![s] = 1]
          /\ status' = [status EXCEPT ![s] = "Pending"]
          /\ UNCHANGED <<due, last_status>>
      BY <1>0, <1>1, <1>3, <2>1 DEF Schedule, BeginAttempt, Enqueue, IInv, TypeOK
    <2>3. QED
      BY <1>0, <1>1, <1>2, <2>2
  <1>4. CASE ~ShouldRestart(s, child[p])
    <2>1. PICK st \in {"Stopping", "Failed"} : status' = [status EXCEPT ![s] = st]
      BY <1>4 DEF ReapExit, HandleServiceExit
    <2>2. UNCHANGED <<restart_count, last_restart, last_status, due, waiting>>
      BY <1>4 DEF ReapExit, HandleServiceExit, queue
    <2>3. waiting' = [waiting EXCEPT ![s] = 0]
      BY <1>0, <1>1, <2>2 DEF IInv, TypeOK
    <2>4. QED
      BY <1>0, <1>1, <1>2, <2>1, <2>2, <2>3 DEF IInv, TypeOK
  <1>5. QED
    BY <1>3, <1>4 DEF ReapExit, HandleServiceExit

\* Reaping an exit.
LEMMA ReapExitIInv ==
    ASSUME IInv, NEW p \in Pid, ReapExit(p)
    PROVE  IInv'
  <1>1. PICK s \in Service, st \in {"Pending", "Stopping", "Failed"}, k \in {0, 1} :
              /\ s = known_pids[p]
              /\ pid[s] = p
              /\ waiting[s] = 0 /\ due[s] = 0 /\ todo[s] = 0
              /\ pid' = [pid EXCEPT ![s] = NoPid]
              /\ status' = [status EXCEPT ![s] = st]
              /\ restart_count' \in [Service -> 0..CountMax]
              /\ last_restart' \in [Service -> {"never", "recent", "expired"}]
              /\ waiting' = [waiting EXCEPT ![s] = k]
              /\ UNCHANGED <<due, last_status>>
    BY ReapFacts
  <1>2. TypeOK'
    <2>1. status' \in [Service -> Status]
      BY <1>1 DEF IInv, TypeOK, Status
    <2>2. published' \subseteq [name: Service, status: Status, restarts: 0..CountMax]
      BY <1>1, <2>1, SnapshotType DEF ReapExit, Publish
    <2>3. /\ pid' \in [Service -> Pid \cup {NoPid}]
          /\ waiting' \in [Service -> Nat]
          /\ child' \in [Pid -> {"none", "running", "zero", "nonzero"}]
          /\ known_pids' \in [Pid -> Service \cup {NoService}]
      BY <1>1 DEF IInv, TypeOK, ReapExit
    <2>4. QED
      BY <1>1, <2>1, <2>2, <2>3 DEF IInv, TypeOK, ReapExit
  <1>3. OneLifeline'
    <2> SUFFICES ASSUME NEW t \in Service
                 PROVE  Owed(t)' <= 1 /\ (HasProcess(t)' => Owed(t)' = 0)
      BY DEF OneLifeline
    <2>1. CASE t = s
      BY <1>1, <2>1 DEF IInv, TypeOK, Owed, HasProcess, ReapExit
    <2>2. CASE t # s
      BY <1>1, <2>2 DEF IInv, TypeOK, OneLifeline, Owed, HasProcess, ReapExit
    <2>3. QED
      BY <2>1, <2>2
  <1>4. PidsAgree'
    BY <1>1, SupervisorAssumption
    DEF SupervisorAssumption, IInv, TypeOK, PidsAgree, ReapExit
  <1>5. PendingHasNoProcess' /\ LoopsAreOver'
    BY <1>1 DEF IInv, TypeOK, PendingHasNoProcess, LoopsAreOver, ReapExit
  <1>6. QED
    BY <1>2, <1>3, <1>4, <1>5 DEF IInv

\* Taking the due restarts: what is due moves to the loop or back to the queue.
LEMMA BeginRestartsIInv == IInv /\ BeginRestarts => IInv'
  <1> SUFFICES ASSUME IInv, BeginRestarts PROVE IInv'
    OBVIOUS
  <1>0. /\ \A s \in Service : todo[s] = 0
        /\ UNCHANGED <<received, status, pid, restart_count, last_restart, last_status,
                       known_pids, child, socket>>
        /\ phase' = "restart"
    BY DEF BeginRestarts, Nothing, services, procs
  <1>1. /\ todo' \in [Service -> Nat]
        /\ waiting' \in [Service -> Nat]
        /\ due' \in [Service -> Nat]
        /\ \A s \in Service : waiting'[s] + due'[s] + todo'[s] = waiting[s] + due[s]
    BY DEF IInv, TypeOK, BeginRestarts, TakeDue, Nothing
  <1>2. published' \subseteq [name: Service, status: Status, restarts: 0..CountMax]
    BY <1>0, SnapshotType DEF IInv, TypeOK, BeginRestarts, Publish
  <1>3. TypeOK'
    BY <1>0, <1>1, <1>2 DEF IInv, TypeOK, Phase
  <1>4. OneLifeline'
    BY <1>0, <1>1 DEF IInv, TypeOK, OneLifeline, Owed, HasProcess
  <1>5. PidsAgree' /\ PendingHasNoProcess' /\ LoopsAreOver'
    BY <1>0 DEF IInv, PidsAgree, PendingHasNoProcess, LoopsAreOver
  <1>6. QED
    BY <1>3, <1>4, <1>5 DEF IInv

\* A process sends a datagram that carries the name of its service.
LEMMA SendIInv ==
    ASSUME IInv, NEW p \in Pid, Notify(p)
    PROVE  /\ IInv'
           /\ known_pids[p] \in Service
           /\ \E k \in Kind, r \in Report \cup {NoReport} :
                 socket' = Append(socket, [name |-> known_pids[p], kind |-> k, report |-> r])
  <1>1. PICK k \in Kind, r \in Report \cup {NoReport} : Send(p, k, r)
    BY DEF Notify
  <1>2. known_pids[p] \in Service
    BY <1>1 DEF IInv, TypeOK, PidsAgree, Send
  <1> DEFINE d == [name |-> known_pids[p], kind |-> k, report |-> r]
  <1>3. d \in Datagram
    BY <1>2 DEF Datagram
  <1>4. socket' = Append(socket, d)
    BY <1>1 DEF Send
  <1>5. socket' \in Seq(Datagram)
    BY <1>3, <1>4 DEF IInv, TypeOK
  <1>6. IInv'
    BY <1>1, <1>5
    DEF IInv, TypeOK, OneLifeline, Owed, HasProcess, PidsAgree, PendingHasNoProcess,
        LoopsAreOver, Nothing, Send, services, queue, procs
  <1>7. QED
    BY <1>1, <1>2, <1>4, <1>6

\* Steps that touch neither a service's process nor its queue.
LEMMA QuietIInv ==
    ASSUME IInv,
           \/ EnterLoop \/ Tick \/ EndTick
           \/ \E p \in Pid, code \in {"zero", "nonzero"} : Exit(p, code)
           \/ \E s \in Service : DelayElapses(s) \/ WindowElapses(s)
           \/ UNCHANGED vars
    PROVE  IInv'
  <1>1. CASE EnterLoop
    BY <1>1, SnapshotType
    DEF EnterLoop, Publish, IInv, TypeOK, OneLifeline, Owed, HasProcess, PidsAgree,
        PendingHasNoProcess, LoopsAreOver, Nothing, Phase, services, queue, procs
  <1>2. CASE Tick \/ EndTick \/ UNCHANGED vars
    <2>1. received' \in BOOLEAN
      BY <1>2 DEF Tick, EndTick, vars, IInv, TypeOK
    <2>2. /\ UNCHANGED <<status, pid, restart_count, last_restart, last_status, waiting,
                         due, todo, known_pids, child, socket, published>>
          /\ phase' \in Phase
          /\ phase' \in {"init", "idle", "notify"} => todo = Nothing
      BY <1>2 DEF Tick, EndTick, vars, IInv, TypeOK, LoopsAreOver, Phase, services,
                  queue, procs
    <2>3. TypeOK'
      BY <2>1, <2>2 DEF IInv, TypeOK
    <2>4. QED
      BY <2>2, <2>3
      DEF IInv, OneLifeline, Owed, HasProcess, PidsAgree, PendingHasNoProcess,
          LoopsAreOver, Nothing
  <1>3. ASSUME NEW p \in Pid, NEW code \in {"zero", "nonzero"}, Exit(p, code)
        PROVE  IInv'
    <2>1. TypeOK'
      BY <1>3 DEF Exit, IInv, TypeOK, services, queue
    <2>2. OneLifeline' /\ PendingHasNoProcess' /\ LoopsAreOver'
      BY <1>3 DEF Exit, IInv, OneLifeline, Owed, HasProcess, PendingHasNoProcess,
                  LoopsAreOver, Nothing, services, queue
    <2>3. PidsAgree'
      BY <1>3 DEF Exit, IInv, TypeOK, PidsAgree, services
    <2>4. QED
      BY <2>1, <2>2, <2>3 DEF IInv
  <1>4. ASSUME NEW s \in Service, DelayElapses(s)
        PROVE  IInv'
    <2>1. TypeOK'
      <3>1. waiting' \in [Service -> Nat] /\ due' \in [Service -> Nat]
        BY <1>4 DEF DelayElapses, IInv, TypeOK
      <3>2. UNCHANGED <<phase, received, services, todo, procs, socket, published>>
        BY <1>4 DEF DelayElapses
      <3>3. QED
        BY <3>1, <3>2 DEF IInv, TypeOK, services, procs
    <2>2. \A t \in Service : Owed(t)' = Owed(t) /\ pid'[t] = pid[t]
      BY <1>4 DEF DelayElapses, IInv, TypeOK, Owed, services
    <2>3. OneLifeline'
      BY <2>2 DEF IInv, OneLifeline, HasProcess
    <2>4. PidsAgree' /\ PendingHasNoProcess' /\ LoopsAreOver'
      BY <1>4 DEF DelayElapses, IInv, PidsAgree, PendingHasNoProcess, LoopsAreOver,
                  Nothing, services, procs
    <2>5. QED
      BY <2>1, <2>3, <2>4 DEF IInv
  <1>5. ASSUME NEW s \in Service, WindowElapses(s)
        PROVE  IInv'
    BY <1>5
    DEF WindowElapses, IInv, TypeOK, OneLifeline, Owed, HasProcess, PidsAgree,
        PendingHasNoProcess, LoopsAreOver, Nothing, queue, procs
  <1>6. QED
    BY <1>1, <1>2, <1>3, <1>4, <1>5

-----------------------------------------------------------------------------
(* The invariants *)

\* Every step of the supervisor, of a process or of the clock preserves IInv.
LEMMA NextIInv == IInv /\ [Next]_vars => IInv'
  <1> SUFFICES ASSUME IInv, [Next]_vars PROVE IInv'
    OBVIOUS
  <1>1. CASE Run \/ EndPoll
    BY <1>1, CollectIInv
  <1>2. ASSUME NEW s \in Service, Start(s) PROVE IInv'
    BY <1>2, SpawnServiceIInv, SpawnFailsIInv DEF Start
  <1>3. CASE ApplyNotification
    BY <1>3, ApplyNotificationIInv
  <1>4. CASE BeginRestarts
    BY <1>4, BeginRestartsIInv
  <1>5. ASSUME NEW p \in Pid, ReapExit(p) PROVE IInv'
    BY <1>5, ReapExitIInv
  <1>6. ASSUME NEW p \in Pid, Notify(p) PROVE IInv'
    BY <1>6, SendIInv
  <1>7. CASE \/ EnterLoop \/ Tick \/ EndTick
             \/ \E p \in Pid, code \in {"zero", "nonzero"} : Exit(p, code)
             \/ \E s \in Service : DelayElapses(s) \/ WindowElapses(s)
             \/ UNCHANGED vars
    BY <1>7, QuietIInv
  <1>8. QED
    BY <1>1, <1>2, <1>3, <1>4, <1>5, <1>6, <1>7 DEF Next

\* The inductive invariant holds in every reachable state.
THEOREM Inductive == Spec => []IInv
  BY InitIInv, NextIInv, PTL DEF Spec

\* Every variable keeps its type, for any constants: in particular the restart
\* counter stays in its width.
THEOREM TypeCorrect == Spec => []TypeOK
  <1>1. IInv => TypeOK
    BY DEF IInv
  <1>2. QED
    BY <1>1, Inductive, PTL

\* No service ever has two processes, or a process and a start owed to it.
THEOREM OneLifelineHolds == Spec => []OneLifeline
  <1>1. IInv => OneLifeline
    BY DEF IInv
  <1>2. QED
    BY <1>1, Inductive, PTL

\* ServiceState::pid, the reaper's table and the kernel never disagree.
THEOREM PidsAgreeHolds == Spec => []PidsAgree
  <1>1. IInv => PidsAgree
    BY DEF IInv
  <1>2. QED
    BY <1>1, Inductive, PTL

-----------------------------------------------------------------------------
(* The supervisor implements ServiceLifecycle *)

\* A datagram on the socket comes from a service that was started.
Silent == \A i \in 1..Len(socket) : life[socket[i].name] # "unstarted"

\* Service s keeps its stage or moves along an edge of ServiceLifecycle.
MovesLegally(s) ==
    life'[s] # life[s] => <<life[s], life'[s]>> \in Lifecycle!Moves

\* The stage of a service, before and after a step.
LEMMA Stages ==
    ASSUME NEW s \in Service
    PROVE  /\ life[s] = IF pid[s] # NoPid THEN "up"
                        ELSE IF Owed(s) > 0 THEN "owed"
                        ELSE IF status[s] = "Pending" THEN "unstarted" ELSE "down"
           /\ life'[s] = IF pid'[s] # NoPid THEN "up"
                         ELSE IF Owed(s)' > 0 THEN "owed"
                         ELSE IF status'[s] = "Pending" THEN "unstarted" ELSE "down"
  BY DEF life, HasProcess

\* A service whose pid, owed starts and pendingness stay as they are keeps its
\* stage.
LEMMA SameStage ==
    ASSUME NEW s \in Service, pid'[s] = pid[s], Owed(s)' = Owed(s),
           status'[s] = "Pending" <=> status[s] = "Pending"
    PROVE  MovesLegally(s)
  BY Stages DEF MovesLegally

\* A collected batch makes unstarted services owed.
LEMMA CollectMoves ==
    ASSUME IInv, Run \/ EndPoll, NEW s \in Service
    PROVE  MovesLegally(s)
  <1>1. /\ todo[s] = 0
        /\ todo' = StartableBatch
        /\ UNCHANGED <<status, pid, waiting, due>>
    BY DEF IInv, LoopsAreOver, Nothing, Run, EndPoll, services, queue
  <1>2. CASE StartableBatch[s] = 0
    BY <1>1, <1>2, SameStage DEF Owed
  <1>3. CASE StartableBatch[s] # 0
    <2>1. Owed(s) = 0 /\ Owed(s)' = 1 /\ status[s] = "Pending" /\ pid[s] = NoPid
      BY <1>1, <1>3, BatchFacts DEF IInv, TypeOK, Owed, PendingHasNoProcess
    <2>2. life[s] = "unstarted" /\ life'[s] = "owed"
      BY <1>1, <2>1, Stages
    <2>3. QED
      BY <2>2 DEF MovesLegally, Lifecycle!Moves
  <1>4. QED
    BY <1>2, <1>3

\* A start, successful or not, uses up the start that was owed.
LEMMA StartMoves ==
    ASSUME IInv, NEW t \in Service, Start(t), NEW s \in Service
    PROVE  MovesLegally(s)
  <1>1. CASE s # t
    <2>1. CASE SpawnFails(t)
      BY <1>1, <2>1, SameStage
      DEF IInv, TypeOK, SpawnFails, RecordSpawnFailure, Schedule, BeginAttempt, Enqueue,
          Cancel, Owed
    <2>2. ASSUME NEW p \in Pid, SpawnService(t, p) PROVE MovesLegally(s)
      BY <1>1, <2>2, SameStage DEF IInv, TypeOK, SpawnService, queue, Owed
    <2>3. QED
      BY <2>1, <2>2 DEF Start
  <1>2. CASE s = t
    <2>1. pid[s] = NoPid /\ todo[s] = 1 /\ waiting[s] = 0 /\ due[s] = 0
      BY <1>2 DEF IInv, OneLifeline, Owed, HasProcess, TypeOK, Start, SpawnFails, SpawnService
    <2>2. life[s] = "owed"
      BY <2>1, Stages DEF Owed
    <2>3. ASSUME NEW p \in Pid, SpawnService(s, p) PROVE life'[s] = "up"
      BY <2>3, Stages, SupervisorAssumption
      DEF SupervisorAssumption, IInv, TypeOK, SpawnService
    <2>4. CASE SpawnFails(s)
      <3>1. pid'[s] = NoPid
        BY <2>1, <2>4 DEF SpawnFails
      <3>2. CASE Schedule(s)
        <4>1. Owed(s)' = 1
          BY <2>1, <2>4, <3>2 DEF IInv, TypeOK, SpawnFails, Schedule, Enqueue, Owed
        <4>2. life'[s] = "owed"
          BY <3>1, <4>1, Stages
        <4>3. QED
          BY <2>2, <4>2 DEF MovesLegally
      <3>3. CASE BeginAttempt(s, "Failed") /\ Cancel(s)
        <4>1. Owed(s)' = 0 /\ status'[s] = "Failed"
          BY <2>1, <2>4, <3>3 DEF IInv, TypeOK, SpawnFails, BeginAttempt, Cancel, Owed
        <4>2. life'[s] = "down"
          BY <3>1, <4>1, Stages
        <4>3. QED
          BY <2>2, <4>2 DEF MovesLegally, Lifecycle!Moves
      <3>4. QED
        BY <2>4, <3>2, <3>3 DEF SpawnFails, RecordSpawnFailure
    <2>5. QED
      BY <1>2, <2>2, <2>3, <2>4 DEF Start, MovesLegally, Lifecycle!Moves
  <1>3. QED
    BY <1>1, <1>2

\* A notification never changes a stage: it cannot reach an unstarted service,
\* and makes no other service Pending.
LEMMA ApplyMoves ==
    ASSUME IInv, Silent, ApplyNotification, NEW s \in Service
    PROVE  MovesLegally(s)
  <1>1. PICK t \in Service :
              /\ t = Head(socket).name
              /\ \A u \in Service : u # t => status'[u] = status[u]
              /\ status'[t] = "Pending" => status[t] = "Pending"
    BY ApplyFacts DEF IInv
  <1>2. Owed(s)' = Owed(s) /\ pid'[s] = pid[s]
    BY DEF ApplyNotification, Owed, queue
  <1>3. life[t] # "unstarted"
    <2>1. Len(socket) \in Nat /\ Len(socket) > 0 /\ Head(socket) = socket[1]
      BY DEF IInv, TypeOK, ApplyNotification
    <2>2. QED
      BY <1>1, <2>1 DEF Silent
  <1>4. CASE s = t
    <2>1. pid[s] # NoPid \/ Owed(s) > 0 \/ status[s] # "Pending"
      BY <1>3, <1>4, Stages
    <2>2. QED
      BY <1>1, <1>2, <1>4, <2>1, Stages DEF MovesLegally
  <1>5. CASE s # t
    BY <1>1, <1>2, <1>5, SameStage
  <1>6. QED
    BY <1>4, <1>5

\* An exit makes its service owed or down.
LEMMA ReapMoves ==
    ASSUME IInv, NEW p \in Pid, ReapExit(p), NEW s \in Service
    PROVE  MovesLegally(s)
  <1>1. PICK t \in Service, st \in {"Pending", "Stopping", "Failed"}, k \in {0, 1} :
              /\ t = known_pids[p]
              /\ pid[t] = p
              /\ waiting[t] = 0 /\ due[t] = 0 /\ todo[t] = 0
              /\ pid' = [pid EXCEPT ![t] = NoPid]
              /\ status' = [status EXCEPT ![t] = st]
              /\ waiting' = [waiting EXCEPT ![t] = k]
              /\ k = (IF st = "Pending" THEN 1 ELSE 0)
              /\ UNCHANGED due
    BY ReapFacts
  <1>2. UNCHANGED todo
    BY DEF ReapExit
  <1>3. CASE s # t
    BY <1>1, <1>2, <1>3, SameStage DEF IInv, TypeOK, Owed
  <1>4. CASE s = t
    <2>1. life[s] = "up"
      BY <1>1, <1>4, Stages, SupervisorAssumption DEF SupervisorAssumption
    <2>2. pid'[s] = NoPid /\ Owed(s)' = k /\ status'[s] = st
      BY <1>1, <1>2, <1>4 DEF IInv, TypeOK, Owed
    <2>3. life'[s] \in {"owed", "down"}
      BY <1>1, <2>2, Stages
    <2>4. QED
      BY <2>1, <2>3 DEF MovesLegally, Lifecycle!Moves
  <1>5. QED
    BY <1>3, <1>4

\* The remaining steps keep every stage.
LEMMA OtherMoves ==
    ASSUME IInv, NEW s \in Service,
           \/ EnterLoop \/ Tick \/ EndTick \/ BeginRestarts
           \/ \E p \in Pid, code \in {"zero", "nonzero"} : Exit(p, code)
           \/ \E p \in Pid : Notify(p)
           \/ \E t \in Service : DelayElapses(t) \/ WindowElapses(t)
           \/ UNCHANGED vars
    PROVE  MovesLegally(s)
  <1>1. UNCHANGED <<status, pid>>
    BY DEF EnterLoop, Tick, EndTick, BeginRestarts, Exit, Notify, Send, DelayElapses,
           WindowElapses, vars, services
  <1>2. Owed(s)' = Owed(s)
    <2>1. CASE BeginRestarts
      BY <2>1 DEF BeginRestarts, TakeDue, Nothing, IInv, TypeOK, Owed
    <2>2. ASSUME NEW t \in Service, DelayElapses(t) PROVE Owed(s)' = Owed(s)
      BY <2>2 DEF DelayElapses, IInv, TypeOK, Owed
    <2>3. CASE ~BeginRestarts /\ ~(\E t \in Service : DelayElapses(t))
      BY <2>3 DEF EnterLoop, Tick, EndTick, Exit, Notify, Send, WindowElapses, vars,
                  queue, Owed
    <2>4. QED
      BY <2>1, <2>2, <2>3
  <1>3. QED
    BY <1>1, <1>2, SameStage

\* Every step moves every service legally.
LEMMA NextMoves ==
    ASSUME IInv, Silent, [Next]_vars, NEW s \in Service
    PROVE  MovesLegally(s)
  BY CollectMoves, StartMoves, ApplyMoves, ReapMoves, OtherMoves DEF Next

\* No service becomes unstarted again, and only started services send.
LEMMA NextSilent == IInv /\ Silent /\ [Next]_vars => Silent'
  <1> SUFFICES ASSUME IInv, Silent, [Next]_vars PROVE Silent'
    OBVIOUS
  <1>1. ASSUME NEW s \in Service, life[s] # "unstarted" PROVE life'[s] # "unstarted"
    BY <1>1, NextMoves DEF MovesLegally, Lifecycle!Moves
  <1>2. socket \in Seq(Datagram)
    BY DEF IInv, TypeOK
  <1>3. \A i \in 1..Len(socket) : socket[i].name \in Service
    <2>1. \A i \in 1..Len(socket) : socket[i] \in Datagram
      BY <1>2
    <2>2. QED
      BY <2>1 DEF Datagram
  <1>4. CASE socket' = socket
    BY <1>1, <1>3, <1>4 DEF Silent
  <1>5. CASE socket # <<>> /\ socket' = Tail(socket)
    <2>1. /\ Len(socket') = Len(socket) - 1
          /\ \A i \in 1..Len(socket') : i + 1 \in 1..Len(socket) /\ socket'[i] = socket[i + 1]
      BY <1>2, <1>5
    <2>2. QED
      BY <1>1, <1>3, <2>1 DEF Silent
  <1>6. ASSUME NEW p \in Pid, Notify(p) PROVE Silent'
    <2>1. PICK k \in Kind, r \in Report \cup {NoReport} :
             socket' = Append(socket, [name |-> known_pids[p], kind |-> k, report |-> r])
      BY <1>6, SendIInv
    <2> DEFINE d == [name |-> known_pids[p], kind |-> k, report |-> r]
    <2>2. /\ known_pids[p] \in Service
          /\ life[known_pids[p]] = "up"
      <3>1. known_pids[p] \in Service /\ pid[known_pids[p]] = p
        BY <1>6, SendIInv DEF IInv, TypeOK, PidsAgree
      <3>2. QED
        BY <3>1, Stages, SupervisorAssumption DEF SupervisorAssumption
    <2>3. /\ Len(socket') = Len(socket) + 1
          /\ \A i \in 1..Len(socket) : socket'[i] = socket[i]
          /\ socket'[Len(socket) + 1] = d
      BY <1>2, <2>1
    <2>4. ASSUME NEW i \in 1..Len(socket') PROVE life'[socket'[i].name] # "unstarted"
      <3>1. CASE i \in 1..Len(socket)
        BY <1>1, <1>3, <2>3, <3>1 DEF Silent
      <3>2. CASE i = Len(socket) + 1
        BY <1>1, <2>2, <2>3, <3>2
      <3>3. QED
        BY <1>2, <2>3, <3>1, <3>2
    <2>5. QED
      BY <2>4 DEF Silent
  <1>7. QED
    <2>1. CASE socket' = socket \/ (socket # <<>> /\ socket' = Tail(socket))
      BY <1>4, <1>5, <2>1
    <2>2. CASE ~(socket' = socket \/ (socket # <<>> /\ socket' = Tail(socket)))
      <3>1. \E p \in Pid : Notify(p)
        BY <2>2
        DEF Next, Run, EnterLoop, Tick, ApplyNotification, EndPoll, BeginRestarts, EndTick,
            Start, SpawnService, SpawnFails, DelayElapses, WindowElapses, ReapExit, Exit, vars
      <3>2. QED
        BY <1>6, <3>1
    <2>3. QED
      BY <2>1, <2>2

\* The supervisor implements ServiceLifecycle: a service that was given up is
\* never started again, for any sequence of exits and late notifications.
THEOREM Refinement == Spec => ImplementsLifecycle
  <1>1. Init => Lifecycle!Init /\ Silent
    BY DEF Init, Lifecycle!Init, Silent, life, HasProcess, Owed, Nothing
  <1>2. IInv /\ Silent /\ [Next]_vars => [Lifecycle!Next]_life
    <2> SUFFICES ASSUME IInv, Silent, [Next]_vars PROVE Lifecycle!Next
      OBVIOUS
    <2>1. life' \in [Service -> Lifecycle!Stage]
      BY DEF life, Lifecycle!Stage
    <2>2. QED
      BY <2>1, NextMoves DEF MovesLegally, Lifecycle!Next
  <1>3. QED
    BY <1>1, <1>2, Inductive, NextSilent, PTL DEF Spec, ImplementsLifecycle, Lifecycle!Spec

-----------------------------------------------------------------------------
(* The published snapshot *)

\* The snapshot is current between two handlers and while restarts are made;
\* while notifications are applied and their dependents started it is current
\* unless `received' says that a publish is still to come.
Fresh ==
    /\ phase \in {"idle", "restart"} => published = Snapshot(status, restart_count)
    /\ phase \in {"notify", "start"} =>
           received \/ published = Snapshot(status, restart_count)

\* Every step keeps the snapshot fresh.
LEMMA NextFresh == Fresh /\ [Next]_vars => Fresh'
  <1> SUFFICES ASSUME Fresh, [Next]_vars PROVE Fresh'
    OBVIOUS
  <1>1. CASE published' = Snapshot(status', restart_count')
    BY <1>1 DEF Fresh, Snapshot
  <1>2. CASE UNCHANGED <<status, restart_count, published, received, phase>>
    BY <1>2 DEF Fresh, Snapshot
  <1>3. CASE Run
    BY <1>3 DEF Run, Fresh
  <1>4. CASE Tick \/ EndPoll \/ EndTick
    <2>1. UNCHANGED <<status, restart_count, published>>
      BY <1>4 DEF Tick, EndPoll, EndTick, services
    <2>2. CASE Tick
      BY <2>1, <2>2 DEF Tick, Fresh, Snapshot
    <2>3. CASE EndPoll \/ EndTick
      BY <2>1, <2>3 DEF EndPoll, EndTick, Fresh, Snapshot
    <2>4. QED
      BY <1>4, <2>2, <2>3
  <1>5. CASE ApplyNotification
    BY <1>5 DEF ApplyNotification, Fresh
  <1>6. CASE BeginRestarts
    <2>1. CASE received
      BY <1>1, <1>6, <2>1 DEF BeginRestarts, Publish
    <2>2. CASE ~received
      BY <1>6, <2>2 DEF BeginRestarts, Fresh, Snapshot, services
    <2>3. QED
      BY <2>1, <2>2
  <1>7. ASSUME NEW s \in Service, Start(s) PROVE Fresh'
    BY <1>1, <1>7 DEF Start, SpawnService, SpawnFails, Publish
  <1>8. ASSUME NEW p \in Pid, ReapExit(p) PROVE Fresh'
    BY <1>1, <1>8 DEF ReapExit, Publish
  <1>9. CASE EnterLoop
    BY <1>1, <1>9 DEF EnterLoop, Publish
  <1>10. ASSUME \/ \E p \in Pid, code \in {"zero", "nonzero"} : Exit(p, code)
                \/ \E p \in Pid : Notify(p)
                \/ \E s \in Service : DelayElapses(s) \/ WindowElapses(s)
                \/ UNCHANGED vars
         PROVE  Fresh'
    BY <1>2, <1>10 DEF Exit, Notify, Send, DelayElapses, WindowElapses, vars, services
  <1>11. QED
    BY <1>3, <1>4, <1>5, <1>6, <1>7, <1>8, <1>9, <1>10 DEF Next

\* No handler ends with a status or a restart count that was not published.
THEOREM PublishedIsCurrentHolds == Spec => []PublishedIsCurrent
  <1>1. Init => Fresh
    BY DEF Init, Fresh
  <1>2. Fresh => PublishedIsCurrent
    BY DEF Fresh, PublishedIsCurrent
  <1>3. QED
    BY <1>1, <1>2, NextFresh, PTL DEF Spec

-----------------------------------------------------------------------------
(* The start order *)

\* Only a collected batch gives an unstarted service a start.
LEMMA OnlyBatchesStart ==
    ASSUME IInv, Silent, [Next]_vars, NEW s \in Service,
           life[s] = "unstarted", life'[s] # "unstarted"
    PROVE  (Run \/ EndPoll) /\ AreSatisfied(s)
  <1>1. pid[s] = NoPid /\ Owed(s) = 0
    BY Stages DEF IInv, TypeOK, Owed
  <1>2. waiting[s] = 0 /\ due[s] = 0 /\ todo[s] = 0
    BY <1>1 DEF IInv, TypeOK, Owed
  <1>3. Owed(s)' > 0
    <2>1. life'[s] = "owed"
      BY NextMoves DEF MovesLegally, Lifecycle!Moves
    <2>2. QED
      BY <2>1, Stages
  <1>4. waiting'[s] # 0 \/ due'[s] # 0 \/ todo'[s] # 0
    BY <1>3 DEF Owed
  <1>5. ASSUME NEW t \in Service, Start(t) PROVE FALSE
    <2>1. t # s
      BY <1>2, <1>5 DEF Start, SpawnService, SpawnFails
    <2>2. waiting'[s] = waiting[s] /\ due'[s] = due[s] /\ todo'[s] = todo[s]
      BY <1>5, <2>1
      DEF IInv, TypeOK, Start, SpawnService, SpawnFails, RecordSpawnFailure, Schedule,
          Enqueue, Cancel, queue
    <2>3. QED
      BY <1>2, <1>4, <2>2
  <1>6. ASSUME NEW p \in Pid, ReapExit(p) PROVE FALSE
    <2>1. PICK t \in Service, k \in {0, 1} :
              /\ pid[t] = p
              /\ waiting' = [waiting EXCEPT ![t] = k]
              /\ UNCHANGED due
      BY <1>6, ReapFacts
    <2>2. t # s
      BY <1>1, <2>1, SupervisorAssumption DEF SupervisorAssumption
    <2>3. waiting'[s] = 0 /\ due'[s] = 0 /\ todo'[s] = 0
      BY <1>2, <1>6, <2>1, <2>2 DEF IInv, TypeOK, ReapExit
    <2>4. QED
      BY <1>4, <2>3
  <1>7. CASE BeginRestarts
    BY <1>2, <1>4, <1>7 DEF BeginRestarts, TakeDue, Nothing, IInv, TypeOK
  <1>8. ASSUME NEW t \in Service, DelayElapses(t) PROVE FALSE
    <2>1. t # s
      BY <1>2, <1>8 DEF DelayElapses
    <2>2. QED
      BY <1>2, <1>4, <1>8, <2>1 DEF DelayElapses, IInv, TypeOK
  <1>9. ASSUME \/ EnterLoop \/ Tick \/ EndTick \/ ApplyNotification
               \/ \E p \in Pid, code \in {"zero", "nonzero"} : Exit(p, code)
               \/ \E p \in Pid : Notify(p)
               \/ \E t \in Service : WindowElapses(t)
               \/ UNCHANGED vars
        PROVE  FALSE
    BY <1>2, <1>4, <1>9
    DEF EnterLoop, Tick, EndTick, ApplyNotification, Exit, Notify, Send, WindowElapses,
        vars, queue
  <1>10. Run \/ EndPoll
    BY <1>5, <1>6, <1>7, <1>8, <1>9 DEF Next
  <1>11. AreSatisfied(s)
    <2>1. todo' = StartableBatch /\ waiting' = waiting /\ due' = due
      BY <1>10 DEF Run, EndPoll, queue
    <2>2. QED
      BY <1>2, <1>4, <2>1, BatchFacts DEF IInv
  <1>12. QED
    BY <1>10, <1>11

\* A service that was attempted stays attempted: whatever makes it Pending
\* again records the restart.
LEMMA AttemptedStable ==
    ASSUME IInv, [Next]_vars, NEW s \in Service, Attempted(s)
    PROVE  Attempted(s)'
  <1>1. CASE UNCHANGED <<status, last_restart>>
    BY <1>1 DEF Attempted
  <1>2. ASSUME NEW t \in Service, Start(t) PROVE Attempted(s)'
    BY <1>2
    DEF IInv, TypeOK, Attempted, Start, SpawnService, SpawnFails, RecordSpawnFailure,
        Schedule, BeginAttempt
  <1>3. CASE ApplyNotification
    <2>1. status'[s] = "Pending" => status[s] = "Pending"
      BY <1>3, ApplyFacts DEF IInv
    <2>2. QED
      BY <1>3, <2>1 DEF Attempted, ApplyNotification
  <1>4. ASSUME NEW p \in Pid, ReapExit(p) PROVE Attempted(s)'
    <2>1. PICK t \in Service, st \in {"Pending", "Stopping", "Failed"} :
              /\ status' = [status EXCEPT ![t] = st]
              /\ \A u \in Service : u # t => last_restart'[u] = last_restart[u]
              /\ last_restart[t] # "never" => last_restart'[t] # "never"
              /\ st = "Pending" => last_restart'[t] # "never"
      BY <1>4, ReapFacts
    <2>2. QED
      BY <2>1 DEF IInv, TypeOK, Attempted
  <1>5. ASSUME NEW t \in Service, WindowElapses(t) PROVE Attempted(s)'
    BY <1>5 DEF IInv, TypeOK, WindowElapses, Attempted
  <1>6. ASSUME \/ Run \/ EndPoll \/ EnterLoop \/ Tick \/ EndTick \/ BeginRestarts
               \/ \E p \in Pid, code \in {"zero", "nonzero"} : Exit(p, code)
               \/ \E p \in Pid : Notify(p)
               \/ \E t \in Service : DelayElapses(t)
               \/ UNCHANGED vars
        PROVE  Attempted(s)'
    BY <1>1, <1>6
    DEF Run, EndPoll, EnterLoop, Tick, EndTick, BeginRestarts, Exit, Notify, Send,
        DelayElapses, vars, services
  <1>7. QED
    BY <1>2, <1>3, <1>4, <1>5, <1>6 DEF Next

\* Services come up in dependency order, for any dependency graph.
THEOREM StartOrderHolds == Spec => []StartOrder
  <1>1. Init => StartOrder /\ Silent
    BY DEF Init, StartOrder, Silent, life, HasProcess, Owed, Nothing
  <1>2. IInv /\ Silent /\ StartOrder /\ [Next]_vars => StartOrder'
    <2> SUFFICES ASSUME IInv, Silent, StartOrder, [Next]_vars,
                        NEW s \in Service, life'[s] # "unstarted",
                        NEW d \in Dep[s]
                 PROVE  d \in Service /\ Attempted(d)'
      BY DEF StartOrder
    <2>1. d \in Service /\ Attempted(d)
      <3>1. CASE life[s] # "unstarted"
        BY <3>1 DEF StartOrder
      <3>2. CASE life[s] = "unstarted"
        BY <3>2, OnlyBatchesStart DEF AreSatisfied, Attempted
      <3>3. QED
        BY <3>1, <3>2
    <2>2. QED
      BY <2>1, AttemptedStable
  <1>3. QED
    BY <1>1, <1>2, Inductive, NextSilent, PTL DEF Spec

-----------------------------------------------------------------------------
(* The readiness gate *)

\* The snapshot is empty or names every service, and a service it shows as anything
\* but Pending was attempted: it may be old, but it never runs ahead.
Covers ==
    /\ published = {} \/ \A s \in Service : \E report \in published : report.name = s
    /\ \A report \in published : report.status # "Pending" => Attempted(report.name)

\* A new snapshot covers all services.
LEMMA PublishCovers == Publish => Covers'
  <1> SUFFICES ASSUME Publish PROVE Covers'
    OBVIOUS
  <1>1. \A s \in Service :
            [name |-> s, status |-> status'[s], restarts |-> restart_count'[s]] \in published'
    BY DEF Publish, Snapshot
  <1>2. ASSUME NEW report \in published', report.status # "Pending"
        PROVE  Attempted(report.name)'
    <2>1. PICK s \in Service :
              report = [name |-> s, status |-> status'[s], restarts |-> restart_count'[s]]
      BY DEF Publish, Snapshot
    <2>2. report.name = s /\ report.status = status'[s]
      BY <2>1
    <2>3. QED
      BY <1>2, <2>2 DEF Attempted
  <1>3. ASSUME NEW s \in Service PROVE \E report \in published' : report.name = s
    BY <1>1
  <1>4. QED
    BY <1>2, <1>3 DEF Covers

\* Every step publishes a new snapshot or leaves the old one.
LEMMA PublishOrNot == [Next]_vars => Publish \/ UNCHANGED published
  <1> SUFFICES ASSUME [Next]_vars PROVE Publish \/ UNCHANGED published
    OBVIOUS
  <1>1. ASSUME \/ Run \/ Tick \/ ApplyNotification \/ EndPoll \/ EndTick
               \/ \E s \in Service : DelayElapses(s) \/ WindowElapses(s)
               \/ \E p \in Pid : Notify(p) \/ \E code \in {"zero", "nonzero"} : Exit(p, code)
               \/ UNCHANGED vars
        PROVE  UNCHANGED published
    BY <1>1
    DEF Run, Tick, ApplyNotification, EndPoll, EndTick, DelayElapses, WindowElapses, Notify,
        Send, Exit, vars
  <1>2. ASSUME \/ EnterLoop
               \/ \E s \in Service : Start(s)
               \/ \E p \in Pid : ReapExit(p)
        PROVE  Publish
    BY <1>2 DEF EnterLoop, Start, SpawnService, SpawnFails, ReapExit
  <1>3. CASE BeginRestarts
    BY <1>3 DEF BeginRestarts
  <1>4. QED
    BY <1>1, <1>2, <1>3 DEF Next

\* Every step keeps the snapshot in step with what was attempted.
LEMMA NextCovers == IInv /\ Covers /\ [Next]_vars => Covers'
  <1> SUFFICES ASSUME IInv, Covers, [Next]_vars PROVE Covers'
    OBVIOUS
  <1>1. CASE Publish
    BY <1>1, PublishCovers
  <1>2. CASE UNCHANGED published
    <2>1. \A report \in published : report.name \in Service
      BY DEF IInv, TypeOK
    <2>2. ASSUME NEW report \in published', report.status # "Pending"
          PROVE  Attempted(report.name)'
      BY <1>2, <2>1, <2>2, AttemptedStable DEF Covers
    <2>3. published' = {} \/ \A s \in Service : \E report \in published' : report.name = s
      BY <1>2 DEF Covers
    <2>4. QED
      BY <2>2, <2>3 DEF Covers
  <1>3. QED
    BY <1>1, <1>2, PublishOrNot

\* The gate of an update never passes before every service was started or tried,
\* for any services and dependencies.
THEOREM GateSeesAllHolds == Spec => []GateSeesAll
  <1>1. Init => Covers
    BY DEF Init, Covers
  <1>2. Covers => GateSeesAll
    <2> SUFFICES ASSUME Covers, Assess(published), NEW s \in Service
                 PROVE  Attempted(s)
      BY DEF GateSeesAll
    <2>1. PICK report \in published : report.name = s
      BY DEF Covers, Assess
    <2>2. report.status # "Pending"
      BY DEF Assess, Satisfied
    <2>3. QED
      BY <2>1, <2>2 DEF Covers
  <1>3. QED
    BY <1>1, <1>2, Inductive, NextCovers, PTL DEF Spec

-----------------------------------------------------------------------------
(* Reports *)

\* A status datagram carries a report.
SocketReports ==
    \A i \in 1..Len(socket) : socket[i].kind = "STATUS" => socket[i].report \in Report

\* Only Notify adds to the socket, and a status is sent with a report.
LEMMA NextSocketReports == IInv /\ SocketReports /\ [Next]_vars => SocketReports'
  <1> SUFFICES ASSUME IInv, SocketReports, [Next]_vars PROVE SocketReports'
    OBVIOUS
  <1>1. socket \in Seq(Datagram)
    BY DEF IInv, TypeOK
  <1>2. CASE socket' = socket
    BY <1>2 DEF SocketReports
  <1>3. CASE socket # <<>> /\ socket' = Tail(socket)
    <2>1. /\ Len(socket') = Len(socket) - 1
          /\ \A i \in 1..Len(socket') : i + 1 \in 1..Len(socket) /\ socket'[i] = socket[i + 1]
      BY <1>1, <1>3
    <2>2. QED
      BY <2>1 DEF SocketReports
  <1>4. ASSUME NEW p \in Pid, Notify(p) PROVE SocketReports'
    <2>1. PICK k \in Kind, r \in Report \cup {NoReport} :
              Send(p, k, r) /\ (k = "STATUS" => r \in Report)
      BY <1>4 DEF Notify
    <2> DEFINE d == [name |-> known_pids[p], kind |-> k, report |-> r]
    <2>2. socket' = Append(socket, d)
      BY <2>1 DEF Send
    <2>3. d \in Datagram
      BY <1>4, SendIInv DEF Datagram
    <2>4. d.kind = k /\ d.report = r
      OBVIOUS
    <2> HIDE DEF d
    <2>5. /\ Len(socket') = Len(socket) + 1
          /\ \A i \in 1..Len(socket) : socket'[i] = socket[i]
          /\ socket'[Len(socket) + 1] = d
      BY <1>1, <2>2, <2>3
    <2>6. ASSUME NEW i \in 1..Len(socket'), socket'[i].kind = "STATUS"
          PROVE  socket'[i].report \in Report
      <3>1. CASE i \in 1..Len(socket)
        BY <2>5, <2>6, <3>1 DEF SocketReports
      <3>2. CASE i = Len(socket) + 1
        BY <2>1, <2>4, <2>5, <2>6, <3>2
      <3>3. QED
        BY <1>1, <2>5, <3>1, <3>2
    <2>7. QED
      BY <2>6 DEF SocketReports
  <1>5. CASE ~(socket' = socket \/ (socket # <<>> /\ socket' = Tail(socket)))
    <2>1. \E p \in Pid : Notify(p)
      BY <1>5
      DEF Next, Run, EnterLoop, Tick, ApplyNotification, EndPoll, BeginRestarts, EndTick,
          Start, SpawnService, SpawnFails, DelayElapses, WindowElapses, ReapExit, Exit, vars
    <2>2. QED
      BY <1>4, <2>1
  <1>6. QED
    BY <1>2, <1>3, <1>5

\* Applying a notification: only an unhealthy report that is recorded degrades.
LEMMA ApplyDegrades ==
    ASSUME IInv, SocketReports, DegradedIsReported, ApplyNotification
    PROVE  DegradedIsReported'
  <1> DEFINE d == Head(socket)
             s == d.name
  <1>1. d \in Datagram /\ s \in Service
    BY SocketFacts DEF ApplyNotification, IInv
  <1>2. d.kind = "STATUS" => d.report \in Report
    <2>1. socket \in Seq(Datagram) /\ socket # <<>>
      BY DEF IInv, TypeOK, ApplyNotification
    <2>2. d = socket[1] /\ 1 \in 1..Len(socket)
      BY <2>1
    <2>3. QED
      BY <2>2 DEF SocketReports
  <1> HIDE DEF d
  <1>3. status \in [Service -> Status] /\ last_status \in [Service -> Report \cup {NoReport}]
    BY DEF IInv, TypeOK
  <1>4. CASE ApplyReady(s)
    BY <1>1, <1>3, <1>4 DEF ApplyReady, DegradedIsReported
  <1>5. CASE d.kind = "STATUS" /\ ApplyStatusUpdate(s, d.report)
    <2>1. CASE last_status[s] = d.report
      BY <1>5, <2>1 DEF ApplyStatusUpdate, DegradedIsReported
    <2>2. CASE last_status[s] # d.report
      <3>1. /\ last_status'[s] = d.report
            /\ \A t \in Service \ {s} : last_status'[t] = last_status[t] /\ status'[t] = status[t]
            /\ status'[s] = "Degraded" => d.report \notin Healthy
        BY <1>1, <1>3, <1>5, <2>2 DEF ApplyStatusUpdate
      <3>2. QED
        BY <1>2, <1>5, <3>1 DEF DegradedIsReported
    <2>3. QED
      BY <2>1, <2>2
  <1>6. CASE ApplyStopping(s)
    BY <1>1, <1>3, <1>6 DEF ApplyStopping, DegradedIsReported
  <1>7. QED
    BY <1>4, <1>5, <1>6 DEF ApplyNotification, Apply, d

\* Every step keeps the record of a Degraded service unhealthy.
LEMMA NextDegraded ==
    IInv /\ SocketReports /\ DegradedIsReported /\ [Next]_vars => DegradedIsReported'
  <1> SUFFICES ASSUME IInv, SocketReports, DegradedIsReported, [Next]_vars
               PROVE  DegradedIsReported'
    OBVIOUS
  <1>1. CASE ApplyNotification
    BY <1>1, ApplyDegrades
  <1>2. ASSUME NEW s \in Service, Start(s) PROVE DegradedIsReported'
    BY <1>2
    DEF IInv, TypeOK, DegradedIsReported, Start, SpawnService, SpawnFails, RecordSpawnFailure,
        Schedule, BeginAttempt
  <1>3. ASSUME NEW p \in Pid, ReapExit(p) PROVE DegradedIsReported'
    <2>1. PICK s \in Service, st \in {"Pending", "Stopping", "Failed"} :
              status' = [status EXCEPT ![s] = st] /\ UNCHANGED last_status
      BY <1>3, ReapFacts
    <2>2. QED
      BY <2>1 DEF IInv, TypeOK, DegradedIsReported
  <1>4. ASSUME \/ Run \/ EndPoll \/ EnterLoop \/ Tick \/ EndTick \/ BeginRestarts
               \/ \E p \in Pid, code \in {"zero", "nonzero"} : Exit(p, code)
               \/ \E p \in Pid : Notify(p)
               \/ \E s \in Service : DelayElapses(s) \/ WindowElapses(s)
               \/ UNCHANGED vars
        PROVE  DegradedIsReported'
    BY <1>4
    DEF DegradedIsReported, Run, EndPoll, EnterLoop, Tick, EndTick, BeginRestarts, Exit,
        Notify, Send, DelayElapses, WindowElapses, vars, services
  <1>5. QED
    BY <1>1, <1>2, <1>3, <1>4 DEF Next

\* A Degraded service is never kept from recovering by the record of its last
\* report, for any services and reports.
THEOREM DegradedIsReportedHolds == Spec => []DegradedIsReported
  <1>1. Init => SocketReports /\ DegradedIsReported
    BY DEF Init, SocketReports, DegradedIsReported
  <1>2. QED
    BY <1>1, Inductive, NextSocketReports, NextDegraded, PTL DEF Spec

=============================================================================

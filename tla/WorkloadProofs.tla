--------------------------- MODULE WorkloadProofs ---------------------------
(***************************************************************************)
(* Proofs about Workload, for any virtual machines, process identifiers    *)
(* and number of crashes.                                                  *)
(***************************************************************************)
EXTENDS Workload, TLAPS

\* A handler runs in a daemon that is up, works on a VM, and saves it in some state.
JobHasVm ==
    /\ daemon = "down" => job.step = "idle"
    /\ job.step # "idle" => job.vm \in VM
    /\ job.step \in {"save", "write"} => job.outcome # "none"

\* A VM that counts as running has a pid.
RunningHasPid == \A v \in VM : vms[v] = "Running" => pid[v] \in Pid

\* The disk of a VM that counts as running, or is being saved, exists.
UsedDiskExists ==
    /\ \A v \in VM : vms[v] = "Running" => disk[v]
    /\ job.step \in {"save", "write"} => disk[job.vm]

\* The file of an acknowledged VM is there; a VM is not acknowledged while it is
\* being deleted.
AckedIsSaved ==
    /\ \A v \in VM : acked[v] # "none" /\ Intact(v) => saved[v] # NoFile
    /\ job.step = "delete" => acked[job.vm] = "none"

\* The file agrees with what was acknowledged last.
SavedAsAcked ==
    \A v \in VM : Intact(v) =>
        /\ acked[v] = "started" => saved[v] = "Running"
        /\ acked[v] \in {"created", "stopped"} => saved[v] # "Running"

\* The inductive invariant.
IInv ==
    /\ TypeOK
    /\ JobHasVm
    /\ RunningHasPid
    /\ UsedDiskExists
    /\ AckedIsSaved
    /\ SavedAsAcked
    /\ DiskKept

-----------------------------------------------------------------------------
(* One lemma for each group of actions *)

\* A system without VMs satisfies the invariant.
LEMMA InitIInv == Init => IInv
  <1> SUFFICES ASSUME Init PROVE IInv
    OBVIOUS
  <1>1. disk \in [VM -> BOOLEAN] /\ unread \in BOOLEAN
    BY DEF Init
  <1>2. crashes \in 0..MaxCrashes
    BY WorkloadAssumption DEF WorkloadAssumption, Init
  <1>3. TypeOK
    BY <1>1, <1>2 DEF Init, TypeOK, Idle, Contents, VmState
  <1>4. QED
    BY <1>3 DEF Init, IInv, JobHasVm, RunningHasPid, UsedDiskExists, AckedIsSaved, SavedAsAcked,
       DiskKept, Idle

\* Loading the table and cleaning up orphaned disks preserves it: a VM that was
\* acknowledged and has an intact file is in the new table.
LEMMA LoadIInv == IInv /\ Load => IInv'
  <1> SUFFICES ASSUME IInv, Load PROVE IInv'
    OBVIOUS
  <1>1. vms' \in [VM -> {"Created", "Stopped", "absent"}]
    BY DEF Load, Loaded, IInv, TypeOK, Contents
  <1>2. disk' \in [VM -> BOOLEAN]
    BY DEF Load, CleanupOrphanedDisks, IInv, TypeOK
  <1>3. pending' \subseteq VM /\ unread' \in BOOLEAN
    BY DEF Load, WasRunning, IInv, TypeOK
  <1>4. TypeOK'
    BY <1>1, <1>2, <1>3 DEF Load, procs, IInv, TypeOK, VmState
  <1>5. DiskKept'
    <2> SUFFICES ASSUME NEW v \in VM, acked'[v] # "none", Intact(v)', ~unread'
                 PROVE  disk'[v]
      BY DEF DiskKept
    <2>1. saved[v] \notin {NoFile, Torn} /\ disk[v] /\ ~unread
      BY DEF Load, IInv, AckedIsSaved, DiskKept, Intact
    <2>2. vms'[v] # "absent"
      BY <2>1 DEF Load, Loaded, IInv, TypeOK, Contents
    <2>3. QED
      BY <2>1, <2>2 DEF Load, CleanupOrphanedDisks, Orphaned
  <1>6. QED
    BY <1>1, <1>4, <1>5 DEF Load, IInv, JobHasVm, RunningHasPid, UsedDiskExists, AckedIsSaved,
       SavedAsAcked, Intact

\* The steps of save_vm preserve it.
LEMMA SaveIInv == IInv /\ (Truncate \/ Write \/ SaveFails) => IInv'
  <1> SUFFICES ASSUME IInv, Truncate \/ Write \/ SaveFails PROVE IInv'
    OBVIOUS
  <1> USE WorkloadAssumption DEF WorkloadAssumption, IInv, JobHasVm, RunningHasPid,
          UsedDiskExists, AckedIsSaved, SavedAsAcked, DiskKept, Intact, table, procs, history
  <1>1. CASE Truncate
    BY <1>1 DEF Truncate, Job, TypeOK, Contents
  <1>2. CASE Write
    <2>1. Persisted(job.outcome) \in {"Created", "Running", "Stopped"}
      BY DEF Persisted
    <2>2. TypeOK'
      <3>1. saved' \in [VM -> Contents]
        BY <1>2, <2>1 DEF Write, TypeOK, Contents
      <3>2. vms' \in [VM -> VmState \cup {"absent"}]
        BY <1>2 DEF Write, TypeOK, VmState
      <3>3. acked' \in [VM -> {"none", "created", "started", "stopped", "unknown"}]
        BY <1>2 DEF Write, TypeOK
      <3>4. attached' \subseteq Pid /\ lost' \subseteq VM
        BY <1>2 DEF Write, TypeOK
      <3>5. QED
        BY <1>2, <3>1, <3>2, <3>3, <3>4 DEF Write, TypeOK, Idle
    <2>3. /\ JobHasVm'
          /\ RunningHasPid'
          /\ UsedDiskExists'
      BY <1>2 DEF Write, TypeOK, Idle
    <2>4. \A v \in VM \ {job.vm} :
              /\ saved'[v] = saved[v]
              /\ acked'[v] = acked[v]
              /\ v \in lost' <=> v \in lost
      BY <1>2 DEF Write, TypeOK
    <2>5. saved'[job.vm] = Persisted(job.outcome) /\ acked'[job.vm] = job.outcome
      BY <1>2 DEF Write, TypeOK
    <2>6. UNCHANGED <<disk, unread>> /\ disk[job.vm] /\ job'.step = "idle"
      BY <1>2 DEF Write, Idle
    <2>7. AckedIsSaved' /\ SavedAsAcked'
      <3>1. job'.step # "delete"
        BY <2>6
      <3>2. ASSUME NEW v \in VM, Intact(v)'
            PROVE  /\ acked'[v] # "none" => saved'[v] # NoFile
                   /\ acked'[v] = "started" => saved'[v] = "Running"
                   /\ acked'[v] \in {"created", "stopped"} => saved'[v] # "Running"
        <4>1. CASE v = job.vm
          BY <2>1, <2>5, <4>1 DEF Persisted
        <4>2. CASE v # job.vm
          BY <2>4, <3>2, <4>2
        <4>3. QED
          BY <4>1, <4>2
      <3>3. QED
        BY <3>1, <3>2
    <2>8. DiskKept'
      <3> SUFFICES ASSUME NEW v \in VM, acked'[v] # "none", Intact(v)', ~unread'
                   PROVE  disk'[v]
        BY DEF DiskKept
      <3>1. CASE v = job.vm
        BY <2>6, <3>1
      <3>2. CASE v # job.vm
        <4>1. acked[v] # "none" /\ Intact(v)
          BY <2>4, <3>2
        <4>2. QED
          BY <2>6, <4>1
      <3>3. QED
        BY <3>1, <3>2
    <2>9. QED
      BY <2>2, <2>3, <2>7, <2>8
  <1>3. CASE SaveFails
    BY <1>3 DEF SaveFails, TypeOK, Idle
  <1>4. QED
    BY <1>1, <1>2, <1>3

\* Creating and deleting a VM preserves it.
LEMMA CreateDeleteIInv ==
    ASSUME IInv, DeleteEntry \/ \E v \in VM : Create(v) \/ DeleteDisk(v)
    PROVE  IInv'
  <1> USE WorkloadAssumption DEF WorkloadAssumption, IInv, JobHasVm, RunningHasPid,
          UsedDiskExists, AckedIsSaved, SavedAsAcked, DiskKept, Intact, Job, Free, Idle, table,
          procs, history
  <1>1. ASSUME NEW v \in VM, Create(v) PROVE IInv'
    <2>1. disk' \in [VM -> BOOLEAN] /\ disk'[v] /\ \A w \in VM \ {v} : disk'[w] = disk[w]
      BY <1>1 DEF Create, TypeOK
    <2>2. TypeOK'
      BY <1>1, <2>1 DEF Create, TypeOK
    <2>3. QED
      BY <1>1, <2>1, <2>2 DEF Create
  <1>2. ASSUME NEW v \in VM, DeleteDisk(v) PROVE IInv'
    <2>1. disk' \in [VM -> BOOLEAN] /\ \A w \in VM \ {v} : disk'[w] = disk[w]
      <3>1. disk \in [VM -> BOOLEAN]
        BY DEF TypeOK
      <3>2. CASE disk' = [disk EXCEPT ![v] = FALSE]
        BY <3>1, <3>2
      <3>3. CASE disk' = disk
        BY <3>1, <3>3
      <3>4. QED
        BY <1>2, <3>2, <3>3 DEF DeleteDisk
    <2>2. TypeOK'
      BY <1>2, <2>1 DEF DeleteDisk, TypeOK
    <2>3. QED
      BY <1>2, <2>1, <2>2 DEF DeleteDisk, TypeOK
  <1>3. CASE DeleteEntry
    BY <1>3 DEF DeleteEntry, TypeOK, Contents
  <1>4. QED
    BY <1>1, <1>2, <1>3

\* Starting and stopping a VM preserves it.
LEMMA StartStopIInv ==
    ASSUME IInv,
           \/ StartAborts \/ LaunchFails
           \/ \E v \in VM : Start(v) \/ Restart(v) \/ Stop(v) \/ StopFails(v)
           \/ \E p \in Pid : Launch(p)
    PROVE  IInv'
  <1> USE WorkloadAssumption DEF WorkloadAssumption, IInv, JobHasVm, RunningHasPid,
          UsedDiskExists, AckedIsSaved, SavedAsAcked, DiskKept, Intact, Job, Free, Idle, table,
          procs, history, VmState
  <1>1. CASE StartAborts
    BY <1>1 DEF StartAborts, TypeOK
  <1>2. CASE LaunchFails
    BY <1>2 DEF LaunchFails, ReadyToLaunch, TypeOK
  <1>3. ASSUME NEW v \in VM, Start(v) \/ Restart(v) PROVE IInv'
    BY <1>3 DEF Start, Restart, BeginStart, TypeOK
  <1>4. ASSUME NEW v \in VM, Stop(v) PROVE IInv'
    BY <1>4 DEF Stop, TypeOK
  <1>5. ASSUME NEW v \in VM, StopFails(v) PROVE IInv'
    BY <1>5 DEF StopFails, TypeOK
  <1>6. ASSUME NEW p \in Pid, Launch(p) PROVE IInv'
    BY <1>6 DEF Launch, ReadyToLaunch, TypeOK
  <1>7. QED
    BY <1>1, <1>2, <1>3, <1>4, <1>5, <1>6

\* Exits and crashes preserve it.
LEMMA CrashIInv ==
    ASSUME IInv, DaemonCrashes \/ PowerFails \/ \E p \in Pid : Exit(p)
    PROVE  IInv'
  <1> USE WorkloadAssumption DEF WorkloadAssumption, IInv, JobHasVm, RunningHasPid,
          UsedDiskExists, AckedIsSaved, SavedAsAcked, DiskKept, Intact, Idle, table,
          procs, history, VmState
  <1>1. ASSUME NEW p \in Pid, Exit(p) PROVE IInv'
    BY <1>1 DEF Exit, TypeOK
  <1>2. CASE DaemonCrashes
    BY <1>2 DEF DaemonCrashes, Forget, TypeOK
  <1>3. CASE PowerFails
    <2>1. /\ saved' \in [VM -> Contents]
          /\ lost' = lost \cup {v \in VM : saved'[v] # saved[v]}
      BY <1>3 DEF PowerFails
    <2>2. TypeOK'
      BY <1>3, <2>1 DEF PowerFails, Forget, TypeOK
    <2>3. \A v \in VM : Intact(v)' => Intact(v) /\ saved'[v] = saved[v]
      BY <2>1 DEF TypeOK
    <2>4. QED
      BY <1>3, <2>2, <2>3 DEF PowerFails, Forget
  <1>4. QED
    BY <1>1, <1>2, <1>3

\* Every step preserves the invariant.
LEMMA NextIInv == IInv /\ [Next]_vars => IInv'
  <1> SUFFICES ASSUME IInv, [Next]_vars PROVE IInv'
    OBVIOUS
  <1>1. CASE UNCHANGED vars
    BY <1>1 DEF vars, table, procs, history, IInv, TypeOK, JobHasVm, RunningHasPid,
       UsedDiskExists, AckedIsSaved, SavedAsAcked, DiskKept, Intact
  <1>2. QED
    BY <1>1, LoadIInv, SaveIInv, CreateDeleteIInv, StartStopIInv, CrashIInv DEF Next

-----------------------------------------------------------------------------
(* Theorems *)

\* The invariant holds in every reachable state.
THEOREM Inductive == Spec => []IInv
  BY InitIInv, NextIInv, PTL DEF Spec

\* Every variable keeps its type.
THEOREM TypeCorrect == Spec => []TypeOK
  <1>1. IInv => TypeOK
    BY DEF IInv
  <1>2. QED
    BY <1>1, Inductive, PTL

\* cleanup_orphaned_disks never takes the disk of an acknowledged VM whose state
\* file is intact, however often the daemon and the machine crash.
THEOREM DiskKeptHolds == Spec => []DiskKept
  <1>1. IInv => DiskKept
    BY DEF IInv
  <1>2. QED
    BY <1>1, Inductive, PTL

\* After any crash load_persisted_state restarts the VMs whose start was
\* acknowledged and none whose stop was.
THEOREM RestartsAckedHolds == Spec => RestartsAcked
  <1>1. IInv /\ [Next]_vars =>
            [daemon = "down" /\ daemon' = "up" /\ AutoRestart /\ ~unread' =>
                \A v \in VM : Intact(v) =>
                    /\ acked[v] = "started" => v \in pending'
                    /\ acked[v] \in {"created", "stopped"} => v \notin pending']_vars
    <2> SUFFICES ASSUME IInv, Next, daemon = "down", daemon' = "up", AutoRestart, ~unread',
                        NEW v \in VM, Intact(v)
                 PROVE  /\ acked[v] = "started" => v \in pending'
                        /\ acked[v] \in {"created", "stopped"} => v \notin pending'
      OBVIOUS
    <2>1. Load
      BY DEF Next, Truncate, Write, SaveFails, StartAborts, LaunchFails, DeleteEntry, Create,
         Start, Restart, BeginStart, Stop, StopFails, DeleteDisk, Launch, Exit, DaemonCrashes,
         PowerFails, Forget
    <2>2. pending' = WasRunning
      BY <2>1 DEF Load
    <2>3. QED
      BY <2>2 DEF IInv, SavedAsAcked, WasRunning
  <1>2. QED
    BY <1>1, Inductive, PTL DEF Spec, RestartsAcked

-----------------------------------------------------------------------------
(* Hypervisors *)

\* A hypervisor that nobody told to stop holds the tap device of its VM.
HoldsTap == \A p \in Pid : proc[p] # NoVm /\ p \notin signalled => p \in attached

\* The only hypervisor of a running VM that nobody told to stop is the recorded one.
RunningIsRecorded ==
    \A v \in VM : vms[v] = "Running" =>
        \A p \in Pid : proc[p] = v /\ p \notin signalled => p = pid[v]

\* While a stop is saved, all hypervisors of the VM were told to stop.
StopIsSent ==
    job.step \in {"save", "write"} /\ job.outcome = "stopped" =>
        \A p \in Pid : proc[p] = job.vm => p \in signalled

\* No second hypervisor is launched: a new one needs the tap device, which any other
\* hypervisor still holds, unless a stop removed it, and then that one was signalled.
HypervisorInv ==
    /\ HoldsTap
    /\ RunningIsRecorded
    /\ StopIsSent
    /\ OneHypervisor

\* Nothing is known of an identifier before it is generated.
UnusedIsUnknown ==
    /\ \A v \in VM \ used : vms[v] = "absent" /\ saved[v] = NoFile
    /\ job.step # "idle" => job.vm \in used

\* What the entry of the VM a handler works on looks like meanwhile.
EntryOfJob ==
    /\ job.step = "start" => vms[job.vm] = "Starting"
    /\ job.step = "delete" => vms[job.vm] # "Running"
    /\ job.step \in {"save", "write"} /\ job.outcome = "created" => vms[job.vm] # "Running"

\* There are no hypervisors before the first start of the daemon.
NoneBefore == crashes = 0 /\ daemon = "down" => \A p \in Pid : proc[p] = NoVm

\* KeepsTrack needs to know which entries a handler may overwrite.
TrackInv ==
    /\ UnusedIsUnknown
    /\ EntryOfJob
    /\ NoneBefore
    /\ KeepsTrack

\* Initially there are no hypervisors.
LEMMA InitHypervisors == Init => HypervisorInv /\ TrackInv
  BY DEF Init, HypervisorInv, HoldsTap, RunningIsRecorded, StopIsSent, OneHypervisor, TrackInv,
     UnusedIsUnknown, EntryOfJob, NoneBefore, KeepsTrack, Idle

\* Launching a hypervisor preserves the invariant: nobody holds the tap device, so
\* every other hypervisor of the VM was told to stop.
LEMMA LaunchHypervisors ==
    ASSUME IInv, HypervisorInv, NEW p \in Pid, Launch(p)
    PROVE  HypervisorInv'
  <1> DEFINE v == job.vm
  <1>1. v \in VM /\ proc[p] = NoVm /\ v # NoVm
    BY WorkloadAssumption DEF WorkloadAssumption, IInv, JobHasVm, Launch, ReadyToLaunch
  <1>2. \A q \in Pid : proc[q] = v => q \in signalled
    BY <1>1 DEF Launch, ReadyToLaunch, TapFree, HypervisorInv, HoldsTap
  <1>3. proc'[p] = v /\ \A q \in Pid \ {p} : proc'[q] = proc[q]
    BY DEF Launch, IInv, TypeOK
  <1>4. vms'[v] = "Running" /\ \A w \in VM \ {v} : vms'[w] = vms[w]
    BY <1>1 DEF Launch, IInv, TypeOK
  <1>5. pid'[v] = p /\ \A w \in VM \ {v} : pid'[w] = pid[w]
    BY <1>1 DEF Launch, IInv, TypeOK
  <1>6. signalled' = signalled /\ attached' = attached \cup {p}
    BY DEF Launch
  <1>7. HoldsTap'
    BY <1>3, <1>6 DEF HypervisorInv, HoldsTap
  <1>8. RunningIsRecorded'
    <2> SUFFICES ASSUME NEW w \in VM, vms'[w] = "Running",
                        NEW q \in Pid, proc'[q] = w, q \notin signalled
                 PROVE  q = pid'[w]
      BY <1>6 DEF RunningIsRecorded
    <2>1. CASE w = v
      BY <1>2, <1>3, <1>5, <2>1
    <2>2. CASE w # v
      BY <1>3, <1>4, <1>5, <2>2 DEF HypervisorInv, RunningIsRecorded
    <2>3. QED
      BY <2>1, <2>2
  <1>9. StopIsSent'
    BY DEF StopIsSent, Launch, Job
  <1>10. OneHypervisor'
    BY <1>2, <1>3, <1>6 DEF HypervisorInv, OneHypervisor
  <1>11. QED
    BY <1>7, <1>8, <1>9, <1>10 DEF HypervisorInv

\* Stopping a VM signals the only process of it that was not signalled.
LEMMA StopHypervisors ==
    ASSUME IInv, HypervisorInv, NEW v \in VM, Stop(v)
    PROVE  HypervisorInv'
  <1>1. pid[v] \in Pid /\ vms[v] = "Running"
    BY DEF IInv, RunningHasPid, Stop
  <1>2. \A p \in Pid : proc[p] = v => p \in signalled'
    BY <1>1 DEF HypervisorInv, RunningIsRecorded, Stop
  <1>3. vms'[v] = "Stopped" /\ \A w \in VM \ {v} : vms'[w] = vms[w] /\ pid'[w] = pid[w]
    BY DEF Stop, IInv, TypeOK
  <1>4. signalled \subseteq signalled' /\ UNCHANGED <<proc, attached>>
    BY DEF Stop
  <1>5. HoldsTap' /\ OneHypervisor'
    BY <1>4 DEF HypervisorInv, HoldsTap, OneHypervisor
  <1>6. RunningIsRecorded'
    BY <1>3, <1>4 DEF HypervisorInv, RunningIsRecorded
  <1>7. StopIsSent'
    BY <1>2, <1>4 DEF StopIsSent, Stop, Job
  <1>8. QED
    BY <1>5, <1>6, <1>7 DEF HypervisorInv

\* The other steps of the actor launch and signal nothing.
LEMMA ActorHypervisors ==
    ASSUME IInv, HypervisorInv,
           \/ Load \/ Truncate \/ Write \/ SaveFails
           \/ StartAborts \/ LaunchFails \/ DeleteEntry
           \/ \E v \in VM : Create(v) \/ Start(v) \/ Restart(v) \/ StopFails(v) \/ DeleteDisk(v)
    PROVE  HypervisorInv'
  <1> USE DEF HypervisorInv, HoldsTap, RunningIsRecorded, StopIsSent, OneHypervisor, procs, table,
          history, Job, Idle
  <1>1. CASE Load
    <2>1. \A v \in VM : vms'[v] # "Running"
      BY <1>1 DEF Load, Loaded, IInv, TypeOK, Contents
    <2>2. UNCHANGED <<procs, job>>
      BY <1>1 DEF Load
    <2>3. QED
      BY <2>1, <2>2
  <1>2. CASE Truncate
    BY <1>2 DEF Truncate, IInv, TypeOK
  <1>3. CASE Write
    <2>1. /\ UNCHANGED <<proc, signalled, pid>>
          /\ \A v \in VM : vms'[v] = "Running" => vms[v] = "Running"
          /\ job'.step = "idle"
      BY <1>3 DEF Write, IInv, TypeOK, JobHasVm
    <2>2. HoldsTap'
      <3>1. CASE UNCHANGED attached
        BY <2>1, <3>1
      <3>2. CASE job.outcome = "stopped" /\ attached' = {p \in attached : proc[p] # job.vm}
        BY <1>3, <2>1, <3>2 DEF Write
      <3>3. QED
        BY <1>3, <3>1, <3>2 DEF Write
    <2>3. QED
      BY <2>1, <2>2
  <1>4. CASE SaveFails \/ StartAborts
    BY <1>4 DEF SaveFails, StartAborts
  <1>5. CASE LaunchFails
    BY <1>5 DEF LaunchFails, ReadyToLaunch, IInv, TypeOK, JobHasVm
  <1>6. CASE DeleteEntry
    BY <1>6 DEF DeleteEntry, IInv, TypeOK, JobHasVm
  <1>7. ASSUME NEW v \in VM, Create(v) \/ DeleteDisk(v) PROVE HypervisorInv'
    BY <1>7 DEF Create, DeleteDisk
  <1>8. ASSUME NEW v \in VM, Start(v) \/ Restart(v) \/ StopFails(v) PROVE HypervisorInv'
    BY <1>8 DEF Start, Restart, BeginStart, StopFails, Free, IInv, TypeOK
  <1>9. QED
    BY <1>1, <1>2, <1>3, <1>4, <1>5, <1>6, <1>7, <1>8

\* Exits and crashes only take hypervisors away.
LEMMA CrashHypervisors ==
    ASSUME IInv, HypervisorInv, DaemonCrashes \/ PowerFails \/ \E p \in Pid : Exit(p)
    PROVE  HypervisorInv'
  <1> USE DEF HypervisorInv, HoldsTap, RunningIsRecorded, StopIsSent, OneHypervisor, procs, table
  <1>1. ASSUME NEW p \in Pid, Exit(p) PROVE HypervisorInv'
    <2>1. proc'[p] = NoVm /\ \A q \in Pid \ {p} : proc'[q] = proc[q]
      BY <1>1 DEF Exit, IInv, TypeOK
    <2>2. /\ UNCHANGED <<vms, pid, job>>
          /\ \A q \in Pid \ {p} : /\ q \in attached' <=> q \in attached
                                  /\ q \in signalled' <=> q \in signalled
      BY <1>1 DEF Exit
    <2>3. NoVm \notin VM
      BY WorkloadAssumption DEF WorkloadAssumption
    <2>4. HoldsTap' /\ RunningIsRecorded' /\ OneHypervisor'
      BY <2>1, <2>2, <2>3
    <2>5. StopIsSent'
      BY <2>1, <2>2, <2>3 DEF IInv, JobHasVm
    <2>6. QED
      BY <2>4, <2>5
  <1>2. CASE DaemonCrashes
    BY <1>2 DEF DaemonCrashes, Forget, Idle
  <1>3. CASE PowerFails
    BY <1>3 DEF PowerFails, Forget, Idle
  <1>4. QED
    BY <1>1, <1>2, <1>3

\* Every step preserves the invariant on hypervisors.
LEMMA NextHypervisors == IInv /\ HypervisorInv /\ [Next]_vars => HypervisorInv'
  <1> SUFFICES ASSUME IInv, HypervisorInv, [Next]_vars PROVE HypervisorInv'
    OBVIOUS
  <1>1. CASE UNCHANGED vars
    BY <1>1 DEF vars, table, procs, HypervisorInv, HoldsTap, RunningIsRecorded, StopIsSent,
       OneHypervisor
  <1>2. QED
    BY <1>1, LaunchHypervisors, StopHypervisors, ActorHypervisors, CrashHypervisors DEF Next

\* Two hypervisors never share a disk unless one of them was told to stop, for any
\* number of VMs and crashes.
THEOREM OneHypervisorHolds == Spec => []OneHypervisor
  <1>1. HypervisorInv => OneHypervisor
    BY DEF HypervisorInv
  <1>2. QED
    BY <1>1, Inductive, InitHypervisors, NextHypervisors, PTL DEF Spec

\* A step that leaves the processes alone, and the entries of running VMs, loses
\* no hypervisor.
LEMMA KeepsEntries ==
    ASSUME IInv, KeepsTrack, UNCHANGED <<proc, signalled, crashes>>,
           \A v \in VM : vms[v] = "Running" => vms'[v] = "Running" /\ pid'[v] = pid[v]
    PROVE  KeepsTrack'
  BY DEF KeepsTrack, IInv, TypeOK

\* Starting the daemon for the first time: there are no hypervisors.
LEMMA LoadTrack == IInv /\ TrackInv /\ Load => TrackInv'
  <1> SUFFICES ASSUME IInv, TrackInv, Load PROVE TrackInv'
    OBVIOUS
  <1>1. UNCHANGED <<procs, saved, job, used, crashes>> /\ daemon' = "up" /\ job.step = "idle"
    BY DEF Load, IInv, JobHasVm
  <1>2. \A v \in VM \ used : vms'[v] = "absent"
    BY DEF Load, Loaded, TrackInv, UnusedIsUnknown
  <1>3. UnusedIsUnknown' /\ EntryOfJob' /\ NoneBefore'
    BY <1>1, <1>2 DEF TrackInv, UnusedIsUnknown, EntryOfJob, NoneBefore
  <1>4. KeepsTrack'
    BY <1>1 DEF Load, TrackInv, NoneBefore, KeepsTrack, procs
  <1>5. QED
    BY <1>3, <1>4 DEF TrackInv

\* The steps of save_vm overwrite no entry of a running VM.
LEMMA SaveTrack == IInv /\ TrackInv /\ (Truncate \/ Write \/ SaveFails) => TrackInv'
  <1> SUFFICES ASSUME IInv, TrackInv, Truncate \/ Write \/ SaveFails PROVE TrackInv'
    OBVIOUS
  <1>1. job.vm \in VM /\ job.vm \in used /\ daemon = "up" /\ daemon' = "up"
    BY DEF IInv, TypeOK, JobHasVm, TrackInv, UnusedIsUnknown, Truncate, Write, SaveFails
  <1>2. /\ UNCHANGED <<proc, signalled, crashes, used, pid>>
        /\ \A v \in VM : vms[v] = "Running" => vms'[v] = "Running"
        /\ \A v \in VM \ {job.vm} : vms'[v] = vms[v] /\ saved'[v] = saved[v]
    BY <1>1
    DEF Truncate, Write, SaveFails, IInv, TypeOK, TrackInv, EntryOfJob, table, procs, history
  <1>3. KeepsTrack'
    BY <1>2, KeepsEntries DEF TrackInv
  <1>4. UnusedIsUnknown'
    BY <1>1, <1>2 DEF TrackInv, UnusedIsUnknown, Truncate, Write, SaveFails, Idle, Job
  <1>5. EntryOfJob'
    BY DEF TrackInv, EntryOfJob, Truncate, Write, SaveFails, Idle, Job, table
  <1>6. NoneBefore'
    BY <1>1 DEF NoneBefore
  <1>7. QED
    BY <1>3, <1>4, <1>5, <1>6 DEF TrackInv

\* The commands other than stop touch only entries that are not running.
LEMMA CommandTrack ==
    ASSUME IInv, TrackInv,
           \/ StartAborts \/ LaunchFails \/ DeleteEntry
           \/ \E v \in VM : Create(v) \/ Start(v) \/ Restart(v) \/ DeleteDisk(v)
    PROVE  TrackInv'
  <1> USE DEF TrackInv, UnusedIsUnknown, EntryOfJob, NoneBefore, Free, Job, Idle, table, procs,
          history
  <1>1. CASE StartAborts
    BY <1>1, KeepsEntries DEF StartAborts
  <1>2. CASE LaunchFails
    <2>1. job.vm \in VM
      BY <1>2 DEF IInv, JobHasVm, LaunchFails, ReadyToLaunch
    <2>2. vms'[job.vm] = "Created" /\ \A v \in VM \ {job.vm} : vms'[v] = vms[v]
      BY <1>2, <2>1 DEF LaunchFails, IInv, TypeOK
    <2>3. KeepsTrack'
      BY <1>2, <2>2, KeepsEntries DEF LaunchFails, ReadyToLaunch
    <2>4. QED
      BY <1>2, <2>1, <2>2, <2>3 DEF LaunchFails, ReadyToLaunch
  <1>3. CASE DeleteEntry
    <2>1. job.vm \in VM
      BY <1>3 DEF IInv, JobHasVm, DeleteEntry
    <2>2. /\ vms'[job.vm] = "absent"
          /\ \A v \in VM \ {job.vm} : vms'[v] = vms[v] /\ pid'[v] = pid[v] /\ saved'[v] = saved[v]
      BY <1>3, <2>1 DEF DeleteEntry, IInv, TypeOK
    <2>3. KeepsTrack'
      BY <1>3, <2>2, KeepsEntries DEF DeleteEntry
    <2>4. QED
      BY <1>3, <2>1, <2>2, <2>3 DEF DeleteEntry
  <1>4. ASSUME NEW v \in VM, Create(v) PROVE TrackInv'
    <2>1. KeepsTrack'
      BY <1>4, KeepsEntries DEF Create
    <2>2. QED
      BY <1>4, <2>1 DEF Create
  <1>5. ASSUME NEW v \in VM, DeleteDisk(v) PROVE TrackInv'
    <2>1. KeepsTrack'
      BY <1>5, KeepsEntries DEF DeleteDisk
    <2>2. QED
      BY <1>5, <2>1 DEF DeleteDisk
  <1>6. ASSUME NEW v \in VM, Start(v) \/ Restart(v) PROVE TrackInv'
    <2>1. /\ vms[v] \notin {"absent", "Running"} /\ vms'[v] = "Starting"
          /\ \A w \in VM \ {v} : vms'[w] = vms[w]
          /\ UNCHANGED <<daemon, pid, saved, procs, used, crashes>>
          /\ job' = Job("start", v, "none")
          /\ daemon = "up"
      BY <1>6 DEF Start, Restart, BeginStart, IInv, TypeOK
    <2>2. KeepsTrack'
      BY <2>1, KeepsEntries
    <2>3. QED
      BY <2>1, <2>2
  <1>7. QED
    BY <1>1, <1>2, <1>3, <1>4, <1>5, <1>6

\* A launch records the process; a stop signals the only process of the VM that
\* was not signalled, or finds that there is none.
LEMMA ProcessTrack ==
    ASSUME IInv, HypervisorInv, TrackInv,
           \/ \E p \in Pid : Launch(p)
           \/ \E v \in VM : Stop(v) \/ StopFails(v)
    PROVE  TrackInv'
  <1> USE DEF TrackInv, UnusedIsUnknown, EntryOfJob, NoneBefore, Free, Job, Idle, table, procs,
          history
  <1>1. ASSUME NEW p \in Pid, Launch(p) PROVE TrackInv'
    <2> DEFINE v == job.vm
    <2>1. v \in VM /\ v \in used /\ vms[v] = "Starting" /\ daemon = "up"
      BY <1>1 DEF IInv, TypeOK, JobHasVm, Launch, ReadyToLaunch
    <2>2. /\ vms'[v] = "Running" /\ pid'[v] = p
          /\ \A w \in VM \ {v} : vms'[w] = vms[w] /\ pid'[w] = pid[w]
      BY <1>1, <2>1 DEF Launch, IInv, TypeOK
    <2>3. proc'[p] = v /\ \A q \in Pid \ {p} : proc'[q] = proc[q]
      BY <1>1 DEF Launch, IInv, TypeOK
    <2>4. proc \in [Pid -> VM \cup {NoVm}]
      BY DEF IInv, TypeOK
    <2>5. KeepsTrack'
      BY <1>1, <2>1, <2>2, <2>3, <2>4 DEF KeepsTrack, Launch
    <2>6. QED
      BY <1>1, <2>1, <2>2, <2>5 DEF Launch
  <1>2. ASSUME NEW v \in VM, Stop(v) \/ StopFails(v) PROVE TrackInv'
    <2>1. pid[v] \in Pid /\ vms[v] = "Running" /\ v \in used
      BY <1>2 DEF IInv, RunningHasPid, Stop, StopFails
    <2>2. \A p \in Pid : proc[p] = v => p \in signalled'
      <3>1. NoVm \notin VM
        BY WorkloadAssumption DEF WorkloadAssumption
      <3>2. QED
        BY <1>2, <2>1, <3>1 DEF HypervisorInv, RunningIsRecorded, Stop, StopFails
    <2>3. \A w \in VM \ {v} : vms'[w] = vms[w] /\ pid'[w] = pid[w]
      BY <1>2 DEF Stop, StopFails, IInv, TypeOK
    <2>4. signalled \subseteq signalled' /\ UNCHANGED <<proc, crashes, used, saved, daemon>>
      BY <1>2 DEF Stop, StopFails
    <2>5. KeepsTrack'
      BY <2>2, <2>3, <2>4 DEF KeepsTrack, IInv, TypeOK
    <2>6. QED
      BY <1>2, <2>1, <2>3, <2>4, <2>5 DEF Stop, StopFails, IInv, TypeOK
  <1>3. QED
    BY <1>1, <1>2

\* Exits take hypervisors away, and after a crash nothing is claimed.
LEMMA CrashTrack ==
    ASSUME IInv, TrackInv, DaemonCrashes \/ PowerFails \/ \E p \in Pid : Exit(p)
    PROVE  TrackInv'
  <1> USE DEF TrackInv, UnusedIsUnknown, EntryOfJob, NoneBefore, Idle, table, procs, history
  <1>1. ASSUME NEW p \in Pid, Exit(p) PROVE TrackInv'
    <2>1. /\ proc'[p] = NoVm
          /\ \A q \in Pid \ {p} : proc'[q] = proc[q] /\ (q \in signalled' <=> q \in signalled)
      BY <1>1 DEF Exit, IInv, TypeOK
    <2>2. KeepsTrack'
      BY <1>1, <2>1 DEF KeepsTrack, Exit
    <2>3. QED
      BY <1>1, <2>1, <2>2 DEF Exit
  <1>2. CASE DaemonCrashes \/ PowerFails
    <2>1. /\ crashes' # 0
          /\ job' = Idle
          /\ UNCHANGED used
          /\ \A v \in VM : vms'[v] = "absent"
      BY <1>2 DEF DaemonCrashes, PowerFails, Forget, IInv, TypeOK
    <2>2. \A v \in VM \ used : saved'[v] = NoFile
      BY <1>2 DEF DaemonCrashes, PowerFails
    <2>3. QED
      BY <2>1, <2>2 DEF KeepsTrack
  <1>3. QED
    BY <1>1, <1>2

\* Every step preserves what is known of the hypervisors.
LEMMA NextTrack == IInv /\ HypervisorInv /\ TrackInv /\ [Next]_vars => TrackInv'
  <1> SUFFICES ASSUME IInv, HypervisorInv, TrackInv, [Next]_vars PROVE TrackInv'
    OBVIOUS
  <1>1. CASE UNCHANGED vars
    BY <1>1 DEF vars, table, procs, history, TrackInv, UnusedIsUnknown, EntryOfJob, NoneBefore,
       KeepsTrack
  <1>2. QED
    BY <1>1, LoadTrack, SaveTrack, CommandTrack, ProcessTrack, CrashTrack DEF Next

\* A workloadd that does not crash can stop every hypervisor it launched, for any
\* number of VMs, exits, reused pids and failing commands.
THEOREM KeepsTrackHolds == Spec => []KeepsTrack
  <1>1. TrackInv => KeepsTrack
    BY DEF TrackInv
  <1>2. QED
    BY <1>1, Inductive, InitHypervisors, NextHypervisors, NextTrack, PTL DEF Spec

\* "Cannot delete running VM" holds until workloadd crashes for the first time:
\* handle_delete then takes no disk from under a hypervisor that was not told to stop.
THEOREM DeletesNoneRunning ==
    Spec => [][crashes = 0 /\ job.step # "delete" /\ job'.step = "delete" =>
                   \A p \in Pid : proc[p] = job'.vm => p \in signalled]_vars
  <1>1. IInv /\ TrackInv /\ [Next]_vars =>
            [crashes = 0 /\ job.step # "delete" /\ job'.step = "delete" =>
                \A p \in Pid : proc[p] = job'.vm => p \in signalled]_vars
    <2> SUFFICES ASSUME IInv, TrackInv, Next, crashes = 0, job.step # "delete",
                        job'.step = "delete", NEW p \in Pid, proc[p] = job'.vm
                 PROVE  p \in signalled
      OBVIOUS
    <2>1. PICK v \in VM : DeleteDisk(v)
      BY DEF Next, Load, Truncate, Write, SaveFails, StartAborts, LaunchFails, DeleteEntry, Create,
         Start, Restart, BeginStart, Stop, StopFails, Launch, Exit, DaemonCrashes, PowerFails,
         Forget, Job, Idle
    <2>2. job'.vm = v /\ vms[v] # "Running" /\ v # NoVm
      BY <2>1, WorkloadAssumption DEF WorkloadAssumption, DeleteDisk, Job
    <2>3. QED
      BY <2>2 DEF TrackInv, KeepsTrack
  <1>2. QED
    BY <1>1, Inductive, InitHypervisors, NextHypervisors, NextTrack, PTL DEF Spec

=============================================================================

------------------------------ MODULE Workload ------------------------------
(***************************************************************************)
(* workloadd's VM actor (services/workloadd/src/actor/state.rs): a table   *)
(* of virtual machines, a JSON file and a disk for each, and hypervisor    *)
(* processes, over crashes of the daemon and of the machine.               *)
(*                                                                         *)
(* The actor handles one command at a time; a handler is a few steps of    *)
(* `job', between which the daemon may die and hypervisors may exit.       *)
(* Hypervisors outlive the daemon.                                         *)
(***************************************************************************)
EXTENDS Naturals

CONSTANTS
    VM,           \* identifiers; each is a fresh UUID, never generated again
    Pid,          \* process identifiers of hypervisors, reused once free
    NoVm, NoPid,
    NoFile,       \* the state file does not exist
    Torn,         \* the state file was truncated and not written
    AutoRestart,  \* the configuration's auto_restart
    MaxCrashes    \* bound on crashes of the daemon and of the machine

ASSUME WorkloadAssumption ==
    /\ NoVm \notin VM
    /\ NoPid \notin Pid
    /\ {NoFile, Torn} \cap {"Created", "Running", "Stopped"} = {}
    /\ AutoRestart \in BOOLEAN
    /\ MaxCrashes \in Nat

VARIABLES
    daemon,     \* down or up
    vms,        \* VmEntry::state of each VM in the table, or absent
    pid,        \* VmEntry::pid
    pending,    \* VmActor::pending_restarts
    job,        \* the handler under way
    saved,      \* the state in VMS_DIR/<vm_id>.json
    disk,       \* disk[v]: the subvolume of v exists
    proc,       \* proc[p]: the VM whose disk process p uses
    attached,   \* processes that hold the present tap device of their VM
    signalled,  \* processes that were told to stop
    used,       \* identifiers generated so far
    acked,      \* history: the outcome of the last command on v that saved it
    lost,       \* history: VMs whose last write a power failure undid
    unread,     \* history: load_vms failed
    crashes

table == <<vms, pid, pending>>
procs == <<proc, attached, signalled>>
history == <<acked, lost, unread, crashes>>
vars == <<daemon, table, job, saved, disk, procs, used, history>>

VmState == {"Created", "Starting", "Running", "Stopping", "Stopped"}

\* What a state file may hold: the states save_vm is called in, or nothing.
Contents == {"Created", "Running", "Stopped", NoFile, Torn}

\* A handler is launching a hypervisor, about to save, saving, or deleting; the
\* outcome is what it is going to reply.
Idle == [step |-> "idle", vm |-> NoVm, outcome |-> "none"]
Job(step, v, outcome) == [step |-> step, vm |-> v, outcome |-> outcome]

Init ==
    /\ daemon = "down"
    /\ vms = [v \in VM |-> "absent"]
    /\ pid = [v \in VM |-> NoPid]
    /\ pending = {}
    /\ job = Idle
    /\ saved = [v \in VM |-> NoFile]
    /\ disk = [v \in VM |-> FALSE]
    /\ proc = [p \in Pid |-> NoVm]
    /\ attached = {}
    /\ signalled = {}
    /\ used = {}
    /\ acked = [v \in VM |-> "none"]
    /\ lost = {}
    /\ unread = FALSE
    /\ crashes = 0

-----------------------------------------------------------------------------
(* Start of the daemon: VmActor::new *)

\* Mutant: a file that cannot be read is not skipped.
MutLoaded(v) == IF saved[v] = "Running" THEN "Stopped" ELSE saved[v]

\* from_persisted and reset_if_running; load_vms skips what it cannot parse.
Loaded(v) ==
    IF saved[v] \in {NoFile, Torn} THEN "absent"
    ELSE IF saved[v] = "Running" THEN "Stopped" ELSE saved[v]

WasRunning == {v \in VM : saved[v] = "Running"}

\* Mutant: only the VMs that were running keep their disks.
MutOrphaned == {v \in VM : vms'[v] = "absent" \/ v \notin WasRunning}

\* The subvolumes that belong to no VM of the new table.
Orphaned == {v \in VM : vms'[v] = "absent"}

\* cleanup_orphaned_disks: a deletion that fails is only logged.
CleanupOrphanedDisks ==
    \E kept \in SUBSET Orphaned :
        disk' = [v \in VM |-> disk[v] /\ (v \in Orphaned => v \in kept)]

Load ==
    /\ daemon = "down"
    /\ daemon' = "up"
    /\ \/ /\ vms' = [v \in VM |-> Loaded(v)]
          /\ pending' = IF AutoRestart THEN WasRunning ELSE {}
          /\ UNCHANGED unread
       \/ /\ vms' = [v \in VM |-> "absent"]
          /\ pending' = {}
          /\ unread' = TRUE
    /\ CleanupOrphanedDisks
    /\ UNCHANGED <<pid, job, saved, procs, used, acked, lost, crashes>>

-----------------------------------------------------------------------------
(* save_vm: fs::write truncates the file, then writes it *)

\* Mutant: the state is saved before the stop takes effect.
MutPersisted(outcome) == IF outcome = "created" THEN "Created" ELSE "Running"

Persisted(outcome) ==
    IF outcome = "created" THEN "Created"
    ELSE IF outcome = "started" THEN "Running" ELSE "Stopped"

Truncate ==
    /\ job.step = "save"
    /\ job' = Job("write", job.vm, job.outcome)
    /\ saved' = [saved EXCEPT ![job.vm] = Torn]
    /\ UNCHANGED <<daemon, table, disk, procs, used, history>>

\* The file is written and the handler ends: create enters the VM in the table,
\* stop removes the tap device, if it can.
Write ==
    /\ job.step = "write"
    /\ job' = Idle
    /\ saved' = [saved EXCEPT ![job.vm] = Persisted(job.outcome)]
    /\ acked' = [acked EXCEPT ![job.vm] = job.outcome]
    /\ lost' = lost \ {job.vm}
    /\ vms' = IF job.outcome = "created" THEN [vms EXCEPT ![job.vm] = "Created"] ELSE vms
    /\ \/ UNCHANGED attached
       \/ job.outcome = "stopped" /\ attached' = {p \in attached : proc[p] # job.vm}
    /\ UNCHANGED <<daemon, pid, pending, disk, proc, signalled, used, unread, crashes>>

\* The handler replies with an error; the table is as it was set before.
SaveFails ==
    /\ job.step \in {"save", "write"}
    /\ job' = Idle
    /\ acked' = [acked EXCEPT ![job.vm] = IF @ = "none" THEN "none" ELSE "unknown"]
    /\ UNCHANGED <<daemon, table, saved, disk, procs, used, lost, unread, crashes>>

-----------------------------------------------------------------------------
(* Commands *)

\* run: the pending restarts come before the first command.
Free == daemon = "up" /\ job = Idle /\ pending = {}

\* handle_create: the disk comes first; an error there leaves it, as SaveFails.
Create(v) ==
    /\ Free
    /\ v \notin used
    /\ used' = used \cup {v}
    /\ disk' = [disk EXCEPT ![v] = TRUE]
    /\ job' = Job("save", v, "created")
    /\ UNCHANGED <<daemon, table, saved, procs, history>>

\* Mutant: a VM that runs can be started again.
MutBeginStart(v) ==
    /\ vms[v] # "absent"
    /\ vms' = [vms EXCEPT ![v] = "Starting"]
    /\ job' = Job("start", v, "none")
    /\ UNCHANGED <<daemon, pid, saved, disk, procs, used, history>>

\* handle_start, up to the launch.
BeginStart(v) ==
    /\ vms[v] \notin {"absent", "Running"}
    /\ vms' = [vms EXCEPT ![v] = "Starting"]
    /\ job' = Job("start", v, "none")
    /\ UNCHANGED <<daemon, pid, saved, disk, procs, used, history>>

Start(v) == Free /\ BeginStart(v) /\ UNCHANGED pending

\* auto_restart_vm
Restart(v) ==
    /\ daemon = "up" /\ job = Idle
    /\ v \in pending
    /\ pending' = pending \ {v}
    /\ BeginStart(v)

\* The tap device cannot be set up, or the kernel or a disk was not uploaded: the
\* entry stays as it is.
StartAborts ==
    /\ job.step = "start"
    /\ job' = Idle
    /\ UNCHANGED <<daemon, table, saved, disk, procs, used, history>>

\* Mutant: the tap device of a live hypervisor can be taken over.
MutTapFree(v) == v \in VM

\* A tap device has one queue: it cannot be set up while a process holds it.
TapFree(v) == \A p \in attached : proc[p] # v

\* The tap device is set up; the boot assets are files of the VM's subvolume.
ReadyToLaunch == job.step = "start" /\ TapFree(job.vm) /\ disk[job.vm]

Launch(p) ==
    /\ ReadyToLaunch
    /\ proc[p] = NoVm
    /\ proc' = [proc EXCEPT ![p] = job.vm]
    /\ attached' = attached \cup {p}
    /\ vms' = [vms EXCEPT ![job.vm] = "Running"]
    /\ pid' = [pid EXCEPT ![job.vm] = p]
    /\ job' = Job("save", job.vm, "started")
    /\ UNCHANGED <<daemon, pending, saved, disk, signalled, used, history>>

LaunchFails ==
    /\ ReadyToLaunch
    /\ vms' = [vms EXCEPT ![job.vm] = "Created"]
    /\ job' = Job("save", job.vm, "created")
    /\ UNCHANGED <<daemon, pid, pending, saved, disk, procs, used, history>>

\* handle_stop: the signal is sent and the VM counts as stopped.
Stop(v) ==
    /\ Free
    /\ vms[v] = "Running"
    /\ proc[pid[v]] # NoVm
    /\ signalled' = signalled \cup {pid[v]}
    /\ vms' = [vms EXCEPT ![v] = "Stopped"]
    /\ pid' = [pid EXCEPT ![v] = NoPid]
    /\ job' = Job("save", v, "stopped")
    /\ UNCHANGED <<daemon, pending, saved, disk, proc, attached, used, history>>

\* The process is gone and kill fails: the VM stays in Stopping.
StopFails(v) ==
    /\ Free
    /\ vms[v] = "Running"
    /\ proc[pid[v]] = NoVm
    /\ vms' = [vms EXCEPT ![v] = "Stopping"]
    /\ UNCHANGED <<daemon, pid, pending, job, saved, disk, procs, used, history>>

\* handle_delete: the disk, then the file, then the entry; errors are logged.
DeleteDisk(v) ==
    /\ Free
    /\ vms[v] \notin {"absent", "Running"}
    /\ disk' = [disk EXCEPT ![v] = FALSE] \/ UNCHANGED disk
    /\ acked' = [acked EXCEPT ![v] = "none"]
    /\ job' = Job("delete", v, "none")
    /\ UNCHANGED <<daemon, table, saved, procs, used, lost, unread, crashes>>

DeleteEntry ==
    /\ job.step = "delete"
    /\ job' = Idle
    /\ saved' = [saved EXCEPT ![job.vm] = NoFile] \/ UNCHANGED saved
    /\ vms' = [vms EXCEPT ![job.vm] = "absent"]
    /\ pid' = [pid EXCEPT ![job.vm] = NoPid]
    /\ UNCHANGED <<daemon, pending, disk, procs, used, history>>

-----------------------------------------------------------------------------
(* Hypervisors and crashes *)

\* A guest powers off, the hypervisor fails, or it obeys the signal; nothing
\* tells the actor.
Exit(p) ==
    /\ proc[p] # NoVm
    /\ proc' = [proc EXCEPT ![p] = NoVm]
    /\ attached' = attached \ {p}
    /\ signalled' = signalled \ {p}
    /\ UNCHANGED <<daemon, table, job, saved, disk, used, history>>

\* The table and the handler are gone.
Forget ==
    /\ crashes < MaxCrashes
    /\ crashes' = crashes + 1
    /\ daemon = "up"
    /\ daemon' = "down"
    /\ vms' = [v \in VM |-> "absent"]
    /\ pid' = [v \in VM |-> NoPid]
    /\ pending' = {}
    /\ job' = Idle
    /\ UNCHANGED <<disk, used, acked, unread>>

DaemonCrashes == Forget /\ UNCHANGED <<saved, lost, procs>>

\* save_vm does not sync: what the kernel had not written back is lost, and the
\* file is in an earlier state, torn or gone.
PowerFails ==
    /\ Forget
    /\ \E after \in [VM -> Contents] :
        /\ \A v \in VM \ used : after[v] = NoFile
        /\ saved' = after
        /\ lost' = lost \cup {v \in VM : after[v] # saved[v]}
    /\ proc' = [p \in Pid |-> NoVm]
    /\ attached' = {}
    /\ signalled' = {}

-----------------------------------------------------------------------------
Next ==
    \/ Load \/ Truncate \/ Write \/ SaveFails
    \/ StartAborts \/ LaunchFails \/ DeleteEntry
    \/ \E v \in VM : \/ Create(v) \/ Start(v) \/ Restart(v)
                     \/ Stop(v) \/ StopFails(v) \/ DeleteDisk(v)
    \/ \E p \in Pid : Launch(p) \/ Exit(p)
    \/ DaemonCrashes \/ PowerFails

Spec == Init /\ [][Next]_vars

-----------------------------------------------------------------------------
(* Properties *)

\* Every variable has its type.
TypeOK ==
    /\ daemon \in {"down", "up"}
    /\ vms \in [VM -> VmState \cup {"absent"}]
    /\ pid \in [VM -> Pid \cup {NoPid}]
    /\ pending \subseteq VM
    /\ job.step \in {"idle", "save", "write", "start", "delete"}
    /\ job.vm \in VM \cup {NoVm}
    /\ job.outcome \in {"none", "created", "started", "stopped"}
    /\ saved \in [VM -> Contents]
    /\ disk \in [VM -> BOOLEAN]
    /\ proc \in [Pid -> VM \cup {NoVm}]
    /\ attached \subseteq Pid
    /\ signalled \subseteq Pid
    /\ used \subseteq VM
    /\ acked \in [VM -> {"none", "created", "started", "stopped", "unknown"}]
    /\ lost \subseteq VM
    /\ unread \in BOOLEAN
    /\ crashes \in 0..MaxCrashes

\* The state file of v tells what was last written to it.
Intact(v) == saved[v] # Torn /\ v \notin lost

\* A VM whose creation was acknowledged keeps its disk until it is deleted,
\* through failed commands and crashes between any two steps: the clean-up of
\* orphaned disks never takes it.  It needs an intact state file (save_vm
\* overwrites it in place and does not sync it) and a load_vms that does not fail.
DiskKept ==
    \A v \in VM : acked[v] # "none" /\ Intact(v) /\ ~unread => disk[v]

\* After a crash the daemon restarts the VMs whose start was acknowledged, and
\* no VM whose stop was, whatever it was doing when it crashed.
RestartsAcked ==
    [][daemon = "down" /\ daemon' = "up" /\ AutoRestart /\ ~unread' =>
        \A v \in VM : Intact(v) =>
            /\ acked[v] = "started" => v \in pending'
            /\ acked[v] \in {"created", "stopped"} => v \notin pending']_vars

\* Two hypervisors never write to the disk of one VM, unless one of them was told
\* to stop and has not obeyed yet: whatever the table forgot in a crash, handle_start
\* launches none beside a hypervisor it knows nothing of, because that one holds
\* the tap device, and stop removes the device only of those it signalled.
OneHypervisor ==
    \A p, q \in Pid :
        p # q /\ proc[p] = proc[q] /\ proc[p] # NoVm => p \in signalled \/ q \in signalled

\* As long as workloadd does not crash it loses no hypervisor: each one that nobody
\* told to stop belongs to a VM that counts as running and is the process that
\* handle_stop would signal, although hypervisors exit unnoticed, their pids are
\* reused, a stop may signal the process of another VM, and saves and starts fail.
KeepsTrack ==
    crashes = 0 =>
        \A p \in Pid : proc[p] # NoVm /\ p \notin signalled =>
            vms[proc[p]] = "Running" /\ pid[proc[p]] = p

\* state.rs:450 "Cannot delete running VM": handle_delete never deletes a VM while
\* a hypervisor that nobody told to stop runs on its disk.
NotUnderRunning ==
    [][job.step # "delete" /\ job'.step = "delete" =>
        \A p \in Pid : proc[p] = job'.vm => p \in signalled]_vars

=============================================================================

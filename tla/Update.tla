------------------------------- MODULE Update -------------------------------
(***************************************************************************)
(* The update life cycle of provisiond (services/provisiond/src/update).   *)
(*                                                                         *)
(* PrepareUpdate stages the new image, snapshots the configuration and     *)
(* overwrites it; Update boots the staged kernel with kexec; the booted    *)
(* system validates itself and then commits (the image goes to the ESP) or *)
(* rolls back (the snapshot becomes the configuration, and the machine     *)
(* reboots into the image on the ESP).  A cold boot that finds a snapshot  *)
(* reverts it.                                                             *)
(*                                                                         *)
(* A configuration stands for itself and for the image that is built for   *)
(* it (release and extensions are fields of it).  One muakctl runs at a    *)
(* time; power may fail and provisiond may be restarted between any two    *)
(* steps.  STATE is a btrfs: what changed since the last sync() may be     *)
(* undone by a power failure, last change first.                           *)
(***************************************************************************)
EXTENDS Naturals

CONSTANTS
    Config,      \* configurations, with the images built for them
    Installed,   \* the configuration the installer left
    Version,     \* Version[c]: the release of c
    Isolating,   \* pairs of configurations whose network or port differ
    Id,          \* update identifiers; their number bounds the preparations
    NoId,        \* no muak.update_id= on the kernel command line
    NoFile,      \* the file does not exist
    Torn,        \* the file was truncated and not written completely
    MaxFaults    \* bound on power failures and daemon restarts

Content == Config \cup {NoFile, Torn}

ASSUME UpdateAssumption ==
    /\ Installed \in Config
    /\ NoFile \notin Config /\ Torn \notin Config /\ NoFile # Torn
    /\ NoId \notin Id
    /\ Version \in [Config -> Nat]
    /\ Isolating \subseteq Config \X Config
    /\ MaxFaults \in Nat

VARIABLES
    (* on STATE, on the ESP and in the LUKS header *)
    conf,      \* CONFIG_PATH
    snaps,     \* snaps[id]: UPDATE_DIR/<id>.toml
    assets,    \* UPDATE_DIR/assets: the image, its kernel and initramfs
    journal,   \* JOURNAL_DIR: the kinds of the entries of update uid, the only ones
               \* that are read back
    esp,       \* the image at the boot path of the ESP
    token,     \* the image whose PCR#11 the LUKS key is sealed to
    past,      \* what STATE has held since the last sync()
    (* of the running system *)
    machine,   \* how far the machine has booted
    kernel,    \* the image whose kernel runs
    pcr,       \* the image measured into PCR#11, at the last cold boot
    marker,    \* muak.update_id= on the kernel command line
    cached,    \* config::system::CONFIG, read once when provisiond starts
    val,       \* where the validation task is
    vid,       \* the update it validates
    staged,    \* UPDATE_DIR/staged.efi
    contact,   \* the permit of CLI_CONTACT; "taken" once it was used (history)
    (* of muakctl and the environment *)
    cli,       \* where muakctl and the RPC it waits for are; idle when none runs
               \* or it ended in an error
    target,    \* the configuration it asked for
    uid,       \* the update_id it was given
    issued,    \* identifiers generated so far (generate_id uses the clock)
    faults,    \* power failures and daemon restarts so far
    mishap     \* history: a fault came in one of the windows named below

disk == <<conf, snaps, assets, esp, token, past>>
boot == <<kernel, pcr, marker>>
task == <<val, vid, staged>>
client == <<cli, target, uid, issued>>
env == <<faults, mishap>>
vars == <<disk, journal, machine, boot, cached, task, contact, client, env>>

-----------------------------------------------------------------------------
(* Files *)

Pending == {id \in Id : snaps[id] # NoFile}

\* The snapshot can be read and parsed.
Whole(id) == snaps[id] \in Config

\* What a power failure may bring back, with the place the validation had reached.
State == [conf |-> conf, snaps |-> snaps, val |-> val]

\* A change that no sync() has made durable yet; what may come back is kept as
\* long as the bound allows a power failure.
Unsafe == past' = {s \in past \cup {State} : faults < MaxFaults}

updateDir == <<snaps, assets, staged, past>>

\* remove_dir_all(UPDATE_DIR)
RemoveUpdateDir ==
    /\ Unsafe
    /\ snaps' = [id \in Id |-> NoFile]
    /\ assets' = NoFile
    /\ staged' = NoFile

Record(id, kind) == journal' = IF id = uid THEN journal \cup {kind} ELSE journal

\* snapshot::restore has written the configuration.  The update directory goes
\* once the rollback is journaled; if it cannot be removed, that is only logged.
TrackRestore ==
    \/ Record(vid, "rollback") /\ (RemoveUpdateDir \/ UNCHANGED updateDir)
    \/ UNCHANGED <<journal, updateDir>>

Permit == {"none", "stored", "taken"}

\* The LUKS key of STATE can be had: no token, or one sealed to image p.
Unlocks(p) == token = NoFile \/ token = p

\* The kernel is up; millefeuille mounts STATE or goes on without it.
BootsTo(p) == IF Unlocks(p) THEN "starting" ELSE "maintenance"

-----------------------------------------------------------------------------
Init ==
    /\ conf = Installed
    /\ snaps = [id \in Id |-> NoFile]
    /\ assets = NoFile
    /\ journal = {}
    /\ esp = Installed
    /\ token \in {NoFile, Installed}   \* without and with a TPM
    /\ past = {}
    /\ machine = "starting"
    /\ kernel = Installed
    /\ pcr = Installed
    /\ marker = NoId
    /\ cached = Installed
    /\ val = "none"
    /\ vid = NoId
    /\ staged = NoFile
    /\ contact = "none"
    /\ cli = "idle"
    /\ target = Installed
    /\ uid = NoId
    /\ issued = {}
    /\ faults = 0
    /\ mishap = FALSE

-----------------------------------------------------------------------------
(* PrepareUpdate: ipc/provision.rs, update/mod.rs, update/snapshot.rs *)

\* From the snapshot on; the RPCs under way, and the state between them.
Snapshotted == {"snapshot", "journaled", "written", "prepared"}
InFlight == {"build", "snapping"} \cup Snapshotted

\* muakctl has its answer, and ends.
Ends(answer) ==
    /\ cli' = answer
    /\ target' = Installed
    /\ uid' = NoId
    /\ journal' = {}
    /\ UNCHANGED issued

\* prepare_update: downgrades are refused; staging truncates the old assets.  It
\* is a mishap when a validation is running: the two overwrite each other's files.
PrepareUpdate(c) ==
    /\ machine = "serving"
    /\ cli \notin InFlight \cup {"polling"}
    /\ issued # Id
    /\ Version[c] >= Version[cached]
    /\ cli' = "build"
    /\ target' = c
    /\ assets' = Torn
    /\ mishap' = (mishap \/ val # "none")
    /\ UNCHANGED <<conf, snaps, journal, esp, token, past, machine, boot, cached, task,
                   contact, uid, issued, faults>>

\* already_current: nothing to do, unless forced.
AlreadyCurrent(c) ==
    /\ machine = "serving"
    /\ cli \notin InFlight \cup {"polling"}
    /\ c = cached
    /\ cli' = "current"
    /\ target' = c
    /\ UNCHANGED <<disk, journal, machine, boot, cached, task, contact, uid, issued, env>>

\* Mutant: the snapshot holds the configuration that is being installed.
MutSnapshotOf == target

\* What snapshot::create copies.
SnapshotOf == conf

\* The wizard has built the assets; fs::write in snapshot::create makes an empty
\* file ...
OpenSnapshot(id) ==
    /\ machine = "serving" /\ cli = "build"
    /\ id \notin issued
    /\ cli' = "snapping"
    /\ uid' = id
    /\ issued' = issued \cup {id}
    /\ assets' = target
    /\ snaps' = [snaps EXCEPT ![id] = Torn]
    /\ Unsafe
    /\ UNCHANGED <<conf, journal, esp, token, machine, boot, cached, task, contact,
                   target, env>>

\* ... and fills it, with the configuration that was read just before.
Snapshot ==
    /\ machine = "serving" /\ cli = "snapping"
    /\ cli' = "snapshot"
    /\ snaps' = [snaps EXCEPT ![uid] = SnapshotOf]
    /\ Unsafe
    /\ UNCHANGED <<conf, assets, journal, esp, token, machine, boot, cached, task, contact,
                   target, uid, issued, env>>

\* update_config: the change is journaled before it is made.
JournalUpdate ==
    /\ machine = "serving" /\ cli = "snapshot"
    /\ cli' = "journaled"
    /\ Record(uid, "update")
    /\ UNCHANGED <<conf, snaps, assets, esp, token, past, machine, boot, cached, task, contact,
                   target, uid, issued, env>>

WriteConfig ==
    /\ machine = "serving" /\ cli = "journaled"
    /\ cli' = "written"
    /\ conf' = target
    /\ Unsafe
    /\ UNCHANGED <<snaps, assets, journal, esp, token, machine, boot, cached, task, contact,
                   target, uid, issued, env>>

Sync ==
    /\ machine = "serving" /\ cli = "written"
    /\ cli' = "prepared"
    /\ past' = {}
    /\ UNCHANGED <<conf, snaps, assets, journal, esp, token, machine, boot, cached, task,
                   contact, target, uid, issued, env>>

\* Any step of the preparation may fail; what is staged stays, an empty snapshot
\* too when STATE is full.
PrepareFails ==
    /\ machine = "serving" /\ cli \in {"build", "snapping", "snapshot", "journaled"}
    /\ Ends("idle")
    /\ UNCHANGED <<disk, machine, boot, cached, task, contact, env>>

-----------------------------------------------------------------------------
(* Update: update/kexec.rs *)

\* The staged kernel is loaded and, after a sync(), booted.  PCR#11 is not
\* measured again.
Kexec ==
    /\ cli = "prepared"
    /\ machine = "serving"
    /\ assets \in Config
    /\ cli' = "polling"
    /\ kernel' = assets
    /\ marker' = uid
    /\ machine' = BootsTo(pcr)
    /\ val' = "none"
    /\ vid' = NoId
    /\ contact' = "none"
    /\ past' = {}
    /\ UNCHANGED <<conf, snaps, assets, journal, esp, token, pcr, cached, staged, target,
                   uid, issued, env>>

\* Mutant: the configuration of a failed kexec is left in place.
MutKexecFails ==
    /\ cli = "prepared"
    /\ machine = "serving"
    /\ Ends("idle")
    /\ UNCHANGED <<disk, machine, boot, cached, task, contact, env>>

\* kexec fails: revert_config restores the snapshot, if it is there, and keeps
\* it; an error is only logged.  muakctl, which has ended, does not read the
\* rollback that is journaled.
KexecFails ==
    /\ cli = "prepared"
    /\ machine = "serving"
    /\ Ends("idle")
    /\ \/ /\ snaps[uid] # NoFile
          /\ conf' = snaps[uid]
          /\ Unsafe
          /\ UNCHANGED mishap
       \/ /\ mishap' = (mishap \/ snaps[uid] # NoFile)
          /\ UNCHANGED <<conf, past>>
    /\ UNCHANGED <<snaps, assets, esp, token, machine, boot, cached, task, contact, faults>>

-----------------------------------------------------------------------------
(* Boot and start of provisiond: main.rs, update/mod.rs *)

ColdBoot ==
    /\ machine = "off"
    /\ esp \in Config
    /\ kernel' = esp
    /\ pcr' = esp
    /\ marker' = NoId
    /\ machine' = BootsTo(esp)
    /\ UNCHANGED <<disk, journal, cached, task, contact, client, env>>

HasUpdateMarker == marker # NoId

\* main: load the configuration, then check_and_handle_pending_validation.
StartQuietly ==
    /\ machine = "starting"
    /\ conf \in Config
    /\ Pending = {}
    /\ machine' = "serving"
    /\ cached' = conf
    /\ UNCHANGED <<disk, journal, boot, task, contact, client, env>>

\* find_pending returns some snapshot; a marker says that kexec booted.
StartValidating(id) ==
    /\ machine = "starting"
    /\ conf \in Config
    /\ id \in Pending
    /\ HasUpdateMarker
    /\ machine' = "serving"
    /\ cached' = conf
    /\ val' = "check"
    /\ vid' = id
    /\ UNCHANGED <<disk, journal, boot, staged, contact, client, env>>

\* Without one the update was not committed: snapshot::restore copies the snapshot
\* without parsing it, a mishap when it is torn, ...
StartReverting(id) ==
    /\ machine = "starting"
    /\ conf \in Config
    /\ id \in Pending
    /\ ~HasUpdateMarker
    /\ cached' = conf
    /\ \/ /\ machine' = "reverting"
          /\ vid' = id
          /\ conf' = snaps[id]
          /\ Unsafe
          /\ mishap' = (mishap \/ ~Whole(id))
       \/ machine' = "serving" /\ mishap' = TRUE /\ UNCHANGED <<conf, past, vid>>
    /\ UNCHANGED <<snaps, assets, journal, esp, token, boot, val, staged, contact, client,
                   faults>>

\* ... which is journaled.
TrackRevert ==
    /\ machine = "reverting"
    /\ machine' = "serving"
    /\ vid' = NoId
    /\ TrackRestore
    /\ UNCHANGED <<conf, esp, token, boot, cached, val, contact, client, env>>

-----------------------------------------------------------------------------
(* Validation: update/validation.rs, update/readiness.rs *)

\* Mutant: the marker is not compared with the update being validated.
MutIsOldKernel == FALSE

IsOldKernel == marker # vid

Validate(from, to) ==
    /\ machine = "serving"
    /\ val = from
    /\ val' = to
    /\ vid' = IF to = "none" THEN NoId ELSE vid
    /\ UNCHANGED <<machine, boot, cached, client, faults>>

\* Nothing but the place of the task changes.
Proceed(from, to) ==
    Validate(from, to) /\ UNCHANGED <<disk, journal, staged, contact, mishap>>

\* The snapshot must parse, or the validation ends, whichever update was booted;
\* the marker must be that of the update.
Check ==
    \/ /\ Validate("check", "none")
       /\ ~Whole(vid)
       /\ mishap' = TRUE
       /\ UNCHANGED <<disk, journal, staged, contact>>
    \/ Proceed("check", "rollback") /\ Whole(vid) /\ IsOldKernel
    \/ Proceed("check", "ready") /\ Whole(vid) /\ ~IsOldKernel

\* Mutant: the configuration on disk is compared, which is the new one by now.
MutReady ==
    \/ Proceed("ready", "confirm") /\ <<conf, cached>> \in Isolating
    \/ Proceed("ready", "health") /\ <<conf, cached>> \notin Isolating

\* await_all_ready succeeds; a change of network or port has to be confirmed.
Ready ==
    \/ Proceed("ready", "confirm") /\ <<snaps[vid], cached>> \in Isolating
    \/ Proceed("ready", "health") /\ <<snaps[vid], cached>> \notin Isolating

\* wait_for_confirmation takes the permit; it may have been stored before.
Confirm ==
    /\ contact = "stored"
    /\ Validate("confirm", "health")
    /\ contact' = "taken"
    /\ UNCHANGED <<disk, journal, staged, mishap>>

Health == Proceed("health", "commit")

\* The readiness window, the confirmation window or a health check fails.
ValidationFails == \E from \in {"ready", "confirm", "health"} : Proceed(from, "rollback")

-----------------------------------------------------------------------------
(* update/commit.rs *)

\* Mutant: the staged image is not parsed before it is used.
MutReseal ==
    /\ Validate("commit", "sealed")
    /\ staged' = assets
    /\ token' = IF token = NoFile \/ token # pcr THEN token ELSE assets
    /\ UNCHANGED <<conf, snaps, assets, journal, esp, past, contact, mishap>>

\* Copy the image and seal the LUKS key to it, when the TPM gives the key up.
Reseal ==
    /\ assets \in Config
    /\ Validate("commit", "sealed")
    /\ staged' = assets
    /\ token' = IF token = NoFile \/ token # pcr THEN token ELSE assets
    /\ UNCHANGED <<conf, snaps, assets, journal, esp, past, contact, mishap>>

\* Secure Boot keys are enrolled and the ESP mounted; creating the file
\* truncates the image that is there.
OpenEsp ==
    /\ Validate("sealed", "writing")
    /\ esp' = Torn
    /\ UNCHANGED <<conf, snaps, assets, journal, token, past, staged, contact, mishap>>

\* efi::unmount begins with a sync().
WriteEsp ==
    /\ Validate("writing", "installed")
    /\ esp' = staged
    /\ past' = {}
    /\ UNCHANGED <<conf, snaps, assets, journal, token, staged, contact, mishap>>

\* The update directory is removed; a failure is only logged.
Cleanup ==
    /\ Validate("installed", "none")
    /\ \/ RemoveUpdateDir /\ UNCHANGED mishap
       \/ UNCHANGED updateDir /\ mishap' = TRUE
    /\ UNCHANGED <<conf, journal, esp, token, contact>>

\* An error in any step rolls back; the last one, writing the LUKS key, comes
\* when the image on the ESP is whole.
CommitFails ==
    \/ Proceed("commit", "rollback")
    \/ Proceed("sealed", "rollback")
    \/ /\ Validate("writing", "rollback")
       /\ esp' \in {esp, staged}
       /\ mishap' = TRUE
       /\ UNCHANGED <<conf, snaps, assets, journal, token, past, staged, contact>>

-----------------------------------------------------------------------------
(* update/rollback.rs *)

\* The snapshot, which Check has parsed, becomes the configuration; on an error
\* the validation ends.
RestoreConfig ==
    \/ Validate("rollback", "none") /\ mishap' = TRUE /\ UNCHANGED <<disk, journal, staged, contact>>
    \/ /\ Validate("rollback", "restored")
       /\ Whole(vid)
       /\ conf' = snaps[vid]
       /\ Unsafe
       /\ UNCHANGED <<snaps, assets, journal, esp, token, staged, contact, mishap>>

TrackRollback ==
    /\ Validate("restored", "rebooting")
    /\ TrackRestore
    /\ UNCHANGED <<conf, esp, token, contact, mishap>>

\* The RPC that muakctl waits for ends in an error; a poll is repeated.
Disconnect ==
    \/ cli \in InFlight /\ Ends("idle")
    \/ cli \notin InFlight /\ UNCHANGED <<client, journal>>

\* provisiond is gone, and with it its tasks.
Stop(to) ==
    /\ machine' = to
    /\ val' = "none"
    /\ vid' = NoId
    /\ contact' = "none"
    /\ UNCHANGED <<boot, cached, staged>>

Reboot ==
    /\ machine = "serving"
    /\ val = "rebooting"
    /\ Stop("off") /\ Disconnect
    /\ past' = {}
    /\ UNCHANGED <<conf, snaps, assets, esp, token, env>>

\* Enrolling the old Secure Boot keys, or the reboot, fails.
RebootFails ==
    /\ Validate("rebooting", "none")
    /\ mishap' = TRUE
    /\ UNCHANGED <<disk, journal, staged, contact>>

-----------------------------------------------------------------------------
(* muakctl: cli/src/commands/update, and the status it polls *)

\* journal::find returns some entry of the update, in directory order; only
\* a rollback entry counts.
SaysRolledBack == "rollback" \in journal
SaysOtherwise == ~SaysRolledBack \/ "update" \in journal

Poll ==
    /\ cli = "polling"
    /\ machine = "serving"
    /\ UNCHANGED <<disk, machine, boot, cached, task, env>>

PollRolledBack == Poll /\ SaysRolledBack /\ Ends("idle") /\ UNCHANGED contact

\* A pending update is reported as such, and the contact confirms it.
PollPending ==
    /\ Poll
    /\ SaysOtherwise
    /\ snaps[uid] # NoFile
    /\ contact' = "stored"
    /\ UNCHANGED <<client, journal>>

PollCommitted ==
    /\ Poll
    /\ SaysOtherwise
    /\ snaps[uid] = NoFile
    /\ marker = uid
    /\ Ends("done")
    /\ UNCHANGED contact

\* muakctl is stopped before it triggers the update, or stops waiting: when
\* wait_for_update_completion times out the validation may still be running.
GiveUp ==
    /\ cli \in {"prepared", "polling"}
    /\ Ends("idle")
    /\ mishap' = (mishap \/ cli = "prepared")
    /\ UNCHANGED <<disk, machine, boot, cached, task, contact, faults>>

-----------------------------------------------------------------------------
(* Faults *)

\* A snapshot opened since the last sync(), whose data may not be on the disk.
Tearable(id) == \E s \in past : s.snaps[id] = Torn

\* A power failure may undo what was not synced.  It is a mishap while the image
\* on the ESP is overwritten, and when it leaves STATE as it was before the
\* snapshot of a committed update was removed.
PowerFails ==
    /\ faults < MaxFaults
    /\ machine # "off"
    /\ faults' = faults + 1
    /\ Stop("off") /\ Disconnect
    /\ past' = {}
    /\ \E s \in past \cup {State} :
          /\ conf' = s.conf
          /\ \E torn \in SUBSET {id \in Id : s.snaps[id] # NoFile /\ Tearable(id)} :
                snaps' = [id \in Id |-> IF id \in torn THEN Torn ELSE s.snaps[id]]
          /\ mishap' = (mishap \/ s.val \in {"writing", "installed"})
    /\ UNCHANGED <<assets, esp, token>>

\* provisiond exits and granola restarts it.  That is a mishap in the windows of
\* a commit too, between the restore and the reboot of a rollback, where the
\* snapshot that is still there is validated once more, and when muakctl has an
\* update prepared and triggers it all the same.
DaemonRestarts ==
    /\ faults < MaxFaults
    /\ machine \in {"reverting", "serving"}
    /\ faults' = faults + 1
    /\ Stop("starting")
    /\ \/ /\ Disconnect
          /\ mishap' = (mishap \/ val \in {"writing", "installed", "restored", "rebooting"})
       \/ cli = "prepared" /\ UNCHANGED <<client, journal>> /\ mishap' = TRUE
    /\ past' = {s \in past : faults' < MaxFaults}
    /\ UNCHANGED <<conf, snaps, assets, esp, token>>

-----------------------------------------------------------------------------
Prepare ==
    \/ \E id \in Id : OpenSnapshot(id)
    \/ Snapshot \/ JournalUpdate \/ WriteConfig \/ Sync \/ PrepareFails

Start ==
    \/ StartQuietly \/ TrackRevert
    \/ \E id \in Id : StartValidating(id) \/ StartReverting(id)

Validation ==
    \/ Check \/ Ready \/ Confirm \/ Health \/ ValidationFails
    \/ Reseal \/ OpenEsp \/ WriteEsp \/ Cleanup \/ CommitFails
    \/ RestoreConfig \/ TrackRollback \/ Reboot \/ RebootFails

Next ==
    \/ \E c \in Config : PrepareUpdate(c) \/ AlreadyCurrent(c)
    \/ Prepare \/ Kexec \/ KexecFails
    \/ ColdBoot \/ Start \/ Validation
    \/ PollRolledBack \/ PollPending \/ PollCommitted \/ GiveUp
    \/ PowerFails \/ DaemonRestarts

Spec == Init /\ [][Next]_vars

\* A machine that is off is switched on, tasks that can run do run (the
\* windows of the validation are timeouts), and muakctl goes on with an update
\* it has prepared.
Fairness ==
    /\ WF_vars(Prepare) /\ WF_vars(Kexec \/ KexecFails)
    /\ WF_vars(ColdBoot) /\ WF_vars(Start) /\ WF_vars(Validation)

FairSpec == Spec /\ Fairness

-----------------------------------------------------------------------------
(* Properties *)

Stage == {"none", "check", "ready", "confirm", "health", "commit", "sealed", "writing",
          "installed", "rollback", "restored", "rebooting"}

\* Every variable has its type.
TypeOK ==
    /\ conf \in Config \cup {Torn}
    /\ snaps \in [Id -> Content]
    /\ assets \in Content
    /\ journal \subseteq {"update", "rollback"}
    /\ esp \in Config \cup {Torn}
    /\ token \in Config \cup {NoFile}
    /\ past \subseteq [conf: Config \cup {Torn}, snaps: [Id -> Content], val: Stage]
    /\ machine \in {"off", "starting", "reverting", "serving", "maintenance"}
    /\ kernel \in Config
    /\ pcr \in Config
    /\ marker \in Id \cup {NoId}
    /\ cached \in Config
    /\ val \in Stage
    /\ vid \in Id \cup {NoId}
    /\ staged \in Config \cup {NoFile}
    /\ contact \in Permit
    /\ cli \in InFlight \cup {"idle", "current", "polling", "done"}
    /\ target \in Config
    /\ uid \in Id \cup {NoId}
    /\ issued \subseteq Id
    /\ faults \in 0..MaxFaults
    /\ mishap \in BOOLEAN

\* When nothing is being updated, validated or reverted, the configuration is
\* the one the image on the ESP was built for: whatever failed on the way, an
\* update took effect as a whole or not at all.
NoDrift ==
    machine = "serving" /\ val = "none" /\ cli \notin InFlight /\ ~mishap => conf = esp

\* Whatever fails and whoever gives up, the image on the ESP is replaced only by
\* a validation of the update that the running kernel was booted for.
CommitsMarked ==
    [][val = "writing" /\ val' = "installed" => marker = vid]_vars

\* The image that is committed is the one that was booted and validated, and the
\* configuration in force is the one it was built for.
CommitsWhatRan ==
    [][val = "writing" /\ val' = "installed" /\ ~mishap => esp' = kernel /\ esp' = conf]_vars

\* An update that changes the network or the port is committed only after
\* muakctl has reached the provisiond that validates it, which runs under the new
\* configuration: the decision to ask is taken on a cached configuration and a
\* snapshot, and the permit may be stored long before it is waited for.
ConfirmedWhenIsolating ==
    [][val = "writing" /\ val' = "installed" /\ ~mishap
            /\ <<snaps[vid], esp'>> \in Isolating
        => contact # "none"]_vars

\* The image that is installed: while it is overwritten, still the one of the
\* snapshot.
InstalledImage == IF val = "writing" THEN snaps[vid] ELSE esp

\* A machine that is off runs, when it is switched on, the image on the ESP.
Running == IF machine = "off" THEN InstalledImage ELSE kernel

Atomic == INSTANCE AtomicUpdate WITH
    config <- conf, earlier <- {s.conf : s \in past}, installed <- InstalledImage,
    running <- Running, broken <- mishap

\* Preparation, kexec, validation, commit, rollback and revert implement an
\* atomic update: whatever fails outside the windows of mishap, no update is
\* begun on top of another, what is installed is what runs, and what is not
\* installed is undone.
ImplementsAtomicUpdate == Atomic!Spec

\* The configuration in force, the image a cold boot runs and the kernel that runs
\* are of at most two versions: a failed update never mixes with an earlier or a
\* later one.
TwoVersions ==
    ~mishap => conf = InstalledImage \/ Running = InstalledImage \/ Running = conf

\* An update that overwrote the configuration ends: the configuration is again
\* the one of the installed image, by a commit or by a rollback, unless the machine
\* boots to where it cannot unlock STATE any more (StateUnlocks).
Resolves == conf # esp ~> conf = esp \/ mishap \/ machine = "maintenance"

\* README.md:12 "Atomic updates for safe, predictable updates/rollbacks": the
\* installed image can unlock STATE whenever it is booted.
StateUnlocks == machine # "maintenance"

\* cli/src/commands/update/mod.rs:270 "Update {update_id} committed successfully!"
\* is printed only when the image on the ESP is the one that was asked for.
CommittedIsTrue ==
    [][cli = "polling" /\ cli' = "done" => esp = target]_vars

\* update/mod.rs:372 "Returns `true` when the requested update would leave the
\* system unchanged."  With no update pending, muakctl is told that there is
\* nothing to do only when the configuration is the one it asked for.
NothingToDo ==
    [][cli' = "current" /\ cli # "current" /\ Pending = {} /\ conf # Torn
        => conf = target']_vars

=============================================================================

---------------------------- MODULE UpdateProofs ----------------------------
(***************************************************************************)
(* Proofs about Update, for any configurations, identifiers and number of  *)
(* faults.                                                                 *)
(***************************************************************************)
EXTENDS Update, TLAPS

\* Where the validation of an update has found its marker on the command line.
Validated == {"ready", "confirm", "health", "commit", "sealed", "writing", "installed"}

\* A validation runs in a started provisiond and has an update; so has a revert.
TaskHasUpdate ==
    /\ val # "none" => machine = "serving" /\ vid \in Id
    /\ machine = "reverting" => vid \in Id

\* From the snapshot on, a preparation has an identifier.
ClientHasUpdate == cli \in {"snapping"} \cup Snapshotted => uid \in Id

\* A commit has copied a whole image before it goes to the ESP.
ImageIsStaged == val \in {"sealed", "writing", "installed"} => staged \in Config

\* The kernel that runs was booted for the update that is being validated.
KernelIsMarked == val \in Validated => marker = vid

\* The inductive invariant.  The types need the first three: what is journaled
\* needs an identifier, and the ESP a whole image.
IInv ==
    /\ TypeOK
    /\ TaskHasUpdate
    /\ ClientHasUpdate
    /\ ImageIsStaged
    /\ KernelIsMarked

-----------------------------------------------------------------------------
(* One lemma for each group of actions *)

\* A change adds at most the present state of STATE to what may come back.
LEMMA UnsafeFacts ==
    ASSUME TypeOK, Unsafe
    PROVE  /\ past' \subseteq past \cup {State}
           /\ past' \subseteq [conf: Config \cup {Torn}, snaps: [Id -> Content], val: Stage]
  <1>1. State \in [conf: Config \cup {Torn}, snaps: [Id -> Content], val: Stage]
    BY DEF State, TypeOK
  <1>2. past' \subseteq past \cup {State}
    BY DEF Unsafe
  <1>3. QED
    BY <1>1, <1>2 DEF TypeOK

\* The installed system satisfies the invariant.
LEMMA InitIInv == Init => IInv
  <1> SUFFICES ASSUME Init PROVE IInv
    OBVIOUS
  <1>1. token \in Config \cup {NoFile}
    BY UpdateAssumption DEF UpdateAssumption, Init
  <1>2. contact \in Permit /\ mishap \in BOOLEAN
    BY DEF Init, Permit
  <1>3. faults \in 0..MaxFaults
    BY UpdateAssumption DEF UpdateAssumption, Init
  <1>4. TypeOK
    BY <1>1, <1>2, <1>3, UpdateAssumption
    DEF UpdateAssumption, Init, TypeOK, Content, InFlight, Snapshotted, Stage
  <1>5. QED
    BY <1>4 DEF Init, IInv, TaskHasUpdate, ClientHasUpdate, ImageIsStaged, KernelIsMarked,
       Validated, Snapshotted

\* Requests and the steps of a preparation preserve it.
LEMMA PrepareIInv ==
    ASSUME IInv, Prepare \/ \E c \in Config : PrepareUpdate(c) \/ AlreadyCurrent(c)
    PROVE  IInv'
  <1> USE UpdateAssumption DEF UpdateAssumption, IInv, TaskHasUpdate, ClientHasUpdate,
          ImageIsStaged, KernelIsMarked, disk, boot, task, env, Content, InFlight, Snapshotted
  <1>1. ASSUME NEW c \in Config, PrepareUpdate(c) \/ AlreadyCurrent(c) PROVE IInv'
    <2>1. mishap' \in BOOLEAN
      BY <1>1 DEF PrepareUpdate, AlreadyCurrent, TypeOK
    <2>2. QED
      BY <1>1, <2>1 DEF TypeOK, PrepareUpdate, AlreadyCurrent
  <1>2. ASSUME NEW id \in Id, OpenSnapshot(id) PROVE IInv'
    BY <1>2, UnsafeFacts DEF TypeOK, OpenSnapshot
  <1>3. CASE Snapshot
    BY <1>3, UnsafeFacts DEF TypeOK, Snapshot, SnapshotOf
  <1>4. CASE JournalUpdate
    BY <1>4 DEF TypeOK, JournalUpdate, Record
  <1>5. CASE WriteConfig
    BY <1>5, UnsafeFacts DEF TypeOK, WriteConfig
  <1>6. CASE Sync \/ PrepareFails
    BY <1>6 DEF TypeOK, Sync, PrepareFails, Ends
  <1>7. QED
    BY <1>1, <1>2, <1>3, <1>4, <1>5, <1>6 DEF Prepare

\* So do the kexec and its failure.
LEMMA KexecIInv == IInv /\ (Kexec \/ KexecFails) => IInv'
  <1> SUFFICES ASSUME IInv, Kexec \/ KexecFails PROVE IInv'
    OBVIOUS
  <1> USE UpdateAssumption DEF UpdateAssumption, IInv, TaskHasUpdate, ClientHasUpdate,
          ImageIsStaged, KernelIsMarked, disk, boot, task, env, Content, InFlight, Snapshotted
  <1>1. CASE Kexec
    <2>1. machine' \in {"starting", "maintenance"}
      BY <1>1 DEF Kexec, BootsTo
    <2>2. QED
      BY <1>1, <2>1 DEF TypeOK, Permit, Kexec, Validated, Stage
  <1>2. CASE KexecFails
    <2>1. uid \in Id /\ snaps[uid] \in Content
      BY <1>2 DEF KexecFails, TypeOK
    <2>2. conf' \in Config \cup {Torn}
      BY <1>2, <2>1 DEF KexecFails, TypeOK
    <2>3. past' \subseteq [conf: Config \cup {Torn}, snaps: [Id -> Content], val: Stage]
      BY <1>2, UnsafeFacts DEF KexecFails, TypeOK
    <2>4. mishap' \in BOOLEAN
      BY <1>2 DEF KexecFails, TypeOK
    <2>5. QED
      BY <1>2, <2>2, <2>3, <2>4 DEF KexecFails, Ends, TypeOK
  <1>3. QED
    BY <1>1, <1>2

\* Removing the update directory, or not, keeps its types.
LEMMA TrackRestoreFacts ==
    ASSUME TypeOK, TrackRestore
    PROVE  /\ snaps' \in [Id -> Content]
           /\ assets' \in Content
           /\ staged' \in Config \cup {NoFile}
           /\ journal' \subseteq {"update", "rollback"}
           /\ past' \subseteq [conf: Config \cup {Torn}, snaps: [Id -> Content], val: Stage]
  BY UnsafeFacts DEF TrackRestore, TypeOK, Record, RemoveUpdateDir, updateDir, Content

\* Boot and the start of provisiond preserve the invariant.
LEMMA StartIInv == IInv /\ (ColdBoot \/ Start) => IInv'
  <1> SUFFICES ASSUME IInv, ColdBoot \/ Start PROVE IInv'
    OBVIOUS
  <1> USE UpdateAssumption DEF UpdateAssumption, IInv, TaskHasUpdate, ClientHasUpdate,
          ImageIsStaged, KernelIsMarked, disk, boot, task, client, env, Content, InFlight,
          Snapshotted
  <1>1. CASE ColdBoot
    <2>1. machine' \in {"starting", "maintenance"}
      BY <1>1 DEF ColdBoot, BootsTo
    <2>2. QED
      BY <1>1, <2>1 DEF TypeOK, ColdBoot, Validated
  <1>2. CASE StartQuietly
    BY <1>2 DEF TypeOK, StartQuietly
  <1>3. CASE TrackRevert
    BY <1>3, TrackRestoreFacts DEF TypeOK, TrackRevert, Validated
  <1>4. ASSUME NEW id \in Id, StartValidating(id) PROVE IInv'
    BY <1>4 DEF TypeOK, StartValidating, Validated, Stage
  <1>5. ASSUME NEW id \in Id, StartReverting(id) PROVE IInv'
    <2>1. snaps[id] \in Config \cup {Torn}
      BY <1>5 DEF TypeOK, StartReverting, Pending
    <2>2. val = "none"
      BY <1>5 DEF StartReverting
    <2>3. mishap' \in BOOLEAN
      BY <1>5 DEF StartReverting, TypeOK
    <2>4. past' \subseteq [conf: Config \cup {Torn}, snaps: [Id -> Content], val: Stage]
      BY <1>5, UnsafeFacts DEF StartReverting, TypeOK
    <2>5. QED
      BY <1>5, <2>1, <2>2, <2>3, <2>4 DEF TypeOK, StartReverting, Validated
  <1>6. QED
    BY <1>1, <1>2, <1>3, <1>4, <1>5 DEF Start

\* The validation preserves it, up to the decision ...
LEMMA ValidateIInv ==
    ASSUME IInv, Check \/ Ready \/ Confirm \/ Health \/ ValidationFails
    PROVE  IInv'
  <1> USE UpdateAssumption DEF UpdateAssumption, IInv, TaskHasUpdate, ClientHasUpdate,
          ImageIsStaged, KernelIsMarked, Validated, disk, boot, client, Proceed, Validate
  <1>1. CASE Check
    BY <1>1 DEF TypeOK, Stage, Check, IsOldKernel
  <1>2. CASE Ready \/ Confirm \/ Health
    BY <1>2 DEF TypeOK, Stage, Permit, Ready, Confirm, Health
  <1>3. CASE ValidationFails
    BY <1>3 DEF TypeOK, Stage, ValidationFails
  <1>4. QED
    BY <1>1, <1>2, <1>3

\* ... in the commit ...
LEMMA CommitIInv ==
    ASSUME IInv, Reseal \/ OpenEsp \/ WriteEsp \/ Cleanup \/ CommitFails
    PROVE  IInv'
  <1> USE UpdateAssumption DEF UpdateAssumption, IInv, TaskHasUpdate, ClientHasUpdate,
          ImageIsStaged, KernelIsMarked, Validated, disk, boot, client, Proceed, Validate,
          Content
  <1>1. CASE Reseal
    BY <1>1 DEF TypeOK, Stage, Reseal
  <1>2. CASE OpenEsp
    BY <1>2 DEF TypeOK, Stage, OpenEsp
  <1>3. CASE WriteEsp
    BY <1>3 DEF TypeOK, Stage, WriteEsp
  <1>4. CASE Cleanup
    BY <1>4, UnsafeFacts DEF TypeOK, Stage, Cleanup, RemoveUpdateDir, updateDir
  <1>5. CASE CommitFails
    BY <1>5 DEF TypeOK, Stage, CommitFails
  <1>6. QED
    BY <1>1, <1>2, <1>3, <1>4, <1>5

\* ... and in the rollback.
LEMMA RollbackIInv ==
    ASSUME IInv, RestoreConfig \/ TrackRollback \/ Reboot \/ RebootFails
    PROVE  IInv'
  <1> USE UpdateAssumption DEF UpdateAssumption, IInv, TaskHasUpdate, ClientHasUpdate,
          ImageIsStaged, KernelIsMarked, Validated, disk, boot, client, env, Proceed, Validate
  <1>1. CASE RestoreConfig
    BY <1>1, UnsafeFacts DEF TypeOK, Stage, RestoreConfig, Whole
  <1>2. CASE TrackRollback
    BY <1>2, TrackRestoreFacts DEF TypeOK, Stage, TrackRollback
  <1>3. CASE Reboot
    BY <1>3 DEF TypeOK, Stage, Permit, Reboot, Stop, Disconnect, Ends, InFlight, Snapshotted
  <1>4. CASE RebootFails
    BY <1>4 DEF TypeOK, Stage, RebootFails
  <1>5. QED
    BY <1>1, <1>2, <1>3, <1>4

\* The polls of muakctl and its giving up preserve it.
LEMMA PollIInv ==
    ASSUME IInv, PollRolledBack \/ PollPending \/ PollCommitted \/ GiveUp
    PROVE  IInv'
  <1> USE UpdateAssumption DEF UpdateAssumption, IInv, TaskHasUpdate, ClientHasUpdate,
          ImageIsStaged, KernelIsMarked, disk, boot, task, env, InFlight, Snapshotted
  <1>1. CASE PollRolledBack \/ PollPending \/ PollCommitted
    <2>1. contact' \in Permit
      BY <1>1 DEF TypeOK, Permit, PollRolledBack, PollPending, PollCommitted
    <2>2. Poll /\ (Ends("idle") \/ Ends("done") \/ UNCHANGED <<client, journal>>)
      BY <1>1 DEF PollRolledBack, PollPending, PollCommitted
    <2>3. QED
      BY <2>1, <2>2 DEF TypeOK, Poll, Ends, client
  <1>2. CASE GiveUp
    <2>1. mishap' \in BOOLEAN
      BY <1>2 DEF GiveUp, TypeOK
    <2>2. QED
      BY <1>2, <2>1 DEF TypeOK, GiveUp, Ends
  <1>3. QED
    BY <1>1, <1>2

\* Power failures and restarts of provisiond preserve it: no task survives them.
LEMMA FaultIInv == IInv /\ (PowerFails \/ DaemonRestarts) => IInv'
  <1> SUFFICES ASSUME IInv, PowerFails \/ DaemonRestarts PROVE IInv'
    OBVIOUS
  <1>1. mishap' \in BOOLEAN /\ contact' \in Permit
    BY DEF Permit, PowerFails, DaemonRestarts, Stop, IInv, TypeOK
  <1>2. val' = "none" /\ machine' \in {"off", "starting"}
    BY DEF PowerFails, DaemonRestarts, Stop
  <1>3. faults' \in 0..MaxFaults
    BY UpdateAssumption DEF UpdateAssumption, PowerFails, DaemonRestarts, IInv, TypeOK
  <1>4. conf' \in Config \cup {Torn} /\ snaps' \in [Id -> Content]
    <2>1. CASE PowerFails
      <3>1. PICK s \in past \cup {State}, torn \in SUBSET Id :
                /\ conf' = s.conf
                /\ snaps' = [id \in Id |-> IF id \in torn THEN Torn ELSE s.snaps[id]]
        BY <2>1 DEF PowerFails
      <3>2. s.conf \in Config \cup {Torn} /\ s.snaps \in [Id -> Content]
        BY DEF State, IInv, TypeOK
      <3>3. QED
        BY <3>1, <3>2 DEF Content
    <2>2. CASE DaemonRestarts
      BY <2>2 DEF DaemonRestarts, IInv, TypeOK
    <2>3. QED
      BY <2>1, <2>2
  <1>5. past' \subseteq past
    BY DEF PowerFails, DaemonRestarts
  <1>6. Ends("idle") \/ UNCHANGED <<client, journal>>
    BY DEF PowerFails, DaemonRestarts, Disconnect
  <1>7. UNCHANGED <<assets, esp, token, boot, cached, staged>> /\ vid' = NoId
    BY DEF PowerFails, DaemonRestarts, Stop
  <1>8. TypeOK'
    BY <1>1, <1>2, <1>3, <1>4, <1>5, <1>6, <1>7, UpdateAssumption
    DEF UpdateAssumption, IInv, TypeOK, Stage, Ends, client, boot, InFlight, Snapshotted
  <1>9. QED
    BY <1>2, <1>6, <1>8 DEF IInv, TaskHasUpdate, ClientHasUpdate, ImageIsStaged,
       KernelIsMarked, Validated, Snapshotted, Ends, client

\* Every step preserves the invariant.
LEMMA NextIInv == IInv /\ [Next]_vars => IInv'
  <1> SUFFICES ASSUME IInv, [Next]_vars PROVE IInv'
    OBVIOUS
  <1>1. CASE UNCHANGED vars
    BY <1>1 DEF vars, disk, boot, task, client, env, IInv, TypeOK, TaskHasUpdate,
       ClientHasUpdate, ImageIsStaged, KernelIsMarked
  <1>2. CASE Validation
    BY <1>2, ValidateIInv, CommitIInv, RollbackIInv DEF Validation
  <1>3. QED
    BY <1>1, <1>2, PrepareIInv, KexecIInv, StartIInv, PollIInv, FaultIInv DEF Next

-----------------------------------------------------------------------------
(* Theorems *)

\* The invariant holds in every reachable state.
THEOREM Inductive == Spec => []IInv
  BY InitIInv, NextIInv, PTL DEF Spec

\* Every variable keeps its type: in particular what a commit writes to the ESP
\* is a whole image, and what is journaled names an update.
THEOREM TypeCorrect == Spec => []TypeOK
  <1>1. IInv => TypeOK
    BY DEF IInv
  <1>2. QED
    BY <1>1, Inductive, PTL

\* Whatever fails and whoever gives up, commit::apply replaces the image on the
\* ESP only under the kernel that was booted for the update being validated.
THEOREM CommitsMarkedHolds == Spec => CommitsMarked
  <1>1. IInv => [val = "writing" /\ val' = "installed" => marker = vid]_vars
    BY DEF IInv, KernelIsMarked, Validated
  <1>2. QED
    BY <1>1, Inductive, PTL DEF CommitsMarked

-----------------------------------------------------------------------------
(* An update takes effect as a whole or not at all *)

\* Identifiers are not used twice; a revert is no boot of a kexec.
IdsAreFresh ==
    /\ Pending \subseteq issued
    /\ \A s \in past : \A id \in Id : s.snaps[id] # NoFile => id \in issued
    /\ cli \in {"snapping"} \cup Snapshotted => uid \in issued
    /\ marker \in issued \cup {NoId}
    /\ machine = "reverting" => marker = NoId

\* The image on the ESP is whole but while it is overwritten.
EspWhole == val # "writing" => esp \in Config

\* Every snapshot that is whole holds the configuration of the image on the ESP,
\* until a commit replaces that image.
SnapsCommitted ==
    val \notin {"writing", "installed"} => \A id \in Pending : snaps[id] \in {esp, Torn}

\* STATE had a way back to the configuration of the image before each change that
\* is not synced, but for the clean-up of a commit.
PastCommitted ==
    \A s \in past : s.val \notin {"writing", "installed"} =>
        /\ \A id \in Id : s.snaps[id] \in {NoFile, Torn, esp}
        /\ s.conf = esp \/ \E id \in Id : s.snaps[id] # NoFile

\* A start of provisiond finds the configuration of the image, or a snapshot.
CanUndo ==
    machine \in {"off", "starting", "maintenance"} => conf = esp \/ Pending # {}

\* A restore has put the configuration of the image back.
Restored ==
    machine = "reverting" \/ val \in {"restored", "rebooting"} => conf = esp

\* With nothing being validated, the update the kernel was booted for is over and
\* only a preparation has changed the configuration.
Quiet ==
    machine = "serving" /\ val = "none" =>
        /\ marker \notin Pending
        /\ cli \notin {"written", "prepared"} => conf = esp

\* No preparation runs beside a validation.
PreparesAlone == cli \in InFlight => machine = "serving" /\ val = "none"

\* A preparation has its snapshot, its assets, and then its configuration.
Prepared ==
    /\ cli \in {"snapping"} \cup Snapshotted => uid \in Pending /\ assets = target
    /\ cli \in Snapshotted => Whole(uid)
    /\ cli \in {"written", "prepared"} => conf = target

\* The update that is validated keeps its snapshot to the end, and it is whole once
\* it was parsed.
Tracked ==
    /\ val = "check" => vid \in Pending
    /\ val \notin {"none", "check", "restored", "rebooting"} => Whole(vid)

\* A kernel that was booted for a pending update is that of the staged assets, the
\* configuration is theirs, and all of it is on the disk.
Booted ==
    /\ machine \in {"starting", "serving"}
    /\ val \notin {"restored", "rebooting"}
    /\ marker \in Pending
    => conf = assets /\ kernel = assets /\ past = {}

\* What a commit copied is what runs, and then what is installed.
StagedRan ==
    /\ val \in {"sealed", "writing", "installed"} => staged = conf /\ staged = kernel
    /\ val = "installed" => esp = staged

\* What holds as long as no fault falls in one of the windows of mishap.
Consistent ==
    /\ EspWhole
    /\ SnapsCommitted
    /\ PastCommitted
    /\ CanUndo
    /\ Restored
    /\ Quiet
    /\ PreparesAlone
    /\ Prepared
    /\ Tracked
    /\ Booted
    /\ StagedRan

\* The invariant behind NoDrift and CommitsWhatRan.
DriftInv == IInv /\ IdsAreFresh /\ (~mishap => Consistent)

\* The installed system satisfies it.
LEMMA InitDrift == Init => DriftInv
  <1> SUFFICES ASSUME Init PROVE DriftInv
    OBVIOUS
  <1>1. IInv
    BY InitIInv
  <1>2. Pending = {}
    BY DEF Init, Pending
  <1>3. QED
    BY <1>1, <1>2, UpdateAssumption
    DEF UpdateAssumption, Init, DriftInv, IdsAreFresh, Consistent, EspWhole, SnapsCommitted,
        PastCommitted, CanUndo, Restored, Quiet, PreparesAlone, Prepared, Tracked, Booted, StagedRan,
        InFlight, Snapshotted

\* No step takes a mishap back.
LEMMA MishapStays ==
    ASSUME IInv, [Next]_vars, ~mishap'
    PROVE  ~mishap
  <1>1. CASE UNCHANGED mishap
    BY <1>1
  <1>2. CASE Next
    BY <1>2 DEF IInv, TypeOK, Next, Prepare, Start, Validation, PrepareUpdate, AlreadyCurrent, OpenSnapshot,
       Snapshot, JournalUpdate, WriteConfig, Sync, PrepareFails, Kexec, KexecFails, ColdBoot,
       StartQuietly, StartValidating, StartReverting, TrackRevert, Check, Ready, Confirm,
       Health, ValidationFails, Reseal, OpenEsp, WriteEsp, Cleanup, CommitFails,
       RestoreConfig, TrackRollback, Reboot, RebootFails, PollRolledBack, PollPending,
       PollCommitted, Poll, GiveUp, PowerFails, DaemonRestarts, Proceed, Validate, env
  <1>3. QED
    BY <1>1, <1>2 DEF vars, env

\* Every step keeps identifiers fresh.
LEMMA FreshStays ==
    ASSUME IInv, IdsAreFresh, [Next]_vars
    PROVE  IdsAreFresh'
  <1> USE UpdateAssumption DEF UpdateAssumption, IdsAreFresh, Pending, IInv, TypeOK, Snapshotted
  <1>0. ASSUME Unsafe, issued \subseteq issued'
        PROVE  \A s \in past' : \A id \in Id : s.snaps[id] # NoFile => id \in issued'
    BY <1>0, UnsafeFacts DEF State
  <1>1. CASE \/ \E c \in Config : PrepareUpdate(c) \/ AlreadyCurrent(c)
             \/ JournalUpdate \/ Sync \/ PrepareFails \/ GiveUp
             \/ PollRolledBack \/ PollPending \/ PollCommitted
    BY <1>1 DEF PrepareUpdate, AlreadyCurrent, JournalUpdate, Sync, PrepareFails, Ends,
       PollRolledBack, PollPending, PollCommitted, Poll, GiveUp, disk, boot, client
  <1>2. ASSUME NEW id \in Id, OpenSnapshot(id) PROVE IdsAreFresh'
    BY <1>0, <1>2 DEF OpenSnapshot, boot
  <1>3. CASE Snapshot \/ WriteConfig
    BY <1>0, <1>3 DEF Snapshot, WriteConfig, boot
  <1>4. CASE Kexec \/ KexecFails
    BY <1>0, <1>4 DEF Kexec, KexecFails, Ends, BootsTo, disk, boot
  <1>5. CASE ColdBoot \/ StartQuietly \/ \E id \in Id : StartValidating(id)
    BY <1>5 DEF ColdBoot, StartQuietly, StartValidating, BootsTo, disk, boot, client
  <1>6. ASSUME NEW id \in Id, StartReverting(id) PROVE IdsAreFresh'
    BY <1>0, <1>6 DEF StartReverting, HasUpdateMarker, boot, client
  <1>7. CASE TrackRevert \/ TrackRollback \/ Cleanup
    BY <1>0, <1>7 DEF TrackRevert, TrackRollback, Cleanup, TrackRestore, RemoveUpdateDir,
       updateDir, Validate, boot, client
  <1>8. CASE \/ Check \/ Ready \/ Confirm \/ Health \/ ValidationFails
             \/ Reseal \/ OpenEsp \/ WriteEsp \/ CommitFails \/ RebootFails
    BY <1>8 DEF Check, Ready, Confirm, Health, ValidationFails, Reseal, OpenEsp, WriteEsp,
       CommitFails, RebootFails, Proceed, Validate, disk, boot, client
  <1>9. CASE RestoreConfig
    BY <1>0, <1>9 DEF RestoreConfig, Validate, disk, boot, client
  <1>10. CASE Reboot \/ DaemonRestarts
    BY <1>10 DEF Reboot, DaemonRestarts, Stop, Disconnect, Ends, disk, boot, client
  <1>11. CASE PowerFails
    <2>1. PICK s \in past \cup {State}, torn \in SUBSET Id :
              /\ \A id \in torn : s.snaps[id] # NoFile
              /\ snaps' = [id \in Id |-> IF id \in torn THEN Torn ELSE s.snaps[id]]
      BY <1>11 DEF PowerFails
    <2>2. \A id \in Id : s.snaps[id] # NoFile => id \in issued
      BY DEF State
    <2>3. Pending' \subseteq issued
      BY <2>1, <2>2
    <2>4. QED
      BY <1>11, <2>3 DEF PowerFails, Stop, Disconnect, Ends, boot, client
  <1>12. CASE UNCHANGED vars
    BY <1>12 DEF vars, disk, boot, client
  <1>13. QED
    BY <1>1, <1>2, <1>3, <1>4, <1>5, <1>6, <1>7, <1>8, <1>9, <1>10, <1>11, <1>12
    DEF Next, Prepare, Start, Validation

\* What may come back stays committed as long as the image is not replaced: when
\* nothing new may come back ...
LEMMA PastKept ==
    ASSUME PastCommitted, past' \subseteq past, esp' = esp
    PROVE  PastCommitted'
  BY DEF PastCommitted

\* ... and when the present state may, which has a way back.
LEMMA PastGrows ==
    ASSUME TypeOK, SnapsCommitted, PastCommitted, past' \subseteq past \cup {State}, esp' = esp,
           conf = esp \/ Pending # {}
    PROVE  PastCommitted'
  <1> SUFFICES ASSUME NEW s \in past', s.val \notin {"writing", "installed"}
               PROVE  /\ \A id \in Id : s.snaps[id] \in {NoFile, Torn, esp}
                      /\ s.conf = esp \/ \E id \in Id : s.snaps[id] # NoFile
    BY DEF PastCommitted
  <1>1. CASE s \in past
    BY <1>1 DEF PastCommitted
  <1>2. CASE s = State
    BY <1>2 DEF State, SnapsCommitted, Pending, TypeOK
  <1>3. QED
    BY <1>1, <1>2

\* As long as no fault falls in a window, requests and preparations keep the
\* files consistent ...
LEMMA PrepareDrift ==
    ASSUME DriftInv, ~mishap, ~mishap',
           Prepare \/ \E c \in Config : PrepareUpdate(c) \/ AlreadyCurrent(c)
    PROVE  Consistent'
  <1> USE UpdateAssumption DEF UpdateAssumption, DriftInv, IInv, IdsAreFresh, Consistent, EspWhole,
          SnapsCommitted, CanUndo, Restored, Quiet, PreparesAlone, Prepared, Tracked, Booted,
          StagedRan, Pending, disk, boot, task, env, InFlight, Snapshotted
  <1>1. ASSUME NEW c \in Config, PrepareUpdate(c) PROVE Consistent'
    <2>1. val = "none"
      BY <1>1 DEF PrepareUpdate
    <2>2. QED
      BY <1>1, <2>1, PastKept DEF PrepareUpdate
  <1>2. ASSUME NEW c \in Config, AlreadyCurrent(c) PROVE Consistent'
    BY <1>2, PastKept DEF AlreadyCurrent, Whole
  <1>3. ASSUME NEW id \in Id, OpenSnapshot(id) PROVE Consistent'
    <2>1. conf = esp /\ val = "none" /\ marker # id
      BY <1>3 DEF OpenSnapshot, TypeOK
    <2>2. /\ snaps'[id] = Torn
          /\ \A other \in Id \ {id} : snaps'[other] = snaps[other]
      BY <1>3 DEF OpenSnapshot, TypeOK
    <2>3. PastCommitted'
      BY <1>3, <2>1, UnsafeFacts, PastGrows DEF OpenSnapshot
    <2>4. QED
      BY <1>3, <2>1, <2>2, <2>3 DEF OpenSnapshot
  <1>4. CASE Snapshot
    <2>1. conf = esp /\ val = "none" /\ esp \in Config /\ uid \in Id
      BY <1>4 DEF Snapshot, TypeOK, ClientHasUpdate
    <2>2. /\ snaps'[uid] = esp
          /\ \A other \in Id \ {uid} : snaps'[other] = snaps[other]
      BY <1>4, <2>1 DEF Snapshot, SnapshotOf, TypeOK
    <2>3. PastCommitted'
      BY <1>4, <2>1, UnsafeFacts, PastGrows DEF Snapshot
    <2>4. marker # uid
      BY <1>4, <2>1 DEF Snapshot
    <2>5. QED
      BY <1>4, <2>1, <2>2, <2>3, <2>4 DEF Snapshot, Whole
  <1>5. CASE JournalUpdate \/ Sync \/ PrepareFails
    BY <1>5, PastKept DEF JournalUpdate, Sync, PrepareFails, Ends, Whole
  <1>6. CASE WriteConfig
    <2>1. PastCommitted'
      BY <1>6, UnsafeFacts, PastGrows DEF WriteConfig
    <2>2. QED
      BY <1>6, <2>1 DEF WriteConfig, Whole
  <1>7. QED
    BY <1>1, <1>2, <1>3, <1>4, <1>5, <1>6 DEF Prepare

\* ... so do the kexec and its failure ...
LEMMA KexecDrift ==
    ASSUME DriftInv, ~mishap, ~mishap', Kexec \/ KexecFails
    PROVE  Consistent'
  <1> USE UpdateAssumption DEF UpdateAssumption, DriftInv, IInv, IdsAreFresh, Consistent, EspWhole,
          SnapsCommitted, CanUndo, Restored, Quiet, PreparesAlone, Prepared, Tracked, Booted,
          StagedRan, Pending, disk, boot, task, env, InFlight, Snapshotted
  <1>1. CASE Kexec
    <2>1. machine' \in {"starting", "maintenance"}
      BY <1>1 DEF Kexec, BootsTo
    <2>2. uid \in Pending
      BY <1>1 DEF Kexec, Whole, ClientHasUpdate
    <2>3. QED
      BY <1>1, <2>1, <2>2, PastKept DEF Kexec
  <1>2. CASE KexecFails
    <2>1. uid \in Pending /\ snaps[uid] = esp /\ val = "none"
      BY <1>2 DEF KexecFails, Whole, ClientHasUpdate
    <2>2. conf' = esp /\ Unsafe
      BY <1>2, <2>1 DEF KexecFails
    <2>3. PastCommitted'
      BY <1>2, <2>1, <2>2, UnsafeFacts, PastGrows DEF KexecFails
    <2>4. QED
      BY <1>2, <2>1, <2>2, <2>3 DEF KexecFails, Ends
  <1>3. QED
    BY <1>1, <1>2

\* ... boot and start ...
LEMMA StartDrift ==
    ASSUME DriftInv, ~mishap, ~mishap', ColdBoot \/ Start
    PROVE  Consistent'
  <1> USE UpdateAssumption DEF UpdateAssumption, DriftInv, IInv, IdsAreFresh, Consistent, EspWhole,
          SnapsCommitted, CanUndo, Restored, Quiet, PreparesAlone, Prepared, Tracked, Booted,
          StagedRan, Pending, TaskHasUpdate, disk, boot, client, task, env, InFlight, Snapshotted
  <1>1. CASE ColdBoot
    <2>1. machine' \in {"starting", "maintenance"}
      BY <1>1 DEF ColdBoot, BootsTo
    <2>2. QED
      BY <1>1, <2>1, PastKept DEF ColdBoot
  <1>2. CASE StartQuietly
    BY <1>2, PastKept DEF StartQuietly
  <1>3. CASE TrackRevert
    <2>1. PastCommitted'
      BY <1>3, UnsafeFacts, PastGrows DEF TrackRevert, TrackRestore, RemoveUpdateDir, updateDir
    <2>2. QED
      BY <1>3, <2>1 DEF TrackRevert, TrackRestore, RemoveUpdateDir, updateDir
  <1>4. ASSUME NEW id \in Id, StartValidating(id) PROVE Consistent'
    BY <1>4, PastKept DEF StartValidating
  <1>5. ASSUME NEW id \in Id, StartReverting(id) PROVE Consistent'
    <2>1. machine' = "reverting" /\ Unsafe /\ Whole(id)
      BY <1>5 DEF StartReverting
    <2>2. val = "none" /\ snaps[id] = esp
      BY <1>5, <2>1 DEF StartReverting, Whole
    <2>3. conf' = esp
      BY <1>5, <2>1, <2>2 DEF StartReverting
    <2>4. PastCommitted'
      BY <1>5, <2>1, UnsafeFacts, PastGrows DEF StartReverting
    <2>5. QED
      BY <1>5, <2>1, <2>2, <2>3, <2>4 DEF StartReverting
  <1>6. QED
    BY <1>1, <1>2, <1>3, <1>4, <1>5 DEF Start

\* ... the validation ...
LEMMA ValidateDrift ==
    ASSUME DriftInv, ~mishap, ~mishap', Check \/ Ready \/ Confirm \/ Health \/ ValidationFails
    PROVE  Consistent'
  <1> USE UpdateAssumption DEF UpdateAssumption, DriftInv, IInv, IdsAreFresh, Consistent, EspWhole,
          SnapsCommitted, CanUndo, Restored, Quiet, PreparesAlone, Prepared, Tracked, Booted,
          StagedRan, Pending, TaskHasUpdate, disk, boot, client, InFlight, Snapshotted, Proceed,
          Validate
  <1>1. CASE Check
    BY <1>1, PastKept DEF Check, IsOldKernel, Whole
  <1>2. CASE Ready \/ Confirm \/ Health
    BY <1>2, PastKept DEF Ready, Confirm, Health, Whole
  <1>3. CASE ValidationFails
    BY <1>3, PastKept DEF ValidationFails, Whole
  <1>4. QED
    BY <1>1, <1>2, <1>3

\* ... the commit ...
LEMMA CommitDrift ==
    ASSUME DriftInv, ~mishap, ~mishap',
           Reseal \/ OpenEsp \/ WriteEsp \/ Cleanup \/ CommitFails
    PROVE  Consistent'
  <1> USE UpdateAssumption DEF UpdateAssumption, DriftInv, IInv, IdsAreFresh, Consistent, EspWhole,
          SnapsCommitted, CanUndo, Restored, Quiet, PreparesAlone, Prepared, Tracked, Booted,
          StagedRan, Pending, TaskHasUpdate, KernelIsMarked, ImageIsStaged, Validated, disk,
          boot, client, InFlight, Snapshotted, Proceed, Validate
  <1>0. /\ val \in {"commit", "sealed", "writing", "installed"}
        /\ marker = vid /\ vid \in Pending /\ past = {}
    BY DEF Reseal, OpenEsp, WriteEsp, Cleanup, CommitFails, Whole
  <1>1. CASE Reseal
    BY <1>0, <1>1, PastKept DEF Reseal, Whole
  <1>2. CASE OpenEsp
    BY <1>0, <1>2 DEF OpenEsp, PastCommitted, Whole
  <1>3. CASE WriteEsp
    BY <1>0, <1>3 DEF WriteEsp, PastCommitted, Whole
  <1>4. CASE Cleanup
    <2>1. RemoveUpdateDir
      BY <1>4 DEF Cleanup
    <2>2. PastCommitted'
      BY <1>4, <2>1, UnsafeFacts, PastGrows DEF Cleanup, RemoveUpdateDir
    <2>3. QED
      BY <1>0, <1>4, <2>1, <2>2 DEF Cleanup, RemoveUpdateDir
  <1>5. CASE CommitFails
    BY <1>0, <1>5, PastKept DEF CommitFails, Whole
  <1>6. QED
    BY <1>1, <1>2, <1>3, <1>4, <1>5

\* ... the rollback ...
LEMMA RollbackDrift ==
    ASSUME DriftInv, ~mishap, ~mishap',
           RestoreConfig \/ TrackRollback \/ Reboot \/ RebootFails
    PROVE  Consistent'
  <1> USE UpdateAssumption DEF UpdateAssumption, DriftInv, IInv, IdsAreFresh, Consistent, EspWhole,
          SnapsCommitted, CanUndo, Restored, Quiet, PreparesAlone, Prepared, Tracked, Booted,
          StagedRan, Pending, TaskHasUpdate, disk, boot, client, env, InFlight, Snapshotted,
          Proceed, Validate
  <1>1. CASE RestoreConfig
    <2>1. val = "rollback" /\ val' = "restored" /\ snaps[vid] = esp /\ vid \in Pending
      BY <1>1 DEF RestoreConfig, Whole
    <2>2. PastCommitted'
      BY <1>1, <2>1, UnsafeFacts, PastGrows DEF RestoreConfig
    <2>3. QED
      BY <1>1, <2>1, <2>2 DEF RestoreConfig
  <1>2. CASE TrackRollback
    <2>1. PastCommitted'
      BY <1>2, UnsafeFacts, PastGrows DEF TrackRollback, TrackRestore, RemoveUpdateDir, updateDir
    <2>2. QED
      BY <1>2, <2>1 DEF TrackRollback, TrackRestore, RemoveUpdateDir, updateDir
  <1>3. CASE Reboot
    BY <1>3, PastKept DEF Reboot, Stop, Disconnect, Ends
  <1>4. CASE RebootFails
    BY <1>4 DEF RebootFails
  <1>5. QED
    BY <1>1, <1>2, <1>3, <1>4

\* ... muakctl and the faults themselves.
LEMMA EnvironmentDrift ==
    ASSUME DriftInv, ~mishap, ~mishap',
           \/ PollRolledBack \/ PollPending \/ PollCommitted \/ GiveUp
           \/ PowerFails \/ DaemonRestarts
    PROVE  Consistent'
  <1> USE UpdateAssumption DEF UpdateAssumption, DriftInv, IInv, IdsAreFresh, Consistent, EspWhole,
          SnapsCommitted, CanUndo, Restored, Quiet, PreparesAlone, Prepared, Tracked, Booted,
          StagedRan, Pending, TaskHasUpdate, disk, boot, task, client, env, InFlight, Snapshotted
  <1>1. CASE PollRolledBack \/ PollPending \/ PollCommitted
    BY <1>1, PastKept DEF PollRolledBack, PollPending, PollCommitted, Poll, Ends, Whole
  <1>2. CASE GiveUp
    BY <1>2, PastKept DEF GiveUp, Ends, Whole
  <1>3. CASE PowerFails
    <2>1. PICK s \in past \cup {State}, torn \in SUBSET Id :
              /\ \A id \in torn : s.snaps[id] # NoFile
              /\ conf' = s.conf
              /\ snaps' = [id \in Id |-> IF id \in torn THEN Torn ELSE s.snaps[id]]
              /\ s.val \notin {"writing", "installed"}
      BY <1>3 DEF PowerFails
    <2>2. conf = esp \/ Pending # {}
      BY <1>3 DEF PowerFails, TypeOK, Whole
    <2>3. /\ \A id \in Id : s.snaps[id] \in {NoFile, Torn, esp}
          /\ s.conf = esp \/ \E id \in Id : s.snaps[id] # NoFile
      BY <2>1, <2>2 DEF PastCommitted, State, TypeOK
    <2>4. machine' = "off" /\ val' = "none" /\ cli' \notin InFlight /\ past' = {}
      BY <1>3 DEF PowerFails, Stop, Disconnect, Ends
    <2>5. esp' = esp /\ val # "writing"
      <3>1. val = "writing" => past = {}
        BY DEF KernelIsMarked, Validated, Whole
      <3>2. QED
        BY <1>3, <2>1, <3>1 DEF PowerFails, State
    <2>6. QED
      BY <2>1, <2>3, <2>4, <2>5 DEF PastCommitted
  <1>4. CASE DaemonRestarts
    BY <1>4, PastKept DEF DaemonRestarts, Stop, Disconnect, Ends, Whole
  <1>5. QED
    BY <1>1, <1>2, <1>3, <1>4

\* Every step preserves the invariant.
LEMMA NextDrift == DriftInv /\ [Next]_vars => DriftInv'
  <1> SUFFICES ASSUME DriftInv, [Next]_vars PROVE DriftInv'
    OBVIOUS
  <1>1. IInv' /\ IdsAreFresh'
    BY NextIInv, FreshStays DEF DriftInv
  <1>2. ASSUME ~mishap' PROVE Consistent'
    <2>1. ~mishap
      BY <1>2, MishapStays DEF DriftInv
    <2>2. CASE Next
      BY <1>2, <2>1, <2>2, PrepareDrift, KexecDrift, StartDrift, ValidateDrift, CommitDrift,
         RollbackDrift, EnvironmentDrift DEF Next, Validation
    <2>3. CASE UNCHANGED vars
      BY <2>1, <2>3 DEF DriftInv, vars, disk, boot, task, client, env, Consistent, EspWhole,
         SnapsCommitted, PastCommitted, CanUndo, Restored, Quiet, PreparesAlone, Prepared, Tracked,
         Booted, StagedRan, Pending, Whole
    <2>4. QED
      BY <2>2, <2>3
  <1>3. QED
    BY <1>1, <1>2 DEF DriftInv

\* The second invariant holds in every reachable state.
THEOREM DriftInductive == Spec => []DriftInv
  BY InitDrift, NextDrift, PTL DEF Spec

\* Outside the windows of mishap, the configuration in force is the one the image
\* on the ESP was built for whenever no update is under way, for any number of
\* configurations, updates, failures and faults.
THEOREM NoDriftHolds == Spec => []NoDrift
  <1>1. DriftInv => NoDrift
    BY DEF DriftInv, Consistent, Quiet, NoDrift, InFlight, Snapshotted
  <1>2. QED
    BY <1>1, DriftInductive, PTL

\* Only the write of commit::apply installs an image.
LEMMA OnlyWriteEsp ==
    ASSUME Next, val = "writing", val' = "installed"
    PROVE  WriteEsp
  BY DEF Next, Prepare, Start, Validation, PrepareUpdate, AlreadyCurrent, OpenSnapshot, Snapshot,
     JournalUpdate, WriteConfig, Sync, PrepareFails, Kexec, KexecFails, ColdBoot,
     StartQuietly, StartValidating, StartReverting, TrackRevert, Check, Ready, Confirm,
     Health, ValidationFails, Reseal, OpenEsp, Cleanup, CommitFails, RestoreConfig,
     TrackRollback, Reboot, RebootFails, Stop, PollRolledBack, PollPending, PollCommitted,
     Poll, GiveUp, PowerFails, DaemonRestarts, Proceed, Validate, task

\* What commit::apply writes to the ESP is the image that was booted and validated,
\* and the configuration in force is its own.
THEOREM CommitsWhatRanHolds == Spec => CommitsWhatRan
  <1>1. DriftInv /\ [Next]_vars =>
            [val = "writing" /\ val' = "installed" /\ ~mishap
                => esp' = kernel /\ esp' = conf]_vars
    <2> SUFFICES ASSUME DriftInv, Next, val = "writing", val' = "installed", ~mishap
                 PROVE  esp' = kernel /\ esp' = conf
      OBVIOUS
    <2>1. WriteEsp
      BY OnlyWriteEsp
    <2>2. QED
      BY <2>1 DEF WriteEsp, DriftInv, Consistent, StagedRan
  <1>2. QED
    BY <1>1, DriftInductive, PTL DEF Spec, CommitsWhatRan

-----------------------------------------------------------------------------
(* An update is atomic, and confirmed where the code asks for it *)

\* Apart from a rollback that is about to reboot, the installed image runs unless
\* the kernel was booted for an update that is still pending.
InstalledRuns ==
    /\ machine \in {"starting", "serving", "reverting"}
    /\ val \notin {"restored", "rebooting"}
    /\ marker \notin Pending
    => kernel = esp

\* Until the configuration is restored, a validation has it in its cache.
CachedInForce == val \notin {"none", "restored", "rebooting"} => cached = conf

\* Past the confirmation, a change of network or port was confirmed.
Asked ==
    /\ val \in {"health", "commit", "sealed", "writing", "installed"}
    /\ <<snaps[vid], conf>> \in Isolating
    => contact # "none"

\* What the atomic update and its confirmation rest on besides Consistent.
Contract == InstalledRuns /\ CachedInForce /\ Asked

ContractInv == ~mishap => Contract

LEMMA InitContract == Init => ContractInv
  BY DEF Init, ContractInv, Contract, InstalledRuns, CachedInForce, Asked

\* As long as no fault falls in a window, requests, preparations and the kexec
\* keep the contract ...
LEMMA PrepareContract ==
    ASSUME DriftInv, Contract, ~mishap, ~mishap',
           \/ Prepare \/ Kexec \/ KexecFails
           \/ \E c \in Config : PrepareUpdate(c) \/ AlreadyCurrent(c)
    PROVE  Contract'
  <1> USE UpdateAssumption DEF UpdateAssumption, DriftInv, IInv, IdsAreFresh, Consistent, Quiet,
          PreparesAlone, Prepared, Booted, Contract, InstalledRuns, CachedInForce, Asked,
          Pending, disk, boot, task, env, InFlight, Snapshotted
  <1>1. ASSUME NEW c \in Config, PrepareUpdate(c) \/ AlreadyCurrent(c) PROVE Contract'
    BY <1>1 DEF PrepareUpdate, AlreadyCurrent
  <1>2. CASE Snapshot \/ \E id \in Id : OpenSnapshot(id)
    <2>1. machine = "serving" /\ val = "none" /\ marker \notin Pending
      BY <1>2 DEF OpenSnapshot, Snapshot
    <2>2. UNCHANGED <<machine, kernel, esp, marker, val>>
      BY <1>2 DEF OpenSnapshot, Snapshot
    <2>3. QED
      BY <2>1, <2>2
  <1>3. CASE JournalUpdate \/ WriteConfig \/ Sync \/ PrepareFails
    BY <1>3 DEF JournalUpdate, WriteConfig, Sync, PrepareFails
  <1>4. CASE Kexec
    <2>1. marker' \in Pending' /\ val' = "none"
      BY <1>4 DEF Kexec
    <2>2. QED
      BY <2>1
  <1>5. CASE KexecFails
    BY <1>5 DEF KexecFails
  <1>6. QED
    BY <1>1, <1>2, <1>3, <1>4, <1>5 DEF Prepare

\* ... so do boot and start ...
LEMMA StartContract ==
    ASSUME DriftInv, Contract, ~mishap, ~mishap', ColdBoot \/ Start
    PROVE  Contract'
  <1> USE UpdateAssumption DEF UpdateAssumption, DriftInv, IInv, IdsAreFresh, Consistent,
          TaskHasUpdate, Contract, InstalledRuns, CachedInForce, Asked, Pending, disk, boot,
          task, client, env
  <1>1. CASE ColdBoot
    BY <1>1 DEF ColdBoot, BootsTo
  <1>2. CASE StartQuietly \/ \E id \in Id : StartValidating(id)
    BY <1>2 DEF StartQuietly, StartValidating
  <1>3. ASSUME NEW id \in Id, StartReverting(id) PROVE Contract'
    <2>1. marker = NoId /\ val = "none" /\ NoId \notin Pending
      BY <1>3 DEF StartReverting, HasUpdateMarker
    <2>2. QED
      BY <1>3, <2>1 DEF StartReverting
  <1>4. CASE TrackRevert
    <2>1. marker = NoId /\ val = "none" /\ NoId \notin Pending
      BY <1>4 DEF TrackRevert
    <2>2. QED
      BY <1>4, <2>1 DEF TrackRevert
  <1>5. QED
    BY <1>1, <1>2, <1>3, <1>4 DEF Start

\* ... the validation with its commit and its rollback ...
LEMMA ValidationContract ==
    ASSUME DriftInv, Contract, ~mishap, ~mishap', Validation
    PROVE  Contract'
  <1> USE DEF DriftInv, IInv, Consistent, TaskHasUpdate, KernelIsMarked, Validated, Tracked,
          StagedRan, SnapsCommitted, Booted, Contract, InstalledRuns, CachedInForce, Asked, Pending,
          disk, boot, client, env, Proceed, Validate
  <1>1. CASE Check
    BY <1>1 DEF Check
  <1>2. CASE Ready \/ Confirm
    BY <1>2 DEF Ready, Confirm
  <1>3. CASE Health \/ ValidationFails
    BY <1>3 DEF Health, ValidationFails
  <1>4. CASE Reseal \/ OpenEsp \/ WriteEsp \/ CommitFails
    <2>1. marker = vid /\ vid \in Pending
      BY <1>4, UpdateAssumption DEF UpdateAssumption, Reseal, OpenEsp, WriteEsp, CommitFails, Whole
    <2>2. QED
      BY <1>4, <2>1 DEF Reseal, OpenEsp, WriteEsp, CommitFails
  <1>5. CASE Cleanup
    <2>1. val' = "none" /\ kernel' = esp'
      BY <1>5 DEF Cleanup
    <2>2. QED
      BY <2>1
  <1>6. CASE RestoreConfig \/ TrackRollback \/ Reboot \/ RebootFails
    BY <1>6 DEF RestoreConfig, TrackRollback, Reboot, RebootFails, Stop
  <1>7. QED
    BY <1>1, <1>2, <1>3, <1>4, <1>5, <1>6 DEF Validation

\* ... muakctl and the faults.
LEMMA EnvironmentContract ==
    ASSUME DriftInv, Contract, ~mishap, ~mishap',
           \/ PollRolledBack \/ PollPending \/ PollCommitted \/ GiveUp
           \/ PowerFails \/ DaemonRestarts
    PROVE  Contract'
  <1> USE DEF DriftInv, IInv, Consistent, Contract, InstalledRuns, CachedInForce, Asked, Pending,
          disk, boot, task, client, env
  <1>1. CASE PollRolledBack \/ PollPending \/ PollCommitted \/ GiveUp
    BY <1>1 DEF PollRolledBack, PollPending, PollCommitted, Poll, GiveUp
  <1>2. CASE PowerFails
    BY <1>2 DEF PowerFails, Stop
  <1>3. CASE DaemonRestarts
    BY <1>3 DEF DaemonRestarts, Stop
  <1>4. QED
    BY <1>1, <1>2, <1>3

\* Every step preserves it.
LEMMA NextContract == DriftInv /\ ContractInv /\ [Next]_vars => ContractInv'
  <1> SUFFICES ASSUME DriftInv, ContractInv, [Next]_vars, ~mishap' PROVE Contract'
    BY DEF ContractInv
  <1>1. ~mishap /\ Contract
    BY MishapStays DEF DriftInv, ContractInv
  <1>2. CASE Next
    BY <1>1, <1>2, PrepareContract, StartContract, ValidationContract, EnvironmentContract DEF Next
  <1>3. CASE UNCHANGED vars
    BY <1>1, <1>3 DEF vars, disk, boot, task, client, env, Contract, InstalledRuns, CachedInForce,
       Asked, Pending
  <1>4. QED
    BY <1>2, <1>3

\* The contract holds in every reachable state.
THEOREM ContractInductive == Spec => [](DriftInv /\ ContractInv)
  BY DriftInductive, InitContract, NextContract, PTL DEF Spec

\* An update that changes the network or the port is committed only when muakctl
\* has reached the provisiond that validates it, for all configurations and any
\* number of updates and faults outside the windows of mishap.
THEOREM ConfirmedWhenIsolatingHolds == Spec => ConfirmedWhenIsolating
  <1>1. DriftInv /\ ContractInv /\ [Next]_vars =>
            [val = "writing" /\ val' = "installed" /\ ~mishap
                 /\ <<snaps[vid], esp'>> \in Isolating
             => contact # "none"]_vars
    <2> SUFFICES ASSUME DriftInv, ContractInv, Next, val = "writing", val' = "installed", ~mishap,
                        <<snaps[vid], esp'>> \in Isolating
                 PROVE  contact # "none"
      OBVIOUS
    <2>1. esp' = conf
      BY OnlyWriteEsp DEF WriteEsp, DriftInv, Consistent, StagedRan
    <2>2. QED
      BY <2>1 DEF ContractInv, Contract, Asked
  <1>2. QED
    BY <1>1, ContractInductive, PTL DEF Spec, ConfirmedWhenIsolating

-----------------------------------------------------------------------------
(* Refinement of AtomicUpdate *)

\* What AtomicUpdate sees of a state.
atomicVars == <<conf, {s.conf : s \in past}, InstalledImage, Running, mishap>>

\* What may come back later is in force now, or might come back already.
LEMMA EarlierAges ==
    ASSUME past' \subseteq past \cup {State}
    PROVE  Atomic!Ages
  <1>1. State.conf = conf
    BY DEF State
  <1>2. {s.conf : s \in past'} \subseteq {s.conf : s \in past} \cup {conf}
    BY <1>1
  <1>3. QED
    BY <1>2 DEF Atomic!Ages

\* The steps that put a configuration in place or take it back.
LEMMA ConfigAtomic ==
    ASSUME DriftInv, ContractInv, ~mishap, ~mishap',
           WriteConfig \/ KexecFails \/ RestoreConfig \/ \E id \in Id : StartReverting(id)
    PROVE  Atomic!Next
  <1> USE DEF DriftInv, IInv, TypeOK, Consistent, PreparesAlone, Quiet, Prepared, SnapsCommitted,
          Tracked, TaskHasUpdate, ContractInv, Contract, InstalledRuns, InstalledImage, Running,
          Pending, Whole, InFlight, Snapshotted, boot, task, env
  <1>1. CASE WriteConfig
    <2>1. val = "none" /\ conf = esp /\ kernel = esp
      BY <1>1 DEF WriteConfig
    <2>2. Atomic!Ages
      BY <1>1, UnsafeFacts, EarlierAges DEF WriteConfig
    <2>3. Atomic!Propose(target)
      BY <1>1, <2>1, <2>2 DEF WriteConfig, Atomic!Propose, Atomic!Settled
    <2>4. QED
      BY <1>1, <2>3 DEF WriteConfig, Atomic!Next, Atomic!Step
  <1>2. CASE KexecFails
    <2>1. val = "none" /\ snaps[uid] = esp /\ uid \in Pending
      BY <1>2, UpdateAssumption DEF UpdateAssumption, KexecFails
    <2>2. conf' = esp /\ Unsafe
      BY <1>2, <2>1 DEF KexecFails
    <2>3. Atomic!Ages
      BY <2>2, UnsafeFacts, EarlierAges
    <2>4. Atomic!Abandon
      BY <1>2, <2>1, <2>2, <2>3 DEF KexecFails, Atomic!Abandon
    <2>5. QED
      BY <1>2, <2>4 DEF KexecFails, Atomic!Next, Atomic!Step
  <1>3. CASE RestoreConfig
    <2>1. val = "rollback" /\ val' = "restored" /\ snaps[vid] = esp
      BY <1>3, UpdateAssumption DEF UpdateAssumption, RestoreConfig, Validate
    <2>2. Atomic!Ages
      BY <1>3, <2>1, UnsafeFacts, EarlierAges DEF RestoreConfig, Validate
    <2>3. Atomic!Abandon
      BY <1>3, <2>1, <2>2 DEF RestoreConfig, Validate, Atomic!Abandon
    <2>4. QED
      BY <1>3, <2>3 DEF RestoreConfig, Validate, Atomic!Next, Atomic!Step
  <1>4. ASSUME NEW id \in Id, StartReverting(id) PROVE Atomic!Next
    <2>1. machine' = "reverting" /\ conf' = snaps[id] /\ Unsafe /\ snaps[id] \in Config
      BY <1>4 DEF StartReverting
    <2>2. val = "none" /\ snaps[id] = esp
      BY <1>4, <2>1, UpdateAssumption DEF UpdateAssumption, StartReverting
    <2>3. Atomic!Ages
      BY <2>1, UnsafeFacts, EarlierAges
    <2>4. Atomic!Abandon
      BY <1>4, <2>1, <2>2, <2>3 DEF StartReverting, Atomic!Abandon
    <2>5. QED
      BY <1>4, <2>4 DEF StartReverting, Atomic!Next, Atomic!Step
  <1>5. QED
    BY <1>1, <1>2, <1>3, <1>4

\* The steps that boot or install an image.
LEMMA ImageAtomic ==
    ASSUME DriftInv, ContractInv, ~mishap, ~mishap', Kexec \/ ColdBoot \/ WriteEsp
    PROVE  Atomic!Next \/ UNCHANGED atomicVars
  <1> USE DEF DriftInv, IInv, TypeOK, Consistent, PreparesAlone, Quiet, Prepared, StagedRan,
          TaskHasUpdate, ContractInv, Contract, InstalledRuns, InstalledImage, Running, InFlight,
          Snapshotted, disk, boot, task, env
  <1>1. CASE Kexec
    <2>1. val = "none" /\ kernel = esp /\ assets = conf
      BY <1>1 DEF Kexec
    <2>2. machine' # "off" /\ {s.conf : s \in past'} = {}
      BY <1>1 DEF Kexec, BootsTo
    <2>3. Atomic!Try
      BY <1>1, <2>1, <2>2 DEF Kexec, Atomic!Try
    <2>4. QED
      BY <1>1, <2>3 DEF Kexec, Atomic!Next, Atomic!Step
  <1>2. CASE ColdBoot
    <2>1. val = "none" /\ machine' # "off"
      BY <1>2 DEF ColdBoot, BootsTo
    <2>2. QED
      BY <1>2, <2>1 DEF ColdBoot, atomicVars
  <1>3. CASE WriteEsp
    <2>1. {s.conf : s \in past'} = {}
      BY <1>3 DEF WriteEsp
    <2>2. Atomic!Commit
      BY <1>3, <2>1 DEF WriteEsp, Validate, Atomic!Commit
    <2>3. QED
      BY <1>3, <2>2 DEF WriteEsp, Validate, Atomic!Next, Atomic!Step
  <1>4. QED
    BY <1>1, <1>2, <1>3

\* The steps that take the machine down.
LEMMA DownAtomic ==
    ASSUME DriftInv, ~mishap, ~mishap', Reboot \/ PowerFails
    PROVE  Atomic!Next
  <1> USE DEF DriftInv, IInv, TypeOK, Consistent, InstalledImage, Running, Stop
  <1>1. conf' \in {s.conf : s \in past} \cup {conf}
    BY DEF Reboot, PowerFails, State
  <1>2. val # "writing"
    <2>1. CASE Reboot
      BY <2>1 DEF Reboot
    <2>2. CASE PowerFails
      <3>1. val = "writing" => past = {}
        BY UpdateAssumption DEF UpdateAssumption, KernelIsMarked, Validated, Tracked, Whole,
           TaskHasUpdate, Booted, Pending
      <3>2. \E s \in past \cup {State} : s.val \notin {"writing", "installed"}
        BY <2>2 DEF PowerFails
      <3>3. State.val = val
        BY DEF State
      <3>4. QED
        BY <3>1, <3>2, <3>3
    <2>3. QED
      BY <2>1, <2>2
  <1>3. machine' = "off" /\ val' = "none" /\ past' = {} /\ esp' = esp
    BY DEF Reboot, PowerFails
  <1>4. Atomic!GoDown
    BY <1>1, <1>2, <1>3 DEF Atomic!GoDown
  <1>5. mishap' = mishap
    BY DEF Reboot, PowerFails, env
  <1>6. QED
    BY <1>4, <1>5 DEF Atomic!Next, Atomic!Step

\* Every other step leaves the configuration, the installed image and the kernel
\* alone: first those that cannot touch the image ...
LEMMA OthersAtomic ==
    ASSUME DriftInv, ~mishap, ~mishap',
           \/ \E c \in Config : PrepareUpdate(c) \/ AlreadyCurrent(c)
           \/ \E id \in Id : OpenSnapshot(id) \/ StartValidating(id)
           \/ Snapshot \/ JournalUpdate \/ Sync \/ PrepareFails \/ StartQuietly \/ TrackRevert
           \/ PollRolledBack \/ PollPending \/ PollCommitted \/ GiveUp \/ DaemonRestarts
    PROVE  UNCHANGED <<conf, InstalledImage, Running, mishap>> /\ past' \subseteq past \cup {State}
  <1> DEFINE Unseen ==
          UNCHANGED <<conf, InstalledImage, Running, mishap>> /\ past' \subseteq past \cup {State}
  <1> USE DEF DriftInv, IInv, TypeOK, TaskHasUpdate, Consistent, PreparesAlone,
          InstalledImage, Running, InFlight, Snapshotted, disk, boot, task, client, env
  <1>1. ASSUME NEW c \in Config, PrepareUpdate(c) \/ AlreadyCurrent(c) PROVE Unseen
    BY <1>1 DEF PrepareUpdate, AlreadyCurrent
  <1>2. ASSUME NEW id \in Id, OpenSnapshot(id) \/ StartValidating(id) PROVE Unseen
    BY <1>2, UnsafeFacts DEF OpenSnapshot, StartValidating
  <1>3. CASE Snapshot \/ TrackRevert
    BY <1>3, UnsafeFacts DEF Snapshot, TrackRevert, TrackRestore, RemoveUpdateDir, updateDir
  <1>4. CASE JournalUpdate \/ Sync \/ PrepareFails \/ StartQuietly
    BY <1>4 DEF JournalUpdate, Sync, PrepareFails, StartQuietly
  <1>5. CASE PollRolledBack \/ PollPending \/ PollCommitted \/ GiveUp
    BY <1>5 DEF PollRolledBack, PollPending, PollCommitted, Poll, GiveUp
  <1>6. CASE DaemonRestarts
    BY <1>6 DEF DaemonRestarts, Stop
  <1>7. QED
    BY <1>1, <1>2, <1>3, <1>4, <1>5, <1>6

\* ... then those of the validation, whose commit truncates the image while the
\* snapshot still names the old one.
LEMMA ValidationAtomic ==
    ASSUME DriftInv, ~mishap, ~mishap',
           \/ Check \/ Ready \/ Confirm \/ Health \/ ValidationFails
           \/ Reseal \/ OpenEsp \/ Cleanup \/ CommitFails \/ TrackRollback \/ RebootFails
    PROVE  UNCHANGED <<conf, InstalledImage, Running, mishap>> /\ past' \subseteq past \cup {State}
  <1> USE DEF DriftInv, IInv, TypeOK, TaskHasUpdate, Consistent, Tracked, SnapsCommitted, Whole,
          Pending, InstalledImage, Running, disk, boot, env, Proceed, Validate
  <1>1. CASE Check \/ Ready \/ Confirm \/ Health \/ ValidationFails
    BY <1>1 DEF Check, Ready, Confirm, Health, ValidationFails
  <1>2. CASE Reseal \/ CommitFails \/ RebootFails
    BY <1>2 DEF Reseal, CommitFails, RebootFails
  <1>3. CASE OpenEsp
    BY <1>3, UpdateAssumption DEF UpdateAssumption, OpenEsp
  <1>4. CASE Cleanup \/ TrackRollback
    BY <1>4, UnsafeFacts DEF Cleanup, TrackRollback, TrackRestore, RemoveUpdateDir, updateDir
  <1>5. QED
    BY <1>1, <1>2, <1>3, <1>4

\* Update implements AtomicUpdate: for all configurations, identifiers and numbers
\* of faults, and as long as no fault falls in a window of mishap, every step of
\* provisiond, muakctl and the machine is a step of an atomic update or none.
THEOREM RefinesAtomicUpdate == Spec => ImplementsAtomicUpdate
  <1>1. Init => Atomic!Init
    BY DEF Init, Atomic!Init, InstalledImage, Running
  <1>2. DriftInv /\ ContractInv /\ [Next]_vars => [Atomic!Next]_atomicVars
    <2> SUFFICES ASSUME DriftInv, ContractInv, [Next]_vars
                 PROVE  Atomic!Next \/ UNCHANGED atomicVars
      OBVIOUS
    <2>1. CASE mishap'
      BY <2>1 DEF Atomic!Next
    <2>2. CASE ~mishap'
      <3>1. ~mishap
        BY <2>2, MishapStays DEF DriftInv
      <3>2. ASSUME UNCHANGED <<conf, InstalledImage, Running, mishap>>,
                   past' \subseteq past \cup {State}
            PROVE  Atomic!Next
        BY <3>2, EarlierAges DEF Atomic!Next, Atomic!Step, Atomic!Settle
      <3>3. CASE Next
        BY <2>2, <3>1, <3>2, <3>3, ConfigAtomic, ImageAtomic, DownAtomic, OthersAtomic,
           ValidationAtomic DEF Next, Prepare, Start, Validation
      <3>4. CASE UNCHANGED vars
        BY <3>4 DEF vars, disk, boot, task, env, atomicVars, InstalledImage, Running
      <3>5. QED
        BY <3>3, <3>4
    <2>3. QED
      BY <2>1, <2>2
  <1>3. QED
    BY <1>1, <1>2, ContractInductive, PTL DEF Spec, ImplementsAtomicUpdate, Atomic!Spec, atomicVars

\* Configuration, installed image and running kernel are of at most two versions,
\* for all configurations and any number of updates and faults outside the
\* windows of mishap: AtomicUpdate keeps it so, and Update implements it.
THEOREM TwoVersionsHolds == Spec => []TwoVersions
  <1>1. Atomic!Init => TwoVersions
    BY DEF Atomic!Init, TwoVersions
  <1>2. TwoVersions /\ [Atomic!Next]_atomicVars => TwoVersions'
    <2> SUFFICES ASSUME TwoVersions, [Atomic!Next]_atomicVars, ~mishap'
                 PROVE  TwoVersions'
      BY DEF TwoVersions
    <2>1. CASE Atomic!Step /\ UNCHANGED mishap
      BY <2>1 DEF Atomic!Step, Atomic!Propose, Atomic!Settled, Atomic!Try, Atomic!Commit,
         Atomic!Abandon, Atomic!Settle, Atomic!GoDown, TwoVersions
    <2>2. CASE UNCHANGED atomicVars
      BY <2>2 DEF atomicVars, TwoVersions
    <2>3. QED
      BY <2>1, <2>2 DEF Atomic!Next
  <1>3. QED
    BY <1>1, <1>2, RefinesAtomicUpdate, PTL DEF ImplementsAtomicUpdate, Atomic!Spec, atomicVars

=============================================================================

------------------------------- MODULE Network -------------------------------
(***************************************************************************)
(* networkd's supervisor (src/services/networkd/src/supervisor) with the   *)
(* interface actors of module Interface.                                   *)
(*                                                                         *)
(* The supervisor task takes one event at a time: a command, a link event, *)
(* a change of the primary's snapshot, the reconcile tick, polled in that  *)
(* order.  Every turn of its loop clones the primary's watch receiver,     *)
(* whose mark is the one of the spawn: a primary that has published once   *)
(* counts as changed for good (`unseen').  Provisioning and reconciling    *)
(* send one command after another (`entry', `step') and block on a full    *)
(* channel; provisioning a bridge blocks until its port is Configured and  *)
(* then until the port's actor has answered.                               *)
(*                                                                         *)
(* A configuration entry names an interface (None for "auto") and lists    *)
(* the commands that it leads to; a bridge is the entry whose command is   *)
(* Bridge and whose name is the port.  Netlink calls fail at will.  The    *)
(* published NetworkSnapshot has no reader and is left out, as is the      *)
(* second, IPv6, list of the resolver, which is treated as the first.      *)
(***************************************************************************)
EXTENDS Interface, SequencesExt

\* A link is not there, has no carrier or has one.
Link == {"absent", "down", "up"}

CONSTANTS
    ConfigDns,     \* the servers of the configuration file
    BoxCapacity,   \* capacity of a command channel
    Setups         \* a configuration, the links at boot, and bounds on what
                   \* comes from outside

\* The commands an Ethernet entry can lead to.
Ops == {"Dhcp", "Static4", "Static6", "Slaac"}

Plan == Seq([name : Eth \cup {None}, ops : {<<"Bridge">>} \cup Seq(Ops)])

ASSUME NetworkAssumption ==
    /\ IsFiniteSet(Eth)
    /\ BoxCapacity \in Nat \ {0}
    /\ ConfigDns \notin Nat /\ ConfigDns # None
    /\ \A s \in Setups : /\ s.links \in [Eth -> Link]
                         /\ s.changes \in Nat /\ s.lapses \in Nat
                         /\ s.plan \in Plan

VARIABLES
    net,      \* NetworkState
    primary,  \* the elected interface or None
    backups,  \* the others, best first
    task,     \* what the supervisor is in the middle of
    entry,    \* the configuration entry it is at
    step,     \* the command of that entry, or the stage of a bridge
    boot,     \* the Initialize command of main
    due,      \* a reconcile tick is due
    events,   \* the channel of the link monitor
    links,    \* the Ethernet links of the machine
    plan,     \* config.interfaces
    changes,  \* link changes still to come (bound)
    lapses,   \* changes that time and routers bring still to come (bound)
    dns       \* whose servers resolv.conf names

supVars == <<net, primary, backups, task, entry, step, boot, due, dns>>
envVars == <<events, links, plan, changes, lapses>>
vars == <<ifaceVars, supVars, envVars>>

NetNext == [Uninitialized |-> {"Initializing"},
            Initializing  |-> {"Operational", "Degraded"},
            Operational   |-> {"Ready", "Degraded"},
            Ready         |-> {"Degraded"},
            Degraded      |-> {"Initializing", "Operational"}]

NetState == {"Uninitialized", "Initializing", "Operational", "Ready",
             "Degraded"}

SetNet(s, to) == IF to \in NetNext[s] THEN to ELSE s

Event == [kind : {"Up", "Down", "Added", "Deleted"}, name : Eth]

------------------------------------------------------------------------------
(* Interaction with the actors. *)

Room(i) == Len(box[i]) < BoxCapacity

\* The channels b after a command to i.
Sent(b, i, op, mode) == [b EXCEPT ![i] = Append(@, [op |-> op, mode |-> mode])]

Configured(i) == i \in known /\ st[i] = "Configured"

\* collect_dns: the servers of a lease before those of the configuration.
DnsOf(i, source) == IF source = "lease" THEN i ELSE ConfigDns

\* Mutant: what was written once is never replaced.
MutFlushDns ==
    dns' = IF primary' = None \/ dns # None THEN dns
           ELSE DnsOf(primary', ip'[primary'])

\* flush_dns
FlushDns ==
    dns' = IF primary' = None THEN dns ELSE DnsOf(primary', ip'[primary'])

\* The order of Selector::compare_interfaces.
Better(i, j) == \/ links[i] = "up" /\ links[j] # "up"
                \/ (links[i] = "up" <=> links[j] = "up") /\ i < j

------------------------------------------------------------------------------
(* Initialization. *)

Init ==
    /\ IfaceInit
    /\ net = "Uninitialized" /\ primary = None /\ backups = <<>>
    /\ task = "idle" /\ entry = 1 /\ step = 1
    /\ boot = "queued" /\ due = TRUE /\ dns = None
    /\ events = <<>>
    /\ \E s \in Setups : /\ plan = s.plan /\ links = s.links
                         /\ changes = s.changes /\ lapses = s.lapses

Present == {i \in Eth : links[i] # "absent"}

\* reset sends Shutdown to every actor, which waits for room in its channel.
CanReset == task = "idle" /\ boot = "queued" /\ \A i \in known : Room(i)

\* reset and a discovery that gives up: main tries again after a pause.
DiscoveryFails ==
    /\ CanReset
    /\ net' \in {"Initializing", "Degraded"}
    /\ known' = {} /\ Fresh(Name)
    /\ primary' = None /\ backups' = <<>>
    /\ boot' = "sleeping"
    /\ UNCHANGED <<task, entry, step, due, dns, envVars>>

\* reset, discovery and election.
Discover ==
    /\ CanReset
    /\ \E i \in Eth : links[i] = "up"
    /\ known' = Present /\ Fresh(Name)
    /\ \E p \in Present :
          \E s \in [1..Cardinality(Present) - 1 -> Present \ {p}] :
             /\ ToSet(s) = Present \ {p}
             /\ \A i \in Present \ {p} : Better(p, i)
             /\ \A k, l \in DOMAIN s : k < l => Better(s[k], s[l])
             /\ primary' = p /\ backups' = s
    /\ net' = "Operational"
    /\ task' = "provision" /\ entry' = 1 /\ step' = 1
    /\ boot' = "running"
    /\ FlushDns
    /\ UNCHANGED <<due, envVars>>

------------------------------------------------------------------------------
(* Provisioning and reconciling, one command at a time. *)

Entry == plan[entry]
Op == Entry.ops[step]
IsBridge == Entry.ops = <<"Bridge">>

\* resolve_name and resolve_bridge_port
Target == IF Entry.name = None THEN primary ELSE Entry.name

Working == task # "idle" /\ entry <= Len(plan)

NextEntry == entry' = entry + 1 /\ step' = 1

\* The interface is unknown, bridge-owned or cannot be brought up.
SkipEthernet ==
    /\ Working /\ ~IsBridge /\ step = 1
    /\ NextEntry
    /\ UNCHANGED <<ifaceVars, net, primary, backups, task, boot, due, dns, envVars>>

SendCommand ==
    /\ Working /\ ~IsBridge /\ step <= Len(Entry.ops)
    /\ Target \in known
    /\ task = "reconcile" /\ step = 1 => owner[Target] = Target
    /\ Room(Target)
    /\ box' = Sent(box, Target, Op,
                   IF task = "provision" THEN "Provision" ELSE "Reconcile")
    /\ IF step = Len(Entry.ops) THEN NextEntry
                                ELSE step' = step + 1 /\ UNCHANGED entry
    /\ UNCHANGED <<known, st, lease, ip, v6, owner, dhcp, timers, slaac, busy,
                   unseen, net, primary, backups, task, boot, due, dns, envVars>>

\* Reconciling leaves a Configured bridge, and a port without lease, alone.
SkipBridge ==
    /\ Working /\ IsBridge /\ step = 1
    /\ \/ Target \notin known
       \/ /\ task = "reconcile"
          /\ \/ Configured(Bridge)
             \/ ~Configured(Target) \/ lease[Target] = None
    /\ NextEntry
    /\ UNCHANGED <<ifaceVars, net, primary, backups, task, boot, due, dns, envVars>>

BeginBridge ==
    /\ Working /\ IsBridge /\ step = 1
    /\ Target \in known
    /\ task = "reconcile" => /\ Bridge \notin known
                             /\ Configured(Target) /\ lease[Target] # None
    /\ step' = 2
    /\ UNCHANGED <<ifaceVars, net, primary, backups, task, entry, boot, due, dns,
                   envVars>>

\* wait_for_configured, and ConfigureBridge to the port.
RequestBridge ==
    /\ Working /\ IsBridge /\ step = 2
    /\ Configured(Target) /\ Room(Target)
    /\ box' = Sent(box, Target, "Bridge", "-")
    /\ step' = 3
    /\ UNCHANGED <<known, st, lease, ip, v6, owner, dhcp, timers, slaac, busy,
                   unseen, net, primary, backups, task, entry, boot, due, dns,
                   envVars>>

\* Mutant: the port keeps its timers.
MutHandTimers(i) == timers' = [timers EXCEPT ![Bridge] = Arm(lease[i])]

\* The port disarms its timers and the actor of the bridge arms its own.
HandTimers(i) ==
    timers' = [timers EXCEPT ![Bridge] = Arm(lease[i]), ![i] = {}]

\* bridge::configure in the port's actor; its answer lets the supervisor go on.
ConfigureBridge(i) ==
    /\ Received(i, "Bridge")
    /\ \/ \* the lease moves to the bridge, whose actor arms its timers
          /\ lease[i] # None
          /\ known' = known \cup {Bridge}
          /\ st' = [st EXCEPT ![Bridge] = "Configured",
                              ![i] = SetState(SetState(@, "Deconfiguring"),
                                              "Discovered")]
          /\ lease' = [lease EXCEPT ![Bridge] = lease[i], ![i] = None]
          /\ ip' = [ip EXCEPT ![Bridge] = ip[i], ![i] = "none"]
          /\ owner' = [owner EXCEPT ![i] = Bridge]
          /\ HandTimers(i)
          /\ Publish(i)
       \/ \* no bridge index after the timers were disarmed
          /\ lease[i] # None
          /\ timers' = [timers EXCEPT ![i] = {}]
          /\ UNCHANGED <<known, st, lease, ip, owner, unseen>>
       \/ \* no lease, or no bridge
          UNCHANGED <<known, st, lease, ip, owner, timers, unseen>>
    /\ DropDhcp(i) /\ DropSlaac(i)
    /\ NextEntry
    /\ UNCHANGED <<v6, busy, net, primary, backups, task, boot, due, dns, envVars>>

InitializeDone ==
    /\ task = "provision" /\ entry > Len(plan)
    /\ task' = "idle" /\ boot' = "done"
    /\ net' = SetNet(net, "Ready")
    /\ UNCHANGED <<ifaceVars, primary, backups, entry, step, due, dns, envVars>>

ReconcileDone ==
    /\ task = "reconcile" /\ entry > Len(plan)
    /\ task' = "idle"
    /\ UNCHANGED <<ifaceVars, net, primary, backups, entry, step, boot, due,
                   envVars>>
    /\ FlushDns

------------------------------------------------------------------------------
(* Link events. *)

\* Mutant: link events are also taken while a command is being carried out.
MutNextEvent(kind) ==
    /\ boot # "queued"
    /\ events # <<>> /\ Head(events).kind = kind
    /\ events' = Tail(events)
    /\ UNCHANGED <<task, entry, step, boot, due, links, plan, changes,
                   lapses>>

NextEvent(kind) ==
    /\ task = "idle" /\ boot # "queued"
    /\ events # <<>> /\ Head(events).kind = kind
    /\ events' = Tail(events)
    /\ UNCHANGED <<task, entry, step, boot, due, links, plan, changes,
                   lapses>>

\* Mutant: only a Configured backup is ever taken.
MutHeir(k) ==
    /\ k \in 1..Len(backups)
    /\ Configured(backups[k])
    /\ \A l \in 1..k - 1 : ~Configured(backups[l])

\* The backup that try_failover_to_backup takes: the first Configured one,
\* or the first.
Heir(k) ==
    /\ k \in 1..Len(backups)
    /\ IF \E l \in 1..Len(backups) : Configured(backups[l])
       THEN /\ Configured(backups[k])
            /\ \A l \in 1..k - 1 : ~Configured(backups[l])
       ELSE k = 1

\* Mutant: the promoted backup stays in the list.
MutPromote(k) ==
    /\ primary' = backups[k]
    /\ backups' = Append(backups, primary)

\* The k-th backup and the primary change places.
Promote(k) ==
    /\ primary' = backups[k]
    /\ backups' = Append(RemoveAt(backups, k), primary)

\* handle_primary_failure, with the channels b.
PrimaryFailure(b) ==
    \/ /\ backups = <<>>
       /\ net' = SetNet(net, "Degraded")
       /\ box' = b
       /\ UNCHANGED <<primary, backups>>
    \/ \E k \in 1..Len(backups) :
          /\ Heir(k)
          /\ Promote(k)
          /\ \/ /\ Configured(backups[k])
                /\ box' = b
             \/ /\ ~Configured(backups[k]) /\ Room(backups[k])
                /\ box' = Sent(b, backups[k], "Dhcp", "Provision")
          /\ net' = SetNet(SetNet(net, "Degraded"), "Operational")

ActorsApartFromBox == <<known, st, lease, ip, v6, owner, dhcp, timers, slaac, busy, unseen>>

\* handle_primary_recovery
PrimaryRecovery ==
    /\ net' = SetNet(net, "Operational")
    /\ UNCHANGED <<primary, backups>>

\* handle_backup_recovery: a primary that is not Configured makes way.
BackupRecovery(n) ==
    \/ /\ ~Configured(primary)
       /\ \E k \in 1..Len(backups) : backups[k] = n /\ Promote(k)
       /\ net' = SetNet(net, "Operational")
    \/ /\ Configured(primary)
       /\ UNCHANGED <<net, primary, backups>>

\* on_link_up
OnLinkUp ==
    /\ NextEvent("Up")
    /\ LET n == Head(events).name IN
       /\ n \in known => Room(n)
       /\ box' = IF n \in known THEN Sent(box, n, "LinkUp", "-") ELSE box
       /\ \/ n = primary /\ PrimaryRecovery
          \/ n # primary /\ n \in ToSet(backups) /\ BackupRecovery(n)
          \/ /\ n # primary /\ n \notin ToSet(backups)
             /\ UNCHANGED <<net, primary, backups>>
    /\ UNCHANGED <<ActorsApartFromBox, dns>>

\* on_link_down
OnLinkDown ==
    /\ NextEvent("Down")
    /\ LET n == Head(events).name
           b == IF n \in known THEN Sent(box, n, "LinkDown", "-") ELSE box
       IN /\ n \in known => Room(n)
          /\ \/ n = primary /\ PrimaryFailure(b)
             \/ /\ n # primary /\ box' = b
                /\ UNCHANGED <<net, primary, backups>>
    /\ UNCHANGED <<ActorsApartFromBox, dns>>

\* partition_point by name; on a list that is not partitioned the binary
\* search ends anywhere.
Partitions(s, n, pos) ==
    \A k \in 1..Len(s) : k <= pos <=> s[k] < n

\* on_link_added: an interface that is not known yet.
OnLinkAdded ==
    /\ NextEvent("Added")
    /\ LET n == Head(events).name IN
       \/ /\ n \in known
          /\ UNCHANGED <<ifaceVars, primary, backups, dns>>
       \/ /\ n \notin known
          /\ known' = known \cup {n} /\ Fresh({n})
          /\ \/ /\ primary = None
                /\ primary' = n
                /\ UNCHANGED backups
             \/ /\ primary # None
                /\ \E pos \in 0..Len(backups) :
                      /\ \/ Partitions(backups, n, pos)
                         \/ ~ \E q \in 0..Len(backups) : Partitions(backups, n, q)
                      /\ backups' = InsertAt(backups, pos + 1, n)
                /\ UNCHANGED primary
          /\ FlushDns
    /\ UNCHANGED net

\* Mutant: the removed primary is not replaced.
MutPrimaryRemoved ==
    /\ primary' = None
    /\ net' = SetNet(net, "Degraded")
    /\ UNCHANGED backups

\* handle_primary_removed: the best backup takes over, or nobody.
PrimaryRemoved ==
    \/ /\ backups # <<>>
       /\ primary' = Head(backups) /\ backups' = Tail(backups)
       /\ UNCHANGED net
    \/ /\ backups = <<>>
       /\ primary' = None
       /\ net' = SetNet(net, "Degraded")
       /\ UNCHANGED backups

\* on_link_deleted
OnLinkDeleted ==
    /\ NextEvent("Deleted")
    /\ LET n == Head(events).name IN
       \/ /\ n \notin known
          /\ UNCHANGED <<ifaceVars, net, primary, backups, dns>>
       \/ /\ n \in known /\ Room(n)
          /\ known' = known \ {n} /\ Fresh({n})
          /\ \/ n = primary /\ PrimaryRemoved
             \/ /\ n # primary
                /\ \E k \in 1..Len(backups) :
                      backups[k] = n /\ backups' = RemoveAt(backups, k)
                /\ UNCHANGED <<primary, net>>
          /\ FlushDns

------------------------------------------------------------------------------
(* The other events of supervisor_select. *)

PrimaryPending == primary # None /\ unseen[primary]

\* maybe_failover_primary and flush_dns
PrimaryChanged ==
    /\ task = "idle" /\ boot # "queued" /\ events = <<>>
    /\ PrimaryPending
    /\ \/ st[primary] = "Failed" /\ PrimaryFailure(box)
       \/ /\ st[primary] # "Failed"
          /\ UNCHANGED <<box, net, primary, backups>>
    /\ UNCHANGED <<ActorsApartFromBox, task, entry, step, boot, due, envVars>>
    /\ FlushDns

\* The tick is taken when nothing else is ready.
ReconcileTick ==
    /\ task = "idle" /\ boot # "queued" /\ events = <<>>
    /\ ~PrimaryPending
    /\ due /\ due' = FALSE
    /\ task' = IF net \in {"Operational", "Ready"} THEN "reconcile" ELSE "idle"
    /\ entry' = 1 /\ step' = 1
    /\ UNCHANGED <<ifaceVars, net, primary, backups, boot, dns, envVars>>

------------------------------------------------------------------------------
(* The environment. *)

TickDue ==
    /\ ~due /\ due' = TRUE
    /\ UNCHANGED <<ifaceVars, net, primary, backups, task, entry, step, boot, dns,
                   envVars>>

RetryInitialize ==
    /\ boot = "sleeping" /\ boot' = "queued"
    /\ UNCHANGED <<ifaceVars, net, primary, backups, task, entry, step, due, dns,
                   envVars>>

\* Leases age, advertisements arrive or lapse.
TimePasses(i) ==
    /\ lapses > 0 /\ lapses' = lapses - 1
    /\ Outside(i)
    /\ UNCHANGED <<supVars, events, links, plan, changes>>

\* The kernel reports a link that comes, goes, gains or loses its carrier.
LinkChanges(i, to) ==
    /\ changes > 0 /\ changes' = changes - 1
    /\ links[i] # to
    /\ links' = [links EXCEPT ![i] = to]
    /\ events' = Append(events,
                        [name |-> i,
                         kind |-> IF to = "absent" THEN "Deleted"
                                  ELSE IF links[i] = "absent" THEN "Added"
                                  ELSE IF to = "up" THEN "Up" ELSE "Down"])
    /\ UNCHANGED <<ifaceVars, supVars, plan, lapses>>

------------------------------------------------------------------------------
SupervisorStep ==
    \/ DiscoveryFails \/ Discover
    \/ SkipEthernet \/ SendCommand
    \/ SkipBridge \/ BeginBridge \/ RequestBridge
    \/ InitializeDone \/ ReconcileDone
    \/ OnLinkUp \/ OnLinkDown \/ OnLinkAdded \/ OnLinkDeleted
    \/ PrimaryChanged \/ ReconcileTick

InterfaceStep(i) ==
    \/ ActorStep(i) /\ UNCHANGED <<supVars, envVars>>
    \/ ConfigureBridge(i)

Next ==
    \/ SupervisorStep
    \/ \E i \in Name : InterfaceStep(i)
    \/ \E i \in Name : TimePasses(i)
    \/ TickDue \/ RetryInitialize
    \/ \E i \in Eth, to \in Link : LinkChanges(i, to)

Spec == Init /\ [][Next]_vars

\* The tasks of the runtime run whenever they can, and every wait for a DHCP
\* server or a router ends with an answer or its timeout.
FairSpec ==
    /\ Spec
    /\ WF_vars(SupervisorStep)
    /\ \A i \in Name : WF_vars(InterfaceStep(i))
    /\ WF_vars(RetryInitialize)

------------------------------------------------------------------------------
(* Properties. *)

\* The variables of the supervisor and of its environment.
SupTypeOK ==
    /\ net \in NetState
    /\ primary \in Eth \cup {None}
    /\ backups \in Seq(Eth)
    /\ task \in {"idle", "provision", "reconcile"}
    /\ entry \in Nat \ {0} /\ step \in Nat \ {0}
    /\ boot \in {"queued", "running", "sleeping", "done"}
    /\ due \in BOOLEAN
    /\ events \in Seq(Event)
    /\ links \in [Eth -> Link]
    /\ plan \in Plan
    /\ changes \in Nat /\ lapses \in Nat
    /\ dns \in Eth \cup {None, ConfigDns}

\* Every variable has a value of its type; the tables of both state machines
\* are complete, so that no handler meets a state it has no row for.
NetworkTypeOK == IfaceTypeOK /\ SupTypeOK

\* Discovery, failover, recovery, hot-plug and removal keep the election
\* whole: every Ethernet actor is the primary or a backup, and only once; there
\* is no primary only when there is no actor, and then the network claims to
\* be neither Operational nor Ready.
Elected ==
    /\ IsInjective(backups)
    /\ primary \notin ToSet(backups)
    /\ known \cap Eth = ToSet(backups) \cup ({primary} \ {None})
    /\ primary = None => backups = <<>>
    /\ net \in {"Operational", "Ready"} => primary # None

\* A lease timer never outlives the lease it was armed for, also when the lease
\* moves to a bridge: renew_lease and rebind_lease always find their lease.
TimersHaveLease == \A i \in Name : timers[i] # {} => lease[i] # None

\* The bridge actor is born Configured and stays so whatever becomes of its
\* lease, because nothing sends it a command and a life cycle has no way from
\* Configured back to Configuring: reconcile never has to respawn it.
BridgeStaysConfigured == Bridge \in known => st[Bridge] = "Configured"

\* The supervisor waits for the answer of the actor of i.
AwaitsBridge(i) == Working /\ IsBridge /\ step = 3 /\ Target = i

BridgeRequests(i) == {k \in 1..Len(box[i]) : box[i][k].op = "Bridge"}

\* The supervisor and the port's actor never wait for each other: while the
\* supervisor waits for the answer to ConfigureBridge its one request is in the
\* channel of the present port, and no other request is in any channel, whatever
\* is elected, plugged or removed before and after.
OneBridgeRequest ==
    \A i \in Name : /\ AwaitsBridge(i) <=> BridgeRequests(i) # {}
                    /\ AwaitsBridge(i) => i \in known
                    /\ \A k, l \in BridgeRequests(i) : k = l

\* The primary and its backups in Election.
Elects == INSTANCE Election WITH
    Member <- Eth, Nobody <- None,
    members <- known \cap Eth, leader <- primary, settled <- boot = "done"

\* The supervisor implements Election.
ImplementsElection == Elects!Spec

NoBridge == \A k \in 1..Len(plan) : plan[k].ops # <<"Bridge">>

\* The primary has given up although there is a backup.
GivenUp(i) == primary = i /\ st[i] = "Failed" /\ backups # <<>>

\* Without a bridge, a primary whose acquisition gave up is replaced or tries
\* again: its Failed snapshot is noticed although only the receiver of the
\* present primary is watched and the primary may change meanwhile.
FailoverHappens == \A i \in Eth : NoBridge /\ GivenUp(i) ~> ~GivenUp(i)

\* dhcp/manager.rs:76 "giving up after ACQUIRE_MAX_ATTEMPTS failures so the
\* supervisor can elect another port", for every configuration.
FailoverAlways == \A i \in Eth : GivenUp(i) ~> ~GivenUp(i)

\* Without a bridge, the servers of the primary's lease reach resolv.conf, or
\* the primary or its address changes first.
DnsFollows ==
    \A i \in Eth : NoBridge /\ primary = i /\ ip[i] = "lease"
                   ~> dns = i \/ primary # i \/ ip[i] # "lease"

\* reconcile.rs:1 "Periodic reconciliation of configured network intent.": a
\* tick that is due is taken.
ReconcileKeepsUp == due ~> ~due
==============================================================================

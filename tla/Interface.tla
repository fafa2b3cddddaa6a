------------------------------ MODULE Interface ------------------------------
(***************************************************************************)
(* The per-interface actors of networkd (src/services/networkd/src/        *)
(* interface): one task per interface that owns its life cycle, its DHCP   *)
(* lease and timers, SLAAC and static addresses.                           *)
(*                                                                         *)
(* A task runs one handler at a time.  Between handlers actor_select polls *)
(* the mailbox, the acquisition of a lease, the SLAAC manager and the      *)
(* three lease timers, in that order, and drops the futures that lose: an  *)
(* acquisition starts again from its first attempt, and a solicitation is  *)
(* lost.  A handler that waits for a DHCP server is split at the wait      *)
(* (`busy'); the short netlink calls are part of their step and may fail.  *)
(*                                                                         *)
(* snapshot.state is `st', snapshot.lease the age of the lease on the wall *)
(* clock, snapshot.ip, .ipv6 and .l3_owner are `ip', `v6' and `owner'.     *)
(* dhcp_state and the link field, which no decision reads, MAC and index   *)
(* are left out.  Every handler leaves its snapshot published, so the      *)
(* published snapshot is the state between steps; `unseen' says that the   *)
(* actor has published since it was spawned.  An actor that was told to    *)
(* shut down has no handle left: nothing reads it, and it is dropped here. *)
(***************************************************************************)
EXTENDS Naturals, Sequences

CONSTANTS
    Eth,            \* Ethernet interfaces, ordered as their names and indexes
    Bridge,         \* the bridge device
    None,           \* no lease, no manager, no interface
    RenewalTime, RebindTime, LeaseTime,  \* T1, T2 and the end of a lease
    MaxAttempts     \* ACQUIRE_MAX_ATTEMPTS

Name == Eth \cup {Bridge}

ASSUME InterfaceAssumption ==
    /\ Eth \subseteq Nat
    /\ Bridge \notin Eth
    /\ RenewalTime \in Nat /\ RebindTime \in Nat /\ LeaseTime \in Nat
    /\ RenewalTime <= RebindTime /\ RebindTime <= LeaseTime
    /\ MaxAttempts \in Nat \ {0}
    /\ None \notin Nat /\ None # Bridge

VARIABLES
    known,   \* the actors the supervisor has a handle of
    st,      \* Lifecycle
    lease,   \* None, or the age of the lease
    ip,      \* where snapshot.ip comes from
    v6,      \* snapshot.ipv6 is set
    owner,   \* snapshot.l3_owner
    dhcp,    \* None, or the failed attempts of the present acquisition
    timers,  \* the armed lease timers
    slaac,   \* the SLAAC manager
    busy,    \* what the running handler waits for
    box,     \* the command channel
    unseen   \* published since spawned

ifaceVars == <<known, st, lease, ip, v6, owner, dhcp, timers, slaac, busy, box,
               unseen>>

Lifecycle == {"Discovered", "Configuring", "Configured", "Degraded", "Failed",
              "Deconfiguring"}

ValidNext == [Discovered    |-> {"Configuring"},
              Configuring   |-> {"Configured", "Failed"},
              Configured    |-> {"Degraded", "Deconfiguring"},
              Degraded      |-> {"Configuring", "Configured", "Deconfiguring"},
              Failed        |-> {"Configuring", "Deconfiguring"},
              Deconfiguring |-> {"Discovered"}]

\* set_state: a transition that is not valid is logged and changes nothing.
SetState(s, to) == IF to \in ValidNext[s] THEN to ELSE s

EnsureConfigured(s) == IF s = "Deconfiguring" THEN s ELSE "Configured"

Timer == {"renew", "rebind", "expire"}
Deadline == [renew |-> RenewalTime, rebind |-> RebindTime, expire |-> LeaseTime]

\* LeaseTimers::arm: a deadline that has passed arms nothing.
Arm(age) == {t \in Timer : Deadline[t] >= age}

Command == [op : {"Dhcp", "Static4", "Static6", "Slaac"},
            mode : {"Provision", "Reconcile"}]
           \cup [op : {"Bridge", "LinkUp", "LinkDown"}, mode : {"-"}]

\* A manager is new until actor_select polls it; then it solicits; then it
\* watches an address, a router, both or (bare) neither.
Manager == {"none", "new", "soliciting", "bare", "address", "router", "both"}

IfaceTypeOK ==
    /\ known \subseteq Name
    /\ st \in [Name -> Lifecycle]
    /\ lease \in [Name -> 0..LeaseTime \cup {None}]
    /\ ip \in [Name -> {"none", "lease", "static"}]
    /\ v6 \in [Name -> BOOLEAN]
    /\ owner \in [Name -> Name]
    /\ dhcp \in [Name -> 0..MaxAttempts - 1 \cup {None}]
    /\ timers \in [Name -> SUBSET Timer]
    /\ slaac \in [Name -> Manager]
    /\ busy \in [Name -> {"no", "dora", "renew", "rebind"}]
    /\ box \in [Name -> Seq(Command)]
    /\ unseen \in [Name -> BOOLEAN]

\* The actors of S are as they are spawned for a new interface.
Fresh(S) ==
    /\ st' = [n \in Name |-> IF n \in S THEN "Discovered" ELSE st[n]]
    /\ lease' = [n \in Name |-> IF n \in S THEN None ELSE lease[n]]
    /\ ip' = [n \in Name |-> IF n \in S THEN "none" ELSE ip[n]]
    /\ v6' = [n \in Name |-> n \notin S /\ v6[n]]
    /\ owner' = [n \in Name |-> IF n \in S THEN n ELSE owner[n]]
    /\ dhcp' = [n \in Name |-> IF n \in S THEN None ELSE dhcp[n]]
    /\ timers' = [n \in Name |-> IF n \in S THEN {} ELSE timers[n]]
    /\ slaac' = [n \in Name |-> IF n \in S THEN "none" ELSE slaac[n]]
    /\ busy' = [n \in Name |-> IF n \in S THEN "no" ELSE busy[n]]
    /\ box' = [n \in Name |-> IF n \in S THEN <<>> ELSE box[n]]
    /\ unseen' = [n \in Name |-> n \notin S /\ unseen[n]]

IfaceInit ==
    /\ known = {}
    /\ st = [n \in Name |-> "Discovered"]
    /\ lease = [n \in Name |-> None]
    /\ ip = [n \in Name |-> "none"]
    /\ v6 = [n \in Name |-> FALSE]
    /\ owner = [n \in Name |-> n]
    /\ dhcp = [n \in Name |-> None]
    /\ timers = [n \in Name |-> {}]
    /\ slaac = [n \in Name |-> "none"]
    /\ busy = [n \in Name |-> "no"]
    /\ box = [n \in Name |-> <<>>]
    /\ unseen = [n \in Name |-> FALSE]

------------------------------------------------------------------------------
(* The futures of actor_select. *)

\* acquire() is called anew by every actor_select.
Restarted(m) == IF m = None THEN None ELSE 0

\* `solicited' is already set when the solicitation is dropped.
Unsolicited(m) == IF m = "soliciting" THEN "bare" ELSE m

DropDhcp(i) == dhcp' = [dhcp EXCEPT ![i] = Restarted(@)]
DropSlaac(i) == slaac' = [slaac EXCEPT ![i] = Unsolicited(@)]

\* Commands come before everything else.
Selecting(i) == i \in known /\ busy[i] = "no" /\ box[i] = <<>>

\* The next command, for the handler of op.
Received(i, op) ==
    /\ i \in known /\ busy[i] = "no" /\ box[i] # <<>>
    /\ Head(box[i]).op = op
    /\ box' = [box EXCEPT ![i] = Tail(@)]

Mode(i) == Head(box[i]).mode

Publish(i) == unseen' = [unseen EXCEPT ![i] = TRUE]

\* set_state publishes when the transition is valid.
PublishIfMoved(i) == unseen' = [unseen EXCEPT ![i] = @ \/ st'[i] # st[i]]

------------------------------------------------------------------------------
(* DHCP. *)

\* start: when the socket fails, a manager that was there stays.
StartDhcp(i) ==
    /\ \/ /\ dhcp' = [dhcp EXCEPT ![i] = 0]
          /\ st' = [st EXCEPT ![i] = SetState(@, "Configuring")]
       \/ /\ DropDhcp(i)
          /\ st' = [st EXCEPT ![i] =
                        SetState(SetState(@, "Configuring"), "Failed")]
    /\ PublishIfMoved(i)
    /\ UNCHANGED <<lease, ip, timers>>

\* store_lease and arm, for a lease of the given age.
HoldLease(i, age) ==
    /\ lease' = [lease EXCEPT ![i] = age]
    /\ ip' = [ip EXCEPT ![i] = "lease"]
    /\ timers' = [timers EXCEPT ![i] = Arm(age)]

\* The lease is applied again; without one an acquisition is started.
ReconcileDhcp(i) ==
    \/ /\ lease[i] # None
       /\ HoldLease(i, lease[i])
       /\ st' = [st EXCEPT ![i] = EnsureConfigured(@)]
       /\ Publish(i)
       /\ DropDhcp(i)
    \/ /\ lease[i] = None /\ dhcp[i] = None
       /\ StartDhcp(i)
    \/ \* the lease cannot be applied, or an acquisition is under way
       /\ lease[i] # None \/ dhcp[i] # None
       /\ DropDhcp(i)
       /\ UNCHANGED <<st, lease, ip, timers, unseen>>

ConfigureDhcp(i) ==
    /\ Received(i, "Dhcp")
    /\ \/ Mode(i) = "Provision" /\ StartDhcp(i)
       \/ Mode(i) = "Reconcile" /\ ReconcileDhcp(i)
    /\ DropSlaac(i)
    /\ UNCHANGED <<known, v6, owner, busy>>

\* Mutant: the state is assigned without asking whether the change is valid.
MutBeginDora(i) ==
    /\ st' = [st EXCEPT ![i] = "Configuring"]
    /\ timers' = [timers EXCEPT ![i] = {}]
    /\ busy' = [busy EXCEPT ![i] = "dora"]

\* do_full_dora up to its wait.
BeginDora(i) ==
    /\ st' = [st EXCEPT ![i] = SetState(@, "Configuring")]
    /\ timers' = [timers EXCEPT ![i] = {}]
    /\ busy' = [busy EXCEPT ![i] = "dora"]

\* do_full_dora after its wait.
DoraEnds(i) ==
    /\ i \in known /\ busy[i] = "dora"
    /\ busy' = [busy EXCEPT ![i] = "no"]
    /\ \/ /\ HoldLease(i, 0)
          /\ st' = [st EXCEPT ![i] = SetState(@, "Configured")]
       \/ \* no server, or a NAK
          /\ st' = [st EXCEPT ![i] = SetState(@, "Failed")]
          /\ UNCHANGED <<lease, ip, timers>>
       \/ \* no socket, or the lease cannot be applied
          UNCHANGED <<st, lease, ip, timers>>
    /\ Publish(i)
    /\ UNCHANGED <<known, v6, owner, dhcp, slaac, box>>

\* Mutant: one attempt too many.
MutDhcpAttemptFails(i) ==
    /\ Selecting(i)
    /\ dhcp[i] # None /\ dhcp[i] + 1 <= MaxAttempts
    /\ dhcp' = [dhcp EXCEPT ![i] = @ + 1]
    /\ UNCHANGED <<known, st, lease, ip, v6, owner, timers, slaac, busy, box,
                   unseen>>

\* One attempt of acquire_attempts fails and another one is left.
DhcpAttemptFails(i) ==
    /\ Selecting(i)
    /\ dhcp[i] # None /\ dhcp[i] + 1 < MaxAttempts
    /\ dhcp' = [dhcp EXCEPT ![i] = @ + 1]
    /\ UNCHANGED <<known, st, lease, ip, v6, owner, timers, slaac, busy, box,
                   unseen>>

\* The last attempt fails: acquisition_failed.
DhcpFailed(i) ==
    /\ Selecting(i)
    /\ dhcp[i] # None /\ dhcp[i] + 1 = MaxAttempts
    /\ dhcp' = [dhcp EXCEPT ![i] = None]
    /\ st' = [st EXCEPT ![i] = SetState(@, "Failed")]
    /\ PublishIfMoved(i)
    /\ DropSlaac(i)
    /\ UNCHANGED <<known, lease, ip, v6, owner, timers, busy, box>>

\* acquired: the lease is applied, or cannot be.
DhcpLease(i) ==
    /\ Selecting(i)
    /\ dhcp[i] # None
    /\ dhcp' = [dhcp EXCEPT ![i] = None]
    /\ \/ /\ HoldLease(i, 0)
          /\ st' = [st EXCEPT ![i] = SetState(@, "Configured")]
          /\ Publish(i)
       \/ /\ st' = [st EXCEPT ![i] = SetState(@, "Failed")]
          /\ PublishIfMoved(i)
          /\ UNCHANGED <<lease, ip, timers>>
    /\ DropSlaac(i)
    /\ UNCHANGED <<known, v6, owner, busy, box>>

\* renew_lease and rebind_lease up to their wait.
AskAgain(i, t) ==
    /\ Selecting(i)
    /\ t \in timers[i] \cap {"renew", "rebind"} /\ lease[i] >= Deadline[t]
    /\ timers' = [timers EXCEPT ![i] = @ \ {t}]
    /\ busy' = [busy EXCEPT ![i] = t]
    /\ DropDhcp(i) /\ DropSlaac(i)
    /\ UNCHANGED <<known, st, lease, ip, v6, owner, box, unseen>>

\* do_renew and do_rebind after their wait.
Answered(i) ==
    /\ i \in known /\ busy[i] \in {"renew", "rebind"}
    /\ \/ /\ HoldLease(i, 0)
          /\ busy' = [busy EXCEPT ![i] = "no"]
          /\ Publish(i)
          /\ UNCHANGED st
       \/ \* a NAK
          /\ BeginDora(i)
          /\ PublishIfMoved(i)
          /\ UNCHANGED <<lease, ip>>
       \/ \* no answer, or an answer that cannot be applied
          /\ busy' = [busy EXCEPT ![i] = "no"]
          /\ UNCHANGED <<st, lease, ip, timers, unseen>>
    /\ UNCHANGED <<known, v6, owner, dhcp, slaac, box>>

Expire(i) ==
    /\ Selecting(i)
    /\ "expire" \in timers[i] /\ lease[i] = LeaseTime
    /\ BeginDora(i)
    /\ PublishIfMoved(i)
    /\ DropDhcp(i) /\ DropSlaac(i)
    /\ UNCHANGED <<known, lease, ip, v6, owner, box>>

\* Time passes for a lease.
Age(i) ==
    /\ i \in known /\ lease[i] # None /\ lease[i] < LeaseTime
    /\ lease' = [lease EXCEPT ![i] = @ + 1]
    /\ UNCHANGED <<known, st, ip, v6, owner, dhcp, timers, slaac, busy, box,
                   unseen>>

------------------------------------------------------------------------------
(* Static addresses. *)

\* set for either family; Provision leaves Configuring behind when it fails.
ConfigureStatic(i) ==
    /\ \/ Received(i, "Static4")
       \/ Received(i, "Static6")
    /\ LET started == IF Mode(i) = "Provision"
                      THEN SetState(st[i], "Configuring") ELSE st[i]
           family == Head(box[i]).op
       IN \/ /\ st' = [st EXCEPT ![i] = IF Mode(i) = "Provision"
                                        THEN SetState(started, "Configured")
                                        ELSE EnsureConfigured(@)]
             /\ ip' = [ip EXCEPT ![i] = IF family = "Static4" THEN "static"
                                        ELSE @]
             /\ v6' = [v6 EXCEPT ![i] = @ \/ family = "Static6"]
             /\ IF Mode(i) = "Provision" THEN PublishIfMoved(i)
                                         ELSE Publish(i)
          \/ /\ st' = [st EXCEPT ![i] = started]
             /\ PublishIfMoved(i)
             /\ UNCHANGED <<ip, v6>>
    /\ DropDhcp(i) /\ DropSlaac(i)
    /\ UNCHANGED <<known, lease, owner, timers, busy>>

------------------------------------------------------------------------------
(* SLAAC. *)

\* start, or reconcile, which applies the present address first.
ConfigureSlaac(i) ==
    /\ Received(i, "Slaac")
    /\ \/ /\ Mode(i) = "Reconcile" /\ v6[i]
          /\ st' = [st EXCEPT ![i] = EnsureConfigured(@)]
          /\ Publish(i)
       \/ UNCHANGED <<st, unseen>>
    /\ \/ /\ Mode(i) = "Provision" \/ slaac[i] = "none"
          /\ slaac' = [slaac EXCEPT ![i] = "new"]
       \/ DropSlaac(i)
    /\ DropDhcp(i)
    /\ UNCHANGED <<known, lease, ip, v6, owner, timers, busy>>

\* next_event is polled for the first time and sets `solicited'.
Solicit(i) ==
    /\ Selecting(i)
    /\ slaac[i] = "new"
    /\ slaac' = [slaac EXCEPT ![i] = "soliciting"]
    /\ UNCHANGED <<known, st, lease, ip, v6, owner, dhcp, timers, busy, box,
                   unseen>>

\* process_initial_ra and on_configured.
SlaacConfigured(i) ==
    /\ Selecting(i)
    /\ slaac[i] = "soliciting"
    /\ slaac' = [slaac EXCEPT ![i] = "both"]
    /\ \/ /\ v6' = [v6 EXCEPT ![i] = TRUE]
          /\ st' = [st EXCEPT ![i] = EnsureConfigured(@)]
          /\ Publish(i)
       \/ UNCHANGED <<st, v6, unseen>>
    /\ DropDhcp(i)
    /\ UNCHANGED <<known, lease, ip, owner, timers, busy, box>>

\* No usable advertisement, or nothing left to watch.
SlaacFailed(i) ==
    /\ Selecting(i)
    /\ slaac[i] \in {"soliciting", "bare"}
    /\ slaac' = [slaac EXCEPT ![i] = "none"]
    /\ DropDhcp(i)
    /\ UNCHANGED <<known, st, lease, ip, v6, owner, timers, busy, box, unseen>>

\* AddressDeprecated and DnsUpdated.
SlaacNotice(i) ==
    /\ Selecting(i)
    /\ slaac[i] \in {"bare", "address", "router", "both"}
    /\ \/ v6[i] /\ Publish(i)
       \/ UNCHANGED unseen
    /\ DropDhcp(i)
    /\ UNCHANGED <<known, st, lease, ip, v6, owner, timers, slaac, busy, box>>

AddressExpired(i) ==
    /\ Selecting(i)
    /\ slaac[i] \in {"address", "both"}
    /\ slaac' = [slaac EXCEPT ![i] = IF @ = "both" THEN "router" ELSE "bare"]
    /\ v6' = [v6 EXCEPT ![i] = FALSE]
    /\ Publish(i)
    /\ DropDhcp(i)
    /\ UNCHANGED <<known, st, lease, ip, owner, timers, busy, box>>

RouterExpired(i) ==
    /\ Selecting(i)
    /\ slaac[i] \in {"router", "both"}
    /\ slaac' = [slaac EXCEPT ![i] = IF @ = "both" THEN "address" ELSE "bare"]
    /\ DropDhcp(i)
    /\ UNCHANGED <<known, st, lease, ip, v6, owner, timers, busy, box, unseen>>

------------------------------------------------------------------------------
(* Link changes. *)

\* up: only a Degraded or Failed interface acts on it.
LinkUp(i) ==
    /\ Received(i, "LinkUp")
    /\ \/ /\ st[i] \notin {"Degraded", "Failed"}
          /\ UNCHANGED <<st, timers, busy, unseen>>
       \/ /\ st[i] \in {"Degraded", "Failed"} /\ lease[i] # None
          /\ \/ \* recover_with_lease
                /\ timers' = [timers EXCEPT ![i] = Arm(lease[i])]
                /\ st' = [st EXCEPT ![i] = SetState(@, "Configured")]
             \/ /\ st' = [st EXCEPT ![i] = SetState(@, "Failed")]
                /\ UNCHANGED timers
          /\ Publish(i)
          /\ UNCHANGED busy
       \/ /\ st[i] \in {"Degraded", "Failed"} /\ lease[i] = None
          /\ BeginDora(i)
          /\ Publish(i)
    /\ DropDhcp(i) /\ DropSlaac(i)
    /\ UNCHANGED <<known, lease, ip, v6, owner>>

\* down
LinkDown(i) ==
    /\ Received(i, "LinkDown")
    /\ dhcp' = [dhcp EXCEPT ![i] = None]
    /\ timers' = [timers EXCEPT ![i] = {}]
    /\ st' = [st EXCEPT ![i] = IF @ = "Configured" THEN "Degraded"
                               ELSE IF @ = "Configuring" THEN "Failed"
                               ELSE @]
    /\ Publish(i)
    /\ DropSlaac(i)
    /\ UNCHANGED <<known, lease, ip, v6, owner, busy>>

------------------------------------------------------------------------------
\* What actor i does of itself: one event of actor_loop or the end of a wait.
ActorStep(i) ==
    \/ ConfigureDhcp(i) \/ ConfigureStatic(i) \/ ConfigureSlaac(i)
    \/ LinkUp(i) \/ LinkDown(i)
    \/ DhcpAttemptFails(i) \/ DhcpFailed(i) \/ DhcpLease(i)
    \/ DoraEnds(i)
    \/ \E t \in Timer : AskAgain(i, t)
    \/ Answered(i) \/ Expire(i)
    \/ Solicit(i) \/ SlaacConfigured(i) \/ SlaacFailed(i)

\* What time and the routers of the network bring.
Outside(i) ==
    \/ Age(i)
    \/ SlaacNotice(i) \/ AddressExpired(i) \/ RouterExpired(i)
=============================================================================

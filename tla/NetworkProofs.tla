---------------------------- MODULE NetworkProofs ----------------------------
(***************************************************************************)
(* Proofs about Network, for any number of interfaces, any configuration,  *)
(* any lease times and any capacity of the channels.                       *)
(***************************************************************************)
EXTENDS Network, FiniteSetTheorems, TLAPS

------------------------------------------------------------------------------
(* The interface actors *)

\* Nothing is ever sent to the actor of the bridge and it runs neither an
\* acquisition nor SLAAC, so that only its lease timers wake it up.
BridgeQuiet == box[Bridge] = <<>> /\ dhcp[Bridge] = None /\ slaac[Bridge] = "none"

\* What the actors preserve by themselves.
IfaceInv == IfaceTypeOK /\ TimersHaveLease /\ BridgeQuiet /\ BridgeStaysConfigured

\* What a step makes of the life cycles, the leases, the mailboxes with the
\* futures, the waits, and the flags.
StatesKept == /\ st' \in [Name -> Lifecycle]
              /\ Bridge \in known => st'[Bridge] = "Configured"

LeasesKept == /\ lease' \in [Name -> 0..LeaseTime \cup {None}]
              /\ ip' \in [Name -> {"none", "lease", "static"}]
              /\ timers' \in [Name -> SUBSET Timer]
              /\ TimersHaveLease'

FuturesKept == /\ dhcp' \in [Name -> 0..MaxAttempts - 1 \cup {None}]
               /\ slaac' \in [Name -> Manager]
               /\ box' \in [Name -> Seq(Command)]
               /\ BridgeQuiet'

WaitsKept == /\ busy' \in [Name -> {"no", "dora", "renew", "rebind"}]
             /\ known' = known /\ owner' = owner

FlagsKept == v6' \in [Name -> BOOLEAN] /\ unseen' \in [Name -> BOOLEAN]

\* The bridge has an actor of its own.
LEMMA BridgeIsAName == Bridge \in Name
  BY DEF Name

\* Together they are the invariant after the step.
LEMMA Kept ==
    ASSUME IfaceInv, StatesKept, LeasesKept, FuturesKept, WaitsKept, FlagsKept
    PROVE  IfaceInv' /\ known' = known
  BY DEF IfaceInv, IfaceTypeOK, BridgeStaysConfigured, StatesKept, LeasesKept,
         FuturesKept, WaitsKept, FlagsKept

\* set_state moves inside the life cycle.
LEMMA SetStateType ==
    ASSUME NEW s \in Lifecycle, NEW to \in Lifecycle
    PROVE  SetState(s, to) \in Lifecycle
  BY DEF SetState

\* The three changes an actor tries without being told are not valid from
\* Configured.
LEMMA ConfiguredStays ==
    /\ SetState("Configured", "Configuring") = "Configured"
    /\ SetState("Configured", "Configured") = "Configured"
    /\ SetState("Configured", "Failed") = "Configured"
  BY DEF SetState, ValidNext

\* Publishing keeps the type of the flags.
LEMMA PublishType ==
    ASSUME IfaceTypeOK, NEW i \in Name, Publish(i)
    PROVE  unseen' \in [Name -> BOOLEAN]
  BY DEF IfaceTypeOK, Publish

\* Publishing keeps the type of the flags.
LEMMA PublishIfMovedType ==
    ASSUME IfaceTypeOK, NEW i \in Name, PublishIfMoved(i)
    PROVE  unseen' \in [Name -> BOOLEAN]
  BY DEF IfaceTypeOK, PublishIfMoved

\* Dropping the future of an acquisition starts none.
LEMMA DropDhcpType ==
    ASSUME IfaceTypeOK, NEW i \in Name, DropDhcp(i)
    PROVE  /\ dhcp' \in [Name -> 0..MaxAttempts - 1 \cup {None}]
           /\ \A n \in Name : dhcp[n] = None => dhcp'[n] = None
  BY InterfaceAssumption DEF IfaceTypeOK, DropDhcp, Restarted, InterfaceAssumption

\* Dropping the future of a solicitation starts no manager.
LEMMA DropSlaacType ==
    ASSUME IfaceTypeOK, NEW i \in Name, DropSlaac(i)
    PROVE  /\ slaac' \in [Name -> Manager]
           /\ \A n \in Name : slaac[n] = "none" => slaac'[n] = "none"
  BY DEF IfaceTypeOK, DropSlaac, Unsolicited, Manager

\* Receiving takes from one mailbox only.
LEMMA ReceivedType ==
    ASSUME IfaceTypeOK, NEW i \in Name, NEW op, Received(i, op)
    PROVE  /\ box' \in [Name -> Seq(Command)]
           /\ box[i] # <<>> /\ box[i] \in Seq(Command)
           /\ \A n \in Name : n # i => box'[n] = box[n]
  BY DEF IfaceTypeOK, Received

\* So does ensure_configured.
LEMMA EnsureType ==
    ASSUME NEW s \in Lifecycle PROVE EnsureConfigured(s) \in Lifecycle
  BY DEF EnsureConfigured, Lifecycle

\* A command is never addressed to the bridge.
LEMMA AddressedIsEthernet ==
    ASSUME IfaceInv, NEW i \in Name, NEW op, Received(i, op) PROVE i # Bridge
  BY DEF IfaceInv, BridgeQuiet, Received

\* A lease is held together with the timers armed for it.
LEMMA HoldLeaseKept ==
    ASSUME IfaceInv, NEW i \in Name, NEW age \in 0..LeaseTime, HoldLease(i, age)
    PROVE  LeasesKept
  <1>1. Arm(age) \in SUBSET Timer /\ age # None
    BY InterfaceAssumption DEF InterfaceAssumption, Arm
  <1>2. QED
    BY <1>1 DEF IfaceInv, IfaceTypeOK, TimersHaveLease, HoldLease, LeasesKept

\* Disarming timers keeps the rest.
LEMMA DisarmedKept ==
    ASSUME IfaceInv, NEW i \in Name, NEW T \in SUBSET timers[i],
           timers' = [timers EXCEPT ![i] = T], UNCHANGED <<lease, ip>>
    PROVE  LeasesKept
  BY DEF IfaceInv, IfaceTypeOK, TimersHaveLease, LeasesKept

\* A step that leaves the leases alone.
LEMMA LeasesUnchanged ==
    ASSUME IfaceInv, UNCHANGED <<lease, ip, timers>> PROVE LeasesKept
  BY DEF IfaceInv, IfaceTypeOK, TimersHaveLease, LeasesKept

\* An actor moves its state with set_state; the bridge stays.
LEMMA SetStateKept ==
    ASSUME IfaceInv, NEW i \in Name, NEW to \in {"Configuring", "Configured", "Failed"},
           st' = [st EXCEPT ![i] = SetState(@, to)]
    PROVE  StatesKept
  <1>1. SetState(st[i], to) \in Lifecycle
    BY SetStateType DEF IfaceInv, IfaceTypeOK, Lifecycle
  <1>2. i = Bridge /\ Bridge \in known => SetState(st[i], to) = "Configured"
    BY ConfiguredStays DEF IfaceInv, BridgeStaysConfigured
  <1>3. QED
    BY <1>1, <1>2, BridgeIsAName DEF IfaceInv, IfaceTypeOK, BridgeStaysConfigured, StatesKept

\* An Ethernet actor moves to any state.
LEMMA EthernetStateKept ==
    ASSUME IfaceInv, NEW i \in Name, i # Bridge,
           NEW v \in Lifecycle, st' = [st EXCEPT ![i] = v]
    PROVE  StatesKept
  BY BridgeIsAName DEF IfaceInv, IfaceTypeOK, BridgeStaysConfigured, StatesKept

\* A step that leaves the life cycles alone.
LEMMA StatesUnchanged ==
    ASSUME IfaceInv, UNCHANGED st PROVE StatesKept
  BY DEF IfaceInv, IfaceTypeOK, BridgeStaysConfigured, StatesKept

\* A step of actor i that starts nothing.
LEMMA FuturesDropped ==
    ASSUME IfaceInv, NEW i \in Name,
           dhcp' = dhcp \/ DropDhcp(i), slaac' = slaac \/ DropSlaac(i),
           box' = box \/ \E op \in Ops \cup {"Bridge", "LinkUp", "LinkDown"} : Received(i, op)
    PROVE  FuturesKept
  BY DropDhcpType, DropSlaacType, ReceivedType, BridgeIsAName
  DEF IfaceInv, IfaceTypeOK, BridgeQuiet, FuturesKept

\* One attempt fails.
LEMMA DhcpAttemptFailsInv ==
    ASSUME IfaceInv, NEW i \in Name, DhcpAttemptFails(i) PROVE IfaceInv' /\ known' = known
  <1>1. StatesKept
    BY StatesUnchanged DEF DhcpAttemptFails
  <1>2. LeasesKept
    BY LeasesUnchanged DEF DhcpAttemptFails
  <1>3. FuturesKept
    BY DropDhcpType, DropSlaacType, BridgeIsAName, InterfaceAssumption
    DEF DhcpAttemptFails, IfaceInv, IfaceTypeOK, BridgeQuiet, Manager, FuturesKept, InterfaceAssumption
  <1>4. WaitsKept
    BY DEF DhcpAttemptFails, IfaceInv, IfaceTypeOK, WaitsKept
  <1>5. FlagsKept
    BY PublishType, PublishIfMovedType DEF DhcpAttemptFails, IfaceInv, IfaceTypeOK, FlagsKept
  <1>6. QED
    BY <1>1, <1>2, <1>3, <1>4, <1>5, Kept

\* The acquisition gives up.
LEMMA DhcpFailedInv ==
    ASSUME IfaceInv, NEW i \in Name, DhcpFailed(i) PROVE IfaceInv' /\ known' = known
  <1>1. StatesKept
    BY SetStateKept DEF DhcpFailed
  <1>2. LeasesKept
    BY LeasesUnchanged DEF DhcpFailed
  <1>3. FuturesKept
    BY DropDhcpType, DropSlaacType, BridgeIsAName, InterfaceAssumption
    DEF DhcpFailed, IfaceInv, IfaceTypeOK, BridgeQuiet, Manager, FuturesKept, InterfaceAssumption
  <1>4. WaitsKept
    BY DEF DhcpFailed, IfaceInv, IfaceTypeOK, WaitsKept
  <1>5. FlagsKept
    BY PublishType, PublishIfMovedType DEF DhcpFailed, IfaceInv, IfaceTypeOK, FlagsKept
  <1>6. QED
    BY <1>1, <1>2, <1>3, <1>4, <1>5, Kept

\* A lease is acquired.
LEMMA DhcpLeaseInv ==
    ASSUME IfaceInv, NEW i \in Name, DhcpLease(i) PROVE IfaceInv' /\ known' = known
  <1>1. StatesKept
    BY SetStateKept DEF DhcpLease
  <1>2. LeasesKept
    <2>1. CASE HoldLease(i, 0)
      BY <2>1, HoldLeaseKept, InterfaceAssumption DEF InterfaceAssumption
    <2>2. CASE UNCHANGED <<lease, ip, timers>>
      BY <2>2, LeasesUnchanged
    <2>3. QED
      BY <2>1, <2>2 DEF DhcpLease
  <1>3. FuturesKept
    BY DropDhcpType, DropSlaacType, BridgeIsAName, InterfaceAssumption
    DEF DhcpLease, IfaceInv, IfaceTypeOK, BridgeQuiet, Manager, FuturesKept, InterfaceAssumption
  <1>4. WaitsKept
    BY DEF DhcpLease, IfaceInv, IfaceTypeOK, WaitsKept
  <1>5. FlagsKept
    BY PublishType, PublishIfMovedType DEF DhcpLease, IfaceInv, IfaceTypeOK, FlagsKept
  <1>6. QED
    BY <1>1, <1>2, <1>3, <1>4, <1>5, Kept

\* do_full_dora after its wait.
LEMMA DoraEndsInv ==
    ASSUME IfaceInv, NEW i \in Name, DoraEnds(i) PROVE IfaceInv' /\ known' = known
  <1>1. StatesKept
    BY SetStateKept, StatesUnchanged DEF DoraEnds
  <1>2. LeasesKept
    <2>1. CASE HoldLease(i, 0)
      BY <2>1, HoldLeaseKept, InterfaceAssumption DEF InterfaceAssumption
    <2>2. CASE UNCHANGED <<lease, ip, timers>>
      BY <2>2, LeasesUnchanged
    <2>3. QED
      BY <2>1, <2>2 DEF DoraEnds
  <1>3. FuturesKept
    BY FuturesDropped DEF DoraEnds
  <1>4. WaitsKept
    BY DEF DoraEnds, IfaceInv, IfaceTypeOK, WaitsKept
  <1>5. FlagsKept
    BY PublishType, PublishIfMovedType DEF DoraEnds, IfaceInv, IfaceTypeOK, FlagsKept
  <1>6. QED
    BY <1>1, <1>2, <1>3, <1>4, <1>5, Kept

\* A lease is renewed or rebound, up to the wait.
LEMMA AskAgainInv ==
    ASSUME IfaceInv, NEW i \in Name, NEW t \in Timer, AskAgain(i, t) PROVE IfaceInv' /\ known' = known
  <1>1. StatesKept
    BY StatesUnchanged DEF AskAgain
  <1>2. LeasesKept
    BY DisarmedKept DEF AskAgain
  <1>3. FuturesKept
    BY FuturesDropped DEF AskAgain
  <1>4. WaitsKept
    BY DEF AskAgain, IfaceInv, IfaceTypeOK, WaitsKept
  <1>5. FlagsKept
    BY PublishType, PublishIfMovedType DEF AskAgain, IfaceInv, IfaceTypeOK, FlagsKept
  <1>6. QED
    BY <1>1, <1>2, <1>3, <1>4, <1>5, Kept

\* A renewal is answered or not.
LEMMA AnsweredInv ==
    ASSUME IfaceInv, NEW i \in Name, Answered(i) PROVE IfaceInv' /\ known' = known
  <1>1. StatesKept
    BY SetStateKept, StatesUnchanged DEF Answered, BeginDora
  <1>2. LeasesKept
    <2>1. CASE HoldLease(i, 0)
      BY <2>1, HoldLeaseKept, InterfaceAssumption DEF InterfaceAssumption
    <2>2. CASE BeginDora(i) /\ UNCHANGED <<lease, ip>>
      BY <2>2, DisarmedKept DEF BeginDora
    <2>3. CASE UNCHANGED <<lease, ip, timers>>
      BY <2>3, LeasesUnchanged
    <2>4. QED
      BY <2>1, <2>2, <2>3 DEF Answered
  <1>3. FuturesKept
    BY FuturesDropped DEF Answered
  <1>4. WaitsKept
    BY DEF Answered, BeginDora, IfaceInv, IfaceTypeOK, WaitsKept
  <1>5. FlagsKept
    BY PublishType, PublishIfMovedType DEF Answered, IfaceInv, IfaceTypeOK, FlagsKept
  <1>6. QED
    BY <1>1, <1>2, <1>3, <1>4, <1>5, Kept

\* A lease expires.
LEMMA ExpireInv ==
    ASSUME IfaceInv, NEW i \in Name, Expire(i) PROVE IfaceInv' /\ known' = known
  <1>1. StatesKept
    BY SetStateKept DEF Expire, BeginDora
  <1>2. LeasesKept
    BY DisarmedKept DEF Expire, BeginDora
  <1>3. FuturesKept
    BY FuturesDropped DEF Expire
  <1>4. WaitsKept
    BY DEF Expire, BeginDora, IfaceInv, IfaceTypeOK, WaitsKept
  <1>5. FlagsKept
    BY PublishType, PublishIfMovedType DEF Expire, IfaceInv, IfaceTypeOK, FlagsKept
  <1>6. QED
    BY <1>1, <1>2, <1>3, <1>4, <1>5, Kept

\* A lease ages.
LEMMA AgeInv ==
    ASSUME IfaceInv, NEW i \in Name, Age(i) PROVE IfaceInv' /\ known' = known
  <1>1. StatesKept
    BY StatesUnchanged DEF Age
  <1>2. LeasesKept
    BY InterfaceAssumption
    DEF Age, IfaceInv, IfaceTypeOK, TimersHaveLease, LeasesKept, InterfaceAssumption
  <1>3. FuturesKept
    BY FuturesDropped DEF Age
  <1>4. WaitsKept
    BY DEF Age, IfaceInv, IfaceTypeOK, WaitsKept
  <1>5. FlagsKept
    BY PublishType, PublishIfMovedType DEF Age, IfaceInv, IfaceTypeOK, FlagsKept
  <1>6. QED
    BY <1>1, <1>2, <1>3, <1>4, <1>5, Kept

\* The manager solicits.
LEMMA SolicitInv ==
    ASSUME IfaceInv, NEW i \in Name, Solicit(i) PROVE IfaceInv' /\ known' = known
  <1>1. StatesKept
    BY StatesUnchanged DEF Solicit
  <1>2. LeasesKept
    BY LeasesUnchanged DEF Solicit
  <1>3. FuturesKept
    BY DropDhcpType, DropSlaacType, BridgeIsAName, InterfaceAssumption
    DEF Solicit, IfaceInv, IfaceTypeOK, BridgeQuiet, Manager, FuturesKept, InterfaceAssumption
  <1>4. WaitsKept
    BY DEF Solicit, IfaceInv, IfaceTypeOK, WaitsKept
  <1>5. FlagsKept
    BY PublishType, PublishIfMovedType DEF Solicit, IfaceInv, IfaceTypeOK, FlagsKept
  <1>6. QED
    BY <1>1, <1>2, <1>3, <1>4, <1>5, Kept

\* The manager configures an address.
LEMMA SlaacConfiguredInv ==
    ASSUME IfaceInv, NEW i \in Name, SlaacConfigured(i) PROVE IfaceInv' /\ known' = known
  <1>0. i # Bridge /\ st[i] \in Lifecycle
    BY DEF SlaacConfigured, IfaceInv, IfaceTypeOK, BridgeQuiet
  <1>1. StatesKept
    BY <1>0, EnsureType, EthernetStateKept, StatesUnchanged DEF SlaacConfigured
  <1>2. LeasesKept
    BY LeasesUnchanged DEF SlaacConfigured
  <1>3. FuturesKept
    BY DropDhcpType, DropSlaacType, BridgeIsAName, InterfaceAssumption
    DEF SlaacConfigured, IfaceInv, IfaceTypeOK, BridgeQuiet, Manager, FuturesKept, InterfaceAssumption
  <1>4. WaitsKept
    BY DEF SlaacConfigured, IfaceInv, IfaceTypeOK, WaitsKept
  <1>5. FlagsKept
    BY PublishType, PublishIfMovedType DEF SlaacConfigured, IfaceInv, IfaceTypeOK, FlagsKept
  <1>6. QED
    BY <1>1, <1>2, <1>3, <1>4, <1>5, Kept

\* The manager gives up.
LEMMA SlaacFailedInv ==
    ASSUME IfaceInv, NEW i \in Name, SlaacFailed(i) PROVE IfaceInv' /\ known' = known
  <1>1. StatesKept
    BY StatesUnchanged DEF SlaacFailed
  <1>2. LeasesKept
    BY LeasesUnchanged DEF SlaacFailed
  <1>3. FuturesKept
    BY DropDhcpType, DropSlaacType, BridgeIsAName, InterfaceAssumption
    DEF SlaacFailed, IfaceInv, IfaceTypeOK, BridgeQuiet, Manager, FuturesKept, InterfaceAssumption
  <1>4. WaitsKept
    BY DEF SlaacFailed, IfaceInv, IfaceTypeOK, WaitsKept
  <1>5. FlagsKept
    BY PublishType, PublishIfMovedType DEF SlaacFailed, IfaceInv, IfaceTypeOK, FlagsKept
  <1>6. QED
    BY <1>1, <1>2, <1>3, <1>4, <1>5, Kept

\* Addresses are deprecated or servers announced.
LEMMA SlaacNoticeInv ==
    ASSUME IfaceInv, NEW i \in Name, SlaacNotice(i) PROVE IfaceInv' /\ known' = known
  <1>1. StatesKept
    BY StatesUnchanged DEF SlaacNotice
  <1>2. LeasesKept
    BY LeasesUnchanged DEF SlaacNotice
  <1>3. FuturesKept
    BY FuturesDropped DEF SlaacNotice
  <1>4. WaitsKept
    BY DEF SlaacNotice, IfaceInv, IfaceTypeOK, WaitsKept
  <1>5. FlagsKept
    BY PublishType, PublishIfMovedType DEF SlaacNotice, IfaceInv, IfaceTypeOK, FlagsKept
  <1>6. QED
    BY <1>1, <1>2, <1>3, <1>4, <1>5, Kept

\* The address expires.
LEMMA AddressExpiredInv ==
    ASSUME IfaceInv, NEW i \in Name, AddressExpired(i) PROVE IfaceInv' /\ known' = known
  <1>1. StatesKept
    BY StatesUnchanged DEF AddressExpired
  <1>2. LeasesKept
    BY LeasesUnchanged DEF AddressExpired
  <1>3. FuturesKept
    BY DropDhcpType, DropSlaacType, BridgeIsAName, InterfaceAssumption
    DEF AddressExpired, IfaceInv, IfaceTypeOK, BridgeQuiet, Manager, FuturesKept, InterfaceAssumption
  <1>4. WaitsKept
    BY DEF AddressExpired, IfaceInv, IfaceTypeOK, WaitsKept
  <1>5. FlagsKept
    BY PublishType, PublishIfMovedType DEF AddressExpired, IfaceInv, IfaceTypeOK, FlagsKept
  <1>6. QED
    BY <1>1, <1>2, <1>3, <1>4, <1>5, Kept

\* The router expires.
LEMMA RouterExpiredInv ==
    ASSUME IfaceInv, NEW i \in Name, RouterExpired(i) PROVE IfaceInv' /\ known' = known
  <1>1. StatesKept
    BY StatesUnchanged DEF RouterExpired
  <1>2. LeasesKept
    BY LeasesUnchanged DEF RouterExpired
  <1>3. FuturesKept
    BY DropDhcpType, DropSlaacType, BridgeIsAName, InterfaceAssumption
    DEF RouterExpired, IfaceInv, IfaceTypeOK, BridgeQuiet, Manager, FuturesKept, InterfaceAssumption
  <1>4. WaitsKept
    BY DEF RouterExpired, IfaceInv, IfaceTypeOK, WaitsKept
  <1>5. FlagsKept
    BY PublishType, PublishIfMovedType DEF RouterExpired, IfaceInv, IfaceTypeOK, FlagsKept
  <1>6. QED
    BY <1>1, <1>2, <1>3, <1>4, <1>5, Kept

\* The carrier is back.
LEMMA LinkUpInv ==
    ASSUME IfaceInv, NEW i \in Name, LinkUp(i) PROVE IfaceInv' /\ known' = known
  <1>0. i # Bridge /\ st[i] \in Lifecycle
    BY AddressedIsEthernet DEF LinkUp, IfaceInv, IfaceTypeOK
  <1>1. StatesKept
    BY SetStateKept, StatesUnchanged DEF LinkUp, BeginDora
  <1>2. LeasesKept
    <2>1. CASE lease[i] # None /\ timers' = [timers EXCEPT ![i] = Arm(lease[i])]
      <3>1. Arm(lease[i]) \in SUBSET Timer
        BY DEF Arm
      <3>2. QED
        BY <2>1, <3>1 DEF LinkUp, IfaceInv, IfaceTypeOK, TimersHaveLease, LeasesKept
    <2>2. CASE BeginDora(i)
      BY <2>2, DisarmedKept DEF BeginDora, LinkUp
    <2>3. CASE UNCHANGED timers
      BY <2>3, LeasesUnchanged DEF LinkUp
    <2>4. QED
      BY <2>1, <2>2, <2>3 DEF LinkUp
  <1>3. FuturesKept
    BY FuturesDropped DEF LinkUp
  <1>4. WaitsKept
    BY DEF LinkUp, BeginDora, IfaceInv, IfaceTypeOK, WaitsKept
  <1>5. FlagsKept
    BY PublishType, PublishIfMovedType DEF LinkUp, IfaceInv, IfaceTypeOK, FlagsKept
  <1>6. QED
    BY <1>1, <1>2, <1>3, <1>4, <1>5, Kept

\* The carrier is lost.
LEMMA LinkDownInv ==
    ASSUME IfaceInv, NEW i \in Name, LinkDown(i) PROVE IfaceInv' /\ known' = known
  <1>0. i # Bridge /\ st[i] \in Lifecycle
    BY AddressedIsEthernet DEF LinkDown, IfaceInv, IfaceTypeOK
  <1>1. StatesKept
    <2> DEFINE v == IF st[i] = "Configured" THEN "Degraded"
                    ELSE IF st[i] = "Configuring" THEN "Failed" ELSE st[i]
    <2>1. v \in Lifecycle
      BY <1>0 DEF Lifecycle
    <2>2. st' = [st EXCEPT ![i] = v]
      BY DEF LinkDown
    <2>3. QED
      BY <1>0, <2>1, <2>2, EthernetStateKept
  <1>2. LeasesKept
    BY DisarmedKept DEF LinkDown
  <1>3. FuturesKept
    BY DropSlaacType, ReceivedType, BridgeIsAName
    DEF LinkDown, IfaceInv, IfaceTypeOK, BridgeQuiet, FuturesKept
  <1>4. WaitsKept
    BY DEF LinkDown, IfaceInv, IfaceTypeOK, WaitsKept
  <1>5. FlagsKept
    BY PublishType, PublishIfMovedType DEF LinkDown, IfaceInv, IfaceTypeOK, FlagsKept
  <1>6. QED
    BY <1>1, <1>2, <1>3, <1>4, <1>5, Kept

\* An acquisition is started, or its socket fails.
LEMMA StartDhcpKept ==
    ASSUME IfaceInv, NEW i \in Name, i # Bridge, StartDhcp(i)
    PROVE  /\ StatesKept
           /\ UNCHANGED <<lease, ip, timers>>
           /\ dhcp' \in [Name -> 0..MaxAttempts - 1 \cup {None}]
           /\ dhcp'[Bridge] = dhcp[Bridge]
           /\ unseen' \in [Name -> BOOLEAN]
  <1>1. StatesKept
    <2>1. /\ st[i] \in Lifecycle
          /\ {"Configuring", "Failed"} \subseteq Lifecycle
      BY DEF Lifecycle, IfaceInv, IfaceTypeOK
    <2>2. SetState(st[i], "Configuring") \in Lifecycle
      BY <2>1, SetStateType
    <2>3. SetState(SetState(st[i], "Configuring"), "Failed") \in Lifecycle
      BY <2>1, <2>2, SetStateType
    <2>4. QED
      BY <2>3, SetStateKept, EthernetStateKept DEF StartDhcp
  <1>2. /\ dhcp' \in [Name -> 0..MaxAttempts - 1 \cup {None}]
        /\ dhcp'[Bridge] = dhcp[Bridge]
    <2>1. CASE dhcp' = [dhcp EXCEPT ![i] = 0]
      BY <2>1, BridgeIsAName, InterfaceAssumption
      DEF IfaceInv, IfaceTypeOK, InterfaceAssumption
    <2>2. CASE DropDhcp(i)
      BY <2>2, DropDhcpType, BridgeIsAName DEF DropDhcp, IfaceInv, IfaceTypeOK
    <2>3. QED
      BY <2>1, <2>2 DEF StartDhcp
  <1>3. unseen' \in [Name -> BOOLEAN]
    BY PublishIfMovedType DEF StartDhcp, IfaceInv
  <1>4. QED
    BY <1>1, <1>2, <1>3 DEF StartDhcp

\* A lease is applied again, or an acquisition started.
LEMMA ReconcileDhcpKept ==
    ASSUME IfaceInv, NEW i \in Name, i # Bridge, ReconcileDhcp(i)
    PROVE  /\ StatesKept /\ LeasesKept
           /\ dhcp' \in [Name -> 0..MaxAttempts - 1 \cup {None}]
           /\ dhcp'[Bridge] = dhcp[Bridge]
           /\ unseen' \in [Name -> BOOLEAN]
  <1>1. ASSUME DropDhcp(i)
        PROVE  /\ dhcp' \in [Name -> 0..MaxAttempts - 1 \cup {None}]
               /\ dhcp'[Bridge] = dhcp[Bridge]
    BY <1>1, DropDhcpType, BridgeIsAName DEF DropDhcp, IfaceInv, IfaceTypeOK
  <1>2. CASE /\ lease[i] # None /\ HoldLease(i, lease[i])
             /\ st' = [st EXCEPT ![i] = EnsureConfigured(@)]
             /\ Publish(i) /\ DropDhcp(i)
    <2>1. lease[i] \in 0..LeaseTime /\ st[i] \in Lifecycle
      BY <1>2 DEF IfaceInv, IfaceTypeOK
    <2>2. StatesKept
      BY <1>2, <2>1, EnsureType, EthernetStateKept
    <2>3. LeasesKept
      BY <1>2, <2>1, HoldLeaseKept
    <2>4. unseen' \in [Name -> BOOLEAN]
      BY <1>2, PublishType DEF IfaceInv
    <2>5. QED
      BY <1>1, <1>2, <2>2, <2>3, <2>4
  <1>3. CASE StartDhcp(i)
    BY <1>3, StartDhcpKept, LeasesUnchanged
  <1>4. CASE DropDhcp(i) /\ UNCHANGED <<st, lease, ip, timers, unseen>>
    <2>1. unseen' \in [Name -> BOOLEAN]
      BY <1>4 DEF IfaceInv, IfaceTypeOK
    <2>2. QED
      BY <1>1, <1>4, <2>1, StatesUnchanged, LeasesUnchanged
  <1>5. QED
    BY <1>2, <1>3, <1>4 DEF ReconcileDhcp

\* DHCP is configured or reconciled.
LEMMA ConfigureDhcpInv ==
    ASSUME IfaceInv, NEW i \in Name, ConfigureDhcp(i) PROVE IfaceInv' /\ known' = known
  <1>0. i # Bridge
    BY AddressedIsEthernet DEF ConfigureDhcp
  <1>1. /\ StatesKept /\ LeasesKept
        /\ dhcp' \in [Name -> 0..MaxAttempts - 1 \cup {None}]
        /\ dhcp'[Bridge] = dhcp[Bridge]
        /\ unseen' \in [Name -> BOOLEAN]
    BY <1>0, StartDhcpKept, ReconcileDhcpKept, LeasesUnchanged DEF ConfigureDhcp
  <1>2. FuturesKept
    BY <1>0, <1>1, DropSlaacType, ReceivedType, BridgeIsAName
    DEF ConfigureDhcp, IfaceInv, BridgeQuiet, FuturesKept
  <1>3. WaitsKept
    BY DEF ConfigureDhcp, IfaceInv, IfaceTypeOK, WaitsKept
  <1>4. FlagsKept
    BY <1>1 DEF ConfigureDhcp, IfaceInv, IfaceTypeOK, FlagsKept
  <1>5. QED
    BY <1>1, <1>2, <1>3, <1>4, Kept

\* A static address is configured or reconciled.
LEMMA ConfigureStaticInv ==
    ASSUME IfaceInv, NEW i \in Name, ConfigureStatic(i) PROVE IfaceInv' /\ known' = known
  <1>0. i # Bridge /\ st[i] \in Lifecycle
    BY AddressedIsEthernet DEF ConfigureStatic, IfaceInv, IfaceTypeOK
  <1>1. StatesKept
    <2>1. PICK v \in Lifecycle : st' = [st EXCEPT ![i] = v]
      <3>1. /\ SetState(st[i], "Configuring") \in Lifecycle
            /\ SetState(SetState(st[i], "Configuring"), "Configured") \in Lifecycle
            /\ EnsureConfigured(st[i]) \in Lifecycle
        BY <1>0, SetStateType, EnsureType DEF Lifecycle
      <3>2. QED
        BY <1>0, <3>1 DEF ConfigureStatic
    <2>2. QED
      BY <1>0, <2>1, EthernetStateKept
  <1>2. LeasesKept
    BY DEF ConfigureStatic, IfaceInv, IfaceTypeOK, TimersHaveLease, LeasesKept
  <1>3. FuturesKept
    BY FuturesDropped DEF ConfigureStatic, Ops
  <1>4. WaitsKept
    BY DEF ConfigureStatic, IfaceInv, IfaceTypeOK, WaitsKept
  <1>5. FlagsKept
    BY PublishType, PublishIfMovedType
    DEF ConfigureStatic, IfaceInv, IfaceTypeOK, FlagsKept
  <1>6. QED
    BY <1>1, <1>2, <1>3, <1>4, <1>5, Kept

\* SLAAC is configured or reconciled.
LEMMA ConfigureSlaacInv ==
    ASSUME IfaceInv, NEW i \in Name, ConfigureSlaac(i) PROVE IfaceInv' /\ known' = known
  <1>0. i # Bridge /\ st[i] \in Lifecycle
    BY AddressedIsEthernet DEF ConfigureSlaac, IfaceInv, IfaceTypeOK
  <1>1. StatesKept
    BY <1>0, EnsureType, EthernetStateKept, StatesUnchanged DEF ConfigureSlaac
  <1>2. LeasesKept
    BY LeasesUnchanged DEF ConfigureSlaac
  <1>3. FuturesKept
    <2>1. /\ dhcp' \in [Name -> 0..MaxAttempts - 1 \cup {None}]
          /\ dhcp'[Bridge] = None
      BY DropDhcpType, BridgeIsAName DEF ConfigureSlaac, IfaceInv, BridgeQuiet
    <2>2. slaac' \in [Name -> Manager] /\ slaac'[Bridge] = "none"
      BY <1>0, DropSlaacType, BridgeIsAName
      DEF ConfigureSlaac, IfaceInv, IfaceTypeOK, BridgeQuiet, Manager
    <2>3. box' \in [Name -> Seq(Command)] /\ box'[Bridge] = <<>>
      BY <1>0, ReceivedType, BridgeIsAName DEF ConfigureSlaac, IfaceInv, BridgeQuiet
    <2>4. QED
      BY <2>1, <2>2, <2>3 DEF FuturesKept, BridgeQuiet
  <1>4. WaitsKept
    BY DEF ConfigureSlaac, IfaceInv, IfaceTypeOK, WaitsKept
  <1>5. FlagsKept
    BY PublishType DEF ConfigureSlaac, IfaceInv, IfaceTypeOK, FlagsKept
  <1>6. QED
    BY <1>1, <1>2, <1>3, <1>4, <1>5, Kept

\* Every step an actor takes of itself, and what time and routers bring.
LEMMA ActorInv ==
    ASSUME IfaceInv, NEW i \in Name, ActorStep(i) \/ Outside(i)
    PROVE  IfaceInv' /\ known' = known
  BY DhcpAttemptFailsInv, DhcpFailedInv, DhcpLeaseInv, DoraEndsInv, AskAgainInv,
     AnsweredInv, ExpireInv, AgeInv, SolicitInv, SlaacConfiguredInv, SlaacFailedInv,
     SlaacNoticeInv, AddressExpiredInv, RouterExpiredInv, LinkUpInv, LinkDownInv,
     ConfigureDhcpInv, ConfigureStaticInv, ConfigureSlaacInv
  DEF ActorStep, Outside

------------------------------------------------------------------------------
(* Sequences without repetition *)

\* Taking the k-th element out.
LEMMA RemoveAtFacts ==
    ASSUME NEW s \in Seq(Eth), NEW k \in 1..Len(s), IsInjective(s)
    PROVE  /\ RemoveAt(s, k) \in Seq(Eth)
           /\ IsInjective(RemoveAt(s, k))
           /\ ToSet(RemoveAt(s, k)) = ToSet(s) \ {s[k]}
  <1> DEFINE r == RemoveAt(s, k)
  <1>1. /\ r \in Seq(Eth)
        /\ Len(r) = Len(s) - 1
        /\ \A j \in 1..Len(s) - 1 : j < k => r[j] = s[j]
        /\ \A j \in 1..Len(s) - 1 : j >= k => r[j] = s[j + 1]
    <2> DEFINE a == SubSeq(s, 1, k - 1)  b == SubSeq(s, k + 1, Len(s))
    <2>1. a \in Seq(Eth) /\ Len(a) = k - 1 /\ \A j \in 1..k - 1 : a[j] = s[j]
      OBVIOUS
    <2>2. /\ b \in Seq(Eth) /\ Len(b) = Len(s) - k
          /\ \A j \in 1..Len(s) - k : b[j] = s[k + j]
      OBVIOUS
    <2>3. r = a \o b
      BY DEF RemoveAt
    <2> HIDE DEF a, b, r
    <2>4. r \in Seq(Eth) /\ Len(r) = Len(s) - 1
      BY <2>1, <2>2, <2>3
    <2>5. ASSUME NEW j \in 1..Len(s) - 1, j < k PROVE r[j] = s[j]
      BY <2>1, <2>2, <2>3, <2>5
    <2>6. ASSUME NEW j \in 1..Len(s) - 1, j >= k PROVE r[j] = s[j + 1]
      <3>1. r[j] = b[j - (k - 1)]
        BY <2>1, <2>2, <2>3, <2>6
      <3>2. j - (k - 1) \in 1..Len(s) - k /\ k + (j - (k - 1)) = j + 1
        BY <2>6
      <3>3. QED
        BY <2>2, <3>1, <3>2
    <2>7. QED
      BY <2>4, <2>5, <2>6
  <1>2. DOMAIN s = 1..Len(s) /\ DOMAIN r = 1..Len(s) - 1
    BY <1>1
  <1> HIDE DEF r
  <1>3. IsInjective(r)
    <2>1. \A x, y \in 1..Len(s) : s[x] = s[y] => x = y
      BY <1>2 DEF IsInjective
    <2>2. ASSUME NEW x \in 1..Len(s) - 1, NEW y \in 1..Len(s) - 1, r[x] = r[y] PROVE x = y
      <3>1. PICK v \in 1..Len(s) : r[x] = s[v] /\ v = IF x < k THEN x ELSE x + 1
        BY <1>1
      <3>2. PICK w \in 1..Len(s) : r[y] = s[w] /\ w = IF y < k THEN y ELSE y + 1
        BY <1>1
      <3>3. v = w
        BY <2>1, <2>2, <3>1, <3>2
      <3>4. QED
        BY <3>1, <3>2, <3>3
    <2>3. QED
      BY <1>2, <2>2 DEF IsInjective
  <1>4. ASSUME NEW e \in ToSet(s) \ {s[k]} PROVE e \in ToSet(r)
    <2>1. PICK j \in 1..Len(s) : s[j] = e /\ j # k
      BY <1>2 DEF ToSet
    <2>2. CASE j < k
      BY <1>1, <1>2, <2>1, <2>2 DEF ToSet
    <2>3. CASE j > k
      <3>1. j - 1 \in 1..Len(s) - 1 /\ r[j - 1] = e
        BY <1>1, <2>1, <2>3
      <3>2. QED
        BY <1>2, <3>1 DEF ToSet
    <2>4. QED
      BY <2>1, <2>2, <2>3
  <1>5. ASSUME NEW e \in ToSet(r) PROVE e \in ToSet(s) \ {s[k]}
    <2>1. PICK j \in 1..Len(s) - 1 : r[j] = e
      BY <1>2 DEF ToSet
    <2>2. PICK l \in 1..Len(s) : s[l] = e /\ l # k
      BY <1>1, <2>1
    <2>3. QED
      BY <1>2, <2>2 DEF ToSet, IsInjective
  <1>6. QED
    BY <1>1, <1>3, <1>4, <1>5 DEF r

\* Adding an element at the end.
LEMMA AppendFacts ==
    ASSUME NEW s \in Seq(Eth), IsInjective(s), NEW e \in Eth, e \notin ToSet(s)
    PROVE  /\ Append(s, e) \in Seq(Eth)
           /\ IsInjective(Append(s, e))
           /\ ToSet(Append(s, e)) = ToSet(s) \cup {e}
  <1> DEFINE r == Append(s, e)
  <1>1. /\ r \in Seq(Eth) /\ Len(r) = Len(s) + 1
        /\ r[Len(s) + 1] = e
        /\ \A j \in 1..Len(s) : r[j] = s[j]
    OBVIOUS
  <1>2. DOMAIN s = 1..Len(s) /\ DOMAIN r = 1..Len(s) + 1
    BY <1>1
  <1> HIDE DEF r
  <1>3. IsInjective(r)
    <2>1. \A j \in 1..Len(s) : s[j] # e
      BY <1>2 DEF ToSet
    <2>2. QED
      BY <1>1, <1>2, <2>1 DEF IsInjective
  <1>4. ToSet(r) = ToSet(s) \cup {e}
    BY <1>1, <1>2 DEF ToSet
  <1>5. QED
    BY <1>1, <1>3, <1>4 DEF r

\* Inserting an element anywhere.
LEMMA InsertAtFacts ==
    ASSUME NEW s \in Seq(Eth), IsInjective(s), NEW e \in Eth, e \notin ToSet(s),
           NEW p \in 0..Len(s)
    PROVE  /\ InsertAt(s, p + 1, e) \in Seq(Eth)
           /\ IsInjective(InsertAt(s, p + 1, e))
           /\ ToSet(InsertAt(s, p + 1, e)) = ToSet(s) \cup {e}
  <1> DEFINE r == InsertAt(s, p + 1, e)
  <1>1. /\ r \in Seq(Eth) /\ Len(r) = Len(s) + 1
        /\ \A j \in 1..p : r[j] = s[j]
        /\ r[p + 1] = e
        /\ \A j \in p + 1..Len(s) : r[j + 1] = s[j]
    <2> DEFINE a == SubSeq(s, 1, p)  b == SubSeq(s, p + 1, Len(s))
    <2>1. a \in Seq(Eth) /\ Len(a) = p /\ \A j \in 1..p : a[j] = s[j]
      OBVIOUS
    <2>2. /\ b \in Seq(Eth) /\ Len(b) = Len(s) - p
          /\ \A j \in 1..Len(s) - p : b[j] = s[p + j]
      OBVIOUS
    <2>3. r = (a \o <<e>>) \o b
      <3>1. (p + 1) - 1 = p
        OBVIOUS
      <3>2. QED
        BY <3>1 DEF InsertAt
    <2> DEFINE c == a \o <<e>>
    <2> HIDE DEF a, b, r
    <2>4. /\ c \in Seq(Eth) /\ Len(c) = p + 1
          /\ \A j \in 1..p : c[j] = s[j]
          /\ c[p + 1] = e
      BY <2>1
    <2>5. r = c \o b
      BY <2>3
    <2> HIDE DEF c
    <2>6. /\ r \in Seq(Eth) /\ Len(r) = Len(s) + 1
          /\ \A j \in 1..p + 1 : r[j] = c[j]
      <3>1. r \in Seq(Eth) /\ Len(r) = Len(s) + 1
        BY <2>2, <2>4, <2>5
      <3>2. ASSUME NEW j \in 1..p + 1 PROVE r[j] = c[j]
        BY <2>2, <2>4, <2>5
      <3>3. QED
        BY <3>1, <3>2
    <2>7. ASSUME NEW j \in p + 1..Len(s) PROVE r[j + 1] = s[j]
      <3>1. r[j + 1] = b[(j + 1) - (p + 1)]
        BY <2>2, <2>4, <2>5
      <3>2. j - p \in 1..Len(s) - p /\ (j + 1) - (p + 1) = j - p /\ p + (j - p) = j
        OBVIOUS
      <3>3. QED
        BY <2>2, <3>1, <3>2
    <2>8. QED
      BY <2>4, <2>6, <2>7
  <1>2. DOMAIN s = 1..Len(s) /\ DOMAIN r = 1..Len(s) + 1
    BY <1>1
  <1> HIDE DEF r
  <1>3. ASSUME NEW x \in 1..Len(s) + 1
        PROVE  \/ x = p + 1 /\ r[x] = e
               \/ /\ x # p + 1 /\ (IF x <= p THEN x ELSE x - 1) \in 1..Len(s)
                  /\ r[x] = s[IF x <= p THEN x ELSE x - 1]
    <2>1. CASE x <= p
      BY <1>1, <2>1
    <2>2. CASE x = p + 1
      BY <1>1, <2>2
    <2>3. CASE x > p + 1
      <3>1. x - 1 \in p + 1..Len(s) /\ (x - 1) + 1 = x
        BY <2>3
      <3>2. r[x] = s[x - 1]
        BY <1>1, <3>1
      <3>3. QED
        BY <2>3, <3>1, <3>2
    <2>4. QED
      BY <2>1, <2>2, <2>3
  <1>4. IsInjective(r) /\ ToSet(r) \subseteq ToSet(s) \cup {e}
    <2>1. \A j \in 1..Len(s) : s[j] # e
      BY <1>2 DEF ToSet
    <2>2. \A x, y \in 1..Len(s) : s[x] = s[y] => x = y
      BY <1>2 DEF IsInjective
    <2>3. ASSUME NEW x \in 1..Len(s) + 1, NEW y \in 1..Len(s) + 1, r[x] = r[y] PROVE x = y
      <3> DEFINE f(z) == IF z <= p THEN z ELSE z - 1
      <3>1. CASE x = p + 1
        BY <1>3, <2>1, <2>3, <3>1
      <3>2. CASE y = p + 1
        BY <1>3, <2>1, <2>3, <3>2
      <3>3. CASE x # p + 1 /\ y # p + 1
        <4>1. f(x) \in 1..Len(s) /\ r[x] = s[f(x)]
          BY <1>3, <3>3
        <4>2. f(y) \in 1..Len(s) /\ r[y] = s[f(y)]
          BY <1>3, <3>3
        <4>3. f(x) = f(y)
          BY <2>2, <2>3, <4>1, <4>2
        <4>4. QED
          BY <3>3, <4>3
      <3>4. QED
        BY <3>1, <3>2, <3>3
    <2>4. IsInjective(r)
      BY <1>2, <2>3 DEF IsInjective
    <2>5. QED
      BY <1>2, <1>3, <2>4 DEF ToSet
  <1>5. ASSUME NEW j \in 1..Len(s) PROVE s[j] \in ToSet(r)
    <2>1. CASE j <= p
      BY <1>1, <1>2, <2>1 DEF ToSet
    <2>2. CASE j > p
      <3>1. j + 1 \in 1..Len(s) + 1 /\ r[j + 1] = s[j]
        BY <1>1, <2>2
      <3>2. QED
        BY <1>2, <3>1 DEF ToSet
    <2>3. QED
      BY <2>1, <2>2
  <1>6. e \in ToSet(r)
    <2>1. p + 1 \in DOMAIN r
      BY <1>2
    <2>2. QED
      BY <1>1, <2>1 DEF ToSet
  <1>7. ToSet(s) \subseteq ToSet(r)
    BY <1>2, <1>5 DEF ToSet
  <1>8. QED
    BY <1>1, <1>4, <1>6, <1>7 DEF r

\* Taking the first element.
LEMMA TailFacts ==
    ASSUME NEW s \in Seq(Eth), IsInjective(s), s # <<>>
    PROVE  /\ Head(s) \in Eth /\ Tail(s) \in Seq(Eth)
           /\ IsInjective(Tail(s))
           /\ Head(s) \in ToSet(s)
           /\ ToSet(Tail(s)) = ToSet(s) \ {Head(s)}
  <1>1. /\ Tail(s) \in Seq(Eth) /\ Len(Tail(s)) = Len(s) - 1 /\ Len(s) > 0
        /\ \A j \in 1..Len(s) - 1 : Tail(s)[j] = s[j + 1]
        /\ Head(s) = s[1]
    OBVIOUS
  <1>2. DOMAIN s = 1..Len(s) /\ DOMAIN Tail(s) = 1..Len(s) - 1
    BY <1>1
  <1>3. IsInjective(Tail(s))
    BY <1>1, <1>2 DEF IsInjective
  <1>4. ASSUME NEW e \in ToSet(s) \ {s[1]} PROVE e \in ToSet(Tail(s))
    <2>1. PICK j \in 1..Len(s) : s[j] = e /\ j # 1
      BY <1>2 DEF ToSet
    <2>2. j - 1 \in 1..Len(s) - 1 /\ Tail(s)[j - 1] = e
      BY <1>1, <2>1
    <2>3. QED
      BY <1>2, <2>2 DEF ToSet
  <1>5. ASSUME NEW e \in ToSet(Tail(s)) PROVE e \in ToSet(s) \ {s[1]}
    BY <1>1, <1>2, <1>5 DEF ToSet, IsInjective
  <1>6. s[1] \in ToSet(s) /\ s[1] \in Eth
    BY <1>1, <1>2 DEF ToSet
  <1>7. ToSet(Tail(s)) = ToSet(s) \ {s[1]}
    BY <1>4, <1>5
  <1>8. QED
    BY <1>1, <1>3, <1>6, <1>7

------------------------------------------------------------------------------
(* The supervisor *)

\* Provisioning begins with an election and nothing is removed meanwhile.
ProvisionHasPrimary == task = "provision" => primary # None

\* The inductive invariant.
IInv == IfaceInv /\ SupTypeOK /\ Elected /\ ProvisionHasPrimary

\* The values of the election, of the supervisor's progress and of the
\* environment after a step.
ElectionTyped == /\ net' \in NetState
                 /\ primary' \in Eth \cup {None}
                 /\ backups' \in Seq(Eth)
                 /\ dns' \in Eth \cup {None, ConfigDns}

ProgressTyped == /\ task' \in {"idle", "provision", "reconcile"}
                 /\ entry' \in Nat \ {0} /\ step' \in Nat \ {0}
                 /\ boot' \in {"queued", "running", "sleeping", "done"}
                 /\ due' \in BOOLEAN

OutsideTyped == /\ events' \in Seq(Event)
                /\ links' \in [Eth -> Link]
                /\ plan' \in Plan
                /\ changes' \in Nat /\ lapses' \in Nat

\* Together they are the type of the supervisor after the step.
LEMMA SupTyped ==
    ASSUME ElectionTyped, ProgressTyped, OutsideTyped PROVE SupTypeOK'
  BY DEF ElectionTyped, ProgressTyped, OutsideTyped, SupTypeOK

\* What a step leaves alone keeps its type.
LEMMA OutsideUnchanged ==
    ASSUME SupTypeOK, UNCHANGED envVars PROVE OutsideTyped
  BY DEF SupTypeOK, OutsideTyped, envVars

\* The same for the progress of the supervisor.
LEMMA ProgressUnchanged ==
    ASSUME SupTypeOK, UNCHANGED <<task, entry, step, boot, due>> PROVE ProgressTyped
  BY DEF SupTypeOK, ProgressTyped

\* The election is about known, primary, backups and net only.
LEMMA ElectionUnchanged ==
    ASSUME SupTypeOK, Elected, known' \cap Eth = known \cap Eth,
           UNCHANGED <<net, primary, backups>>
    PROVE  /\ Elected'
           /\ dns' \in Eth \cup {None, ConfigDns} => ElectionTyped
  BY DEF SupTypeOK, Elected, ElectionTyped

\* Neither the bridge nor None is an Ethernet interface.
LEMMA Apart == None \notin Eth /\ None \notin Name /\ Bridge \notin Eth /\ Eth \subseteq Name
  BY InterfaceAssumption DEF InterfaceAssumption, Name

\* set_network_state moves inside the states of the network.
LEMMA SetNetType ==
    ASSUME NEW s \in NetState, NEW to \in NetState
    PROVE  SetNet(s, to) \in NetState
  BY DEF SetNet

\* flush_dns writes the servers of an interface or of the configuration.
LEMMA FlushDnsType ==
    ASSUME SupTypeOK, primary' \in Eth \cup {None}, FlushDns
    PROVE  dns' \in Eth \cup {None, ConfigDns}
  BY DEF SupTypeOK, FlushDns, DnsOf

\* Sending to an Ethernet actor.
LEMMA SentType ==
    ASSUME NEW b \in [Name -> Seq(Command)], b[Bridge] = <<>>, NEW n \in Eth,
           NEW op, NEW mode, [op |-> op, mode |-> mode] \in Command
    PROVE  /\ Sent(b, n, op, mode) \in [Name -> Seq(Command)]
           /\ Sent(b, n, op, mode)[Bridge] = <<>>
  <1> DEFINE c == [op |-> op, mode |-> mode]
  <1>1. Sent(b, n, op, mode) = [b EXCEPT ![n] = Append(@, c)]
    BY DEF Sent
  <1> HIDE DEF c
  <1>2. Append(b[n], c) \in Seq(Command)
    BY Apart DEF c
  <1>3. QED
    BY <1>1, <1>2, Apart, BridgeIsAName

\* The commands the supervisor makes up itself.
LEMMA LinkCommands ==
    /\ [op |-> "LinkUp", mode |-> "-"] \in Command
    /\ [op |-> "LinkDown", mode |-> "-"] \in Command
    /\ [op |-> "Bridge", mode |-> "-"] \in Command
    /\ [op |-> "Dhcp", mode |-> "Provision"] \in Command
  BY DEF Command

\* Only the mailboxes change.
LEMMA BoxesKept ==
    ASSUME IfaceInv, UNCHANGED ActorsApartFromBox,
           box' \in [Name -> Seq(Command)], box'[Bridge] = <<>>
    PROVE  IfaceInv'
  <1>1. UNCHANGED <<known, st, lease, ip, v6, owner, dhcp, timers, slaac, busy, unseen>>
    BY DEF ActorsApartFromBox
  <1>2. QED
    BY <1>1 DEF IfaceInv, IfaceTypeOK, TimersHaveLease, BridgeQuiet, BridgeStaysConfigured

\* Nothing of the actors changes.
LEMMA ActorsUnchanged ==
    ASSUME IfaceInv, UNCHANGED ifaceVars PROVE IfaceInv'
  BY DEF ifaceVars, IfaceInv, IfaceTypeOK, TimersHaveLease, BridgeQuiet,
         BridgeStaysConfigured

\* Actors are spawned or dropped.
LEMMA FreshKept ==
    ASSUME IfaceInv, NEW S \in SUBSET Name, Fresh(S), known' \subseteq Name,
           Bridge \in known' => Bridge \in known /\ Bridge \notin S
    PROVE  IfaceInv'
  <1>1. /\ st' \in [Name -> Lifecycle]
        /\ Bridge \in known' => st'[Bridge] = "Configured"
    BY BridgeIsAName
    DEF Fresh, IfaceInv, IfaceTypeOK, BridgeStaysConfigured, Lifecycle
  <1>2. /\ lease' \in [Name -> 0..LeaseTime \cup {None}]
        /\ timers' \in [Name -> SUBSET Timer]
        /\ \A n \in Name : timers'[n] # {} => lease'[n] # None
    BY DEF Fresh, IfaceInv, IfaceTypeOK, TimersHaveLease
  <1>3. /\ ip' \in [Name -> {"none", "lease", "static"}]
        /\ owner' \in [Name -> Name]
        /\ busy' \in [Name -> {"no", "dora", "renew", "rebind"}]
    BY DEF Fresh, IfaceInv, IfaceTypeOK
  <1>4. /\ dhcp' \in [Name -> 0..MaxAttempts - 1 \cup {None}] /\ dhcp'[Bridge] = None
        /\ slaac' \in [Name -> Manager] /\ slaac'[Bridge] = "none"
        /\ box' \in [Name -> Seq(Command)] /\ box'[Bridge] = <<>>
    BY BridgeIsAName DEF Fresh, IfaceInv, IfaceTypeOK, BridgeQuiet, Manager
  <1>5. v6' \in [Name -> BOOLEAN] /\ unseen' \in [Name -> BOOLEAN]
    BY DEF Fresh
  <1>6. QED
    BY <1>1, <1>2, <1>3, <1>4, <1>5
    DEF IfaceInv, IfaceTypeOK, TimersHaveLease, BridgeQuiet, BridgeStaysConfigured

------------------------------------------------------------------------------
(* The steps of the supervisor *)

\* Init satisfies the invariant.
LEMMA InitIInv == Init => IInv
  <1> SUFFICES ASSUME Init PROVE IInv
    OBVIOUS
  <1>1. IfaceTypeOK
    BY InterfaceAssumption
    DEF Init, IfaceInit, IfaceTypeOK, Lifecycle, Manager, InterfaceAssumption
  <1>2. TimersHaveLease /\ BridgeQuiet /\ BridgeStaysConfigured
    BY BridgeIsAName
    DEF Init, IfaceInit, TimersHaveLease, BridgeQuiet, BridgeStaysConfigured
  <1>3. SupTypeOK
    <2>1. PICK s \in Setups : /\ plan = s.plan /\ links = s.links
                              /\ changes = s.changes /\ lapses = s.lapses
      BY DEF Init
    <2>2. /\ plan \in Plan /\ links \in [Eth -> Link]
          /\ changes \in Nat /\ lapses \in Nat
      BY <2>1, NetworkAssumption DEF NetworkAssumption
    <2>3. QED
      BY <2>2 DEF Init, SupTypeOK, NetState
  <1>4. Elected /\ ProvisionHasPrimary
    BY DEF Init, IfaceInit, Elected, ProvisionHasPrimary, IsInjective, ToSet
  <1>5. QED
    BY <1>1, <1>2, <1>3, <1>4 DEF IInv, IfaceInv

\* A discovery that finds nothing leaves nobody.
LEMMA DiscoveryFailsInv ==
    ASSUME IInv, DiscoveryFails PROVE IInv'
  <1>1. IfaceInv'
    BY FreshKept DEF DiscoveryFails, IInv
  <1>2. net' \in {"Initializing", "Degraded"}
    BY DEF DiscoveryFails
  <1>3. ElectionTyped
    BY <1>2 DEF DiscoveryFails, IInv, SupTypeOK, ElectionTyped, NetState
  <1>4. ProgressTyped
    BY DEF DiscoveryFails, CanReset, IInv, SupTypeOK, ProgressTyped
  <1>5. OutsideTyped
    BY OutsideUnchanged DEF DiscoveryFails, IInv
  <1>6. Elected' /\ ProvisionHasPrimary'
    BY <1>2 DEF DiscoveryFails, CanReset, IInv, Elected, ProvisionHasPrimary, IsInjective, ToSet
  <1>7. QED
    BY <1>1, <1>3, <1>4, <1>5, <1>6, SupTyped DEF IInv

\* Discovery elects the best interface and ranks the others.
LEMMA DiscoverInv ==
    ASSUME IInv, Discover
    PROVE  /\ IInv'
           /\ known' \cap Eth = Present /\ primary' \in Present
  <1>1. /\ Present \subseteq Eth /\ IsFiniteSet(Present)
        /\ Cardinality(Present) \in Nat
    BY NetworkAssumption, FS_Subset, FS_CardinalityType DEF NetworkAssumption, Present
  <1> DEFINE Ranking(p) == [1..Cardinality(Present) - 1 -> Present \ {p}]
             Ranked(p, s) == /\ ToSet(s) = Present \ {p}
                             /\ \A k, l \in DOMAIN s : k < l => Better(s[k], s[l])
                             /\ primary' = p /\ backups' = s
  <1>2a. PICK p \in Present : \E s \in Ranking(p) : Ranked(p, s)
    BY DEF Discover
  <1>2. PICK s \in Ranking(p) : Ranked(p, s)
    BY <1>2a
  <1>3. s \in Seq(Eth)
    <2>1. Cardinality(Present) # 0
      BY <1>1, <1>2, FS_EmptySet
    <2>2. Cardinality(Present) - 1 \in Nat
      BY <1>1, <2>1
    <2>3. s \in [1..Cardinality(Present) - 1 -> Eth]
      BY <1>1, <1>2
    <2>4. QED
      BY <2>2, <2>3
  <1> HIDE DEF Ranking
  <1>4. IsInjective(s)
    <2>0. DOMAIN s = 1..Len(s) /\ \A k \in 1..Len(s) : s[k] \in Nat
      <3>1. DOMAIN s = 1..Len(s) /\ \A k \in 1..Len(s) : s[k] \in Eth
        BY <1>3
      <3>2. Eth \subseteq Nat
        BY InterfaceAssumption DEF InterfaceAssumption
      <3>3. QED
        BY <3>1, <3>2
    <2>1. ASSUME NEW k \in DOMAIN s, NEW l \in DOMAIN s, k < l PROVE s[k] # s[l]
      <3>1. Better(s[k], s[l])
        BY <1>2, <2>1
      <3>2. s[k] \in Nat
        BY <2>0
      <3>3. QED
        BY <3>1, <3>2 DEF Better
    <2>2. QED
      BY <2>0, <2>1 DEF IsInjective
  <1>5. known' = Present
    BY DEF Discover
  <1>6. IfaceInv'
    BY <1>1, <1>5, FreshKept, Apart DEF Discover, IInv
  <1>7. dns' \in Eth \cup {None, ConfigDns}
    BY <1>1, <1>2, FlushDnsType DEF Discover, IInv
  <1>8. ElectionTyped
    BY <1>1, <1>2, <1>3, <1>7 DEF Discover, ElectionTyped, NetState
  <1>9. ProgressTyped
    BY DEF Discover, CanReset, IInv, SupTypeOK, ProgressTyped
  <1>10. OutsideTyped
    BY OutsideUnchanged DEF Discover, IInv
  <1>11. Elected' /\ ProvisionHasPrimary'
    BY <1>1, <1>2, <1>4, <1>5, Apart DEF Discover, Elected, ProvisionHasPrimary
  <1>12. QED
    BY <1>1, <1>2, <1>5, <1>6, <1>8, <1>9, <1>10, <1>11, SupTyped DEF IInv

\* A step of provisioning or reconciling that keeps the election.
LEMMA WorkingInv ==
    ASSUME IInv, IfaceInv', ProgressTyped, UNCHANGED envVars,
           known' \cap Eth = known \cap Eth,
           UNCHANGED <<net, primary, backups, dns>>,
           task' = "provision" => task = "provision"
    PROVE  IInv'
  <1>1. ElectionTyped /\ Elected'
    BY ElectionUnchanged DEF IInv, SupTypeOK
  <1>2. OutsideTyped
    BY OutsideUnchanged DEF IInv
  <1>3. QED
    BY <1>1, <1>2, SupTyped DEF IInv, ProvisionHasPrimary

\* Going on to the next entry.
LEMMA NextEntryTyped ==
    ASSUME SupTypeOK, NextEntry, UNCHANGED <<task, boot, due>> PROVE ProgressTyped
  BY DEF SupTypeOK, NextEntry, ProgressTyped

\* The target of an entry that is known is an Ethernet interface.
LEMMA TargetIsEthernet ==
    ASSUME IInv, Working, Target \in known
    PROVE  Target \in Eth /\ Entry.ops \in {<<"Bridge">>} \cup Seq(Ops)
  <1> DEFINE R == [name : Eth \cup {None}, ops : {<<"Bridge">>} \cup Seq(Ops)]
  <1>1. Entry \in R
    <2>1. plan \in Seq(R)
      BY DEF IInv, SupTypeOK, Plan
    <2>2. entry \in 1..Len(plan)
      BY <2>1 DEF IInv, SupTypeOK, Working
    <2> HIDE DEF R
    <2>3. QED
      BY <2>1, <2>2 DEF Entry
  <1>2. known \subseteq Name
    BY DEF IInv, IfaceInv, IfaceTypeOK
  <1>3. QED
    BY <1>1, <1>2, Apart DEF IInv, SupTypeOK, Target

\* An Ethernet entry is skipped.
LEMMA SkipEthernetInv == ASSUME IInv, SkipEthernet PROVE IInv'
  <1>1. IfaceInv' /\ UNCHANGED known
    BY ActorsUnchanged DEF SkipEthernet, IInv, ifaceVars
  <1>2. ProgressTyped
    BY NextEntryTyped DEF SkipEthernet, IInv
  <1>3. QED
    BY <1>1, <1>2, WorkingInv DEF SkipEthernet

\* A bridge entry is skipped.
LEMMA SkipBridgeInv == ASSUME IInv, SkipBridge PROVE IInv'
  <1>1. IfaceInv' /\ UNCHANGED known
    BY ActorsUnchanged DEF SkipBridge, IInv, ifaceVars
  <1>2. ProgressTyped
    BY NextEntryTyped DEF SkipBridge, IInv
  <1>3. QED
    BY <1>1, <1>2, WorkingInv DEF SkipBridge

\* A bridge is begun.
LEMMA BeginBridgeInv == ASSUME IInv, BeginBridge PROVE IInv'
  <1>1. IfaceInv' /\ UNCHANGED known
    BY ActorsUnchanged DEF BeginBridge, IInv, ifaceVars
  <1>2. ProgressTyped
    BY DEF BeginBridge, IInv, SupTypeOK, ProgressTyped
  <1>3. QED
    BY <1>1, <1>2, WorkingInv DEF BeginBridge

\* A command of an entry is sent.
LEMMA SendCommandInv == ASSUME IInv, SendCommand PROVE IInv'
  <1> DEFINE mode == IF task = "provision" THEN "Provision" ELSE "Reconcile"
  <1>1. Target \in Eth /\ Entry.ops \in Seq(Ops)
    BY TargetIsEthernet DEF SendCommand, IsBridge
  <1>2. [op |-> Op, mode |-> mode] \in Command
    <2>1. Op \in Ops
      BY <1>1 DEF SendCommand, IInv, SupTypeOK, Op
    <2>2. QED
      BY <2>1 DEF Command, Ops
  <1>3. box' \in [Name -> Seq(Command)] /\ box'[Bridge] = <<>>
    BY <1>1, <1>2, SentType DEF SendCommand, IInv, IfaceInv, IfaceTypeOK, BridgeQuiet
  <1>4. IfaceInv'
    BY <1>3, BoxesKept DEF SendCommand, IInv, ActorsApartFromBox
  <1>5. ProgressTyped
    BY NextEntryTyped DEF SendCommand, IInv, SupTypeOK, ProgressTyped, NextEntry
  <1>6. QED
    BY <1>4, <1>5, WorkingInv DEF SendCommand

\* The port is asked to hand its lease over.
LEMMA RequestBridgeInv == ASSUME IInv, RequestBridge PROVE IInv'
  <1>1. Target \in Eth
    BY TargetIsEthernet DEF RequestBridge, Configured
  <1>2. box' \in [Name -> Seq(Command)] /\ box'[Bridge] = <<>>
    BY <1>1, LinkCommands, SentType
    DEF RequestBridge, IInv, IfaceInv, IfaceTypeOK, BridgeQuiet
  <1>3. IfaceInv'
    BY <1>2, BoxesKept DEF RequestBridge, IInv, ActorsApartFromBox
  <1>4. ProgressTyped
    BY DEF RequestBridge, IInv, SupTypeOK, ProgressTyped
  <1>5. QED
    BY <1>3, <1>4, WorkingInv DEF RequestBridge

\* Initialization ends.
LEMMA InitializeDoneInv == ASSUME IInv, InitializeDone PROVE IInv'
  <1>1. IfaceInv' /\ UNCHANGED known
    BY ActorsUnchanged DEF InitializeDone, IInv, ifaceVars
  <1>2. ProgressTyped
    BY DEF InitializeDone, IInv, SupTypeOK, ProgressTyped
  <1>3. net' \in NetState
    BY SetNetType DEF InitializeDone, IInv, SupTypeOK, NetState
  <1>4. ElectionTyped
    BY <1>3 DEF InitializeDone, IInv, SupTypeOK, ElectionTyped
  <1>5. OutsideTyped
    BY OutsideUnchanged DEF InitializeDone, IInv
  <1>6. Elected' /\ ProvisionHasPrimary'
    BY <1>1 DEF InitializeDone, IInv, Elected, ProvisionHasPrimary
  <1>7. QED
    BY <1>1, <1>2, <1>4, <1>5, <1>6, SupTyped DEF IInv

\* Reconciling ends.
LEMMA ReconcileDoneInv == ASSUME IInv, ReconcileDone PROVE IInv'
  <1>1. IfaceInv' /\ UNCHANGED known
    BY ActorsUnchanged DEF ReconcileDone, IInv, ifaceVars
  <1>2. ProgressTyped
    BY DEF ReconcileDone, IInv, SupTypeOK, ProgressTyped
  <1>3. dns' \in Eth \cup {None, ConfigDns}
    BY FlushDnsType DEF ReconcileDone, IInv, SupTypeOK
  <1>4. ElectionTyped /\ Elected'
    BY <1>1, <1>3, ElectionUnchanged DEF ReconcileDone, IInv
  <1>5. OutsideTyped
    BY OutsideUnchanged DEF ReconcileDone, IInv
  <1>6. ProvisionHasPrimary'
    BY DEF ReconcileDone, ProvisionHasPrimary
  <1>7. QED
    BY <1>1, <1>2, <1>4, <1>5, <1>6, SupTyped DEF IInv

\* The lease of a port moves to the bridge.
LEMMA ConfigureBridgeInv ==
    ASSUME IInv, NEW i \in Name, ConfigureBridge(i)
    PROVE  IInv' /\ known' \cap Eth = known \cap Eth
  <1>1. i # Bridge
    BY AddressedIsEthernet DEF ConfigureBridge, IInv
  <1>2. FuturesKept
    BY FuturesDropped DEF ConfigureBridge, IInv
  <1>3. CASE /\ UNCHANGED <<known, st, lease, ip, owner, unseen>>
             /\ UNCHANGED timers \/ timers' = [timers EXCEPT ![i] = {}]
    <2>1. LeasesKept
      BY <1>3, DisarmedKept, LeasesUnchanged DEF IInv
    <2>2. StatesKept
      BY <1>3, StatesUnchanged DEF IInv
    <2>3. WaitsKept
      BY <1>3 DEF ConfigureBridge, IInv, IfaceInv, IfaceTypeOK, WaitsKept
    <2>4. FlagsKept
      BY <1>3 DEF ConfigureBridge, IInv, IfaceInv, IfaceTypeOK, FlagsKept
    <2>5. IfaceInv'
      BY <1>2, <2>1, <2>2, <2>3, <2>4, Kept DEF IInv
    <2>6. ProgressTyped
      BY NextEntryTyped DEF ConfigureBridge, IInv
    <2>7. QED
      BY <1>3, <2>5, <2>6, WorkingInv DEF ConfigureBridge
  <1>4. CASE /\ lease[i] # None
             /\ known' = known \cup {Bridge}
             /\ st' = [st EXCEPT ![Bridge] = "Configured",
                                 ![i] = SetState(SetState(@, "Deconfiguring"),
                                                 "Discovered")]
             /\ lease' = [lease EXCEPT ![Bridge] = lease[i], ![i] = None]
             /\ ip' = [ip EXCEPT ![Bridge] = ip[i], ![i] = "none"]
             /\ owner' = [owner EXCEPT ![i] = Bridge]
             /\ HandTimers(i)
             /\ Publish(i)
    <2>1. /\ st' \in [Name -> Lifecycle] /\ st'[Bridge] = "Configured"
      <3>1. /\ st[i] \in Lifecycle
            /\ {"Deconfiguring", "Discovered", "Configured"} \subseteq Lifecycle
        BY DEF IInv, IfaceInv, IfaceTypeOK, Lifecycle
      <3>2. SetState(SetState(st[i], "Deconfiguring"), "Discovered") \in Lifecycle
        BY <3>1, SetStateType
      <3>3. QED
        BY <1>1, <1>4, <3>1, <3>2, BridgeIsAName DEF IInv, IfaceInv, IfaceTypeOK
    <2>2. /\ lease' \in [Name -> 0..LeaseTime \cup {None}]
          /\ ip' \in [Name -> {"none", "lease", "static"}]
          /\ owner' \in [Name -> Name]
      BY <1>4, BridgeIsAName DEF IInv, IfaceInv, IfaceTypeOK
    <2>3. timers' \in [Name -> SUBSET Timer] /\ TimersHaveLease'
      <3>1. Arm(lease[i]) \in SUBSET Timer
        BY DEF Arm
      <3>2. QED
        BY <1>1, <1>4, <3>1, BridgeIsAName
        DEF HandTimers, IInv, IfaceInv, IfaceTypeOK, TimersHaveLease
    <2>4. unseen' \in [Name -> BOOLEAN] /\ v6' \in [Name -> BOOLEAN]
      BY <1>4, PublishType DEF ConfigureBridge, IInv, IfaceInv, IfaceTypeOK
    <2>5. known' \subseteq Name /\ busy' = busy /\ known' \cap Eth = known \cap Eth
      BY <1>4, BridgeIsAName, Apart DEF ConfigureBridge, IInv, IfaceInv, IfaceTypeOK
    <2>6. busy' \in [Name -> {"no", "dora", "renew", "rebind"}]
      BY <2>5 DEF IInv, IfaceInv, IfaceTypeOK
    <2>7. IfaceInv'
      BY <1>2, <2>1, <2>2, <2>3, <2>4, <2>5, <2>6
      DEF FuturesKept, IfaceInv, IfaceTypeOK, BridgeStaysConfigured
    <2>8. ProgressTyped
      BY NextEntryTyped DEF ConfigureBridge, IInv
    <2>9. QED
      BY <2>5, <2>7, <2>8, WorkingInv DEF ConfigureBridge
  <1>5. QED
    BY <1>3, <1>4 DEF ConfigureBridge

------------------------------------------------------------------------------
(* Link events and the other events of supervisor_select *)

\* The election of a step that leaves the interfaces alone.
SwitchOrSame ==
    /\ UNCHANGED <<known, boot>>
    /\ \/ UNCHANGED primary
       \/ /\ primary \in known \cap Eth
          /\ primary' \in (known \cap Eth) \ {primary}

\* Promoting a backup keeps the election whole.
LEMMA PromoteFacts ==
    ASSUME IInv, NEW k \in 1..Len(backups), Promote(k), UNCHANGED known
    PROVE  /\ primary' \in Eth /\ backups' \in Seq(Eth)
           /\ primary \in known \cap Eth
           /\ primary' \in (known \cap Eth) \ {primary}
           /\ Elected'
  <1>1. /\ backups \in Seq(Eth) /\ IsInjective(backups)
        /\ primary \notin ToSet(backups) /\ primary \in Eth \cup {None}
        /\ known \cap Eth = ToSet(backups) \cup ({primary} \ {None})
        /\ primary = None => backups = <<>>
    BY DEF IInv, SupTypeOK, Elected
  <1>2. primary \in Eth
    BY <1>1
  <1>3. backups[k] \in Eth /\ backups[k] \in ToSet(backups)
    BY <1>1 DEF ToSet
  <1> DEFINE r == RemoveAt(backups, k)
  <1>4. r \in Seq(Eth) /\ IsInjective(r) /\ ToSet(r) = ToSet(backups) \ {backups[k]}
    BY <1>1, RemoveAtFacts
  <1>5. primary' = backups[k] /\ backups' = Append(r, primary)
    BY DEF Promote
  <1> HIDE DEF r
  <1>6. /\ backups' \in Seq(Eth) /\ IsInjective(backups')
        /\ ToSet(backups') = ToSet(r) \cup {primary}
    BY <1>1, <1>2, <1>4, <1>5, AppendFacts
  <1>7. ToSet(backups') \cup {primary'} = ToSet(backups) \cup {primary}
    BY <1>3, <1>4, <1>5, <1>6
  <1>8. known' \cap Eth = ToSet(backups') \cup ({primary'} \ {None})
    BY <1>1, <1>2, <1>3, <1>5, <1>7, Apart
  <1>9. primary' \notin ToSet(backups')
    BY <1>1, <1>3, <1>4, <1>5, <1>6
  <1>10. QED
    BY <1>1, <1>2, <1>3, <1>5, <1>6, <1>8, <1>9, Apart DEF Elected

\* handle_primary_failure keeps the election whole.
LEMMA PrimaryFailureFacts ==
    ASSUME IInv, primary # None, UNCHANGED <<known, boot>>,
           NEW b \in [Name -> Seq(Command)], b[Bridge] = <<>>, PrimaryFailure(b)
    PROVE  /\ net' \in NetState /\ primary' \in Eth \cup {None} /\ backups' \in Seq(Eth)
           /\ box' \in [Name -> Seq(Command)] /\ box'[Bridge] = <<>>
           /\ Elected' /\ SwitchOrSame
  <1>1. net \in NetState /\ {"Degraded", "Operational"} \subseteq NetState
    BY DEF IInv, SupTypeOK, NetState
  <1>2. CASE /\ backups = <<>> /\ net' = SetNet(net, "Degraded")
             /\ box' = b /\ UNCHANGED <<primary, backups>>
    <2>1. net' \in NetState
      BY <1>1, <1>2, SetNetType
    <2>2. Elected'
      BY <1>2 DEF IInv, Elected
    <2>3. QED
      BY <1>2, <2>1, <2>2 DEF IInv, SupTypeOK, SwitchOrSame
  <1>3. ASSUME NEW k \in 1..Len(backups), Promote(k),
               \/ box' = b
               \/ box' = Sent(b, backups[k], "Dhcp", "Provision"),
               net' = SetNet(SetNet(net, "Degraded"), "Operational")
        PROVE  /\ net' \in NetState /\ primary' \in Eth /\ backups' \in Seq(Eth)
               /\ box' \in [Name -> Seq(Command)] /\ box'[Bridge] = <<>>
               /\ Elected' /\ SwitchOrSame
    <2>1. SetNet(net, "Degraded") \in NetState
      BY <1>1, SetNetType
    <2>2. net' \in NetState
      BY <1>1, <1>3, <2>1, SetNetType
    <2>3. backups[k] \in Eth
      BY <1>3 DEF IInv, SupTypeOK
    <2>4. box' \in [Name -> Seq(Command)] /\ box'[Bridge] = <<>>
      BY <1>3, <2>3, LinkCommands, SentType
    <2>5. QED
      BY <1>3, <2>2, <2>4, PromoteFacts DEF SwitchOrSame
  <1>4. QED
    BY <1>2, <1>3 DEF PrimaryFailure

\* The event that is taken.
LEMMA NextEventFacts ==
    ASSUME IInv, NEW kind, NextEvent(kind)
    PROVE  /\ Head(events).name \in Eth
           /\ OutsideTyped /\ ProgressTyped /\ UNCHANGED <<task, boot>>
           /\ task = "idle"
  <1>1. events \in Seq(Event) /\ events # <<>>
    BY DEF IInv, SupTypeOK, NextEvent
  <1>2. Head(events) \in Event /\ Tail(events) \in Seq(Event)
    BY <1>1
  <1>3. Head(events).name \in Eth
    BY <1>2 DEF Event
  <1>4. OutsideTyped
    BY <1>2 DEF IInv, SupTypeOK, NextEvent, OutsideTyped
  <1>5. ProgressTyped
    BY ProgressUnchanged DEF IInv, NextEvent
  <1>6. QED
    BY <1>3, <1>4, <1>5 DEF NextEvent

\* A link is up: the primary is back or a backup replaces it.
LEMMA OnLinkUpInv == ASSUME IInv, OnLinkUp PROVE IInv' /\ SwitchOrSame
  <1> DEFINE n == Head(events).name
  <1>1. /\ n \in Eth /\ OutsideTyped /\ ProgressTyped /\ UNCHANGED <<task, boot>>
        /\ task = "idle"
    BY NextEventFacts DEF OnLinkUp
  <1>2. UNCHANGED ActorsApartFromBox /\ UNCHANGED known /\ UNCHANGED dns
    BY DEF OnLinkUp, ActorsApartFromBox
  <1>3. box' = IF n \in known THEN Sent(box, n, "LinkUp", "-") ELSE box
    BY DEF OnLinkUp
  <1>4. box' \in [Name -> Seq(Command)] /\ box'[Bridge] = <<>>
    BY <1>1, <1>3, LinkCommands, SentType DEF IInv, IfaceInv, IfaceTypeOK, BridgeQuiet
  <1>5. IfaceInv'
    BY <1>2, <1>4, BoxesKept DEF IInv
  <1>6. net \in NetState /\ SetNet(net, "Operational") \in NetState
    BY SetNetType DEF IInv, SupTypeOK, NetState
  <1>7. ElectionTyped /\ Elected' /\ SwitchOrSame
    <2>1. CASE n = primary /\ net' = SetNet(net, "Operational") /\ UNCHANGED <<primary, backups>>
      <3>1. ElectionTyped
        BY <1>2, <1>6, <2>1 DEF IInv, SupTypeOK, ElectionTyped
      <3>2. Elected'
        BY <1>1, <1>2, <2>1, Apart DEF IInv, Elected
      <3>3. QED
        BY <1>1, <1>2, <2>1, <3>1, <3>2 DEF SwitchOrSame
    <2>2. ASSUME NEW k \in 1..Len(backups), Promote(k), net' = SetNet(net, "Operational")
          PROVE  ElectionTyped /\ Elected' /\ SwitchOrSame
      BY <1>1, <1>2, <1>6, <2>2, PromoteFacts
      DEF IInv, SupTypeOK, ElectionTyped, SwitchOrSame
    <2>3. CASE UNCHANGED <<net, primary, backups>>
      BY <1>1, <1>2, <2>3, ElectionUnchanged DEF IInv, SupTypeOK, SwitchOrSame
    <2>4. QED
      BY <2>1, <2>2, <2>3 DEF OnLinkUp, PrimaryRecovery, BackupRecovery
  <1>8. QED
    BY <1>1, <1>5, <1>7, SupTyped DEF IInv, ProvisionHasPrimary

\* A link is down: the primary is replaced.
LEMMA OnLinkDownInv == ASSUME IInv, OnLinkDown PROVE IInv' /\ SwitchOrSame
  <1> DEFINE n == Head(events).name
             b == IF n \in known THEN Sent(box, n, "LinkDown", "-") ELSE box
  <1>1. /\ n \in Eth /\ OutsideTyped /\ ProgressTyped /\ UNCHANGED <<task, boot>>
        /\ task = "idle"
    BY NextEventFacts DEF OnLinkDown
  <1>2. UNCHANGED ActorsApartFromBox /\ UNCHANGED known /\ UNCHANGED dns
    BY DEF OnLinkDown, ActorsApartFromBox
  <1>3. b \in [Name -> Seq(Command)] /\ b[Bridge] = <<>>
    BY <1>1, LinkCommands, SentType DEF IInv, IfaceInv, IfaceTypeOK, BridgeQuiet
  <1>4. \/ n = primary /\ PrimaryFailure(b)
        \/ n # primary /\ box' = b /\ UNCHANGED <<net, primary, backups>>
    BY DEF OnLinkDown
  <1> HIDE DEF b
  <1>5. /\ ElectionTyped /\ Elected' /\ SwitchOrSame
        /\ box' \in [Name -> Seq(Command)] /\ box'[Bridge] = <<>>
    <2>1. CASE n = primary /\ PrimaryFailure(b)
      BY <1>1, <1>2, <1>3, <2>1, PrimaryFailureFacts, Apart
      DEF IInv, SupTypeOK, ElectionTyped
    <2>2. CASE box' = b /\ UNCHANGED <<net, primary, backups>>
      BY <1>1, <1>2, <1>3, <2>2, ElectionUnchanged DEF IInv, SupTypeOK, SwitchOrSame
    <2>3. QED
      BY <1>4, <2>1, <2>2
  <1>6. IfaceInv'
    BY <1>2, <1>5, BoxesKept DEF IInv
  <1>7. QED
    BY <1>1, <1>5, <1>6, SupTyped DEF IInv, ProvisionHasPrimary

\* The primary has published: it is replaced when it failed.
LEMMA PrimaryChangedInv == ASSUME IInv, PrimaryChanged PROVE IInv' /\ SwitchOrSame
  <1>1. UNCHANGED ActorsApartFromBox /\ UNCHANGED <<known, boot>>
    BY DEF PrimaryChanged, ActorsApartFromBox
  <1>2. box \in [Name -> Seq(Command)] /\ box[Bridge] = <<>>
    BY DEF IInv, IfaceInv, IfaceTypeOK, BridgeQuiet
  <1>3. /\ net' \in NetState /\ primary' \in Eth \cup {None} /\ backups' \in Seq(Eth)
        /\ box' \in [Name -> Seq(Command)] /\ box'[Bridge] = <<>>
        /\ Elected' /\ SwitchOrSame
    <2>1. CASE PrimaryFailure(box)
      <3>1. primary # None
        BY DEF PrimaryChanged, PrimaryPending
      <3>2. QED
        BY <1>1, <1>2, <2>1, <3>1, PrimaryFailureFacts
    <2>2. CASE UNCHANGED <<box, net, primary, backups>>
      BY <1>1, <1>2, <2>2, ElectionUnchanged DEF IInv, SupTypeOK, SwitchOrSame
    <2>3. QED
      BY <2>1, <2>2 DEF PrimaryChanged
  <1>4. IfaceInv'
    BY <1>1, <1>3, BoxesKept DEF IInv
  <1>5. ElectionTyped
    BY <1>3, FlushDnsType DEF PrimaryChanged, IInv, ElectionTyped
  <1>6. ProgressTyped /\ OutsideTyped
    BY ProgressUnchanged, OutsideUnchanged DEF PrimaryChanged, IInv
  <1>7. ProvisionHasPrimary'
    BY DEF PrimaryChanged, ProvisionHasPrimary
  <1>8. QED
    BY <1>3, <1>4, <1>5, <1>6, <1>7, SupTyped DEF IInv

\* An interface that appears is a backup, or the primary when there is none.
LEMMA OnLinkAddedInv ==
    ASSUME IInv, OnLinkAdded
    PROVE  /\ IInv' /\ UNCHANGED boot
           /\ \/ UNCHANGED <<known, primary>>
              \/ \E n \in Eth \ known :
                    /\ known' = known \cup {n}
                    /\ primary' = IF known \cap Eth = {} THEN n ELSE primary
  <1> DEFINE n == Head(events).name
  <1>1. /\ n \in Eth /\ OutsideTyped /\ ProgressTyped /\ UNCHANGED <<task, boot, net>>
        /\ task = "idle"
    BY NextEventFacts DEF OnLinkAdded
  <1>2. CASE n \in known /\ UNCHANGED <<ifaceVars, primary, backups, dns>>
    <2>1. IfaceInv' /\ UNCHANGED known
      BY <1>2, ActorsUnchanged DEF IInv, ifaceVars
    <2>2. ElectionTyped /\ Elected'
      BY <1>1, <1>2, <2>1, ElectionUnchanged DEF IInv, SupTypeOK
    <2>3. QED
      BY <1>1, <1>2, <2>1, <2>2, SupTyped DEF IInv, ProvisionHasPrimary
  <1>3. CASE /\ n \notin known /\ known' = known \cup {n} /\ Fresh({n}) /\ FlushDns
             /\ \/ primary = None /\ primary' = n /\ UNCHANGED backups
                \/ /\ primary # None /\ UNCHANGED primary
                   /\ \E pos \in 0..Len(backups) : backups' = InsertAt(backups, pos + 1, n)
    <2>1. IfaceInv'
      BY <1>1, <1>3, FreshKept, Apart DEF IInv, IfaceInv, IfaceTypeOK
    <2>2. /\ backups \in Seq(Eth) /\ IsInjective(backups)
          /\ primary \notin ToSet(backups) /\ primary \in Eth \cup {None}
          /\ known \cap Eth = ToSet(backups) \cup ({primary} \ {None})
          /\ primary = None => backups = <<>>
          /\ n \notin ToSet(backups) /\ n # primary
      <3>1. /\ backups \in Seq(Eth) /\ IsInjective(backups)
            /\ primary \notin ToSet(backups) /\ primary \in Eth \cup {None}
            /\ known \cap Eth = ToSet(backups) \cup ({primary} \ {None})
            /\ primary = None => backups = <<>>
        BY DEF IInv, SupTypeOK, Elected
      <3>2. n \notin ToSet(backups) /\ n # primary
        BY <1>1, <1>3, <3>1, Apart
      <3>3. QED
        BY <3>1, <3>2
    <2>3. CASE primary = None /\ primary' = n /\ UNCHANGED backups
      <3>1. ToSet(backups) = {}
        BY <2>2, <2>3 DEF ToSet
      <3>2. known \cap Eth = {} /\ known' \cap Eth = {n}
        BY <1>1, <1>3, <2>2, <2>3, <3>1
      <3>3. Elected'
        BY <1>1, <2>2, <2>3, <3>1, <3>2, Apart DEF Elected
      <3>4. ElectionTyped
        BY <1>1, <1>3, <2>2, <2>3, FlushDnsType DEF IInv, SupTypeOK, ElectionTyped
      <3>5. QED
        BY <1>1, <1>3, <2>1, <2>3, <3>2, <3>3, <3>4, SupTyped DEF IInv, ProvisionHasPrimary
    <2>4. ASSUME primary # None, UNCHANGED primary, NEW pos \in 0..Len(backups),
                 backups' = InsertAt(backups, pos + 1, n)
          PROVE  /\ IInv' /\ primary \in known \cap Eth
      <3>1. /\ backups' \in Seq(Eth) /\ IsInjective(backups')
            /\ ToSet(backups') = ToSet(backups) \cup {n}
        BY <1>1, <2>2, <2>4, InsertAtFacts
      <3>2. known' \cap Eth = ToSet(backups') \cup ({primary'} \ {None})
        BY <1>1, <1>3, <2>2, <2>4, <3>1
      <3>3. Elected'
        BY <2>2, <2>4, <3>1, <3>2 DEF Elected
      <3>4. ElectionTyped
        BY <1>1, <1>3, <2>2, <2>4, <3>1, FlushDnsType DEF IInv, SupTypeOK, ElectionTyped
      <3>5. QED
        BY <1>1, <2>1, <2>2, <2>4, <3>3, <3>4, SupTyped DEF IInv, ProvisionHasPrimary
    <2>5. QED
      BY <1>1, <1>3, <2>3, <2>4
  <1>4. QED
    BY <1>2, <1>3 DEF OnLinkAdded

\* An interface that disappears takes the primary with it only when another one
\* takes its place or none is left.
LEMMA OnLinkDeletedInv ==
    ASSUME IInv, OnLinkDeleted
    PROVE  /\ IInv' /\ UNCHANGED boot
           /\ \/ UNCHANGED <<known, primary>>
              \/ \E n \in Eth \cap known :
                    /\ known' = known \ {n}
                    /\ \/ n # primary /\ primary' = primary
                       \/ n = primary /\ known \cap Eth = {n} /\ primary' = None
                       \/ n = primary /\ primary' \in (known \cap Eth) \ {n}
  <1> DEFINE n == Head(events).name
  <1>1. /\ n \in Eth /\ OutsideTyped /\ ProgressTyped /\ UNCHANGED <<task, boot>>
        /\ task = "idle"
    BY NextEventFacts DEF OnLinkDeleted
  <1>2. CASE n \notin known /\ UNCHANGED <<ifaceVars, net, primary, backups, dns>>
    <2>1. IfaceInv' /\ UNCHANGED known
      BY <1>2, ActorsUnchanged DEF IInv, ifaceVars
    <2>2. ElectionTyped /\ Elected'
      BY <1>1, <1>2, <2>1, ElectionUnchanged DEF IInv, SupTypeOK
    <2>3. QED
      BY <1>1, <1>2, <2>1, <2>2, SupTyped DEF IInv, ProvisionHasPrimary
  <1>3. CASE /\ n \in known /\ known' = known \ {n} /\ Fresh({n}) /\ FlushDns
             /\ \/ n = primary /\ PrimaryRemoved
                \/ /\ n # primary /\ UNCHANGED <<primary, net>>
                   /\ \E k \in 1..Len(backups) :
                         backups[k] = n /\ backups' = RemoveAt(backups, k)
    <2>1. IfaceInv'
      BY <1>1, <1>3, FreshKept, Apart DEF IInv, IfaceInv, IfaceTypeOK
    <2>2. /\ backups \in Seq(Eth) /\ IsInjective(backups)
          /\ primary \notin ToSet(backups) /\ primary \in Eth \cup {None}
          /\ known \cap Eth = ToSet(backups) \cup ({primary} \ {None})
          /\ primary = None => backups = <<>>
          /\ net \in NetState
      BY DEF IInv, SupTypeOK, Elected
    <2>3. CASE /\ n = primary /\ backups # <<>>
               /\ primary' = Head(backups) /\ backups' = Tail(backups) /\ UNCHANGED net
      <3>1. /\ Head(backups) \in Eth /\ backups' \in Seq(Eth) /\ IsInjective(backups')
            /\ Head(backups) \in ToSet(backups)
            /\ ToSet(backups') = ToSet(backups) \ {Head(backups)}
        BY <2>2, <2>3, TailFacts
      <3>2. known' \cap Eth = ToSet(backups') \cup ({primary'} \ {None})
        BY <1>1, <1>3, <2>2, <2>3, <3>1, Apart
      <3>3. Elected'
        BY <2>3, <3>1, <3>2, Apart DEF Elected
      <3>4. ElectionTyped
        BY <1>3, <2>2, <2>3, <3>1, FlushDnsType DEF IInv, SupTypeOK, ElectionTyped
      <3>5. primary' \in (known \cap Eth) \ {n}
        BY <2>2, <2>3, <3>1
      <3>6. QED
        BY <1>1, <1>3, <2>1, <2>3, <3>3, <3>4, <3>5, SupTyped DEF IInv, ProvisionHasPrimary
    <2>4. CASE /\ n = primary /\ backups = <<>> /\ primary' = None
               /\ net' = SetNet(net, "Degraded") /\ UNCHANGED backups
      <3>1. ToSet(backups) = {}
        BY <2>4 DEF ToSet
      <3>2. known \cap Eth = {n} /\ known' \cap Eth = {}
        BY <1>1, <1>3, <2>2, <2>4, <3>1, Apart
      <3>3. net' \in NetState /\ net' \notin {"Operational", "Ready"}
        BY <2>2, <2>4 DEF SetNet, NetNext, NetState
      <3>4. Elected'
        BY <2>2, <2>4, <3>1, <3>2, <3>3 DEF Elected
      <3>5. ElectionTyped
        BY <1>3, <2>2, <2>4, <3>3, FlushDnsType DEF IInv, SupTypeOK, ElectionTyped
      <3>6. QED
        BY <1>1, <1>3, <2>1, <2>4, <3>2, <3>4, <3>5, SupTyped DEF IInv, ProvisionHasPrimary
    <2>5. ASSUME n # primary, UNCHANGED <<primary, net>>, NEW k \in 1..Len(backups),
                 backups[k] = n, backups' = RemoveAt(backups, k)
          PROVE  IInv'
      <3>1. /\ backups' \in Seq(Eth) /\ IsInjective(backups')
            /\ ToSet(backups') = ToSet(backups) \ {n}
        BY <2>2, <2>5, RemoveAtFacts
      <3>2. known' \cap Eth = ToSet(backups') \cup ({primary'} \ {None})
        BY <1>1, <1>3, <2>2, <2>5, <3>1
      <3>3. primary # None
        BY <2>2, <2>5
      <3>4. Elected'
        BY <2>2, <2>5, <3>1, <3>2, <3>3 DEF Elected
      <3>5. ElectionTyped
        BY <1>3, <2>2, <2>5, <3>1, FlushDnsType DEF IInv, SupTypeOK, ElectionTyped
      <3>6. QED
        BY <1>1, <2>1, <3>4, <3>5, SupTyped DEF IInv, ProvisionHasPrimary
    <2>6. QED
      BY <1>1, <1>3, <2>3, <2>4, <2>5 DEF PrimaryRemoved
  <1>4. QED
    BY <1>2, <1>3 DEF OnLinkDeleted

\* The tick, the bounds of the environment and the monitor keep the election.
LEMMA OtherInv ==
    ASSUME IInv, \/ ReconcileTick \/ TickDue \/ RetryInitialize
                 \/ \E i \in Eth, to \in Link : LinkChanges(i, to)
    PROVE  IInv' /\ UNCHANGED <<known, primary>> /\ (boot' = "done" <=> boot = "done")
  <1>1. UNCHANGED <<ifaceVars, net, primary, backups, dns>>
    BY DEF ReconcileTick, TickDue, RetryInitialize, LinkChanges, supVars
  <1>2. IfaceInv' /\ UNCHANGED known
    BY <1>1, ActorsUnchanged DEF IInv, ifaceVars
  <1>3. ElectionTyped /\ Elected'
    BY <1>1, <1>2, ElectionUnchanged DEF IInv, SupTypeOK
  <1>4. OutsideTyped
    <2>1. CASE UNCHANGED envVars
      BY <2>1, OutsideUnchanged DEF IInv
    <2>2. ASSUME NEW i \in Eth, NEW to \in Link, LinkChanges(i, to) PROVE OutsideTyped
      <3> DEFINE e == [name |-> i,
                       kind |-> IF to = "absent" THEN "Deleted"
                                ELSE IF links[i] = "absent" THEN "Added"
                                ELSE IF to = "up" THEN "Up" ELSE "Down"]
      <3>1. e \in Event
        BY DEF Event
      <3>2. events' = Append(events, e)
        BY <2>2 DEF LinkChanges
      <3> HIDE DEF e
      <3>3. events' \in Seq(Event)
        BY <3>1, <3>2 DEF IInv, SupTypeOK
      <3>4. QED
        BY <2>2, <3>3 DEF LinkChanges, IInv, SupTypeOK, OutsideTyped
    <2>3. QED
      BY <2>1, <2>2 DEF ReconcileTick, TickDue, RetryInitialize
  <1>5. /\ ProgressTyped /\ (boot' = "done" <=> boot = "done")
        /\ task' = "provision" => task = "provision"
    <2>1. CASE ReconcileTick
      <3>1. task' \in {"idle", "reconcile"} /\ entry' = 1 /\ step' = 1 /\ UNCHANGED boot
        BY <2>1 DEF ReconcileTick
      <3>2. due' \in BOOLEAN
        BY <2>1 DEF ReconcileTick
      <3>3. QED
        BY <3>1, <3>2 DEF IInv, SupTypeOK, ProgressTyped
    <2>2. CASE TickDue
      BY <2>2 DEF TickDue, IInv, SupTypeOK, ProgressTyped
    <2>3. CASE RetryInitialize
      BY <2>3 DEF RetryInitialize, IInv, SupTypeOK, ProgressTyped
    <2>4. ASSUME NEW i \in Eth, NEW to \in Link, LinkChanges(i, to)
          PROVE  ProgressTyped /\ UNCHANGED <<boot, task>>
      BY <2>4, ProgressUnchanged DEF LinkChanges, supVars, IInv
    <2>5. QED
      BY <2>1, <2>2, <2>3, <2>4
  <1>6. QED
    BY <1>1, <1>2, <1>3, <1>4, <1>5, SupTyped DEF IInv, ProvisionHasPrimary

\* A step of an actor, also when time or a router causes it.
LEMMA ActorStepInv ==
    ASSUME IInv, NEW i \in Name,
           \/ ActorStep(i) /\ UNCHANGED <<supVars, envVars>>
           \/ TimePasses(i)
    PROVE  IInv' /\ UNCHANGED <<known, primary, boot>>
  <1>1. ActorStep(i) \/ Outside(i)
    BY DEF TimePasses
  <1>2. IfaceInv' /\ UNCHANGED known
    BY <1>1, ActorInv DEF IInv
  <1>3. UNCHANGED supVars /\ UNCHANGED <<events, links, plan, changes>>
    BY DEF TimePasses, envVars
  <1>4. lapses' \in Nat
    BY DEF TimePasses, envVars, IInv, SupTypeOK
  <1>5. OutsideTyped
    BY <1>3, <1>4 DEF IInv, SupTypeOK, OutsideTyped
  <1>6. UNCHANGED <<net, primary, backups, dns>> /\ UNCHANGED <<task, entry, step, boot, due>>
    BY <1>3 DEF supVars
  <1>7. ProgressTyped
    BY <1>6, ProgressUnchanged DEF IInv
  <1>8. ElectionTyped /\ Elected'
    BY <1>2, <1>6, ElectionUnchanged DEF IInv, SupTypeOK
  <1>9. QED
    BY <1>2, <1>5, <1>6, <1>7, <1>8, SupTyped DEF IInv, ProvisionHasPrimary

------------------------------------------------------------------------------
(* The theorems *)

\* Every step preserves the invariant.
LEMMA NextIInv == IInv /\ [Next]_vars => IInv'
  <1> SUFFICES ASSUME IInv, [Next]_vars PROVE IInv'
    OBVIOUS
  <1>1. CASE SupervisorStep
    BY <1>1, DiscoveryFailsInv, DiscoverInv, SkipEthernetInv, SendCommandInv,
       SkipBridgeInv, BeginBridgeInv, RequestBridgeInv, InitializeDoneInv,
       ReconcileDoneInv, OnLinkUpInv, OnLinkDownInv, OnLinkAddedInv, OnLinkDeletedInv,
       PrimaryChangedInv, OtherInv
    DEF SupervisorStep
  <1>2. CASE \E i \in Name : InterfaceStep(i)
    BY <1>2, ActorStepInv, ConfigureBridgeInv DEF InterfaceStep
  <1>3. CASE \E i \in Name : TimePasses(i)
    BY <1>3, ActorStepInv
  <1>4. CASE \/ TickDue \/ RetryInitialize
             \/ \E i \in Eth, to \in Link : LinkChanges(i, to)
    BY <1>4, OtherInv
  <1>5. CASE UNCHANGED vars
    <2>1. UNCHANGED ifaceVars /\ UNCHANGED supVars /\ UNCHANGED envVars
      BY <1>5 DEF vars
    <2>2. IfaceInv' /\ UNCHANGED known
      BY <2>1, ActorsUnchanged DEF IInv, ifaceVars
    <2>3. ProgressTyped
      BY <2>1, ProgressUnchanged DEF IInv, supVars
    <2>4. QED
      BY <2>1, <2>2, <2>3, WorkingInv DEF supVars
  <1>6. QED
    BY <1>1, <1>2, <1>3, <1>4, <1>5 DEF Next

\* The inductive invariant holds.
THEOREM Inductive == Spec => []IInv
  BY InitIInv, NextIInv, PTL DEF Spec

\* The variables of the supervisor and of the actors keep their types: the
\* tables of both state machines are complete.
THEOREM NetworkTypeCorrect == Spec => []NetworkTypeOK
  <1>1. IInv => NetworkTypeOK
    BY DEF IInv, IfaceInv, NetworkTypeOK
  <1>2. QED
    BY <1>1, Inductive, PTL

\* Every Ethernet actor is the primary or a backup, exactly once, through
\* discovery, failover, recovery, hot-plug and removal.
THEOREM ElectionIsWhole == Spec => []Elected
  <1>1. IInv => Elected
    BY DEF IInv
  <1>2. QED
    BY <1>1, Inductive, PTL

\* renew_lease and rebind_lease always find the lease their timer was armed for.
THEOREM NoOrphanTimer == Spec => []TimersHaveLease
  <1>1. IInv => TimersHaveLease
    BY DEF IInv, IfaceInv
  <1>2. QED
    BY <1>1, Inductive, PTL

\* The bridge actor is never anything but Configured.
THEOREM BridgeNeverRespawned == Spec => []BridgeStaysConfigured
  <1>1. IInv => BridgeStaysConfigured
    BY DEF IInv, IfaceInv
  <1>2. QED
    BY <1>1, Inductive, PTL

------------------------------------------------------------------------------
(* The refinement *)

\* A step that neither moves an interface nor the primary is a stutter or the
\* end of the initialization.
LEMMA SameRefines ==
    ASSUME known' \cap Eth = known \cap Eth, UNCHANGED primary,
           boot' = "done" <=> boot = "done"
    PROVE  [Elects!Next]_<<known \cap Eth, primary, boot = "done">>
  OBVIOUS

\* Failover and recovery are a Switch.
LEMMA SwitchRefines ==
    ASSUME SwitchOrSame
    PROVE  [Elects!Next]_<<known \cap Eth, primary, boot = "done">>
  BY DEF SwitchOrSame, Elects!Next, Elects!Switch

\* Each step of the supervisor is a step of Election.
LEMMA NextRefines ==
    ASSUME IInv, [Next]_vars
    PROVE  [Elects!Next]_<<known \cap Eth, primary, boot = "done">>
  <1>1. CASE DiscoveryFails
    BY <1>1 DEF DiscoveryFails, CanReset, Elects!Next, Elects!Form
  <1>2. CASE Discover
    <2>1. known' \cap Eth = Present /\ primary' \in Present /\ Present \in SUBSET Eth
      BY <1>2, DiscoverInv DEF Present
    <2>2. Elects!Form(Present)
      BY <1>2, <2>1 DEF Discover, CanReset, Elects!Form
    <2>3. QED
      BY <2>1, <2>2 DEF Elects!Next
  <1>3. CASE SkipEthernet \/ SendCommand \/ SkipBridge \/ BeginBridge \/ RequestBridge
             \/ ReconcileDone
    BY <1>3, SameRefines
    DEF SkipEthernet, SendCommand, SkipBridge, BeginBridge, RequestBridge, ReconcileDone,
        ifaceVars
  <1>4. CASE InitializeDone
    <2>1. primary \in known \cap Eth /\ UNCHANGED <<known, primary>> /\ boot' = "done"
      BY <1>4 DEF InitializeDone, ifaceVars, IInv, ProvisionHasPrimary, Elected, SupTypeOK
    <2>2. CASE boot = "done"
      BY <2>1, <2>2, SameRefines
    <2>3. CASE boot # "done"
      BY <2>1, <2>3 DEF Elects!Next, Elects!Settle
    <2>4. QED
      BY <2>2, <2>3
  <1>5. CASE OnLinkUp \/ OnLinkDown \/ PrimaryChanged
    BY <1>5, OnLinkUpInv, OnLinkDownInv, PrimaryChangedInv, SwitchRefines
  <1>6. CASE OnLinkAdded
    <2>1. CASE UNCHANGED <<known, primary, boot>>
      BY <2>1, SameRefines
    <2>2. ASSUME NEW n \in Eth \ known, known' = known \cup {n}, UNCHANGED boot,
                 primary' = IF known \cap Eth = {} THEN n ELSE primary
          PROVE  Elects!Next
      <3>1. Elects!Join(n)
        BY <2>2 DEF Elects!Join
      <3>2. QED
        BY <3>1 DEF Elects!Next
    <2>3. QED
      BY <1>6, <2>1, <2>2, OnLinkAddedInv
  <1>7. CASE OnLinkDeleted
    <2>1. CASE UNCHANGED <<known, primary, boot>>
      BY <2>1, SameRefines
    <2>2. ASSUME NEW n \in Eth \cap known, known' = known \ {n}, UNCHANGED boot,
                 \/ n # primary /\ primary' = primary
                 \/ n = primary /\ known \cap Eth = {n} /\ primary' = None
                 \/ n = primary /\ primary' \in (known \cap Eth) \ {n}
          PROVE  Elects!Next
      <3>1. Elects!Leave(n)
        BY <2>2 DEF Elects!Leave
      <3>2. QED
        BY <3>1 DEF Elects!Next
    <2>3. QED
      BY <1>7, <2>1, <2>2, OnLinkDeletedInv
  <1>8. CASE \/ ReconcileTick \/ TickDue \/ RetryInitialize
             \/ \E i \in Eth, to \in Link : LinkChanges(i, to)
    BY <1>8, OtherInv, SameRefines
  <1>9. CASE \E i \in Name : InterfaceStep(i) \/ TimePasses(i)
    <2>1. PICK i \in Name : InterfaceStep(i) \/ TimePasses(i)
      BY <1>9
    <2>2. CASE (ActorStep(i) /\ UNCHANGED <<supVars, envVars>>) \/ TimePasses(i)
      BY <2>2, ActorStepInv, SameRefines
    <2>3. CASE ConfigureBridge(i)
      <3>1. known' \cap Eth = known \cap Eth /\ UNCHANGED <<primary, boot>>
        BY <2>3, ConfigureBridgeInv DEF ConfigureBridge
      <3>2. QED
        BY <3>1, SameRefines
    <2>4. QED
      BY <2>1, <2>2, <2>3 DEF InterfaceStep
  <1>10. CASE UNCHANGED vars
    BY <1>10, SameRefines DEF vars, ifaceVars, supVars
  <1>11. QED
    BY <1>1, <1>2, <1>3, <1>4, <1>5, <1>6, <1>7, <1>8, <1>9, <1>10 DEF Next, SupervisorStep

\* The supervisor implements Election: as long as there is an interface there is
\* a primary, and a removed primary is replaced in the same step.
THEOREM RefinesElection == Spec => ImplementsElection
  <1>1. Init => Elects!Init
    BY DEF Init, IfaceInit, Elects!Init
  <1>2. IInv /\ [Next]_vars => [Elects!Next]_<<known \cap Eth, primary, boot = "done">>
    BY NextRefines
  <1>3. QED
    BY <1>1, <1>2, Inductive, PTL DEF Spec, ImplementsElection, Elects!Spec
------------------------------------------------------------------------------
(* The request for a bridge *)

\* Where ConfigureBridge waits in a channel.
Requests(q) == {k \in 1..Len(q) : q[k].op = "Bridge"}

\* No channel of b holds a ConfigureBridge.
Clear(b) == \A n \in Name : Requests(b[n]) = {}

\* The supervisor waits for the answer of a port.
Waits == Working /\ IsBridge /\ step = 3

\* Another command at the end of a channel is no request.
LEMMA AppendOther ==
    ASSUME NEW q \in Seq(Command), NEW c \in Command, c.op # "Bridge", Requests(q) = {}
    PROVE  Requests(Append(q, c)) = {}
  BY DEF Requests

\* The first request of a channel is the only one.
LEMMA AppendRequest ==
    ASSUME NEW q \in Seq(Command), NEW c \in Command, c.op = "Bridge", Requests(q) = {}
    PROVE  Requests(Append(q, c)) = {Len(q) + 1}
  <1> DEFINE r == Append(q, c)
  <1>1. Len(r) = Len(q) + 1 /\ r[Len(q) + 1] = c /\ Len(q) \in Nat
    OBVIOUS
  <1>2. \A k \in 1..Len(q) : r[k] = q[k]
    OBVIOUS
  <1> HIDE DEF r
  <1>3. \A k \in 1..Len(q) : r[k].op # "Bridge"
    BY <1>2 DEF Requests
  <1>4. Requests(r) = {Len(q) + 1}
    BY <1>1, <1>3 DEF Requests
  <1>5. QED
    BY <1>4 DEF r

\* Taking the first command moves the requests behind it forward.
LEMMA TailRequests ==
    ASSUME NEW q \in Seq(Command), q # <<>>
    PROVE  Requests(Tail(q)) = {k \in 1..Len(q) - 1 : k + 1 \in Requests(q)}
  <1>1. Len(q) \in Nat /\ Len(q) > 0 /\ Len(Tail(q)) = Len(q) - 1
    OBVIOUS
  <1>2. \A k \in 1..Len(q) - 1 : Tail(q)[k] = q[k + 1]
    OBVIOUS
  <1>3. \A k \in 1..Len(q) - 1 : k + 1 \in 1..Len(q)
    BY <1>1
  <1>4. QED
    BY <1>1, <1>2, <1>3 DEF Requests

\* The head is a request when its operation is.
LEMMA HeadRequest ==
    ASSUME NEW q \in Seq(Command), q # <<>>
    PROVE  1 \in Requests(q) <=> Head(q).op = "Bridge"
  <1>1. Len(q) \in Nat /\ Len(q) > 0 /\ Head(q) = q[1]
    OBVIOUS
  <1>2. 1 \in 1..Len(q)
    BY <1>1
  <1>3. QED
    BY <1>1, <1>2 DEF Requests

\* Sending anything else keeps the channels clear.
LEMMA SentClear ==
    ASSUME NEW b \in [Name -> Seq(Command)], NEW n \in Name, NEW op, NEW mode,
           [op |-> op, mode |-> mode] \in Command, op # "Bridge", Clear(b)
    PROVE  Clear(Sent(b, n, op, mode))
  <1> DEFINE c == [op |-> op, mode |-> mode]
  <1>1. c.op # "Bridge" /\ c \in Command
    OBVIOUS
  <1>2. Sent(b, n, op, mode) = [b EXCEPT ![n] = Append(@, c)]
    BY DEF Sent
  <1> HIDE DEF c
  <1>3. Requests(Append(b[n], c)) = {}
    BY <1>1, AppendOther DEF Clear
  <1>4. QED
    BY <1>2, <1>3 DEF Clear

\* A supervisor that does not wait has no request under way.
LEMMA ClearBefore ==
    ASSUME OneBridgeRequest, ~Waits PROVE Clear(box)
  BY DEF OneBridgeRequest, AwaitsBridge, BridgeRequests, Waits, Clear, Requests

\* Conversely that is all there is to show when it does not wait.
LEMMA ClearAfter ==
    ASSUME Clear(box'), ~Waits' PROVE OneBridgeRequest'
  BY DEF OneBridgeRequest, AwaitsBridge, BridgeRequests, Waits, Clear, Requests

\* A step that leaves the supervisor where it is changes no wait.
LEMMA WaitUnchanged ==
    ASSUME UNCHANGED <<task, entry, step, plan, primary>>, NEW i
    PROVE  AwaitsBridge(i)' = AwaitsBridge(i)
  BY DEF AwaitsBridge, Working, IsBridge, Entry, Target

\* Nothing of it changes.
LEMMA RequestUnchanged ==
    ASSUME OneBridgeRequest, UNCHANGED <<task, entry, step, plan, primary, known, box>>
    PROVE  OneBridgeRequest'
  BY WaitUnchanged DEF OneBridgeRequest, BridgeRequests

\* A handler of another command leaves the request where it is.
LEMMA OtherReceived ==
    ASSUME IInv, OneBridgeRequest, NEW i \in Name, NEW op, Received(i, op),
           op # "Bridge", UNCHANGED <<task, entry, step, plan, primary, known>>
    PROVE  OneBridgeRequest'
  <1>1. /\ box[i] \in Seq(Command) /\ box[i] # <<>> /\ box'[i] = Tail(box[i])
        /\ \A n \in Name : n # i => box'[n] = box[n]
    BY ReceivedType DEF Received, IInv, IfaceInv, IfaceTypeOK
  <1>2. 1 \notin Requests(box[i])
    BY <1>1, HeadRequest DEF Received
  <1>3. Requests(box'[i]) = {k \in 1..Len(box[i]) - 1 : k + 1 \in Requests(box[i])}
    BY <1>1, TailRequests
  <1>4. Requests(box'[i]) = {} <=> Requests(box[i]) = {}
    <2>1. \A k \in Requests(box[i]) : k - 1 \in Requests(box'[i])
      BY <1>1, <1>2, <1>3 DEF Requests
    <2>2. QED
      BY <1>3, <2>1
  <1>5. (\A k, l \in Requests(box[i]) : k = l) => \A k, l \in Requests(box'[i]) : k = l
    <2> SUFFICES ASSUME \A k, l \in Requests(box[i]) : k = l,
                        NEW k \in Requests(box'[i]), NEW l \in Requests(box'[i])
                 PROVE  k = l
      OBVIOUS
    <2>1. k + 1 = l + 1 /\ k \in Int /\ l \in Int
      BY <1>3
    <2>2. QED
      BY <2>1
  <1>6. \A n \in Name : BridgeRequests(n) = Requests(box[n])
                        /\ BridgeRequests(n)' = Requests(box'[n])
    BY DEF BridgeRequests, Requests
  <1>7. \A n \in Name : AwaitsBridge(n)' = AwaitsBridge(n)
    BY WaitUnchanged
  <1>8. QED
    BY <1>1, <1>4, <1>5, <1>6, <1>7 DEF OneBridgeRequest

\* The port takes the request: the supervisor waits no longer and the channel
\* is clear again.
LEMMA RequestTaken ==
    ASSUME IInv, OneBridgeRequest, NEW i \in Name, ConfigureBridge(i)
    PROVE  OneBridgeRequest'
  <1>1. /\ box[i] \in Seq(Command) /\ box[i] # <<>> /\ box'[i] = Tail(box[i])
        /\ \A n \in Name : n # i => box'[n] = box[n]
    BY ReceivedType DEF ConfigureBridge, Received, IInv, IfaceInv, IfaceTypeOK
  <1>2. 1 \in Requests(box[i])
    BY <1>1, HeadRequest DEF ConfigureBridge, Received
  <1>3. \A n \in Name : BridgeRequests(n) = Requests(box[n])
    BY DEF BridgeRequests, Requests
  <1>4. AwaitsBridge(i) /\ \A k \in Requests(box[i]) : k = 1
    BY <1>2, <1>3 DEF OneBridgeRequest
  <1>5. Requests(box'[i]) = {}
    <2>1. Requests(box'[i]) = {k \in 1..Len(box[i]) - 1 : k + 1 \in Requests(box[i])}
      BY <1>1, TailRequests
    <2>2. \A k \in 1..Len(box[i]) - 1 : k + 1 # 1
      BY <1>1
    <2>3. QED
      BY <1>4, <2>1, <2>2
  <1>6. \A n \in Name : n # i => Requests(box[n]) = {}
    BY <1>3, <1>4 DEF OneBridgeRequest, AwaitsBridge
  <1>7. Clear(box')
    BY <1>1, <1>5, <1>6 DEF Clear
  <1>8. ~Waits'
    BY DEF ConfigureBridge, NextEntry, Waits
  <1>9. QED
    BY <1>7, <1>8, ClearAfter

\* The supervisor asks the port.
LEMMA RequestSent ==
    ASSUME IInv, OneBridgeRequest, RequestBridge PROVE OneBridgeRequest'
  <1> DEFINE c == [op |-> "Bridge", mode |-> "-"]
  <1>1. Target \in Name /\ Target \in known
    BY DEF RequestBridge, Configured, IInv, IfaceInv, IfaceTypeOK
  <1>2. c \in Command /\ c.op = "Bridge"
    BY LinkCommands
  <1>3. box' = [box EXCEPT ![Target] = Append(@, c)]
    BY DEF RequestBridge, Sent
  <1> HIDE DEF c
  <1>4. Clear(box) /\ box \in [Name -> Seq(Command)]
    BY ClearBefore DEF RequestBridge, Waits, IInv, IfaceInv, IfaceTypeOK
  <1>5. Requests(box'[Target]) = {Len(box[Target]) + 1}
    BY <1>1, <1>2, <1>3, <1>4, AppendRequest DEF Clear
  <1>6. \A n \in Name : n # Target => Requests(box'[n]) = {}
    BY <1>1, <1>3, <1>4 DEF Clear
  <1>7. \A n \in Name : AwaitsBridge(n)' <=> n = Target
    BY DEF RequestBridge, AwaitsBridge, Working, IsBridge, Entry, Target, envVars
  <1>8. \A n \in Name : BridgeRequests(n)' = Requests(box'[n])
    BY DEF BridgeRequests, Requests
  <1>9. known' = known
    BY DEF RequestBridge
  <1>10. ASSUME NEW n \in Name
         PROVE  /\ AwaitsBridge(n)' <=> BridgeRequests(n)' # {}
                /\ AwaitsBridge(n)' => n \in known'
                /\ \A k, l \in BridgeRequests(n)' : k = l
    <2>1. CASE n = Target
      <3>1. BridgeRequests(n)' = {Len(box[Target]) + 1} /\ AwaitsBridge(n)'
        BY <1>5, <1>7, <1>8, <2>1
      <3>2. n \in known'
        BY <1>1, <1>9, <2>1
      <3>3. QED
        BY <3>1, <3>2
    <2>2. CASE n # Target
      <3>1. BridgeRequests(n)' = {} /\ ~AwaitsBridge(n)'
        BY <1>6, <1>7, <1>8, <2>2
      <3>2. QED
        BY <3>1
    <2>3. QED
      BY <2>1, <2>2
  <1>11. QED
    BY <1>10 DEF OneBridgeRequest

\* The other steps of provisioning and reconciling.
LEMMA WorkRequests ==
    ASSUME IInv, OneBridgeRequest,
           SkipEthernet \/ SendCommand \/ SkipBridge \/ BeginBridge
    PROVE  OneBridgeRequest'
  <1>1. ~Waits
    BY DEF SkipEthernet, SendCommand, SkipBridge, BeginBridge, Waits
  <1>2. Clear(box) /\ box \in [Name -> Seq(Command)]
    BY <1>1, ClearBefore DEF IInv, IfaceInv, IfaceTypeOK
  <1>3. CASE SkipEthernet \/ SkipBridge \/ BeginBridge
    <2>1. box' = box /\ step' # 3
      BY <1>3 DEF SkipEthernet, SkipBridge, BeginBridge, NextEntry, ifaceVars
    <2>2. QED
      BY <1>2, <2>1, ClearAfter DEF Waits
  <1>4. CASE SendCommand
    <2> DEFINE mode == IF task = "provision" THEN "Provision" ELSE "Reconcile"
    <2>1. Target \in Name /\ Entry.ops \in Seq(Ops)
      BY <1>4, TargetIsEthernet, Apart DEF SendCommand, IsBridge
    <2>2. Op \in Ops
      BY <1>4, <2>1 DEF SendCommand, IInv, SupTypeOK, Op
    <2>3. [op |-> Op, mode |-> mode] \in Command /\ Op # "Bridge"
      BY <2>2 DEF Command, Ops
    <2>4. box' = Sent(box, Target, Op, mode)
      BY <1>4 DEF SendCommand
    <2>5. Clear(box')
      BY <1>2, <2>1, <2>3, <2>4, SentClear
    <2>6. ~Waits'
      BY <1>4 DEF SendCommand, NextEntry, Waits, IsBridge, Entry, envVars
    <2>7. QED
      BY <2>5, <2>6, ClearAfter
  <1>5. QED
    BY <1>3, <1>4

\* What the supervisor does between two tasks.
LEMMA IdleRequests ==
    ASSUME IInv, OneBridgeRequest,
           \/ DiscoveryFails \/ Discover \/ OnLinkUp \/ OnLinkDown \/ OnLinkAdded
           \/ OnLinkDeleted \/ PrimaryChanged \/ ReconcileTick
    PROVE  OneBridgeRequest'
  <1>1. task = "idle" /\ (task' = "idle" \/ step' = 1)
    BY DEF DiscoveryFails, Discover, CanReset, OnLinkUp, OnLinkDown, OnLinkAdded,
           OnLinkDeleted, PrimaryChanged, ReconcileTick, NextEvent
  <1>2. ~Waits /\ ~Waits'
    BY <1>1 DEF Waits, Working
  <1>3. Clear(box) /\ box \in [Name -> Seq(Command)]
    BY <1>2, ClearBefore DEF IInv, IfaceInv, IfaceTypeOK
  <1>4. Eth \subseteq Name
    BY Apart
  <1>5. ASSUME NEW S, box' = [n \in Name |-> IF n \in S THEN <<>> ELSE box[n]]
        PROVE  Clear(box')
    BY <1>3, <1>5 DEF Clear, Requests
  <1>6. ASSUME NEW b \in [Name -> Seq(Command)], Clear(b), PrimaryFailure(b)
        PROVE  Clear(box')
    <2>1. ASSUME NEW k \in 1..Len(backups)
          PROVE  Clear(Sent(b, backups[k], "Dhcp", "Provision"))
      <3>1. backups[k] \in Name
        BY <1>4 DEF IInv, SupTypeOK
      <3>2. QED
        BY <1>6, <3>1, LinkCommands, SentClear
    <2>2. QED
      BY <1>6, <2>1 DEF PrimaryFailure
  <1>7. CASE DiscoveryFails \/ Discover \/ OnLinkAdded \/ OnLinkDeleted
    <2>1. \/ box' = box
          \/ \E S : box' = [n \in Name |-> IF n \in S THEN <<>> ELSE box[n]]
      BY <1>7 DEF DiscoveryFails, Discover, OnLinkAdded, OnLinkDeleted, Fresh, ifaceVars
    <2>2. QED
      BY <1>2, <1>3, <1>5, <2>1, ClearAfter
  <1>8. CASE OnLinkUp \/ OnLinkDown
    <2> DEFINE n == Head(events).name
               up == IF n \in known THEN Sent(box, n, "LinkUp", "-") ELSE box
               down == IF n \in known THEN Sent(box, n, "LinkDown", "-") ELSE box
    <2>1. n \in Eth
      BY <1>8, NextEventFacts DEF OnLinkUp, OnLinkDown
    <2>2. Clear(up) /\ Clear(down)
      BY <1>3, <1>4, <2>1, LinkCommands, SentClear
    <2>3. down \in [Name -> Seq(Command)]
      BY <1>3, <2>1, LinkCommands, SentType DEF IInv, IfaceInv, BridgeQuiet
    <2>4. box' = up \/ box' = down \/ PrimaryFailure(down)
      BY <1>8 DEF OnLinkUp, OnLinkDown
    <2> HIDE DEF up, down
    <2>5. Clear(box')
      BY <1>6, <2>2, <2>3, <2>4
    <2>6. QED
      BY <1>2, <2>5, ClearAfter
  <1>9. CASE PrimaryChanged \/ ReconcileTick
    <2>1. box' = box \/ PrimaryFailure(box)
      BY <1>9 DEF PrimaryChanged, ReconcileTick, ifaceVars
    <2>2. QED
      BY <1>2, <1>3, <1>6, <2>1, ClearAfter
  <1>10. QED
    BY <1>7, <1>8, <1>9

\* The end of a task, and what comes from outside.
LEMMA OtherRequests ==
    ASSUME IInv, OneBridgeRequest,
           \/ InitializeDone \/ ReconcileDone \/ TickDue \/ RetryInitialize
           \/ \E i \in Eth, to \in Link : LinkChanges(i, to)
    PROVE  OneBridgeRequest'
  <1>1. CASE InitializeDone \/ ReconcileDone
    <2>1. ~Waits
      <3>1. entry > Len(plan) /\ entry \in Nat /\ Len(plan) \in Nat
        BY <1>1 DEF InitializeDone, ReconcileDone, IInv, SupTypeOK, Plan
      <3>2. QED
        BY <3>1 DEF Waits, Working
    <2>2. box' = box /\ ~Waits'
      BY <1>1 DEF InitializeDone, ReconcileDone, ifaceVars, Waits, Working
    <2>3. QED
      BY <2>1, <2>2, ClearBefore, ClearAfter
  <1>2. CASE \/ TickDue \/ RetryInitialize
             \/ \E i \in Eth, to \in Link : LinkChanges(i, to)
    BY <1>2, RequestUnchanged
    DEF TickDue, RetryInitialize, LinkChanges, ifaceVars, supVars, envVars
  <1>3. QED
    BY <1>1, <1>2

\* The actors, but for the handler of the request.
LEMMA ActorRequests ==
    ASSUME IInv, OneBridgeRequest, NEW i \in Name,
           \/ ActorStep(i) /\ UNCHANGED <<supVars, envVars>>
           \/ TimePasses(i)
    PROVE  OneBridgeRequest'
  <1>1. UNCHANGED <<task, entry, step, plan, primary, known>>
    BY ActorStepInv DEF TimePasses, supVars, envVars
  <1>2. \/ box' = box
        \/ \E op \in {"Dhcp", "Static4", "Static6", "Slaac", "LinkUp", "LinkDown"} :
              Received(i, op)
    BY DEF TimePasses, ActorStep, Outside, ConfigureDhcp, ConfigureStatic, ConfigureSlaac,
           LinkUp, LinkDown, DhcpAttemptFails, DhcpFailed, DhcpLease, DoraEnds, AskAgain,
           Answered, Expire, Solicit, SlaacConfigured, SlaacFailed, Age, SlaacNotice,
           AddressExpired, RouterExpired
  <1>3. QED
    BY <1>1, <1>2, RequestUnchanged, OtherReceived

\* Every step keeps the one request with the one wait.
LEMMA NextRequests ==
    ASSUME IInv, OneBridgeRequest, [Next]_vars PROVE OneBridgeRequest'
  <1>1. CASE SupervisorStep
    BY <1>1, WorkRequests, RequestSent, IdleRequests, OtherRequests DEF SupervisorStep
  <1>2. CASE \E i \in Name : InterfaceStep(i) \/ TimePasses(i)
    BY <1>2, ActorRequests, RequestTaken DEF InterfaceStep
  <1>3. CASE \/ TickDue \/ RetryInitialize
             \/ \E i \in Eth, to \in Link : LinkChanges(i, to)
    BY <1>3, OtherRequests
  <1>4. CASE UNCHANGED vars
    BY <1>4, RequestUnchanged DEF vars, ifaceVars, supVars, envVars
  <1>5. QED
    BY <1>1, <1>2, <1>3, <1>4 DEF Next

\* The supervisor waits for a port exactly while its one ConfigureBridge is in
\* the channel of that port, which is known: neither an election nor a removal
\* can take the port away from the wait, and no stale request is ever answered.
THEOREM OneBridgeRequestHolds == Spec => []OneBridgeRequest
  <1>1. Init => OneBridgeRequest
    <2> SUFFICES ASSUME Init PROVE OneBridgeRequest
      OBVIOUS
    <2>1. ~Working /\ \A n \in Name : box[n] = <<>>
      BY DEF Init, IfaceInit, Working
    <2>2. \A n \in Name : BridgeRequests(n) = {}
      BY <2>1 DEF BridgeRequests
    <2>3. QED
      BY <2>1, <2>2 DEF OneBridgeRequest, AwaitsBridge
  <1>2. IInv /\ OneBridgeRequest /\ [Next]_vars => OneBridgeRequest'
    BY NextRequests
  <1>3. QED
    BY <1>1, <1>2, Inductive, PTL DEF Spec
=============================================================================

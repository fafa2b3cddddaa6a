---------------------------- MODULE AtomicUpdate ----------------------------
(***************************************************************************)
(* What provisiond promises about an update, apart from the windows in     *)
(* which a fault breaks it: a new configuration is put in place only on a  *)
(* settled machine, so that no update starts on top of another one; its    *)
(* image is installed in one step, and only while that very image runs;    *)
(* an update that is not installed is undone in one step; and a power      *)
(* failure brings back nothing from before the installed image.  Update    *)
(* implements this specification (Update!ImplementsAtomicUpdate).          *)
(***************************************************************************)
CONSTANTS Config, Installed

VARIABLES
    config,     \* the configuration in force
    earlier,    \* those that a power failure may bring back instead
    installed,  \* the image that a cold boot runs
    running,    \* the image that runs
    broken      \* a fault fell in one of the windows

Init ==
    /\ config = Installed /\ installed = Installed /\ running = Installed
    /\ earlier = {}
    /\ broken = FALSE

Settled == config = installed /\ running = installed

\* What is in force, or may come back, may come back later or never.
Ages == earlier' \subseteq earlier \cup {config}

Propose(c) ==
    /\ Settled
    /\ config' = c
    /\ Ages
    /\ UNCHANGED <<installed, running>>

\* The proposed image is booted without being installed.
Try ==
    /\ running = installed
    /\ running' = config
    /\ earlier' = {}
    /\ UNCHANGED <<config, installed>>

Commit ==
    /\ running = config
    /\ installed' = config
    /\ earlier' = {}
    /\ UNCHANGED <<config, running>>

Abandon ==
    /\ config' = installed
    /\ Ages
    /\ UNCHANGED <<installed, running>>

\* The files change, or are synced, under the same configuration.
Settle ==
    /\ Ages
    /\ UNCHANGED <<config, installed, running>>

\* The machine goes down, and the installed image comes up.
GoDown ==
    /\ running' = installed
    /\ config' \in earlier \cup {config}
    /\ earlier' = {}
    /\ UNCHANGED installed

Step == (\E c \in Config : Propose(c)) \/ Try \/ Commit \/ Abandon \/ Settle \/ GoDown

\* Once broken, nothing is promised any more.
Next == (Step /\ UNCHANGED broken) \/ broken'

Spec == Init /\ [][Next]_<<config, earlier, installed, running, broken>>
=============================================================================

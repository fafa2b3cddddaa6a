-------------------------- MODULE ServiceLifecycle --------------------------
(***************************************************************************)
(* What granola promises about the life of every supervised service,       *)
(* whatever the services report about themselves: a service is never       *)
(* started twice at once, a start is always preceded by a decision to      *)
(* start it, and a service the supervisor has given up on is never started *)
(* again.  Supervisor implements this specification (Supervisor!Lifecycle).*)
(***************************************************************************)
CONSTANT Service

VARIABLE life    \* life[s], one of the stages below

\* A service has not been considered yet, is owed a start (now or after the
\* restart delay), has a process, or is never going to be started again.
Stage == {"unstarted", "owed", "up", "down"}

Init == life = [s \in Service |-> "unstarted"]

\* One step decides about any set of services (a start batch), but moves each
\* of them along one edge of this relation.
Moves == { <<"unstarted", "owed">>,   \* its dependencies are ready
           <<"owed", "up">>,          \* spawned
           <<"owed", "down">>,        \* out of spawn attempts
           <<"up", "owed">>,          \* exited, to be restarted
           <<"up", "down">> }         \* exited, given up

Next == /\ life' \in [Service -> Stage]
        /\ \A s \in Service : life'[s] # life[s] => <<life[s], life'[s]>> \in Moves

Spec == Init /\ [][Next]_life
=============================================================================

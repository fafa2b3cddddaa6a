------------------------------ MODULE MCNetwork ------------------------------
(* Small instances of Network for TLC. *)
EXTENDS Network

Setup(entries, first, second, n, m) ==
    [plan |-> entries, links |-> <<first, second>>, changes |-> n, lapses |-> m]

Auto(ops) == [name |-> None, ops |-> ops]
Second(ops) == [name |-> 2, ops |-> ops]

\* Two interfaces with DHCP, and one of them fails, goes or comes.
TwoUp == Setup(<<Auto(<<"Dhcp">>)>>, "up", "up", 1, 0)
\* Nothing is there at boot; links are plugged in and get a carrier.
Plugged == Setup(<<Auto(<<"Dhcp">>)>>, "absent", "absent", 2, 0)
\* One lease through renewal, rebinding and expiry.
OneLease == Setup(<<Auto(<<"Dhcp">>)>>, "up", "absent", 0, 5)
\* The Ethernet entry of the default configuration.
Dual == Setup(<<Auto(<<"Dhcp", "Slaac">>)>>, "up", "absent", 0, 3)
\* Static addresses on an interface that is not the primary.
Static == Setup(<<Second(<<"Static4", "Static6">>)>>, "up", "up", 1, 0)
\* A bridge over the primary, as in the default configuration.
AutoBridge == Setup(<<Auto(<<"Dhcp">>), Auto(<<"Bridge">>)>>, "up", "up", 1, 0)
\* A bridge over a port that is not the primary; its lease ages.
PortBridge == Setup(<<Second(<<"Dhcp">>), Second(<<"Bridge">>)>>,
                    "up", "up", 0, 3)

AllSetups == {TwoUp, Plugged, OneLease, Dual, Static, AutoBridge, PortBridge}

\* The default configuration on a quiet machine with two interfaces.
DefaultSetup ==
    {Setup(<<Auto(<<"Dhcp">>), Auto(<<"Bridge">>)>>, "up", "up", 0, 0)}

\* One interface with DHCP on a quiet machine.
OneInterface == {Setup(<<Auto(<<"Dhcp">>)>>, "up", "absent", 0, 0)}
==============================================================================

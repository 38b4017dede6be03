----------------------------- MODULE MCUDPProxy -----------------------------
(***************************************************************************)
(* A small UDP proxy for TLC: two clients behind one address, and a third  *)
(* one that differs from the first in the zone alone.                      *)
(***************************************************************************)
EXTENDS UDPProxy

CONSTANTS u1, u2

Sender(ip, port, zone) == [IP |-> ip, Port |-> port, Zone |-> zone]

MCClients == {Sender("fe80::1", 1, "eth0"), Sender("fe80::1", 2, "eth0"),
              Sender("fe80::1", 1, "eth1")}
=============================================================================

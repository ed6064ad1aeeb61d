------------------------------ MODULE Registry ------------------------------
(***************************************************************************)
(* What registry.json promises whoever reads it, however many commands run *)
(* at once: one unit at a time comes or goes, a new one takes the first    *)
(* free port of its own probing, nobody else's entry is touched, and an    *)
(* entry never changes its ports.  Allocation implements it.               *)
(***************************************************************************)
EXTENDS Ports

VARIABLE registry    \* registry[n]: the ports of unit n, or None

Init == registry = [n \in Names |-> None]

Register(n) ==
    /\ registry[n] = None
    /\ PortFor(n, Taken(registry)) # None
    /\ registry' = [registry EXCEPT ![n] = PortPair(PortFor(n, Taken(registry)))]

Deregister(n) ==
    /\ registry[n] # None
    /\ registry' = [registry EXCEPT ![n] = None]

Next == \E n \in Names : Register(n) \/ Deregister(n)

Spec == Init /\ [][Next]_registry

\* Every process of every unit listens on a port of its own: no application's
\* or gateway's port is any other one's.
PortsDistinct ==
    \A m, n \in Registered(registry) :
        /\ registry[m].port # registry[n].gw
        /\ m # n => registry[m].port # registry[n].port /\ registry[m].gw # registry[n].gw
=============================================================================

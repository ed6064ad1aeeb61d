------------------------------- MODULE Ports --------------------------------
(***************************************************************************)
(* Which ports a unit gets: port_for and gw_port_for of naming.py, and the *)
(* ports registry.py takes to be in use.                                   *)
(***************************************************************************)
EXTENDS Naturals

CONSTANTS
    Names,       \* unit names an operator uses
    Hash,        \* Hash[n]: crc32 of the name, modulo Span
    Base,        \* APP_PORT_BASE, 18000
    Span,        \* APP_PORT_SPAN, 1000
    GwOffset,    \* GW_PORT_OFFSET, 1000
    None         \* "no port", "no entry", "no directory"

ASSUME PortsAssumption ==
    /\ Base \in Nat \ {0}
    /\ Span \in Nat \ {0}
    /\ GwOffset \in Nat
    /\ Span <= GwOffset
    /\ Base + Span + GwOffset <= 65536
    /\ Hash \in [Names -> 0 .. Span - 1]

AppPorts == Base .. Base + Span - 1

GwPortFor(port) == port + GwOffset

PortPair(port) == [port |-> port, gw |-> GwPortFor(port)]

ASSUME NoPortAssumption == \A port \in AppPorts : None # port /\ None # PortPair(port)

\* An entry of the registry, as far as ports are concerned.
Entries == {PortPair(port) : port \in AppPorts} \cup {None}

\* Mutant: the probing does not wrap around.
Probe_Straight(n, step) == Base + Hash[n] + step

\* The step-th port tried for n.  Both summands are below Span, so that one
\* subtraction is the remainder.
Probe(n, step) ==
    LET sum == Hash[n] + step
    IN  Base + (IF sum < Span THEN sum ELSE sum - Span)

\* The steps at which the probing may stop: there is one, or none.
FirstFree(n, taken) ==
    {step \in 0 .. Span - 1 :
        /\ Probe(n, step) \notin taken
        /\ \A k \in 0 .. Span - 1 : k < step => Probe(n, k) \in taken}

\* None: the ValidationError "no free port".
PortFor(n, taken) ==
    IF FirstFree(n, taken) = {}
    THEN None
    ELSE Probe(n, CHOOSE step \in FirstFree(n, taken) : TRUE)

Registered(units) == {n \in Names : units[n] # None}

\* Those the probing could meet.
Taken(units) ==
    {units[n].port : n \in Registered(units)}
        \cup {p \in AppPorts : \E n \in Registered(units) : units[n].gw = p + GwOffset}

\* Mutant: a unit that has an entry is given a port like a new one.
AllocatePorts_Anew(n, units) == PortFor(n, Taken(units))

\* The application's port (allocate_ports returns the gateway's with it).
AllocatePorts(n, units) ==
    IF n \in Registered(units) THEN units[n].port ELSE PortFor(n, Taken(units))
=============================================================================

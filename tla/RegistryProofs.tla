--------------------------- MODULE RegistryProofs ---------------------------
(***************************************************************************)
(* The port probing finds a free port whenever there is one, for every     *)
(* base, span and hash; and whatever keeps to Registry gives no port out   *)
(* twice.                                                                  *)
(***************************************************************************)
EXTENDS Registry, FiniteSetTheorems, TLAPS

LEMMA ProbeInSpan ==
    ASSUME NEW n \in Names, NEW step \in 0 .. Span - 1
    PROVE  Probe(n, step) \in AppPorts
  BY PortsAssumption DEF Probe, AppPorts

\* Probing comes by every port: with the wrap-around, Span steps from any start
\* cover the span.
LEMMA ProbeCovers ==
    ASSUME NEW n \in Names, NEW p \in AppPorts
    PROVE  \E step \in 0 .. Span - 1 : Probe(n, step) = p
  <1>1. CASE p - Base >= Hash[n]
    <2>1. /\ p - Base - Hash[n] \in 0 .. Span - 1
          /\ Probe(n, p - Base - Hash[n]) = p
        BY <1>1, PortsAssumption DEF Probe, AppPorts
    <2> QED BY <2>1
  <1>2. CASE p - Base < Hash[n]
    <2>1. /\ p - Base + Span - Hash[n] \in 0 .. Span - 1
          /\ Probe(n, p - Base + Span - Hash[n]) = p
        BY <1>2, PortsAssumption DEF Probe, AppPorts
    <2> QED BY <2>1
  <1> QED BY <1>1, <1>2, PortsAssumption DEF AppPorts

\* Of the intervals from 0 to the elements of T, one is included in all others.
LEMMA LeastNat ==
    ASSUME NEW T, T \subseteq Nat, T # {}
    PROVE  \E x \in T : \A y \in T : x <= y
  <1> DEFINE F == {0 .. x : x \in T}
             R == StrictSubsetOrdering(Nat)
  <1>1. F \subseteq FiniteSubsetsOf(Nat)
    <2>1. \A x \in T : IsFiniteSet(0 .. x) /\ 0 .. x \in SUBSET Nat
        BY FS_Interval
    <2> QED BY <2>1 DEF FiniteSubsetsOf
  <1>2. PICK I \in F : \A J \in F : <<J, I>> \notin R
    <2>1. IsWellFoundedOn(R, FiniteSubsetsOf(Nat))
        BY FS_StrictSubsetOrderingWellFounded
    <2>2. F # {}
        OBVIOUS
    <2> HIDE DEF F, R
    <2> QED BY <1>1, <2>1, <2>2, WFMin
  <1>3. PICK x \in T : I = 0 .. x
    BY <1>2
  <1>4. ASSUME NEW y \in T, y < x
        PROVE  FALSE
    <2>1. 0 .. y \in F
        BY <1>4
    <2>2. 0 .. y \subseteq 0 .. x /\ 0 .. y # 0 .. x
        <3>1. y \in Nat /\ x \in Nat
            OBVIOUS
        <3>2. x \in 0 .. x /\ x \notin 0 .. y
            BY <1>4, <3>1
        <3> QED BY <1>4, <3>1, <3>2
    <2>3. <<0 .. y, I>> \in R
        BY <1>3, <2>2 DEF StrictSubsetOrdering
    <2> QED BY <1>2, <2>1, <2>3
  <1> QED BY <1>4

\* Where the probing stops, the port is free.
LEMMA PortForFree ==
    ASSUME NEW n \in Names, NEW taken, PortFor(n, taken) # None
    PROVE  PortFor(n, taken) \in AppPorts \ taken
  BY ProbeInSpan DEF PortFor, FirstFree

\* port_for (naming.py:88) fails only if every port of the span is taken.
THEOREM PortFound ==
    ASSUME NEW n \in Names, NEW taken, NEW p \in AppPorts \ taken
    PROVE  PortFor(n, taken) \in AppPorts \ taken
  <1> DEFINE T == {step \in 0 .. Span - 1 : Probe(n, step) \notin taken}
  <1>1. T # {}
    BY ProbeCovers
  <1>2. PICK x \in T : \A y \in T : x <= y
    <2>1. T \subseteq Nat
        BY PortsAssumption
    <2> HIDE DEF T
    <2> QED BY <1>1, <2>1, LeastNat
  <1>3. \A k \in 0 .. Span - 1 : k < x => Probe(n, k) \in taken
    BY <1>2, PortsAssumption
  <1>4. x \in FirstFree(n, taken)
    BY <1>2, <1>3 DEF FirstFree
  <1>5. PortFor(n, taken) = Probe(n, CHOOSE step \in FirstFree(n, taken) : TRUE)
    BY <1>4 DEF PortFor
  <1> QED BY <1>4, <1>5, ProbeInSpan DEF FirstFree

-----------------------------------------------------------------------------
(* The registry.                                                           *)

Inv == registry \in [Names -> Entries] /\ PortsDistinct

\* A port that a unit of the registry has is one of those taken.
LEMMA TakenByUnits ==
    ASSUME NEW n \in Registered(registry)
    PROVE  registry[n].port \in Taken(registry)
  BY DEF Taken

LEMMA EntryShape ==
    ASSUME registry \in [Names -> Entries], NEW n \in Registered(registry)
    PROVE  /\ registry[n].port \in AppPorts
           /\ registry[n] = PortPair(registry[n].port)
           /\ registry[n].gw = registry[n].port + GwOffset
  BY DEF Registered, Entries, PortPair, GwPortFor

\* An application's port is below every gateway's: that is what Span <= GwOffset
\* is for.
LEMMA AppBelowGateway ==
    ASSUME NEW p \in AppPorts, NEW q \in AppPorts
    PROVE  p # q + GwOffset
  BY PortsAssumption DEF AppPorts

\* Registering a unit keeps the ports apart, since it takes one that is free.
LEMMA RegisterInv ==
    ASSUME Inv, NEW n \in Names, Register(n)
    PROVE  Inv'
  <1> DEFINE new == PortFor(n, Taken(registry))
  <1>1. new \in AppPorts \ Taken(registry)
    BY PortForFree DEF Register
  <1>2. registry' = [registry EXCEPT ![n] = PortPair(new)]
    BY DEF Register
  <1>3. registry' \in [Names -> Entries]
    BY <1>1, <1>2 DEF Inv, Entries
  <1> HIDE DEF new
  <1>4. /\ Registered(registry') = Registered(registry) \cup {n}
        /\ n \notin Registered(registry)
    BY <1>1, <1>2, NoPortAssumption DEF Registered, Register, Inv
  <1>5. \A m \in Registered(registry) : registry'[m] = registry[m]
    BY <1>2, <1>4 DEF Inv, Registered
  <1>6. registry'[n].port = new /\ registry'[n].gw = new + GwOffset
    BY <1>2 DEF Inv, PortPair, GwPortFor
  <1>7. \A m \in Registered(registry) :
            /\ registry[m].port \in AppPorts
            /\ registry[m].gw = registry[m].port + GwOffset
            /\ registry[m].port # new
    BY <1>1, EntryShape, TakenByUnits DEF Inv
  <1>8. PortsDistinct'
    <2> SUFFICES ASSUME NEW k \in Registered(registry'), NEW m \in Registered(registry')
                 PROVE  /\ registry'[k].port # registry'[m].gw
                        /\ k # m => /\ registry'[k].port # registry'[m].port
                                    /\ registry'[k].gw # registry'[m].gw
        BY DEF PortsDistinct
    <2>1. CASE k = n /\ m = n
        BY <1>1, <1>6, <2>1, AppBelowGateway
    <2>2. CASE k = n /\ m # n
        BY <1>1, <1>4, <1>5, <1>6, <1>7, <2>2, AppBelowGateway, PortsAssumption DEF AppPorts
    <2>3. CASE k # n /\ m = n
        BY <1>1, <1>4, <1>5, <1>6, <1>7, <2>3, AppBelowGateway, PortsAssumption DEF AppPorts
    <2>4. CASE k # n /\ m # n
        BY <1>4, <1>5, <2>4 DEF PortsDistinct, Inv
    <2> QED BY <2>1, <2>2, <2>3, <2>4
  <1> QED BY <1>3, <1>8 DEF Inv

LEMMA DeregisterInv ==
    ASSUME Inv, NEW n \in Names, Deregister(n)
    PROVE  Inv'
  <1>1. registry' = [registry EXCEPT ![n] = None]
    BY DEF Deregister
  <1>2. registry' \in [Names -> Entries]
    BY <1>1 DEF Inv, Entries
  <1>3. /\ Registered(registry') \subseteq Registered(registry)
        /\ \A m \in Registered(registry') : registry'[m] = registry[m]
    BY <1>1 DEF Registered, Inv
  <1>4. PortsDistinct'
    BY <1>3 DEF PortsDistinct, Inv
  <1> QED BY <1>2, <1>4 DEF Inv

\* No two services are ever given one port (specs/smallapp-unit.md:269), for any
\* hash of the names, any number of units and any span not above GwOffset.
THEOREM NoPortTwice == Spec => []PortsDistinct
  <1>1. Init => Inv
    BY DEF Init, Inv, PortsDistinct, Registered, Entries
  <1>2. Inv /\ [Next]_registry => Inv'
    <2> SUFFICES ASSUME Inv, [Next]_registry
                 PROVE  Inv'
        OBVIOUS
    <2>1. CASE Next
        BY <2>1, RegisterInv, DeregisterInv DEF Next
    <2>2. CASE UNCHANGED registry
        BY <2>2 DEF Inv, PortsDistinct, Registered
    <2> QED BY <2>1, <2>2
  <1>3. Inv => PortsDistinct
    BY DEF Inv
  <1> QED BY <1>1, <1>2, <1>3, PTL DEF Spec
=============================================================================

------------------------- MODULE SecretaryElection -------------------------
(***************************************************************************)
(* Which station is the Secretary: the election at start, the takeover     *)
(* when the Secretary goes offline, and the arbitration between rivals     *)
(* (station_controller), over UDP presence datagrams (discovery) and the   *)
(* table of hosts that every station keeps (station_director, database).   *)
(*                                                                         *)
(* Identities are numbers, compared as the code compares device ids.  A    *)
(* datagram carries the role its sender had when it was made, and may be   *)
(* late or lost; at most one is under way between two stations.  Time is      *)
(* abstract: a silent node is marked offline some time after it went down, *)
(* and, as a fault, although it is still up.                               *)
(***************************************************************************)
EXTENDS Naturals, FiniteSets

CONSTANTS Stations,    \* device ids of stations
          Workers,     \* device ids of workers, which only make themselves known
          MaxFaults    \* bound: crashes, lost datagrams, running nodes taken for offline,
                       \* and activations and deactivations by hand, all together

Nodes  == Stations \cup Workers
Nobody == 0

ASSUME ElectionAssumption ==
    /\ Nodes \subseteq Nat \ {Nobody}
    /\ Stations \cap Workers = {}
    /\ MaxFaults \in Nat

VARIABLES up,        \* processes that run
          active,    \* stations with secretary_active
          starting,  \* stations inside activate_secretary
          window,    \* stations whose election thread still waits for its discovery window
          yieldedTo, \* _secretary_yielded, with the rival it was for
          hosts,     \* hosts[s]: the table hosts of station s, kept on disk
          wire,      \* wire[a][b]: the datagram from station a to station b under way
          faults     \* faults and orders so far, for the bound

vars == <<up, active, starting, window, yieldedTo, hosts, wire, faults>>

Roles   == {"station", "secretary", "worker"}
Unknown == [role |-> "none", online |-> FALSE]
NoData  == "none"

TypeOK ==
    /\ up \subseteq Nodes
    /\ active \subseteq Stations /\ starting \subseteq Stations /\ window \subseteq Stations
    /\ yieldedTo \in [Stations -> Stations \cup {Nobody}]
    /\ hosts \in [Stations -> [Nodes -> {Unknown} \cup [role : Roles, online : BOOLEAN]]]
    /\ wire \in [Stations -> [Stations -> Roles \cup {NoData}]]
    /\ faults \in 0..MaxFaults

Init ==
    /\ up = {} /\ active = {} /\ starting = {} /\ window = {}
    /\ yieldedTo = [s \in Stations |-> Nobody]
    /\ hosts = [s \in Stations |-> [n \in Nodes |-> Unknown]]
    /\ wire = [n \in Stations |-> [s \in Stations |-> NoData]]
    /\ faults = 0

Fault == faults < MaxFaults /\ faults' = faults + 1

\* Faulty: always "station", as packets were once built.
RoleFixed(s) == "station"

\* The role a station puts into its packets.
Role(s) == IF s \in active THEN "secretary" ELSE "station"

\* The other nodes that station s takes for online.
Online(s) == {n \in Nodes \ {s} : hosts[s][n].online}

\* Faulty: counts a Secretary that is offline.
KnowsSecretaryOffline(s) == \E n \in Nodes \ {s} : hosts[s][n].role = "secretary"

KnowsSecretary(s) == \E n \in Online(s) : hosts[s][n].role = "secretary"

-----------------------------------------------------------------------------
(* Processes.  A restart keeps the table and forgets the rest.             *)

Boot(n) ==
    /\ n \notin up
    /\ up' = up \cup {n}
    /\ IF n \in Stations
       THEN window' = window \cup {n} /\ yieldedTo' = [yieldedTo EXCEPT ![n] = Nobody]
       ELSE UNCHANGED <<window, yieldedTo>>
    /\ UNCHANGED <<active, starting, hosts, wire, faults>>

Crash(n) ==
    /\ n \in up
    /\ Fault
    /\ up' = up \ {n}
    /\ active' = active \ {n}
    /\ starting' = starting \ {n}
    /\ window' = window \ {n}
    /\ UNCHANGED <<yieldedTo, hosts, wire>>

-----------------------------------------------------------------------------
(* Activation takes time: whoever called it decided on what it read then.  *)

Begin(s) == starting' = IF s \in active THEN starting ELSE starting \cup {s}

Activate(s) ==
    /\ s \in starting
    /\ starting' = starting \ {s}
    /\ active' = active \cup {s}
    /\ UNCHANGED <<up, window, yieldedTo, hosts, wire, faults>>

\* The election thread, once its discovery window of 5 s is over.
Elect(s) ==
    /\ s \in window
    /\ window' = window \ {s}
    /\ IF KnowsSecretary(s) THEN UNCHANGED starting ELSE Begin(s)
    /\ UNCHANGED <<up, active, yieldedTo, hosts, wire, faults>>

\* The smallest id among this station and every online host that is not the Secretary.
Smallest(s) == \A n \in Online(s) : hosts[s][n].role # "secretary" => s < n

Failover(s) ==
    /\ s \in up /\ s \notin active
    /\ ~KnowsSecretary(s)
    /\ Smallest(s)
    /\ starting' = starting \cup {s}
    /\ UNCHANGED <<up, active, window, yieldedTo, hosts, wire, faults>>

ActivateByHand(s) ==
    /\ s \in up
    /\ Fault
    /\ Begin(s)
    /\ UNCHANGED <<up, active, window, yieldedTo, hosts, wire>>

DeactivateByHand(s) ==
    /\ s \in active
    /\ Fault
    /\ active' = active \ {s}
    /\ UNCHANGED <<up, starting, window, yieldedTo, hosts, wire>>

-----------------------------------------------------------------------------
(* Presence.                                                               *)

Announce(n, s) ==
    /\ n \in up /\ n # s
    /\ wire[n][s] = NoData
    /\ wire' = [wire EXCEPT ![n][s] = Role(n)]
    /\ UNCHANGED <<up, active, starting, window, yieldedTo, hosts, faults>>

\* Faulty: whichever of the two hears of the other first steps down.
YieldsEitherWay(s, n, role) == role = "secretary" /\ s \in active /\ yieldedTo[s] = Nobody

\* A Secretary steps down for a rival with a smaller id, once.
Yields(s, n, role) ==
    role = "secretary" /\ s \in active /\ n < s /\ yieldedTo[s] = Nobody

\* The listener arbitrates, then records the sender.  Its answer goes back to the port that
\* the broadcast left from, where nobody listens.
Receive(s, n) ==
    /\ s \in up /\ wire[n][s] # NoData
    /\ wire' = [wire EXCEPT ![n][s] = NoData]
    /\ IF Yields(s, n, wire[n][s])
       THEN active' = active \ {s} /\ yieldedTo' = [yieldedTo EXCEPT ![s] = n]
       ELSE UNCHANGED <<active, yieldedTo>>
    /\ hosts' = [hosts EXCEPT ![s][n] = [role |-> wire[n][s], online |-> TRUE]]
    /\ UNCHANGED <<up, starting, window, faults>>

\* A worker broadcasts, registers and sends heartbeats; its role never changes.
Register(s, w) ==
    /\ s \in up /\ w \in up
    /\ hosts' = [hosts EXCEPT ![s][w] = [role |-> "worker", online |-> TRUE]]
    /\ UNCHANGED <<up, active, starting, window, yieldedTo, wire, faults>>

\* Lost on the way, or arrived at a station that is down.
Lose(s, n) ==
    /\ wire[n][s] # NoData
    /\ IF s \in up THEN Fault ELSE UNCHANGED faults
    /\ wire' = [wire EXCEPT ![n][s] = NoData]
    /\ UNCHANGED <<up, active, starting, window, yieldedTo, hosts>>

Prune(s, n) ==
    /\ s \in up /\ hosts[s][n].online
    /\ IF n \in up THEN Fault ELSE UNCHANGED faults
    /\ hosts' = [hosts EXCEPT ![s][n].online = FALSE]
    /\ UNCHANGED <<up, active, starting, window, yieldedTo, wire>>

-----------------------------------------------------------------------------
Next ==
    \/ \E n \in Nodes : Boot(n) \/ Crash(n)
    \/ \E s \in Stations : \/ Activate(s) \/ Elect(s) \/ Failover(s)
                           \/ ActivateByHand(s) \/ DeactivateByHand(s)
    \/ \E s, n \in Stations : Announce(n, s) \/ Receive(s, n) \/ Lose(s, n)
    \/ \E s \in Stations, w \in Workers : Register(s, w)
    \/ \E s \in Stations, n \in Nodes : Prune(s, n)

\* The threads of a running station go on, nodes announce themselves again and again, and
\* datagrams get through once the faults are spent.  Nobody has to start a node.
Fairness ==
    /\ \A s \in Stations : WF_vars(Activate(s)) /\ WF_vars(Elect(s)) /\ WF_vars(Failover(s))
    /\ \A s, n \in Stations : WF_vars(Announce(n, s)) /\ SF_vars(Receive(s, n))
    /\ \A s \in Stations, n \in Nodes : WF_vars(n \notin up /\ Prune(s, n))

Spec == Init /\ [][Next]_vars /\ Fairness

-----------------------------------------------------------------------------
(* Properties.                                                             *)

\* Two rivals never step down for each other: the arbitration of _on_device_seen orders them,
\* whatever each has heard of the other and when.
NoMutualYield ==
    \A s, r \in Stations : ~(yieldedTo[s] = r /\ yieldedTo[r] = s)

\* From some time on there is a Secretary as long as a station runs, whoever crashed, yielded
\* to a rival that is gone, or was deactivated: the failover check of the others sees to it,
\* provided no running worker has a smaller id than they.
SomeSecretary ==
    <>[](\/ active # {}
         \/ up \cap Stations = {}
         \/ \E s \in up \cap Stations, w \in up \cap Workers : w < s)

\* Rivals do not last, unless one of them has stepped down before in the life of its process.
RivalsSettle ==
    <>[](Cardinality(active) <= 1 \/ \E s \in active : yieldedTo[s] # Nobody)

\* What the comment in _on_device_seen promises: the stations converge to one Secretary.
OneSecretary == <>[](Cardinality(active) <= 1)

=============================================================================

------------------------------ MODULE Multicast ------------------------------
(***************************************************************************)
(* src/012_network_IO/04udp_broadcast: 01server.c sends a line of its      *)
(* input to a multicast group every second, 01client.c joins the group and *)
(* prints what comes.  A datagram is under way to each host for any time;  *)
(* it may be lost, come twice or be overtaken, and goes to the sockets     *)
(* that are there when it comes.  Clients come and go.  None sets          *)
(* SO_REUSEADDR: the first one on a host has the port, and another one     *)
(* there does not notice that its bind has failed.                         *)
(***************************************************************************)
EXTENDS Naturals

CONSTANTS
  Members,   \* instances of 01client.c
  Hosts,
  MaxSends   \* bound: datagrams the server sends

VARIABLES
  host,    \* the host each client runs on
  member,  \* where each client is
  ears,    \* clients whose socket has the port
  joined,  \* clients whose socket has joined the group
  sent,    \* datagrams sent
  flying,  \* those that are under way to each host, or will come once more
  due,     \* those in the buffer of each client's socket
  heard,   \* those each client has printed
  missed   \* those that were not under way any more when it called bind

network   == <<sent, flying>>
listeners == <<member, ears, joined, missed>>
vars == <<host, listeners, network, due, heard>>

Init ==
  /\ host \in [Members -> Hosts]
  /\ member = [m \in Members |-> "bind"]
  /\ ears = {} /\ joined = {}
  /\ sent = 0 /\ flying = [h \in Hosts |-> {}]
  /\ due = [m \in Members |-> {}]
  /\ heard = [m \in Members |-> {}]
  /\ missed = [m \in Members |-> {}]

Neighbours(m) == {k \in Members : host[k] = host[m]}

-----------------------------------------------------------------------------
(* A client                                                                 *)

\* (if a port could be bound twice)
BoundAlways(m) == ears \cup {m}

\* The port is free on the host, or bind fails and the program goes on.
BoundAfter(m) == IF Neighbours(m) \cap ears = {} THEN ears \cup {m} ELSE ears

Bind(m) ==
  /\ member[m] = "bind"
  /\ ears' = BoundAfter(m)
  /\ member' = [member EXCEPT ![m] = "join"]
  /\ missed' = [missed EXCEPT ![m] = (1..sent) \ flying[host[m]]]
  /\ UNCHANGED <<host, joined, network, due, heard>>

\* setsockopt(IP_ADD_MEMBERSHIP)
Join(m) ==
  /\ member[m] = "join"
  /\ joined' = joined \cup {m}
  /\ member' = [member EXCEPT ![m] = "receive"]
  /\ UNCHANGED <<host, ears, missed, network, due, heard>>

\* recvfrom, write
Receive(m) ==
  /\ member[m] = "receive"
  /\ \E n \in due[m] : /\ heard' = [heard EXCEPT ![m] = @ \cup {n}]
                       /\ due' = [due EXCEPT ![m] = @ \ {n}]
  /\ UNCHANGED <<host, listeners, network>>

Killed(m) ==
  /\ member[m] # "gone"
  /\ member' = [member EXCEPT ![m] = "gone"]
  /\ ears' = ears \ {m} /\ joined' = joined \ {m}
  /\ due' = [due EXCEPT ![m] = {}]
  /\ UNCHANGED <<host, missed, network, heard>>

Member(m) == Bind(m) \/ Join(m) \/ Receive(m) \/ Killed(m)

-----------------------------------------------------------------------------
(* The server and the network                                               *)

\* fgets and sendto.  At the end of the input fgets leaves the buffer empty, and that
\* is sent all the same, for ever.
Send ==
  /\ sent < MaxSends
  /\ sent' = sent + 1
  /\ flying' = [h \in Hosts |-> flying[h] \cup {sent'}]
  /\ UNCHANGED <<host, listeners, due, heard>>

\* (if a host gave it to the sockets that have joined)
ReachedByJoin(h) == {m \in joined : host[m] = h}

\* A socket with the port gets what any socket of its host has joined the group for
\* (IP_MULTICAST_ALL).
Reached(h) == {m \in ears : host[m] = h /\ Neighbours(m) \cap joined # {}}

\* The datagram comes, perhaps not for the last time, or it is lost, or there is no room
\* for it in a socket's buffer.
Arrive(h) ==
  /\ \E n \in flying[h], stays \in BOOLEAN, lucky \in SUBSET Reached(h) :
       /\ flying' = IF stays THEN flying ELSE [flying EXCEPT ![h] = @ \ {n}]
       /\ due' = [m \in Members |-> IF m \in lucky THEN due[m] \cup {n} ELSE due[m]]
  /\ UNCHANGED <<host, listeners, sent, heard>>

Next == Send \/ (\E h \in Hosts : Arrive(h)) \/ \E m \in Members : Member(m)

Spec == Init /\ [][Next]_vars

-----------------------------------------------------------------------------
TypeOK ==
  /\ host \in [Members -> Hosts]
  /\ member \in [Members -> {"bind", "join", "receive", "gone"}]
  /\ ears \subseteq Members /\ joined \subseteq Members
  /\ sent \in 0..MaxSends
  /\ flying \in [Hosts -> SUBSET (1..MaxSends)]
  /\ due \in [Members -> SUBSET (1..MaxSends)]
  /\ heard \in [Members -> SUBSET (1..MaxSends)]
  /\ missed \in [Members -> SUBSET (1..MaxSends)]

\* Of the clients that run on one host at most one can get anything at a time, and what a
\* client prints was sent after its bind or was then still under way to its host, even
\* if that comes before its own join, when another client there has joined: datagrams
\* are not kept for those that come late.
HeardSinceBind ==
  /\ \A m \in Members : \A n \in heard[m] \cup due[m] : n \in 1..sent /\ n \notin missed[m]
  /\ \A m, k \in ears : host[m] = host[k] => m = k
  /\ \A m \in Members : due[m] # {} => m \in ears
=============================================================================

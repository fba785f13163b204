----------------------------- MODULE EchoTable -----------------------------
(***************************************************************************)
(* The table of client descriptors that the servers of src/012_network_IO  *)
(* (select, poll, epoll) keep beside the kernel's.                         *)
(***************************************************************************)
EXTENDS EchoNet

CONSTANT TableSize   \* its entries (FD_SETSIZE, MAX_OPEN_FILE_NUM)

ASSUME TableAssumption == TableSize \in Nat \ {0}

VARIABLES
  client,   \* the descriptor in each entry, or NoFd
  maxi      \* the highest entry ever used

tabVars == <<client, maxi>>

Table == DOMAIN client

TableTypeOK ==
  /\ client \in [0..TableSize-1 -> Fds \cup {NoFd}]
  /\ maxi \in Table \cup {-1}

TableInit == client = [k \in 0..TableSize-1 |-> NoFd]

\* The table has each open connection once and nothing else, and no entry above
\* maxi is in use: entries and descriptor numbers are reused in other orders.
TableMatchesKernel ==
  Running =>
    /\ OpenFds = {client[k] : k \in {l \in Table : client[l] # NoFd}}
    /\ \A k, l \in Table : client[k] = client[l] /\ client[k] # NoFd => k = l
    /\ \A k \in Table : k > maxi => client[k] = NoFd

\* A client waits to be accepted or has a descriptor, once, and only after it has
\* connected.
ConnectionsOnce ==
  /\ \A m, n \in 1..Len(backlog) : backlog[m] = backlog[n] => m = n
  /\ \A f, g \in Fds : fdt[f] = fdt[g] /\ fdt[f] # Nobody => f = g
  /\ \A c \in Clients : Queued(c) => ~Open(c)
  /\ \A c \in Clients : place[c] = "off" => ~Queued(c) /\ ~Open(c)

\* What all servers' invariants say of their clients; of the types, those that the
\* rest depends on.
NetInv ==
  /\ place \in [Clients -> {"off", "typing", "reading", "closed"}]
  /\ inb \in [Clients -> Nat] /\ outb \in [Clients -> Nat]
  /\ peer \in [Clients -> {"open", "fin", "rst", "broken"}]
  /\ backlog \in Seq(Clients)
  /\ fdt \in [Fds -> Clients \cup {Nobody}]
  /\ ConnectionsOnce

\* The descriptor f has something to read.
Ready(f) == fdt[f] # Nobody /\ Readable(fdt[f])
=============================================================================

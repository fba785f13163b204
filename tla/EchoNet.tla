------------------------------ MODULE EchoNet ------------------------------
(***************************************************************************)
(* What the echo servers of src/011network and src/012_network_IO have in  *)
(* common: their clients (the same program for all of them), the kernel's  *)
(* stream sockets as the code uses them, and what is expected of a server  *)
(* that goes on.  A stream is a count of pieces: a line may arrive in      *)
(* several, and a read returns some of those that have arrived.            *)
(***************************************************************************)
EXTENDS Integers, Sequences, FiniteSets

CONSTANTS
  Clients,     \* running instances of client.c
  NumFds,      \* connections the server may have open (open file limit)
  LinePieces,  \* pieces a line may arrive in
  MaxLines,    \* bound: lines a client sends
  MayReset     \* connections may be reset: a client closes with unread input,
               \* or the server writes to a client that has closed

ASSUME NetAssumption ==
  /\ NumFds \in Nat /\ LinePieces \in Nat \ {0} /\ MaxLines \in Nat
  /\ MayReset \in BOOLEAN

Nobody == 0              \* no connection behind a descriptor
ASSUME NoClientIsNobody == Nobody \notin Clients

Fds   == 0..NumFds-1
NoFd  == -1

Least(S) == CHOOSE k \in S : \A l \in S : k <= l

VARIABLES
  place,    \* where each client is
  lines,    \* lines it has still to send
  inb,      \* pieces the server can read from it
  outb,     \* pieces it can read from the server
  peer,     \* its end of the connection, as the server's kernel knows it:
            \* "broken" once a write raises SIGPIPE
  backlog,  \* connections made and not yet accepted, oldest first
  fdt,      \* the server's descriptors: the connection behind each
  pc        \* where the server's loop is; "full" (too many clients), "failed" (an
            \* error is fatal) and "killed" (SIGPIPE) are its exits

netVars == <<place, lines, inb, outb, peer, backlog, fdt>>

NetTypeOK ==
  /\ place \in [Clients -> {"off", "typing", "reading", "closed"}]
  /\ lines \in [Clients -> 0..MaxLines]
  /\ inb \in [Clients -> 0..MaxLines * LinePieces]
  /\ outb \in [Clients -> 0..MaxLines * LinePieces]
  /\ peer \in [Clients -> {"open", "fin", "rst", "broken"}]
  /\ backlog \in Seq(Clients)
  /\ fdt \in [Fds -> Clients \cup {Nobody}]

NetInit ==
  /\ place = [c \in Clients |-> "off"]
  /\ lines = [c \in Clients |-> MaxLines]
  /\ inb = [c \in Clients |-> 0]
  /\ outb = [c \in Clients |-> 0]
  /\ peer = [c \in Clients |-> "open"]
  /\ backlog = <<>>
  /\ fdt = [f \in Fds |-> Nobody]

\* What a client has still to send, what of it waits for the server, and the answers that
\* wait for the client, are together not more than what it had to send at first.
Traffic ==
  /\ lines \in [Clients -> 0..MaxLines]
  /\ inb \in [Clients -> Nat] /\ outb \in [Clients -> Nat]
  /\ \A c \in Clients : inb[c] + outb[c] + lines[c] * LinePieces <= MaxLines * LinePieces

Open(c)   == \E f \in Fds : fdt[f] = c
Queued(c) == \E i \in 1..Len(backlog) : backlog[i] = c

-----------------------------------------------------------------------------
(* The client                                                               *)

Connect(c) ==
  /\ place[c] = "off"
  /\ place' = [place EXCEPT ![c] = "typing"]
  /\ backlog' = Append(backlog, c)
  /\ UNCHANGED <<lines, inb, outb, peer, fdt>>

\* fgets returned a line: send it and read the answer.
SendLine(c) ==
  /\ place[c] = "typing" /\ lines[c] > 0
  /\ Open(c) \/ Queued(c)
  /\ place' = [place EXCEPT ![c] = "reading"]
  /\ lines' = [lines EXCEPT ![c] = @ - 1]
  /\ inb' = [inb EXCEPT ![c] = @ + LinePieces]
  /\ UNCHANGED <<outb, peer, backlog, fdt>>

\* One read, which need not return the whole answer.
ReadAnswer(c) ==
  /\ place[c] = "reading"
  /\ \E n \in 1..outb[c] : outb' = [outb EXCEPT ![c] = @ - n]
  /\ place' = [place EXCEPT ![c] = "typing"]
  /\ UNCHANGED <<lines, inb, peer, backlog, fdt>>

\* The end of the input, or of the process: with unread input the kernel resets
\* the connection.
Quit(c) ==
  /\ place[c] \in {"typing", "reading"}
  /\ MayReset \/ outb[c] = 0
  /\ place' = [place EXCEPT ![c] = "closed"]
  /\ outb' = [outb EXCEPT ![c] = 0]
  /\ peer' = [peer EXCEPT ![c] = IF outb[c] = 0 THEN "fin" ELSE "rst"]
  /\ UNCHANGED <<lines, inb, backlog, fdt>>

ClientStep(c) == Connect(c) \/ SendLine(c) \/ ReadAnswer(c) \/ Quit(c)

-----------------------------------------------------------------------------
(* System calls of a server                                                *)

\* select, poll and epoll report the connection as readable.
Readable(c) == inb[c] > 0 \/ peer[c] # "open"

FreeFds == {f \in Fds : fdt[f] = Nobody}

\* accept: the lowest free descriptor, or -1 and the connection stays queued.
Accept(fd) ==
  IF FreeFds = {} THEN
    /\ fd = NoFd
    /\ UNCHANGED <<backlog, fdt>>
  ELSE
    /\ fd = Least(FreeFds)
    /\ fdt' = [fdt EXCEPT ![fd] = Head(backlog)]
    /\ backlog' = Tail(backlog)

\* read returns n pieces of c's stream.
ReadPieces(c, n) ==
  /\ n \in 1..inb[c]
  /\ inb' = [inb EXCEPT ![c] = @ - n]

\* read returns 0.
AtEnd(c) == inb[c] = 0 /\ peer[c] \in {"fin", "broken"}

\* read returns -1 with ECONNRESET, once.
AtReset(c) == inb[c] = 0 /\ peer[c] = "rst"
ReportReset(c) == peer' = [peer EXCEPT ![c] = "broken"]

\* write: to a client that has closed, the data is lost and may be answered with
\* a reset, which further writes meet as EPIPE; to a connection reset before, the
\* write reports that; after that report it raises SIGPIPE, see Deadly.
WritePieces(c, n) ==
  CASE peer[c] = "open" -> /\ outb' = [outb EXCEPT ![c] = @ + n]
                           /\ UNCHANGED peer
    [] peer[c] = "fin"  -> /\ \E p \in {"fin"} \cup (IF MayReset THEN {"broken"} ELSE {}) :
                                peer' = [peer EXCEPT ![c] = p]
                           /\ UNCHANGED outb
    [] peer[c] = "rst"  -> ReportReset(c) /\ UNCHANGED outb
    [] OTHER            -> UNCHANGED <<outb, peer>>
Deadly(c) == peer[c] = "broken"

Closed(fd) == [fdt EXCEPT ![fd] = Nobody]

\* The process ends: the kernel closes all it has open.
AllClosed == [f \in Fds |-> Nobody]

-----------------------------------------------------------------------------
(* What is expected of a server                                            *)

Running == pc \notin {"full", "failed", "killed"}

OpenFds == {f \in Fds : fdt[f] # Nobody}

\* A step of the server that goes on ends only connections whose client ended them.
EndsOnlyEnded ==
  \A c \in Clients : Open(c) /\ ~Open(c)' => peer[c] # "open" \/ ~Running'

\* While the server goes on it ends only connections whose client ended them
\* ("if a client closes, the server closes the connection that belongs to it").
ClosesOnlyEnded == [][EndsOnlyEnded]_netVars
=============================================================================

----------------------------- MODULE ForkServer -----------------------------
(***************************************************************************)
(* The server of src/011network/03TCP_FORK: a child process for each       *)
(* connection, and in the parent a detached thread for each child that     *)
(* waits for a child to end.  When fork fails the parent serves the        *)
(* connection itself, as SequentialServer does.                            *)
(*                                                                         *)
(* fdt is the kernel's table of open connections here: one stays open      *)
(* while the parent or the child has it.  pthread_create does not fail.    *)
(***************************************************************************)
EXTENDS SequentialServer

ASSUME TableAssumption == IsFiniteSet(Clients) /\ Cardinality(Clients) <= NumFds

VARIABLES
  child,    \* what has become of the child for each connection
  reapers   \* threads in wait(NULL)

procVars == <<child, reapers>>
allVars  == <<vars, procVars>>

Unreaped == {c \in Clients : child[c] \in {"running", "zombie"}}

ForkInit == Init /\ child = [c \in Clients |-> "none"] /\ reapers = 0

\* (if the parent waited for its children before the next accept)
ForkAcceptAlone == Unreaped = {} /\ AcceptClient("fork") /\ UNCHANGED procVars

ForkAccept == AcceptClient("fork") /\ UNCHANGED procVars

Fork ==
  /\ pc = "fork"
  /\ child' = [child EXCEPT ![Conn] = "running"]
  /\ pc' = "parent"
  /\ UNCHANGED <<netVars, confd, reapers>>

ForkFails ==
  /\ pc = "fork"
  /\ pc' = "serve"
  /\ UNCHANGED <<netVars, confd, procVars>>

\* (if the parent kept its descriptor, or shut the connection down)
ParentKeeps == UNCHANGED fdt
ParentShutsDown == fdt' = Closed(confd)

\* The parent's close ends the connection only if the child is gone.
ParentCloses ==
  fdt' = IF child[Conn] = "running" THEN fdt ELSE Closed(confd)

\* (if two threads were made, if it was made only when the child has ended, or if
\* only one was ever there)
ReapersWithTwo  == reapers + 2
ReapersIfZombie == IF child[Conn] = "zombie" THEN reapers + 1 ELSE reapers
ReapersJustOne  == 1

ReapersWithNew == reapers + 1

\* The parent closes its descriptor and starts the thread; the read, the write and
\* the second close fall on a descriptor that is closed, and fail.
StartReaper ==
  /\ pc = "parent"
  /\ ParentCloses
  /\ reapers' = ReapersWithNew
  /\ confd' = NoFd
  /\ pc' = "accept"
  /\ UNCHANGED <<place, lines, inb, outb, peer, backlog, child>>

ServeInline == ServeOnce /\ UNCHANGED procVars

Parent == ForkAccept \/ Fork \/ ForkFails \/ StartReaper \/ ServeInline

\* The children that wait(NULL) may return.
Waitable == {c \in Clients : child[c] = "zombie"}

\* A thread's wait returns some child that has ended, not always its own, or
\* fails because there is none.
Reap ==
  /\ reapers > 0
  /\ \/ \E c \in Waitable : child' = [child EXCEPT ![c] = "reaped"]
     \/ Unreaped = {} /\ UNCHANGED child
  /\ reapers' = reapers - 1
  /\ UNCHANGED vars

\* (if the child waited for its buffer to be full)
FullBuffer(c) == LinePieces+1..inb[c]

\* What a read of the child may return.
Pieces(c) == 1..inb[c]

\* A write to a connection that was reset kills the child, whose descriptors are closed.
ChildWrites(c) ==
  IF Deadly(c) THEN /\ child' = [child EXCEPT ![c] = "zombie"]
                    /\ fdt' = [f \in Fds |-> IF fdt[f] = c /\ f # confd THEN Nobody
                                                                 ELSE fdt[f]]
               ELSE UNCHANGED <<child, fdt>>

\* The child of c: read, and write back what was read.
ChildEcho(c) ==
  /\ child[c] = "running"
  /\ \E n \in Pieces(c) : ReadPieces(c, n) /\ WritePieces(c, n)
  /\ ChildWrites(c)
  /\ UNCHANGED <<place, lines, backlog, pc, confd, reapers>>

\* A read that fails is ignored, and so is the write of -1 bytes after it, which fails
\* before the connection is looked at.
ChildReset(c) ==
  /\ child[c] = "running" /\ AtReset(c)
  /\ ReportReset(c)
  /\ UNCHANGED <<place, lines, inb, outb, backlog, fdt, pc, confd, procVars>>

\* At the end of the input the child reads 0 bytes and writes 0 bytes, for ever unless
\* the connection was reset.
ChildAtEnd(c) ==
  /\ child[c] = "running" /\ AtEnd(c)
  /\ ChildWrites(c)
  /\ UNCHANGED <<place, lines, inb, outb, peer, backlog, pc, confd, reapers>>

Child(c) == ChildEcho(c) \/ ChildReset(c) \/ ChildAtEnd(c)

ForkNext ==
  \/ Parent
  \/ Reap
  \/ \E c \in Clients : Child(c)
  \/ \E c \in Clients : ClientStep(c) /\ UNCHANGED <<pc, confd, procVars>>

\* Every process and thread that can go on does; a client need not do anything.
ForkSpec ==
  /\ ForkInit /\ [][ForkNext]_allVars
  /\ WF_allVars(Parent) /\ WF_allVars(Reap)
  /\ \A c \in Clients : WF_allVars(Child(c))

-----------------------------------------------------------------------------
ForkTypeOK ==
  /\ NetTypeOK
  /\ pc \in {"accept", "fork", "parent", "serve"}
  /\ confd \in Fds \cup {NoFd}
  /\ child \in [Clients -> {"none", "running", "zombie", "reaped"}]
  /\ reapers \in 0..Cardinality(Clients)

\* There is a waiting thread for each child that has not been waited for, once the
\* parent is past starting it ("the thread waits to recover the child's resources").
ReaperForEachChild ==
  pc # "parent" => reapers = Cardinality(Unreaped)

\* Between connections the parent has none open: what is open belongs to a child
\* that is still there ("not closing it wastes descriptors until there are none").
ParentHoldsNothing ==
  pc = "accept" => \A c \in Clients : Open(c) => child[c] = "running"

\* A child never loses its connection to the parent's two closes.
ChildKeepsConnection == \A c \in Clients : child[c] = "running" => Open(c)

\* Nobody holds a connection too long, and nobody loses one.
ConnectionsHeld == ParentHoldsNothing /\ ChildKeepsConnection

\* A client has one connection at most, in the queue or open, and no child before it
\* has been accepted.
OneConnection ==
  /\ \A i, j \in 1..Len(backlog) : backlog[i] = backlog[j] => i = j
  /\ \A f, g \in Fds : fdt[f] = fdt[g] /\ fdt[f] # Nobody => f = g
  /\ \A c \in Clients : Queued(c) => ~Open(c) /\ child[c] = "none"
  /\ \A c \in Clients : place[c] = "off" => ~Queued(c) /\ ~Open(c) /\ child[c] = "none"

\* The connection the parent has in hand.
ParentHolds ==
  /\ pc = "accept" <=> confd = NoFd
  /\ pc # "accept" => Conn \in Clients
  /\ pc \in {"fork", "serve"} => child[Conn] = "none"

\* What is open belongs to a child that is there or is in the parent's hand.
OpenBelongs ==
  \A c \in Clients : Open(c) => child[c] = "running" \/ (pc # "accept" /\ c = Conn)

\* The child that the parent has just made gets its thread next.
ReapersCount ==
  reapers + (IF pc = "parent" THEN 1 ELSE 0) = Cardinality(Unreaped)

\* The inductive invariant: of the types, those that the other parts rest on.
IInv ==
  /\ place \in [Clients -> {"off", "typing", "reading", "closed"}]
  /\ backlog \in Seq(Clients)
  /\ fdt \in [Fds -> Clients \cup {Nobody}]
  /\ pc \in {"accept", "fork", "parent", "serve"}
  /\ confd \in Fds \cup {NoFd}
  /\ child \in [Clients -> {"none", "running", "zombie", "reaped"}]
  /\ reapers \in Nat
  /\ OneConnection /\ ParentHolds /\ OpenBelongs /\ ChildKeepsConnection /\ ReapersCount

\* All children that have ended are waited for (each connection has one at most).
ZombiesReaped ==
  (\E c \in Clients : child[c] = "zombie") ~> \A c \in Clients : child[c] # "zombie"

\* What arrives for a child is read, and the end of a child ends the connection.
ChildServes ==
  (\E c \in Clients : child[c] = "running" /\ inb[c] > 0) ~>
    \A c \in Clients : child[c] # "none" => inb[c] = 0 \/ ~Open(c)

\* Children serve, and are waited for.
ChildrenServe == ChildServes /\ ZombiesReaped

\* Connections wait no longer than the parent serves another one itself.
QueueMoves == (\E c \in Clients : Queued(c)) ~> (\A c \in Clients : ~Queued(c)) \/ pc = "serve"

\* "the child closes confd when it exits": a child whose client has closed exits.
ChildrenExit ==
  \A c \in Clients : (child[c] = "running" /\ peer[c] # "open") ~> (child[c] # "running")
=============================================================================

----------------------------- MODULE LocalNames -----------------------------
(***************************************************************************)
(* How client and server of src/012_network_IO/05unix_socket_domain find   *)
(* each other: serv_listen, serv_accept and cli_conn over the names of the *)
(* sockets, with several servers started over the same name and clients    *)
(* that may be killed.  A name outlives the process that bound it.  What a *)
(* server does with its connection is LocalServer.  The pid makes the name *)
(* of a client its own.                                                    *)
(***************************************************************************)
EXTENDS Integers, Sequences

CONSTANTS
  Servers,  \* instances of server.c that are started
  Callers,  \* instances of client.c
  QueueLen  \* connections a listening socket holds (QLEN)

Nobody == 0
Earlier == -1   \* a server of an earlier run, which has ended

VARIABLES
  spc,     \* where each server is, or how it ended
  cpc,     \* where each client is, or how it ended
  foo,     \* the server whose socket has the name foo.socket
  own,     \* clients whose own name is there
  queue,   \* connections each server has not accepted
  taken    \* the client each server has accepted

vars == <<spc, cpc, foo, own, queue, taken>>

Init ==
  /\ spc = [s \in Servers |-> "unlink"]
  /\ cpc = [c \in Callers |-> "bind"]
  /\ foo \in {Nobody, Earlier} /\ own = {}
  /\ queue = [s \in Servers |-> <<>>]
  /\ taken = [s \in Servers |-> Nobody]

Go(pcs, i, p) == [pcs EXCEPT ![i] = p]

-----------------------------------------------------------------------------
(* A server                                                                 *)

\* (if the name of an earlier run was left alone)
FooLeft == UNCHANGED foo

FooUnlinked == foo' = Nobody

\* unlink("foo.socket")
Unlink(s) ==
  /\ spc[s] = "unlink"
  /\ FooUnlinked
  /\ spc' = Go(spc, s, "bind")
  /\ UNCHANGED <<cpc, own, queue, taken>>

\* bind fails, with -2, when the name is there.
BindName(s) ==
  /\ spc[s] = "bind"
  /\ IF foo = Nobody THEN foo' = s /\ spc' = Go(spc, s, "listen")
                     ELSE UNCHANGED foo /\ spc' = Go(spc, s, "failed")
  /\ UNCHANGED <<cpc, own, queue, taken>>

Listen(s) ==
  /\ spc[s] = "listen"
  /\ spc' = Go(spc, s, "accept")
  /\ UNCHANGED <<cpc, foo, own, queue, taken>>

\* accept waits for a connection.
Accept(s) ==
  /\ spc[s] = "accept" /\ queue[s] # <<>>
  /\ taken' = [taken EXCEPT ![s] = Head(queue[s])]
  /\ queue' = [queue EXCEPT ![s] = Tail(@)]
  /\ spc' = Go(spc, s, "stat")
  /\ UNCHANGED <<cpc, foo, own>>

\* stat fails, with -2, when the client's name is not there.
StatCaller(s) ==
  /\ spc[s] = "stat"
  /\ IF taken[s] \in own THEN own' = own \ {taken[s]} /\ spc' = Go(spc, s, "serve")
                         ELSE UNCHANGED own /\ spc' = Go(spc, s, "failed")
  /\ UNCHANGED <<cpc, foo, queue, taken>>

\* The client has closed: so does the server, which leaves its name.
Ends(s) ==
  /\ spc[s] = "serve" /\ cpc[taken[s]] \in {"ended", "killed"}
  /\ spc' = Go(spc, s, "ended")
  /\ UNCHANGED <<cpc, foo, own, queue, taken>>

Server(s) ==
  Unlink(s) \/ BindName(s) \/ Listen(s) \/ Accept(s) \/ StatCaller(s) \/ Ends(s)

-----------------------------------------------------------------------------
(* A client                                                                 *)

\* unlink and bind of its own name.
BindOwn(c) ==
  /\ cpc[c] = "bind"
  /\ own' = own \cup {c}
  /\ cpc' = Go(cpc, c, "connect")
  /\ UNCHANGED <<spc, foo, queue, taken>>

Listening(s) == s \in Servers /\ spc[s] \in {"accept", "stat", "serve"}

\* connect fails, with -4, without the name or somebody who listens behind it, and
\* waits while the queue is full.
Connect(c) ==
  /\ cpc[c] = "connect"
  /\ IF Listening(foo)
     THEN /\ Len(queue[foo]) < QueueLen
          /\ queue' = [queue EXCEPT ![foo] = Append(@, c)]
          /\ cpc' = Go(cpc, c, "talk")
     ELSE cpc' = Go(cpc, c, "failed") /\ UNCHANGED queue
  /\ UNCHANGED <<spc, foo, own, taken>>

\* (if the client took its name away)
OwnUnlinked(c) == own' = own \ {c}

OwnLeft(c) == UNCHANGED own

\* The end of its input, or of the server it talks to; its name stays.
Hangs(c) ==
  /\ cpc[c] = "talk"
  /\ OwnLeft(c)
  /\ cpc' = Go(cpc, c, "ended")
  /\ UNCHANGED <<spc, foo, queue, taken>>

Killed(c) ==
  /\ cpc[c] \in {"connect", "talk"}
  /\ cpc' = Go(cpc, c, "killed")
  /\ UNCHANGED <<spc, foo, own, queue, taken>>

Caller(c) == BindOwn(c) \/ Connect(c) \/ Hangs(c)

Next ==
  \/ \E s \in Servers : Server(s)
  \/ \E c \in Callers : Caller(c) \/ Killed(c)

\* Processes run when they can; a client comes to the end of its input.
FairSpec ==
  /\ Init /\ [][Next]_vars
  /\ \A s \in Servers : WF_vars(Server(s))
  /\ \A c \in Callers : WF_vars(Caller(c))

-----------------------------------------------------------------------------
TypeOK ==
  /\ spc \in [Servers -> {"unlink", "bind", "listen", "accept", "stat", "serve",
                          "ended", "failed"}]
  /\ cpc \in [Callers -> {"bind", "connect", "talk", "ended", "failed", "killed"}]
  /\ foo \in Servers \cup {Nobody, Earlier} /\ own \subseteq Callers
  /\ \A s \in Servers : queue[s] \in Seq(Callers) /\ Len(queue[s]) <= QueueLen
  /\ taken \in [Servers -> Callers \cup {Nobody}]

Waits(c, s) == \E i \in 1..Len(queue[s]) : queue[s][i] = c

\* A connection is made to one server and is there once, and the name by which the
\* server knows its client is there until that server takes it away, also when the
\* client has been killed by then: stat does not fail.
NamesKept ==
  /\ \A s \in Servers, c \in Callers :
       Waits(c, s) \/ (spc[s] = "stat" /\ taken[s] = c) => c \in own
  /\ \A s, t \in Servers, c \in Callers :
       Waits(c, s) => ~(s # t /\ Waits(c, t)) /\ taken[t] # c

\* A server does not fail for the name an earlier run left behind, but only when
\* another one binds the name between its unlink and its bind.
StartFailed(s) == spc[s] = "failed" /\ taken[s] = Nobody
FailsForRival ==
  \A s \in Servers : StartFailed(s) =>
    \E t \in Servers : spc[t] \notin {"unlink", "bind"} /\ ~StartFailed(t)

Called(s) == queue[s] # <<>> \/ taken[s] # Nobody

\* Servers that have been called accept a call, find their client's name, serve it and
\* end, whichever clients are killed meanwhile.
CallServed ==
  (\E s \in Servers : Called(s)) ~> \A s \in Servers : Called(s) => spc[s] = "ended"
=============================================================================

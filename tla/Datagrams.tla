------------------------------ MODULE Datagrams ------------------------------
(***************************************************************************)
(* src/011network/02UDP: 01client.c sends its argument in one datagram and *)
(* waits for one answer, 01server.c sends back what it received in         *)
(* capitals with a newline behind it.  The network loses, delays and       *)
(* doubles datagrams, the server may be killed and started again, and the  *)
(* user may interrupt a client that waits.  A port is free again when its  *)
(* client has ended.                                                       *)
(***************************************************************************)
EXTENDS Naturals

CONSTANTS
  Askers,     \* running instances of 01client.c
  Ports,      \* ports the kernel chooses from for a client
  BufSize,    \* BUF_SIZE of 01server.c
  MaxCopies,  \* bound: datagrams that are delivered twice
  MaxKills    \* bound: ends of the server

NoPort == 0
Nothing == [of |-> 0, size |-> 0]

VARIABLES
  arg,       \* the length of each client's argument
  asker,     \* where each client is
  port,      \* the port it has, or had
  requests,  \* datagrams to the server: on their way, or in its socket's queue
  answers,   \* datagrams to clients
  echo,      \* where the server is
  clientaddr, readBuf,  \* the server's variables
  printed,   \* what each client has written to its standard output
  lost,      \* clients of which a datagram was lost
  copies, kills

net    == <<requests, answers>>
client == <<asker, port, printed>>
server == <<echo, clientaddr, readBuf>>
limits == <<copies, kills>>
vars   == <<arg, net, client, server, lost, limits>>

Init ==
  /\ arg \in [Askers -> 0..BufSize+1]
  /\ asker = [c \in Askers |-> "send"]
  /\ port = [c \in Askers |-> NoPort]
  /\ requests = {} /\ answers = {}
  /\ echo = "receive" /\ clientaddr = NoPort /\ readBuf = Nothing
  /\ printed = [c \in Askers |-> Nothing]
  /\ lost = {} /\ copies = 0 /\ kills = 0

-----------------------------------------------------------------------------
(* The network                                                              *)

\* d is taken from the set of datagrams; a copy of it may come later.
Take(d, set, rest) ==
  \/ rest = set \ {d} /\ UNCHANGED copies
  \/ rest = set /\ copies < MaxCopies /\ copies' = copies + 1

Lose ==
  /\ \/ \E d \in requests : requests' = requests \ {d} /\ lost' = lost \cup {d.of}
                            /\ UNCHANGED answers
     \/ \E d \in answers : answers' = answers \ {d} /\ lost' = lost \cup {d.of}
                           /\ UNCHANGED requests
  /\ UNCHANGED <<arg, client, server, limits>>

-----------------------------------------------------------------------------
(* A client                                                                 *)

\* (if a port that is in use could be chosen)
AllPorts == Ports

FreePorts == Ports \ {port[c] : c \in {d \in Askers : asker[d] = "wait"}}

\* sendto gives the socket its port.
Send(c) ==
  /\ asker[c] = "send"
  /\ \E p \in FreePorts :
       /\ port' = [port EXCEPT ![c] = p]
       /\ requests' = requests \cup {[from |-> p, of |-> c]}
  /\ asker' = [asker EXCEPT ![c] = "wait"]
  /\ UNCHANGED <<arg, answers, printed, server, lost, limits>>

\* recvfrom takes what comes to the port, whoever it is for; write, close.
Hear(c) ==
  /\ asker[c] = "wait"
  /\ \E d \in answers :
       /\ d.to = port[c]
       /\ Take(d, answers, answers')
       /\ printed' = [printed EXCEPT ![c] = [of |-> d.of, size |-> d.size]]
  /\ asker' = [asker EXCEPT ![c] = "done"]
  /\ UNCHANGED <<arg, requests, port, server, lost, kills>>

\* The user gives up on it.
Interrupt(c) ==
  /\ asker[c] = "wait"
  /\ asker' = [asker EXCEPT ![c] = "gone"]
  /\ UNCHANGED <<arg, net, port, printed, server, lost, limits>>

-----------------------------------------------------------------------------
(* The server                                                               *)

\* What recvfrom puts into the buffer: the rest of a longer datagram is dropped.
Received(c) == [of |-> c, size |-> IF arg[c] < BufSize THEN arg[c] ELSE BufSize]

Receive ==
  /\ echo = "receive"
  /\ \E d \in requests :
       /\ Take(d, requests, requests')
       /\ clientaddr' = d.from /\ readBuf' = Received(d.of)
  /\ echo' = "answer"
  /\ UNCHANGED <<arg, answers, client, lost, kills>>

\* The newline goes behind a buffer that is full: what that byte belongs to is up to
\* the compiler.  In the address it makes sendto fail.
AddressHit == readBuf.size = BufSize

\* (if the newline was not counted)
ReplyUncounted ==
  answers' = answers \cup {[to |-> clientaddr, of |-> readBuf.of, size |-> readBuf.size]}

\* sendto(readBuf, readlen + 1)
Reply ==
  answers' = answers \cup {[to |-> clientaddr, of |-> readBuf.of, size |-> readBuf.size + 1]}

\* (if the answers were not sent)
AnswerNobody ==
  /\ echo = "answer"
  /\ echo' = "receive" /\ clientaddr' = NoPort /\ readBuf' = Nothing
  /\ UNCHANGED <<arg, net, client, lost, limits>>

Answer ==
  /\ echo = "answer"
  /\ Reply \/ (AddressHit /\ UNCHANGED answers)
  /\ echo' = "receive" /\ clientaddr' = NoPort /\ readBuf' = Nothing
  /\ UNCHANGED <<arg, requests, client, lost, limits>>

Killed ==
  /\ echo # "down" /\ kills < MaxKills
  /\ kills' = kills + 1
  /\ lost' = IF echo = "answer" THEN lost \cup {readBuf.of} ELSE lost
  /\ echo' = "down" /\ clientaddr' = NoPort /\ readBuf' = Nothing
  /\ UNCHANGED <<arg, net, client, copies>>

Restart ==
  /\ echo = "down"
  /\ echo' = "receive"
  /\ UNCHANGED <<arg, net, client, clientaddr, readBuf, lost, limits>>

Serves == Receive \/ Answer

Next ==
  \/ \E c \in Askers : Send(c) \/ Hear(c) \/ Interrupt(c)
  \/ Serves \/ Killed \/ Restart
  \/ Lose

\* Processes run when they can.  Nobody has to start the server again.
FairSpec ==
  Init /\ [][Next]_vars /\ WF_vars(Serves) /\ \A c \in Askers : WF_vars(Hear(c))

-----------------------------------------------------------------------------
TypeOK ==
  /\ arg \in [Askers -> 0..BufSize+1]
  /\ asker \in [Askers -> {"send", "wait", "done", "gone"}]
  /\ port \in [Askers -> Ports \cup {NoPort}]
  /\ requests \subseteq [from : Ports, of : Askers]
  /\ answers \subseteq [to : Ports, of : Askers, size : 1..BufSize+1]
  /\ echo \in {"receive", "answer", "down"}
  /\ clientaddr \in Ports \cup {NoPort}
  /\ readBuf \in [of : Askers \cup {0}, size : 0..BufSize]
  /\ printed \in [Askers -> [of : Askers \cup {0}, size : 0..BufSize+1]]
  /\ lost \subseteq Askers
  /\ copies \in 0..MaxCopies /\ kills \in 0..MaxKills

\* A client prints the whole answer to a client that had its port, which is its own
\* argument unless an earlier client left a datagram behind: nothing in the answer
\* says whose it is, and the client does not look where it comes from.
AnswersForPort ==
  \A c \in Askers : asker[c] = "done" =>
    LET d == printed[c].of
    IN  d \in Askers /\ port[d] = port[c] /\ printed[c].size = Received(d).size + 1

OnItsWay(c) ==
  \/ \E d \in requests : d.of = c
  \/ \E d \in answers : d.of = c /\ d.to = port[c]
  \/ echo = "answer" /\ readBuf.of = c /\ clientaddr = port[c]

\* A client waits for nothing (it has no timeout and does not ask again) only when a
\* datagram was lost, or its argument fills the server's buffer.
WaitsOnlyForLost ==
  \A c \in Askers :
    asker[c] = "wait" => OnItsWay(c) \/ c \in lost \/ arg[c] >= BufSize

\* The others are answered, each once, while the server is up.
Answered ==
  (\E c \in Askers : asker[c] = "wait") ~>
    \/ \A c \in Askers : asker[c] # "wait" \/ c \in lost \/ arg[c] >= BufSize
    \/ echo = "down"
=============================================================================

------------------------------- MODULE MCIpc -------------------------------
(***************************************************************************)
(* Programs of src/005_process_IPC, src/007singnal and the datagram and    *)
(* name side of src/011network and src/012_network_IO, for TLC: which of   *)
(* them runs is chosen at the start.                                       *)
(***************************************************************************)
EXTENDS SharedRecord

CONSTANTS
  MaxStray, MaxSignals,                           \* MySleep, SignalCatch
  Askers, Ports, BufSize, MaxCopies, MaxKills,    \* Datagrams
  Servers, Callers, QueueLen,                     \* LocalNames
  Members, Hosts, MaxSends,                       \* Multicast
  TurnsForAll    \* bound: in runs with more turns of the writer only one reader opens the file

VARIABLES kind,
          at, action, blocked, pending, timer, strays,      \* MySleep
          how, place, readEnd, writeEnd, buffer, got,       \* PipePair
          prog, step, status, by, mask, pend, frames, taking, shown, came,   \* SignalCatch
          arg, asker, port, requests, answers, echo, clientaddr, readBuf,
          printed, lost, copies, kills,                     \* Datagrams
          spc, cpc, foo, own, queue, taken,                 \* LocalNames
          host, member, ears, joined, sent, flying, due, heard, missed   \* Multicast

sleepVars  == <<at, action, blocked, pending, timer, strays>>
pipeVars   == <<how, place, readEnd, writeEnd, buffer, got>>
signalVars == <<prog, step, status, by, mask, pend, frames, taking, shown, came>>
dataVars   == <<arg, asker, port, requests, answers, echo, clientaddr, readBuf,
                printed, lost, copies, kills>>
nameVars   == <<spc, cpc, foo, own, queue, taken>>
groupVars  == <<host, member, ears, joined, sent, flying, due, heard, missed>>
mcVars     == <<kind, vars, sleepVars, pipeVars, signalVars, dataVars, nameVars, groupVars>>

AnyFile   == CHOOSE x \in Files : TRUE
AnyReader == CHOOSE r \in Readers : TRUE

Sleep == INSTANCE MySleep
Pipe  == INSTANCE PipePair WITH at <- place
Text  == INSTANCE SharedRecord   \* 07mmap_IPC, where the file keeps its name
           WITH Unlinking <- FALSE, Files <- {AnyFile}, Readers <- {AnyReader}
Signal == INSTANCE SignalCatch WITH heard <- taking
Data  == INSTANCE Datagrams
Names == INSTANCE LocalNames
Group == INSTANCE Multicast

\* 0 and -1 stand for no server, an earlier one and no file; files are more numerous than
\* readers, so that one is free for whoever opens it; the record is that of 08mmap_process.
ASSUME IpcAssumption ==
  /\ Unlinking
  /\ MaxStray \in Nat /\ MaxSignals \in Nat /\ MaxSends \in Nat
  /\ BufSize \in Nat /\ MaxCopies \in Nat /\ MaxKills \in Nat /\ QueueLen \in Nat
  /\ Names!Nobody \notin Servers \cup Callers /\ Names!Earlier \notin Servers
  /\ NoFile \notin Files /\ Files # {} /\ Readers # {}
  /\ \A f \in [Readers -> Files] : \E x \in Files : \A r \in Readers : f[r] # x

Kinds == {"sleep", "pipe", "text", "record", "signal", "data", "names", "group"}

\* Of the programs that do not run only one start is taken.  A file that was left by an
\* earlier run is there once the writer has been killed.
MCInit ==
  /\ kind \in Kinds
  /\ Sleep!Init /\ Pipe!Init /\ Init
  /\ Signal!Init /\ Data!Init /\ Names!Init /\ Group!Init
  /\ kind # "pipe" => how = "pipe"
  /\ link = NoFile
  /\ kind # "signal" => prog = "mask"
  /\ kind # "data" => \A c \in Askers : arg[c] = 0
  /\ kind # "names" => foo = Names!Nobody
  /\ kind # "group" => host = [m \in Members |-> CHOOSE h \in Hosts : TRUE]

SleepOnly  == kind = "sleep" /\ UNCHANGED <<kind, vars, pipeVars, signalVars, dataVars, nameVars, groupVars>>
PipeOnly   == kind = "pipe" /\ UNCHANGED <<kind, vars, sleepVars, signalVars, dataVars, nameVars, groupVars>>
MapOnly    == UNCHANGED <<kind, sleepVars, pipeVars, signalVars, dataVars, nameVars, groupVars>>
SignalOnly == kind = "signal" /\ UNCHANGED <<kind, vars, sleepVars, pipeVars, dataVars, nameVars, groupVars>>
DataOnly   == kind = "data" /\ UNCHANGED <<kind, vars, sleepVars, pipeVars, signalVars, nameVars, groupVars>>
NamesOnly  == kind = "names" /\ UNCHANGED <<kind, vars, sleepVars, pipeVars, signalVars, dataVars, groupVars>>
GroupOnly  == kind = "group" /\ UNCHANGED <<kind, vars, sleepVars, pipeVars, signalVars, dataVars, nameVars>>

\* Readers are alike: the first one opens its file first.
InOrder == \A r, s \in Readers : r < s /\ rat'[s] # "open" => rat'[r] # "open"

\* Runs in which all have a file are short, the others go on until numbers have got longer.
Short == turn' > TurnsForAll => \E r \in Readers : rat'[r] = "open"

MCNext ==
  \/ SleepOnly /\ Sleep!Next
  \/ PipeOnly /\ Pipe!Next
  \/ kind = "text" /\ Text!Next /\ MapOnly
  \/ kind = "record" /\ Next /\ InOrder /\ Short /\ MapOnly
  \/ SignalOnly /\ Signal!Next
  \/ DataOnly /\ Data!Next
  \/ NamesOnly /\ Names!Next
  \/ GroupOnly /\ Group!Next

\* Processes run when they can, and a timer runs down.
MCSpec ==
  /\ MCInit /\ [][MCNext]_mcVars
  /\ WF_mcVars(SleepOnly /\ Sleep!Process) /\ WF_mcVars(SleepOnly /\ Sleep!Expire)
  /\ WF_mcVars(PipeOnly /\ Pipe!OpenBoth)
  /\ WF_mcVars(PipeOnly /\ Pipe!Writer) /\ WF_mcVars(PipeOnly /\ Pipe!Reader)
  /\ WF_mcVars(SignalOnly /\ Signal!Process)
  /\ WF_mcVars(DataOnly /\ Data!Serves)
  /\ \A c \in Askers : WF_mcVars(DataOnly /\ Data!Hear(c))
  /\ \A s \in Servers : WF_mcVars(NamesOnly /\ Names!Server(s))
  /\ \A c \in Callers : WF_mcVars(NamesOnly /\ Names!Caller(c))

-----------------------------------------------------------------------------
\* Every variable keeps its type.
MCTypeOK ==
  /\ Sleep!TypeOK /\ Pipe!TypeOK /\ TypeOK
  /\ Signal!TypeOK /\ Data!TypeOK /\ Names!TypeOK /\ Group!TypeOK

\* A sleep leaves no timer, mask or handler behind, and lasts its time unless others
\* send SIGALRM.
SleepsCleanly == Sleep!NothingLeft /\ Sleep!SleepsItsTime

\* A handler is not disturbed by the signals it keeps out, and a blocked signal ends no
\* program.
HandlersUndisturbed == Signal!HandlersUndisturbed

\* The reader of a pipe or FIFO gets the message, unless its writer is killed.
NothingMeansKilled == Pipe!NothingMeansKilled

\* The bytes that readers print of the shared record, torn names included, are mixed at
\* most in the order of the writes, and those that find the file with its size are safe.
RecordsHold == (kind = "record" => LinesMixForwards) /\ OnlyEarlyReadersFault

\* What is pending is still pending when it is shown again.
PendingStays == Signal!PendingStays

\* A client prints a whole answer, or waits because a datagram was lost or too long; of
\* the clients of one host one hears the multicast group, and nothing that had come before
\* its bind.
DatagramsAccounted == Data!AnswersForPort /\ Data!WaitsOnlyForLost /\ Group!HeardSinceBind

\* A server does not fail for a name, neither its own nor a client's, but for a rival's.
NamesFound == Names!NamesKept /\ Names!FailsForRival

\* Sleeps end, and so do both processes of a pipe, killed or not; caught signals are
\* handled; datagrams that are not lost are answered; a caller is served.
Ends ==
  /\ kind = "sleep" => Sleep!SleepEnds
  /\ kind = "pipe" => Pipe!PairEnds
  /\ kind = "signal" => Signal!SignalsHandled
  /\ kind = "data" => Data!Answered
  /\ kind = "names" => Names!CallServed
=============================================================================

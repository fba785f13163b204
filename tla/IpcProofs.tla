----------------------------- MODULE IpcProofs -----------------------------
(***************************************************************************)
(* What the programs of src/005_process_IPC, src/007singnal, and the       *)
(* datagrams and names of src/011network and src/012_network_IO, promise   *)
(* for every number of signals, clients, servers, files and turns.  Each   *)
(* program has an inductive invariant of its own, over its own variables;  *)
(* only one of them runs, and the others stay where they began.            *)
(***************************************************************************)
EXTENDS MCIpc, QueueLemmas, FiniteSetTheorems

-----------------------------------------------------------------------------
(* mysleep                                                                  *)

\* The handler, the mask and the timer are those of the place in mysleep, and without
\* others' signals the timer's own is the only one that is ever pending.
Alone == strays = 0
SleepPlaces ==
  /\ at \in {"main", "block", "alarm", "suspend", "asleep", "cancel", "restore",
             "unblock", "killed"}
  /\ action \in {"default", "do_sig"}
  /\ blocked \in BOOLEAN /\ pending \in BOOLEAN /\ timer \in BOOLEAN
  /\ action = "do_sig" <=> at \in {"block", "alarm", "suspend", "asleep", "cancel", "restore"}
  /\ blocked <=> at \in {"alarm", "suspend", "asleep", "cancel", "restore", "unblock"}
  /\ timer => at \in {"suspend", "asleep", "cancel"}
  /\ pending => blocked /\ at # "asleep"
  /\ Alone => /\ at # "killed"
              /\ pending => at = "suspend"
              /\ at = "suspend" => (pending <=> ~timer)
              /\ at = "asleep" => timer
              /\ at = "cancel" => ~timer

SleepInv == SleepPlaces /\ strays \in 0..MaxStray

\* The invariant of mysleep holds at the start and is kept by every call and signal; it
\* gives what is promised of a sleep.
LEMMA SleepBegins == ASSUME Sleep!Init PROVE SleepInv
<1>1. strays \in 0..MaxStray
  BY IpcAssumption DEF Sleep!Init
<1>2. SleepPlaces
  BY DEF Sleep!Init, SleepPlaces
<1> QED BY <1>1, <1>2 DEF SleepInv

LEMMA SleepGoesOn ==
  ASSUME SleepInv, [Sleep!Next]_sleepVars PROVE SleepInv'
<1>1. strays' \in 0..MaxStray /\ (Alone' => Alone /\ ~Sleep!Stray)
  <2>1. (strays' = strays /\ ~Sleep!Stray) \/ Sleep!Stray
    BY DEF Sleep!Next, sleepVars, Sleep!Process, Sleep!Install, Sleep!Block, Sleep!SetAlarm,
           Sleep!Suspend,
           Sleep!Cancel, Sleep!Restore, Sleep!Unblock, Sleep!Expire
  <2> QED BY <2>1, IpcAssumption DEF Sleep!Stray, Alone, SleepInv
<1>2. SleepPlaces'
  <2> USE <1>1 DEF SleepInv, SleepPlaces
  <2>1. CASE UNCHANGED sleepVars
    BY <2>1 DEF sleepVars
  <2>2. CASE Sleep!Process
    <3>1. CASE Sleep!Install
      BY <3>1 DEF Sleep!Install
    <3>2. CASE Sleep!Block
      BY <3>2 DEF Sleep!Block, Sleep!BlockAlarm
    <3>3. CASE Sleep!SetAlarm
      BY <3>3 DEF Sleep!SetAlarm
    <3>4. CASE Sleep!Suspend
      BY <3>4 DEF Sleep!Suspend
    <3>5. CASE Sleep!Cancel
      BY <3>5 DEF Sleep!Cancel, Sleep!StopTimer
    <3>6. CASE Sleep!Restore
      BY <3>6 DEF Sleep!Restore
    <3>7. CASE Sleep!Unblock
      BY <3>7 DEF Sleep!Unblock
    <3> QED BY <2>2, <3>1, <3>2, <3>3, <3>4, <3>5, <3>6, <3>7 DEF Sleep!Process
  <2>3. CASE Sleep!Expire
    BY <2>3 DEF Sleep!Expire, Sleep!Alarmed
  <2>4. CASE Sleep!Stray
    BY <2>4 DEF Sleep!Stray, Sleep!Alarmed
  <2> QED BY <2>1, <2>2, <2>3, <2>4 DEF Sleep!Next
<1> QED BY <1>1, <1>2 DEF SleepInv

LEMMA SleepPromises == ASSUME SleepInv PROVE SleepsCleanly /\ Sleep!TypeOK
<1>1. Sleep!TypeOK
  BY DEF SleepInv, SleepPlaces, Sleep!TypeOK
<1>2. SleepsCleanly
  BY DEF SleepInv, SleepPlaces, Alone, SleepsCleanly, Sleep!NothingLeft, Sleep!SleepsItsTime
<1> QED BY <1>1, <1>2

-----------------------------------------------------------------------------
(* Pipes and FIFOs                                                          *)

\* The writer holds its end until the message is in the pipe, where the reader finds
\* it.
PipeInv ==
  /\ Pipe!TypeOK
  /\ place["writer"] \in {"close other", "write", "close"} => "writer" \in writeEnd
  /\ place["writer"] # "read"
  /\ place["writer"] = "open" => place["reader"] \in {"open", "exited", "killed"}
  /\ place["writer"] \in {"close", "wait", "exited"} /\ place["reader"] \in {"close other", "read"}
       => buffer
  /\ Pipe!NothingMeansKilled

\* The invariant of a pipe holds at the start and is kept by both processes, killed or not.
LEMMA PipeBegins == ASSUME Pipe!Init PROVE PipeInv
  BY DEF Pipe!Init, PipeInv, Pipe!TypeOK, Pipe!Processes, Pipe!NothingMeansKilled

LEMMA PipeGoesOn ==
  ASSUME PipeInv, [Pipe!Next]_pipeVars PROVE PipeInv'
<1> USE DEF PipeInv, Pipe!TypeOK, Pipe!Processes, Pipe!NothingMeansKilled
<1>1. CASE UNCHANGED pipeVars
  BY <1>1 DEF pipeVars
<1>2. CASE Pipe!OpenBoth
  BY <1>2 DEF Pipe!OpenBoth
<1>3. CASE Pipe!Writer
  BY <1>3 DEF Pipe!Writer, Pipe!WriterClosesOther, Pipe!Write, Pipe!WriterCloses, Pipe!Wait,
              Pipe!Exits, Pipe!Ended
<1>4. CASE Pipe!ReaderClosesOther
  BY <1>4 DEF Pipe!ReaderClosesOther, Pipe!CloseWriteEnd
<1>5. CASE Pipe!Read
  <2>1. CASE buffer /\ got' = "message"
    BY <1>5, <2>1 DEF Pipe!Read
  <2>2. CASE ~buffer /\ writeEnd = {} /\ got' = "nothing"
    <3>1. place["writer"] = "killed"
      BY <1>5, <2>2 DEF Pipe!Read
    <3> QED BY <1>5, <2>2, <3>1 DEF Pipe!Read
  <2> QED BY <1>5, <2>1, <2>2 DEF Pipe!Read, Pipe!EndOfPipe
<1>6. CASE Pipe!ReaderCloses
  BY <1>6 DEF Pipe!ReaderCloses, Pipe!Exits
<1>7. ASSUME NEW x \in Pipe!Processes, Pipe!Killed(x) PROVE PipeInv'
  <2>1. CASE x = "writer"
    BY <1>7, <2>1 DEF Pipe!Killed, Pipe!Exits, Pipe!Ended
  <2>2. CASE x = "reader"
    BY <1>7, <2>2 DEF Pipe!Killed, Pipe!Exits, Pipe!Ended
  <2> QED BY <2>1, <2>2
<1> QED BY <1>1, <1>2, <1>3, <1>4, <1>5, <1>6, <1>7 DEF Pipe!Next, Pipe!Reader

-----------------------------------------------------------------------------
(* Signals                                                                  *)

\* What a handler keeps out is blocked while it runs; a process that is not killed was
\* only ever stopped; and what has been shown as pending is blocked, and stays so.
SignalTypes ==
  /\ prog \in Signal!Programs
  /\ step \in {"setup", "before pause", "loop", "pause"}
  /\ status \in {"running", "stopped", "killed", "exited"}
  /\ by \in Signal!Signals \cup {"none"}
  /\ mask \subseteq Signal!Signals /\ pend \subseteq Signal!Signals
  /\ frames \in Seq(SUBSET Signal!Signals) /\ Len(frames) <= 1
  /\ shown \subseteq Signal!Signals
  /\ taking \in BOOLEAN

SignalMasks ==
  /\ frames # <<>> => /\ Signal!SaMask(prog) \cup Signal!Caught(prog) \subseteq mask
                      /\ frames[1] \cap {"STOP", "KILL"} = {}
                      /\ prog # "mask" /\ step # "setup"
  /\ mask \cap {"STOP", "KILL"} = {}
  /\ prog = "mask" /\ step = "loop" => mask = Signal!Masked \ {"STOP"}

SignalEnds ==
  /\ frames # <<>> /\ status \in {"stopped", "killed"} =>
       by \notin Signal!SaMask(prog) \cup Signal!Caught(prog)
  /\ prog = "mask" /\ step = "loop" => by \notin Signal!Masked \ {"STOP"}
  /\ status = "running" => by = "none"
  /\ status # "killed" => by \in Signal!Stops \cup {"none"}

SignalShown ==
  /\ shown # {} => prog = "mask" /\ step = "loop"
  /\ shown \subseteq Signal!Masked \ {"STOP"}
  /\ shown \ {"TSTP"} \subseteq pend

SignalInv ==
  SignalTypes /\ SignalMasks /\ SignalEnds /\ SignalShown /\ came \in 0..MaxSignals

\* One signal is caught, by a program that does not block signals.
LEMMA CaughtIsOne ==
  ASSUME NEW P \in Signal!Programs
  PROVE  /\ \A s, t \in Signal!Caught(P) : s = t
         /\ Signal!Caught(P) \cup Signal!SaMask(P) \subseteq {"INT", "USR1", "TSTP", "QUIT"}
         /\ P = "mask" => Signal!Caught(P) = {}
<1>1. CASE P \in {"catch INT", "signal", "pause"}
  <2>1. Signal!Caught(P) = {"INT"}
    BY <1>1, Zenon DEF Signal!Caught
  <2> QED BY <1>1, <2>1 DEF Signal!SaMask
<1>2. CASE P = "catch USR1"
  <2>1. Signal!Caught(P) = {"USR1"}
    BY <1>2 DEF Signal!Caught
  <2> QED BY <1>2, <2>1 DEF Signal!SaMask
<1>3. CASE P = "mask"
  <2>1. Signal!Caught(P) = {}
    BY <1>3 DEF Signal!Caught
  <2> QED BY <1>3, <2>1 DEF Signal!SaMask
<1> QED BY <1>1, <1>2, <1>3 DEF Signal!Programs

\* The stack of masks has one entry, which a handler pushes and takes back.
LEMMA OneFrame ==
  ASSUME NEW S
  PROVE  /\ \A m \in S : /\ Append(<<>>, m) \in Seq(S) /\ Append(<<>>, m) # <<>>
                         /\ Len(Append(<<>>, m)) = 1 /\ Append(<<>>, m)[1] = m
         /\ \A q \in Seq(S) : Len(q) <= 1 /\ q # <<>> =>
              /\ Len(q) = 1 /\ SubSeq(q, 1, Len(q) - 1) = <<>> /\ q[1] \in S
         /\ <<>> \in Seq(S) /\ Len(<<>>) = 0
<1>1. <<>> \in Seq(S) /\ Len(<<>>) = 0
  OBVIOUS
<1>2. ASSUME NEW m \in S
      PROVE  /\ Append(<<>>, m) \in Seq(S) /\ Append(<<>>, m) # <<>>
             /\ Len(Append(<<>>, m)) = 1 /\ Append(<<>>, m)[1] = m
  OBVIOUS
<1>3. ASSUME NEW q \in Seq(S), Len(q) <= 1, q # <<>>
      PROVE  Len(q) = 1 /\ SubSeq(q, 1, Len(q) - 1) = <<>> /\ q[1] \in S
  <2>1. Len(q) \in Nat \ {0}
    BY <1>3, EmptySeq
  <2>2. Len(q) = 1
    BY <1>3, <2>1
  <2>3. q[1] \in S
    BY <2>2
  <2> QED BY <2>2, <2>3
<1> QED BY <1>1, <1>2, <1>3

\* The invariant of a process and its signals, which also keeps what was shown.
LEMMA SignalBegins == ASSUME Signal!Init PROVE SignalInv
<1>1. came \in 0..MaxSignals
  BY IpcAssumption DEF Signal!Init
<1>2. SignalTypes
  <2>1. frames \in Seq(SUBSET Signal!Signals) /\ Len(frames) <= 1
    BY OneFrame DEF Signal!Init
  <2> QED BY <2>1 DEF Signal!Init, SignalTypes
<1>3. SignalMasks /\ SignalEnds /\ SignalShown
  BY DEF Signal!Init, SignalMasks, SignalEnds, SignalShown
<1> QED BY <1>1, <1>2, <1>3 DEF SignalInv

LEMMA SignalGoesOn ==
  ASSUME SignalInv, [Signal!Next]_signalVars PROVE SignalInv' /\ shown \ {"TSTP"} \subseteq shown'
<1>0. /\ \A m \in SUBSET Signal!Signals :
           Append(<<>>, m) \in Seq(SUBSET Signal!Signals) /\ Len(Append(<<>>, m)) <= 1
      /\ <<>> \in Seq(SUBSET Signal!Signals) /\ Len(<<>>) <= 1
  <2> DEFINE S == SUBSET Signal!Signals
  <2> HIDE DEF S
  <2>1. /\ \A m \in S : Append(<<>>, m) \in Seq(S) /\ Len(Append(<<>>, m)) = 1
        /\ <<>> \in Seq(S) /\ Len(<<>>) = 0
    BY OneFrame
  <2> QED BY <2>1 DEF S
<1>1. came' \in 0..MaxSignals
  <2>1. (came' = came) \/ \E s \in Signal!Signals : Signal!Generate(s)
    BY DEF Signal!Next, signalVars, Signal!Process, Signal!Take, Signal!Return, Signal!SetUp,
           Signal!Show, Signal!CallPause,
           Signal!PauseReturns
  <2> QED BY <2>1, IpcAssumption DEF Signal!Generate, SignalInv
<1> DEFINE Good == SignalTypes' /\ SignalMasks' /\ SignalEnds' /\ SignalShown'
                   /\ shown \ {"TSTP"} \subseteq shown'
<1>2. Good
  <2> USE DEF SignalInv, SignalTypes, SignalMasks, SignalEnds, SignalShown
  <2>1. CASE UNCHANGED signalVars
    BY <2>1 DEF signalVars
  <2>2. ASSUME NEW s \in Signal!Signals, Signal!Take(s) PROVE Good
    <3>0. s \in pend \ mask /\ status = "running"
      BY <2>2 DEF Signal!Take, Signal!Deliverable
    <3>1. CASE Signal!IsCaught(s)
      <4>1. frames = <<>> /\ step # "setup" /\ prog # "mask"
        BY <3>0, <3>1, CaughtIsOne DEF Signal!IsCaught
      <4>2. /\ frames' = Append(<<>>, mask) /\ mask' = mask \cup Signal!SaMask(prog) \cup {s}
            /\ UNCHANGED <<status, by, prog, step, shown>>
            /\ pend' = pend \ {s}
        BY <2>2, <3>1, <4>1 DEF Signal!Take, Signal!HandlerMask
      <4>3. taking' \in BOOLEAN
        BY <2>2, <3>1 DEF Signal!Take
      <4>4. Signal!Caught(prog) = {s}
        <5>1. s \in Signal!Caught(prog)
          BY <3>1 DEF Signal!IsCaught
        <5>2. \A x \in Signal!Caught(prog) : x = s
          BY <5>1, CaughtIsOne
        <5> QED BY <5>1, <5>2
      <4>5. SignalTypes'
        <5>1. mask \in SUBSET Signal!Signals /\ mask' \in SUBSET Signal!Signals
          BY <4>2, CaughtIsOne DEF Signal!Signals
        <5>2. frames' \in Seq(SUBSET Signal!Signals) /\ Len(frames') <= 1
          BY <4>2, <5>1, <1>0
        <5> QED BY <4>2, <4>3, <5>1, <5>2
      <4>6. SignalMasks'
        BY <4>1, <4>2, <4>4, OneFrame, CaughtIsOne
      <4>7. SignalEnds' /\ SignalShown' /\ shown \ {"TSTP"} \subseteq shown'
        BY <3>0, <4>1, <4>2
      <4> QED BY <4>5, <4>6, <4>7
    <3>2. CASE ~Signal!IsCaught(s)
      <4>1. /\ pend' = pend \ {s} /\ UNCHANGED <<prog, step, shown, mask, frames, taking>>
            /\ \/ s = "CONT" /\ UNCHANGED <<status, by>>
               \/ by' = s /\ status' = IF s \in Signal!Stops THEN "stopped" ELSE "killed"
        BY <2>2, <3>2 DEF Signal!Take
      <4>2. SignalTypes' /\ SignalMasks' 
        BY <4>1
      <4>3. SignalEnds'
        BY <3>0, <4>1
      <4>4. SignalShown' /\ shown \ {"TSTP"} \subseteq shown'
        BY <3>0, <4>1
      <4> QED BY <4>2, <4>3, <4>4
    <3> QED BY <3>1, <3>2
  <2>3. CASE Signal!Return
    <3>1. /\ Len(frames) = 1 /\ frames[1] \in SUBSET Signal!Signals
          /\ SubSeq(frames, 1, Len(frames) - 1) = <<>>
      BY <2>3, OneFrame DEF Signal!Return
    <3>2. frames' = <<>> /\ mask' = frames[1]
      BY <2>3, <3>1 DEF Signal!Return, Signal!RestoreMask
    <3>3. frames' \in Seq(SUBSET Signal!Signals) /\ Len(frames') <= 1
      BY <3>2, <1>0
    <3> QED BY <2>3, <3>1, <3>2, <3>3 DEF Signal!Return
  <2>4. CASE Signal!SetUp
    BY <2>4 DEF Signal!SetUp, Signal!MayRun, Signal!Masked, Signal!Stops, Signal!Signals
  <2>5. CASE Signal!Show
    BY <2>5 DEF Signal!Show, Signal!ShowPending, Signal!MayRun, Signal!Deliverable
  <2>6. CASE Signal!CallPause
    BY <2>6 DEF Signal!CallPause, Signal!kernel
  <2>7. CASE Signal!PauseReturns
    BY <2>7 DEF Signal!PauseReturns, Signal!MayRun
  <2>8. ASSUME NEW s \in Signal!Signals, Signal!Generate(s) PROVE Good
    <3>1. CASE s = "KILL"
      BY <2>8, <3>1, CaughtIsOne DEF Signal!Generate, Signal!Masked
    <3>2. CASE s = "CONT"
      <4>1. /\ pend' = {s} \cup (pend \ Signal!Stops) /\ status' = "running" /\ by' = "none"
            /\ UNCHANGED <<prog, step, mask, frames, taking, shown>>
            /\ status \in {"running", "stopped"}
        <5>1. s # "KILL" /\ s \notin Signal!Stops
          BY <3>2 DEF Signal!Stops
        <5> QED BY <2>8, <3>2, <5>1, Zenon DEF Signal!Generate
      <4> QED BY <4>1 DEF Signal!Stops, Signal!Masked
    <3>3. CASE s \in Signal!Stops
      <4>1. /\ pend' = {s} \cup (pend \ {"CONT"})
            /\ UNCHANGED <<by, prog, step, mask, frames, taking, shown, status>>
        BY <2>8, <3>3 DEF Signal!Generate, Signal!Stops
      <4> QED BY <4>1 DEF Signal!Masked
    <3>4. CASE s \notin Signal!Stops \cup {"CONT", "KILL"}
      <4>1. /\ pend' = {s} \cup (pend \ {})
            /\ UNCHANGED <<by, prog, step, mask, frames, taking, shown, status>>
        BY <2>8, <3>4 DEF Signal!Generate
      <4> QED BY <4>1
    <3> QED BY <3>1, <3>2, <3>3, <3>4
  <2> QED BY <2>1, <2>2, <2>3, <2>4, <2>5, <2>6, <2>7, <2>8 DEF Signal!Next, Signal!Process
<1> QED BY <1>1, <1>2 DEF SignalInv

\* What is promised of the handlers follows.
LEMMA SignalPromises == ASSUME SignalInv PROVE Signal!TypeOK /\ HandlersUndisturbed
<1>1. Signal!TypeOK
  BY DEF SignalInv, SignalTypes, Signal!TypeOK
<1>2. HandlersUndisturbed
  BY DEF SignalInv, SignalTypes, SignalMasks, SignalEnds, HandlersUndisturbed,
         Signal!HandlersUndisturbed
<1> QED BY <1>1, <1>2

-----------------------------------------------------------------------------
(* The multicast group                                                      *)

\* Before its bind a member has heard nothing; what it has missed does not come any more.
GroupInv ==
  /\ Group!TypeOK /\ Group!HeardSinceBind
  /\ \A h \in Hosts : flying[h] \subseteq 1..sent
  /\ \A m \in Members : missed[m] \subseteq 1..sent /\ missed[m] \cap flying[host[m]] = {}
  /\ \A m \in Members : member[m] = "bind" => m \notin ears /\ heard[m] = {}

\* The invariant of the group, when members come and go and datagrams come.
LEMMA GroupBegins == ASSUME Group!Init PROVE GroupInv
  BY IpcAssumption DEF Group!Init, GroupInv, Group!TypeOK, Group!HeardSinceBind

LEMMA GroupGoesOn ==
  ASSUME GroupInv, [Group!Next]_groupVars PROVE GroupInv'
<1> USE IpcAssumption DEF GroupInv, Group!TypeOK, Group!HeardSinceBind
<1>1. CASE UNCHANGED groupVars
  BY <1>1 DEF groupVars
<1>2. CASE Group!Send
  <2>1. /\ sent' = sent + 1 /\ sent' \in 1..MaxSends
        /\ UNCHANGED <<host, member, ears, joined, missed, due, heard>>
    BY <1>2 DEF Group!Send, Group!listeners
  <2>2. \A h \in Hosts : flying'[h] = flying[h] \cup {sent'}
    BY <1>2 DEF Group!Send
  <2>3. 1..sent \subseteq 1..sent' /\ sent' \notin 1..sent
    BY <2>1
  <2>4. Group!TypeOK'
    BY <1>2, <2>1 DEF Group!Send
  <2>5. \A m \in Members : missed'[m] \subseteq 1..sent' /\ missed'[m] \cap flying'[host'[m]] = {}
    BY <2>1, <2>2, <2>3
  <2> QED BY <2>1, <2>2, <2>3, <2>4, <2>5
<1>3. ASSUME NEW x \in Members, Group!Bind(x) PROVE GroupInv'
  <2>1. /\ x \notin ears /\ heard[x] = {} /\ due[x] = {} /\ member'[x] = "join"
        /\ UNCHANGED <<host, joined, sent, flying, due, heard>>
    BY <1>3 DEF Group!Bind, Group!network
  <2>2. ears' \subseteq ears \cup {x} /\ ears \subseteq ears'
    BY <1>3 DEF Group!Bind, Group!BoundAfter
  <2>3. \A m, k \in ears' : host[m] = host[k] => m = k
    BY <1>3 DEF Group!Bind, Group!BoundAfter, Group!Neighbours
  <2>4. missed' = [missed EXCEPT ![x] = (1..sent) \ flying[host[x]]]
    BY <1>3 DEF Group!Bind
  <2>5. 1..sent \subseteq 1..MaxSends
    OBVIOUS
  <2>6. Group!TypeOK'
    BY <1>3, <2>1, <2>2, <2>4, <2>5 DEF Group!Bind
  <2>7. \A m \in Members : /\ m # x => missed'[m] = missed[m] /\ member'[m] = member[m]
                           /\ missed'[x] = (1..sent) \ flying[host[x]]
    BY <1>3, <2>4 DEF Group!Bind
  <2>8. Group!HeardSinceBind'
    BY <2>1, <2>2, <2>3, <2>7
  <2>9. \A m \in Members : missed'[m] \subseteq 1..sent /\ missed'[m] \cap flying[host[m]] = {}
    BY <2>7
  <2>10. \A m \in Members : member'[m] = "bind" => m \notin ears' /\ heard[m] = {}
    BY <2>1, <2>2, <2>7
  <2> QED BY <2>1, <2>6, <2>8, <2>9, <2>10
<1>4. ASSUME NEW x \in Members, Group!Join(x) PROVE GroupInv'
  BY <1>4 DEF Group!Join, Group!network
<1>5. ASSUME NEW x \in Members, Group!Receive(x) PROVE GroupInv'
  <2>1. PICK n \in due[x] :
          /\ heard' = [heard EXCEPT ![x] = @ \cup {n}]
          /\ due' = [due EXCEPT ![x] = @ \ {n}]
    BY <1>5 DEF Group!Receive
  <2>2. \A m \in Members : /\ due'[m] \subseteq due[m]
                           /\ heard'[m] \cup due'[m] \subseteq heard[m] \cup due[m]
    BY <2>1
  <2>3. due' \in [Members -> SUBSET (1..MaxSends)] /\ heard' \in [Members -> SUBSET (1..MaxSends)]
    BY <2>1
  <2>4. member[x] = "receive" /\ \A m \in Members \ {x} : heard'[m] = heard[m]
    BY <1>5, <2>1 DEF Group!Receive
  <2> QED BY <1>5, <2>2, <2>3, <2>4 DEF Group!Receive, Group!listeners, Group!network
<1>6. ASSUME NEW x \in Members, Group!Killed(x) PROVE GroupInv'
  BY <1>6 DEF Group!Killed, Group!network
<1>7. ASSUME NEW h \in Hosts, Group!Arrive(h) PROVE GroupInv'
  <2>1. PICK n \in flying[h], stays \in BOOLEAN, lucky \in SUBSET Group!Reached(h) :
          /\ flying' = IF stays THEN flying ELSE [flying EXCEPT ![h] = @ \ {n}]
          /\ due' = [m \in Members |-> IF m \in lucky THEN due[m] \cup {n} ELSE due[m]]
    BY <1>7 DEF Group!Arrive
  <2>2. UNCHANGED <<host, member, ears, joined, missed, sent, heard>>
    BY <1>7 DEF Group!Arrive, Group!listeners
  <2>3. \A k \in Hosts : flying'[k] \subseteq flying[k]
    BY <2>1
  <2>4. lucky \subseteq ears /\ \A m \in lucky : m \in Members /\ host[m] = h
    BY DEF Group!Reached
  <2>5. n \in 1..sent /\ n \in 1..MaxSends /\ \A m \in lucky : n \notin missed[m]
    BY <2>4
  <2>6. \A m \in Members : /\ due'[m] = IF m \in lucky THEN due[m] \cup {n} ELSE due[m]
                           /\ due'[m] \subseteq 1..MaxSends
    BY <2>1, <2>5
  <2>7. Group!TypeOK'
    BY <2>1, <2>2, <2>6
  <2>8. \A m \in Members : \A i \in heard'[m] \cup due'[m] : i \in 1..sent' /\ i \notin missed'[m]
    <3>1. ASSUME NEW m \in Members, NEW i \in heard'[m] \cup due'[m]
          PROVE  i \in 1..sent /\ i \notin missed[m]
      <4>1. i \in heard[m] \cup due[m] \/ (i = n /\ m \in lucky)
        <5>1. heard'[m] = heard[m]
          BY <2>2
        <5>2. CASE m \in lucky
          <6>1. due'[m] = due[m] \cup {n}
            BY <2>6, <5>2
          <6> HIDE DEF GroupInv, Group!TypeOK, Group!HeardSinceBind
          <6> QED BY <3>1, <5>1, <5>2, <6>1
        <5>3. CASE m \notin lucky
          <6>1. due'[m] = due[m]
            BY <2>6, <5>3
          <6> QED BY <3>1, <5>1, <6>1
        <5> QED BY <5>2, <5>3
      <4> QED BY <2>5, <4>1
    <3> QED BY <2>2, <3>1
  <2> QED BY <2>2, <2>3, <2>4, <2>6, <2>7, <2>8
<1> QED BY <1>1, <1>2, <1>3, <1>4, <1>5, <1>6, <1>7 DEF Group!Next, Group!Member

-----------------------------------------------------------------------------
(* The names of local sockets                                               *)

\* A caller is in one queue once, or accepted by one server.
OnePlace ==
  /\ \A s \in Servers : Distinct(queue[s])
  /\ \A s, t \in Servers, x \in Callers :
       InSeq(x, queue[s]) => taken[t] # x /\ (InSeq(x, queue[t]) => s = t)
  /\ \A s, t \in Servers : taken[s] = taken[t] /\ taken[s] # Names!Nobody => s = t

\* Its own name is there from before it connects until its server takes it away.
NamesThere ==
  /\ \A s \in Servers, x \in Callers :
       InSeq(x, queue[s]) => x \in own /\ cpc[x] \notin {"bind", "connect"}
  /\ \A x \in Callers : cpc[x] = "connect" => x \in own
  /\ \A s \in Servers : taken[s] # Names!Nobody => cpc[taken[s]] \notin {"bind", "connect"}
  /\ \A s \in Servers : spc[s] = "stat" => taken[s] # Names!Nobody /\ taken[s] \in own
  /\ \A s \in Servers : spc[s] \in {"unlink", "bind", "listen", "accept"} => taken[s] = Names!Nobody

\* Who finds foo.socket in its way finds a server that was started.
Started(s) == spc[s] \notin {"unlink", "bind"} /\ ~Names!StartFailed(s)
FooStarted ==
  /\ foo = Names!Earlier => \A s \in Servers : spc[s] = "unlink"
  /\ foo \in Servers => Started(foo)
  /\ \A s \in Servers : Names!StartFailed(s) => \E t \in Servers : Started(t)

NamesTypes ==
  /\ spc \in [Servers -> {"unlink", "bind", "listen", "accept", "stat", "serve", "ended", "failed"}]
  /\ cpc \in [Callers -> {"bind", "connect", "talk", "ended", "failed", "killed"}]
  /\ foo \in Servers \cup {Names!Nobody, Names!Earlier} /\ own \subseteq Callers
  /\ queue \in [Servers -> Seq(Callers)]
  /\ taken \in [Servers -> Callers \cup {Names!Nobody}]

NamesInv ==
  /\ NamesTypes /\ OnePlace /\ NamesThere /\ FooStarted
  /\ \A s \in Servers : Len(queue[s]) <= QueueLen

\* The invariant of the names, when servers and callers take and leave them.
LEMMA NamesBegin == ASSUME Names!Init PROVE NamesInv
<1>1. \A s \in Servers : /\ queue[s] = <<>> /\ Len(queue[s]) = 0 /\ Distinct(queue[s])
                         /\ \A x : ~InSeq(x, queue[s])
  BY DEF Names!Init, Distinct, InSeq
<1>2. NamesTypes
  BY EmptySeq DEF Names!Init, NamesTypes
<1>3. OnePlace
  BY <1>1 DEF Names!Init, OnePlace
<1>4. NamesThere
  BY <1>1 DEF Names!Init, NamesThere
<1>5. FooStarted
  BY IpcAssumption DEF Names!Init, FooStarted, Names!StartFailed
<1> QED BY <1>1, <1>2, <1>3, <1>4, <1>5, IpcAssumption DEF NamesInv

LEMMA NamesGoOn ==
  ASSUME NamesInv, [Names!Next]_nameVars PROVE NamesInv'
<1> USE IpcAssumption DEF NamesInv, Names!Go
<1>1. CASE UNCHANGED nameVars
  BY <1>1 DEF nameVars, NamesTypes, OnePlace, NamesThere, FooStarted, Started, Names!StartFailed
<1>2. ASSUME NEW s \in Servers, Names!Unlink(s) PROVE NamesInv'
  <2>1. UNCHANGED <<queue, taken, own, cpc>> /\ foo' = Names!Nobody
    BY <1>2 DEF Names!Unlink, Names!FooUnlinked
  <2>2. spc' = [spc EXCEPT ![s] = "bind"] /\ spc[s] = "unlink"
    BY <1>2 DEF Names!Unlink
  <2>3. NamesTypes' /\ OnePlace' /\ NamesThere'
    BY <2>1, <2>2 DEF NamesTypes, OnePlace, NamesThere
  <2>4. FooStarted'
    <3>1. foo' # Names!Earlier /\ foo' \notin Servers
      BY <2>1 DEF Names!Nobody, Names!Earlier
    <3> QED BY <2>1, <2>2, <3>1 DEF NamesTypes, FooStarted, Started, Names!StartFailed
  <2> QED BY <2>1, <2>3, <2>4
<1>3. ASSUME NEW s \in Servers, Names!BindName(s) PROVE NamesInv'
  <2>1. UNCHANGED <<queue, taken, own, cpc>> /\ spc[s] = "bind"
    BY <1>3 DEF Names!BindName
  <2>2. CASE foo = Names!Nobody
    <3>1. foo' = s /\ spc' = [spc EXCEPT ![s] = "listen"]
      BY <1>3, <2>2 DEF Names!BindName
    <3>2. NamesTypes' /\ OnePlace' /\ NamesThere'
      BY <2>1, <3>1 DEF NamesTypes, OnePlace, NamesThere
    <3>3. FooStarted'
      BY <2>1, <3>1 DEF NamesTypes, FooStarted, Started, Names!StartFailed
    <3> QED BY <2>1, <3>2, <3>3
  <2>3. CASE foo # Names!Nobody
    <3>1. foo' = foo /\ spc' = [spc EXCEPT ![s] = "failed"]
      BY <1>3, <2>3 DEF Names!BindName
    <3>2. NamesTypes' /\ OnePlace' /\ NamesThere'
      BY <2>1, <3>1 DEF NamesTypes, OnePlace, NamesThere
    <3>3. foo \in Servers /\ foo # s /\ Started(foo)
      BY <2>1, <2>3 DEF NamesTypes, FooStarted, Started
    <3>4. FooStarted'
      BY <2>1, <3>1, <3>3 DEF NamesTypes, FooStarted, Started, Names!StartFailed
    <3> QED BY <2>1, <3>2, <3>4
  <2> QED BY <2>2, <2>3
<1>4. ASSUME NEW s \in Servers, Names!Listen(s) PROVE NamesInv'
  <2>1. UNCHANGED <<queue, taken, own, cpc, foo>> /\ spc[s] = "listen" /\ spc' = [spc EXCEPT ![s] = "accept"]
    BY <1>4 DEF Names!Listen
  <2>2. NamesTypes' /\ OnePlace' /\ NamesThere'
    BY <2>1 DEF NamesTypes, OnePlace, NamesThere
  <2>3. FooStarted'
    BY <2>1 DEF NamesTypes, FooStarted, Started, Names!StartFailed
  <2> QED BY <2>1, <2>2, <2>3
<1>5. ASSUME NEW s \in Servers, Names!Accept(s) PROVE NamesInv'
  <2>1. /\ UNCHANGED <<own, cpc, foo>> /\ spc[s] = "accept" /\ spc' = [spc EXCEPT ![s] = "stat"]
        /\ queue[s] # <<>>
        /\ taken' = [taken EXCEPT ![s] = Head(queue[s])] /\ queue' = [queue EXCEPT ![s] = Tail(queue[s])]
    BY <1>5 DEF Names!Accept
  <2>2. queue \in [Servers -> Seq(Callers)] /\ Distinct(queue[s])
    BY DEF NamesTypes, OnePlace
  <2>3. /\ Head(queue[s]) \in Callers /\ InSeq(Head(queue[s]), queue[s])
        /\ Tail(queue[s]) \in Seq(Callers) /\ Distinct(Tail(queue[s]))
        /\ \A x : InSeq(x, Tail(queue[s])) <=> InSeq(x, queue[s]) /\ x # Head(queue[s])
    BY <2>1, <2>2, TailHas
  <2>4. \A t \in Servers : /\ Distinct(queue'[t])
                           /\ \A x : InSeq(x, queue'[t]) <=> InSeq(x, queue[t]) /\ (t = s => x # Head(queue[s]))
    BY <2>1, <2>2, <2>3 DEF OnePlace
  <2>5. Len(Tail(queue[s])) = Len(queue[s]) - 1 /\ Len(queue[s]) \in Nat
    BY <2>1, <2>2, HeadTailProperties
  <2>6. \A t \in Servers : Len(queue'[t]) <= QueueLen
    BY <2>1, <2>2, <2>5
  <2>7. NamesTypes'
    BY <2>1, <2>2, <2>3 DEF NamesTypes
  <2>8. OnePlace'
    <3>1. \A t \in Servers : taken[t] # Head(queue[s])
      BY <2>3 DEF OnePlace
    <3>2. taken \in [Servers -> Callers \cup {Names!Nobody}]
      BY DEF NamesTypes
    <3>3. \A t \in Servers : taken'[t] = IF t = s THEN Head(queue[s]) ELSE taken[t]
      BY <2>1, <3>2
    <3>4. \A t, u \in Servers, x \in Callers :
            InSeq(x, queue'[t]) => taken'[u] # x /\ (InSeq(x, queue'[u]) => t = u)
      <4>1. TAKE t, u \in Servers, x \in Callers
      <4>2. HAVE InSeq(x, queue'[t])
      <4>3. InSeq(x, queue[t]) /\ (t = s => x # Head(queue[s]))
        BY <2>4, <4>2
      <4>4. x # Head(queue[s])
        BY <2>3, <4>3 DEF OnePlace
      <4> QED BY <2>4, <3>3, <4>3, <4>4 DEF OnePlace
    <3>5. \A t, u \in Servers : taken'[t] = taken'[u] /\ taken'[t] # Names!Nobody => t = u
      BY <3>1, <3>3 DEF OnePlace
    <3> QED BY <2>4, <3>4, <3>5 DEF OnePlace
  <2>9. NamesThere'
    <3>1. Head(queue[s]) \in own /\ cpc[Head(queue[s])] \notin {"bind", "connect"}
      BY <2>3 DEF NamesThere
    <3> QED BY <2>1, <2>3, <2>4, <3>1 DEF NamesThere, NamesTypes
  <2>10. FooStarted'
    BY <2>1 DEF NamesTypes, FooStarted, Started, Names!StartFailed
  <2> QED BY <2>6, <2>7, <2>8, <2>9, <2>10
<1>6. ASSUME NEW s \in Servers, Names!StatCaller(s) PROVE NamesInv'
  <2>1. /\ UNCHANGED <<queue, taken, foo, cpc>> /\ spc[s] = "stat" /\ own' = own \ {taken[s]}
        /\ spc' = [spc EXCEPT ![s] = "serve"] /\ taken[s] # Names!Nobody
    BY <1>6 DEF Names!StatCaller, NamesThere
  <2>2. NamesTypes' /\ OnePlace'
    BY <2>1 DEF NamesTypes, OnePlace
  <2>3. NamesThere'
    <3>1. \A t \in Servers, x \in Callers : InSeq(x, queue[t]) => x # taken[s]
      BY DEF OnePlace
    <3>2. \A t \in Servers : t # s /\ taken[t] # Names!Nobody => taken[t] # taken[s]
      BY DEF OnePlace
    <3> QED BY <2>1, <3>1, <3>2 DEF NamesThere, NamesTypes
  <2>4. FooStarted'
    BY <2>1 DEF NamesTypes, FooStarted, Started, Names!StartFailed
  <2> QED BY <2>1, <2>2, <2>3, <2>4
<1>7. ASSUME NEW s \in Servers, Names!Ends(s) PROVE NamesInv'
  <2>1. UNCHANGED <<queue, taken, own, cpc, foo>> /\ spc[s] = "serve" /\ spc' = [spc EXCEPT ![s] = "ended"]
    BY <1>7 DEF Names!Ends
  <2>2. NamesTypes' /\ OnePlace' /\ NamesThere'
    BY <2>1 DEF NamesTypes, OnePlace, NamesThere
  <2>3. FooStarted'
    BY <2>1 DEF NamesTypes, FooStarted, Started, Names!StartFailed
  <2> QED BY <2>1, <2>2, <2>3
<1>8. ASSUME NEW x \in Callers, Names!BindOwn(x) PROVE NamesInv'
  <2>1. /\ UNCHANGED <<queue, taken, spc, foo>> /\ own' = own \cup {x}
        /\ cpc[x] = "bind" /\ cpc' = [cpc EXCEPT ![x] = "connect"]
    BY <1>8 DEF Names!BindOwn
  <2>2. NamesTypes' /\ OnePlace' /\ FooStarted'
    BY <2>1 DEF NamesTypes, OnePlace, FooStarted, Started, Names!StartFailed
  <2>3. NamesThere'
    BY <2>1 DEF NamesThere, NamesTypes
  <2> QED BY <2>1, <2>2, <2>3
<1>9. ASSUME NEW x \in Callers, Names!Hangs(x) \/ Names!Killed(x) PROVE NamesInv'
  <2>1. /\ UNCHANGED <<queue, taken, spc, foo, own>>
        /\ cpc' = [cpc EXCEPT ![x] = "ended"] \/ cpc' = [cpc EXCEPT ![x] = "killed"]
    BY <1>9 DEF Names!Hangs, Names!OwnLeft, Names!Killed
  <2>2. NamesTypes' /\ OnePlace' /\ FooStarted'
    BY <2>1 DEF NamesTypes, OnePlace, FooStarted, Started, Names!StartFailed
  <2>3. NamesThere'
    BY <2>1 DEF NamesThere, NamesTypes
  <2> QED BY <2>1, <2>2, <2>3
<1>10. ASSUME NEW x \in Callers, Names!Connect(x) PROVE NamesInv'
  <2>1. UNCHANGED <<spc, foo, own, taken>> /\ cpc[x] = "connect"
    BY <1>10 DEF Names!Connect
  <2>2. CASE Names!Listening(foo)
    <3>1. /\ foo \in Servers /\ Len(queue[foo]) < QueueLen /\ cpc' = [cpc EXCEPT ![x] = "talk"]
          /\ queue' = [queue EXCEPT ![foo] = Append(queue[foo], x)]
      BY <1>10, <2>2 DEF Names!Connect, Names!Listening
    <3>2. queue \in [Servers -> Seq(Callers)] /\ Distinct(queue[foo])
          /\ \A s \in Servers : ~InSeq(x, queue[s]) /\ taken[s] # x
      BY <2>1, <3>1 DEF NamesTypes, OnePlace, NamesThere
    <3>3. /\ Append(queue[foo], x) \in Seq(Callers) /\ Distinct(Append(queue[foo], x))
          /\ \A y : InSeq(y, Append(queue[foo], x)) <=> InSeq(y, queue[foo]) \/ y = x
      BY <3>1, <3>2, AppendHas
    <3>4. \A s \in Servers : /\ Distinct(queue'[s])
                             /\ \A y : InSeq(y, queue'[s]) <=> InSeq(y, queue[s]) \/ (s = foo /\ y = x)
      BY <3>1, <3>2, <3>3 DEF OnePlace
    <3>5. Len(Append(queue[foo], x)) = Len(queue[foo]) + 1 /\ Len(queue[foo]) \in Nat
      BY <3>1, <3>2, AppendProperties
    <3>6. \A s \in Servers : Len(queue'[s]) <= QueueLen
      BY <3>1, <3>2, <3>5
    <3>7. NamesTypes'
      BY <2>1, <3>1, <3>2, <3>3 DEF NamesTypes
    <3>8. OnePlace'
      BY <2>1, <3>2, <3>4 DEF OnePlace
    <3>9. x \in own
      BY <2>1 DEF NamesThere
    <3>10. NamesThere'
      BY <2>1, <3>1, <3>4, <3>9 DEF NamesThere, NamesTypes
    <3>11. FooStarted'
      BY <2>1 DEF FooStarted, Started, Names!StartFailed
    <3> QED BY <3>6, <3>7, <3>8, <3>10, <3>11
  <2>3. CASE ~Names!Listening(foo)
    <3>1. UNCHANGED queue /\ cpc' = [cpc EXCEPT ![x] = "failed"]
      BY <1>10, <2>3 DEF Names!Connect
    <3>2. NamesTypes' /\ OnePlace' /\ FooStarted'
      BY <2>1, <3>1 DEF NamesTypes, OnePlace, FooStarted, Started, Names!StartFailed
    <3>3. NamesThere'
      BY <2>1, <3>1 DEF NamesThere, NamesTypes
    <3> QED BY <2>1, <3>1, <3>2, <3>3
  <2> QED BY <2>2, <2>3
<1> QED BY <1>1, <1>2, <1>3, <1>4, <1>5, <1>6, <1>7, <1>8, <1>9, <1>10
        DEF Names!Next, Names!Server, Names!Caller

\* What is promised of the names follows.
LEMMA NamesPromise == ASSUME NamesInv PROVE Names!TypeOK /\ NamesFound
<1>1. Names!TypeOK
  BY DEF NamesInv, NamesTypes, Names!TypeOK
<1>2. \A s \in Servers, x \in Callers : Names!Waits(x, s) <=> InSeq(x, queue[s])
  BY DEF Names!Waits, InSeq
<1>3. Names!NamesKept
  BY <1>2 DEF NamesInv, NamesThere, OnePlace, Names!NamesKept
<1>4. Names!FailsForRival
  BY DEF NamesInv, FooStarted, Started, Names!FailsForRival
<1> QED BY <1>1, <1>3, <1>4 DEF NamesFound

-----------------------------------------------------------------------------
(* Datagrams                                                                *)

\* What is on its way belongs to a client that has sent, and to its port; no two clients
\* that wait have one port; and who waits is owed something that is on its way.
Fills(x) == arg[x] >= BufSize

DataTypes ==
  /\ arg \in [Askers -> 0..BufSize+1]
  /\ asker \in [Askers -> {"send", "wait", "done", "gone"}]
  /\ port \in [Askers -> Ports \cup {Data!NoPort}]
  /\ requests \subseteq [from : Ports, of : Askers]
  /\ answers \subseteq [to : Ports, of : Askers, size : 1..BufSize+1]
  /\ echo \in {"receive", "answer", "down"}
  /\ clientaddr \in Ports \cup {Data!NoPort}
  /\ readBuf \in [of : Askers \cup {0}, size : 0..BufSize]
  /\ printed \in [Askers -> [of : Askers \cup {0}, size : 0..BufSize+1]]
  /\ lost \subseteq Askers

Underway ==
  /\ \A d \in requests : asker[d.of] # "send" /\ port[d.of] = d.from
  /\ \A d \in answers :
       asker[d.of] # "send" /\ port[d.of] = d.to /\ d.size = Data!Received(d.of).size + 1
  /\ echo = "answer" =>
       /\ readBuf.of \in Askers /\ readBuf = Data!Received(readBuf.of)
       /\ asker[readBuf.of] # "send" /\ clientaddr = port[readBuf.of] /\ clientaddr \in Ports

Printed ==
  \A x \in Askers : asker[x] = "done" =>
    /\ printed[x].of \in Askers /\ asker[printed[x].of] # "send"
    /\ port[printed[x].of] = port[x]
    /\ printed[x].size = Data!Received(printed[x].of).size + 1

OwnPorts == \A x, y \in Askers : asker[x] = "wait" /\ asker[y] = "wait" /\ port[x] = port[y] => x = y

Owed == \A x \in Askers : asker[x] = "wait" => Data!OnItsWay(x) \/ x \in lost \/ Fills(x)

DataInv ==
  /\ DataTypes /\ Underway /\ Printed /\ OwnPorts /\ Owed
  /\ copies \in 0..MaxCopies /\ kills \in 0..MaxKills

\* The buffer after recvfrom.
LEMMA ReceivedIs ==
  ASSUME DataTypes, NEW x \in Askers
  PROVE  /\ Data!Received(x) \in [of : Askers, size : 0..BufSize]
         /\ Data!Received(x).of = x
         /\ Data!Received(x).size = BufSize => Fills(x)
<1>1. arg[x] \in 0..BufSize+1
  BY DEF DataTypes
<1> QED BY <1>1, IpcAssumption DEF Data!Received, Fills

\* The invariant of the datagrams, with losses, copies and restarts.
LEMMA DataBegins == ASSUME Data!Init PROVE DataInv
<1>1. copies \in 0..MaxCopies /\ kills \in 0..MaxKills
  BY IpcAssumption DEF Data!Init
<1>2. DataTypes
  BY IpcAssumption DEF Data!Init, DataTypes, Data!Nothing
<1>3. Underway /\ Printed /\ OwnPorts /\ Owed
  BY DEF Data!Init, Underway, Printed, OwnPorts, Owed
<1> QED BY <1>1, <1>2, <1>3 DEF DataInv

LEMMA DataGoesOn ==
  ASSUME DataInv, [Data!Next]_dataVars PROVE DataInv'
<1>1. copies' \in 0..MaxCopies /\ kills' \in 0..MaxKills
  <2>1. CASE UNCHANGED dataVars
    BY <2>1 DEF DataInv, dataVars
  <2>2. CASE UNCHANGED <<copies, kills>>
    BY <2>2 DEF DataInv
  <2>3. ASSUME NEW x \in Askers, Data!Hear(x) PROVE copies' \in 0..MaxCopies /\ kills' \in 0..MaxKills
    BY <2>3, IpcAssumption DEF DataInv, Data!Hear, Data!Take
  <2>4. CASE Data!Receive
    BY <2>4, IpcAssumption DEF DataInv, Data!Receive, Data!Take
  <2>5. CASE Data!Killed
    BY <2>5, IpcAssumption DEF DataInv, Data!Killed
  <2> QED BY <2>1, <2>2, <2>3, <2>4, <2>5
          DEF Data!Next, Data!Serves, Data!Send, Data!Interrupt, Data!Answer, Data!Restart,
              Data!Lose, Data!limits
<1> USE DEF DataInv
<1>2. arg' = arg
  BY DEF Data!Next, Data!Serves, Data!Send, Data!Hear, Data!Receive, Data!Killed,
         Data!Interrupt,
         Data!Answer, Data!Restart, Data!Lose, dataVars
<1>3. \A x \in Askers : /\ Data!Received(x)' = Data!Received(x)
                        /\ Fills(x)' <=> Fills(x)
                        /\ Data!Received(x) \in [of : Askers, size : 0..BufSize]
                        /\ Data!Received(x).of = x
                        /\ Data!Received(x).size = BufSize => Fills(x)
  BY <1>2, ReceivedIs DEF Data!Received, Fills
\* What is owed stays owed while nobody sends.
<1>14. ASSUME \A y \in Askers : asker'[y] = "wait" => asker[y] = "wait",
              \A y \in Askers : Data!OnItsWay(y) => Data!OnItsWay(y)' \/ y \in lost' \/ Fills(y),
              lost \subseteq lost'
       PROVE  Owed'
  <2>1. ASSUME NEW y \in Askers, asker'[y] = "wait"
        PROVE  Data!OnItsWay(y)' \/ y \in lost' \/ Fills(y)'
    <3>1. Data!OnItsWay(y) \/ y \in lost \/ Fills(y)
      BY <1>14, <2>1 DEF Owed
    <3>2. Fills(y) => Fills(y)'
      BY <1>3
    <3> QED BY <1>14, <3>1, <3>2
  <2> QED BY <2>1 DEF Owed
<1>4. CASE UNCHANGED dataVars
  BY <1>1, <1>3, <1>4 DEF dataVars, DataTypes, Underway, Printed, OwnPorts, Owed, Data!OnItsWay
<1>5. ASSUME NEW x \in Askers, Data!Send(x) PROVE DataInv'
  <2>1. PICK q \in Data!FreePorts : /\ port' = [port EXCEPT ![x] = q]
                                    /\ requests' = requests \cup {[from |-> q, of |-> x]}
    BY <1>5 DEF Data!Send
  <2>2. /\ asker[x] = "send" /\ asker' = [asker EXCEPT ![x] = "wait"]
        /\ UNCHANGED <<arg, answers, printed, echo, clientaddr, readBuf, lost>>
    BY <1>5 DEF Data!Send, Data!server
  <2>3. q \in Ports /\ \A y \in Askers : asker[y] = "wait" => port[y] # q
    BY <2>1 DEF Data!FreePorts
  <2>4. DataTypes'
    BY <2>1, <2>2, <2>3 DEF DataTypes
  <2>5. Underway'
    BY <1>3, <2>1, <2>2, <2>3 DEF Underway, DataTypes
  <2>6. Printed' /\ OwnPorts'
    BY <1>3, <2>1, <2>2, <2>3 DEF Printed, OwnPorts, DataTypes
  <2>7. ASSUME NEW y \in Askers, asker'[y] = "wait"
        PROVE  Data!OnItsWay(y)' \/ y \in lost' \/ Fills(y)'
    <3>1. CASE y = x
      <4>1. [from |-> q, of |-> x] \in requests' /\ [from |-> q, of |-> x].of = x
        BY <2>1
      <4> QED BY <3>1, <4>1 DEF Data!OnItsWay
    <3>2. CASE y # x
      <4>1. port'[y] = port[y] /\ (Data!OnItsWay(y) \/ y \in lost \/ Fills(y))
        BY <2>1, <2>2, <2>7, <3>2 DEF DataTypes, Owed
      <4>2. Data!OnItsWay(y) => Data!OnItsWay(y)'
        BY <2>1, <2>2, <4>1 DEF Data!OnItsWay
      <4> QED BY <1>3, <2>2, <4>1, <4>2
    <3> QED BY <3>1, <3>2
  <2>8. Owed'
    BY <2>7 DEF Owed
  <2> QED BY <1>1, <2>4, <2>5, <2>6, <2>8
<1>6. ASSUME NEW x \in Askers, Data!Hear(x) PROVE DataInv'
  <2>1. PICK d \in answers : /\ d.to = port[x]
                             /\ answers' = answers \ {d} \/ answers' = answers
                             /\ printed' = [printed EXCEPT ![x] = [of |-> d.of, size |-> d.size]]
    BY <1>6 DEF Data!Hear, Data!Take
  <2>2. /\ asker[x] = "wait" /\ asker' = [asker EXCEPT ![x] = "done"]
        /\ UNCHANGED <<arg, requests, port, echo, clientaddr, readBuf, lost>>
    BY <1>6 DEF Data!Hear, Data!server
  <2>3. d \in [to : Ports, of : Askers, size : 1..BufSize+1]
    BY DEF DataTypes
  <2>4. DataTypes'
    BY <2>1, <2>2, <2>3 DEF DataTypes
  <2>5. Underway'
    BY <1>3, <2>1, <2>2 DEF Underway, DataTypes
  <2>6. Printed' /\ OwnPorts'
    BY <1>3, <2>1, <2>2, <2>3 DEF Printed, OwnPorts, Underway, DataTypes
  <2>7. Owed'
    BY <1>3, <2>1, <2>2, <2>3 DEF Owed, Data!OnItsWay, OwnPorts, DataTypes
  <2> QED BY <1>1, <2>4, <2>5, <2>6, <2>7
<1>7. ASSUME NEW x \in Askers, Data!Interrupt(x) PROVE DataInv'
  <2>1. /\ asker' = [asker EXCEPT ![x] = "gone"] /\ asker[x] = "wait"
        /\ UNCHANGED <<arg, requests, answers, port, printed, echo, clientaddr, readBuf, lost>>
    BY <1>7 DEF Data!Interrupt, Data!net, Data!server
  <2>2. DataTypes' /\ Underway'
    BY <1>3, <2>1 DEF DataTypes, Underway
  <2>3. Printed' /\ OwnPorts' /\ Owed'
    BY <1>3, <2>1 DEF DataTypes, Printed, OwnPorts, Owed, Data!OnItsWay
  <2> QED BY <1>1, <2>2, <2>3
<1>8. CASE Data!Receive
  <2>1. PICK d \in requests : /\ requests' = requests \ {d} \/ requests' = requests
                              /\ clientaddr' = d.from /\ readBuf' = Data!Received(d.of)
    BY <1>8 DEF Data!Receive, Data!Take
  <2>2. /\ echo = "receive" /\ echo' = "answer"
        /\ UNCHANGED <<arg, answers, asker, port, printed, lost>>
    BY <1>8 DEF Data!Receive, Data!client
  <2>3. d \in [from : Ports, of : Askers]
    BY DEF DataTypes
  <2>4. DataTypes' /\ Underway'
    BY <1>3, <2>1, <2>2, <2>3 DEF DataTypes, Underway
  <2>5. Printed' /\ OwnPorts'
    BY <1>3, <2>2 DEF Printed, OwnPorts, DataTypes
  <2>6. \A y \in Askers : Data!OnItsWay(y) => Data!OnItsWay(y)'
    <3>1. readBuf'.of = d.of /\ d.from = port[d.of]
      BY <1>3, <2>1, <2>3 DEF Underway
    <3> QED BY <2>1, <2>2, <3>1 DEF Data!OnItsWay
  <2>7. Owed'
    BY <1>14, <2>2, <2>6
  <2> QED BY <1>1, <2>4, <2>5, <2>7
<1>9. CASE Data!Answer
  <2>1. /\ echo = "answer" /\ echo' = "receive" /\ clientaddr' = Data!NoPort /\ readBuf' = Data!Nothing
        /\ UNCHANGED <<arg, requests, asker, port, printed, lost>>
    BY <1>9 DEF Data!Answer, Data!client
  <2>2. /\ readBuf.of \in Askers /\ readBuf = Data!Received(readBuf.of) /\ asker[readBuf.of] # "send"
        /\ clientaddr = port[readBuf.of] 
    BY <2>1 DEF Underway
  <2> DEFINE a == [to |-> clientaddr, of |-> readBuf.of, size |-> readBuf.size + 1]
  <2>3. \/ answers' = answers \cup {a}
        \/ answers' = answers /\ Fills(readBuf.of)
    BY <1>3, <1>9, <2>2 DEF Data!Answer, Data!Reply, Data!AddressHit
  <2>4. Data!Nothing \in [of : Askers \cup {0}, size : 0..BufSize]
    BY IpcAssumption DEF Data!Nothing
  <2>5. DataTypes'
    <3>1. clientaddr \in Ports
      BY <2>1 DEF Underway
    <3>2. a \in [to : Ports, of : Askers, size : 1..BufSize+1]
      <4>1. readBuf.size \in 0..BufSize
        BY DEF DataTypes
      <4>2. readBuf.size + 1 \in 1..BufSize+1
        BY <4>1, IpcAssumption
      <4> QED BY <2>2, <3>1, <4>2
    <3> HIDE DEF a
    <3> QED BY <2>1, <2>3, <2>4, <3>2 DEF DataTypes
  <2>6. Underway'
    BY <1>3, <2>1, <2>2, <2>3 DEF Underway, DataTypes
  <2>7. Printed' /\ OwnPorts'
    BY <1>3, <2>1 DEF Printed, OwnPorts, DataTypes
  <2>8. \A y \in Askers : Data!OnItsWay(y) => Data!OnItsWay(y)' \/ Fills(y)
    <3>1. a.to = clientaddr /\ a.of = readBuf.of
      OBVIOUS
    <3> HIDE DEF a
    <3> QED BY <2>1, <2>3, <3>1 DEF Data!OnItsWay
  <2>9. Owed'
    BY <1>14, <2>1, <2>8
  <2> QED BY <1>1, <2>5, <2>6, <2>7, <2>9
<1>10. CASE Data!Killed
  <2>1. /\ lost' = IF echo = "answer" THEN lost \cup {readBuf.of} ELSE lost
        /\ echo' = "down" /\ clientaddr' = Data!NoPort /\ readBuf' = Data!Nothing
        /\ UNCHANGED <<arg, requests, answers, asker, port, printed>>
    BY <1>10 DEF Data!Killed, Data!net, Data!client
  <2>2. Data!Nothing \in [of : Askers \cup {0}, size : 0..BufSize]
    BY IpcAssumption DEF Data!Nothing
  <2>3. DataTypes' /\ Underway'
    BY <1>3, <2>1, <2>2 DEF DataTypes, Underway
  <2>4. Printed' /\ OwnPorts'
    BY <1>3, <2>1 DEF Printed, OwnPorts, DataTypes
  <2>5. \A y \in Askers : Data!OnItsWay(y) => Data!OnItsWay(y)' \/ y \in lost'
    BY <2>1 DEF Data!OnItsWay
  <2>6. Owed'
    BY <1>14, <2>1, <2>5
  <2> QED BY <1>1, <2>3, <2>4, <2>6
<1>11. CASE Data!Restart
  <2>1. /\ echo = "down" /\ echo' = "receive"
        /\ UNCHANGED <<arg, requests, answers, asker, port, printed, clientaddr, readBuf, lost>>
    BY <1>11 DEF Data!Restart, Data!net, Data!client
  <2>2. DataTypes' /\ Underway' /\ Printed' /\ OwnPorts'
    BY <1>3, <2>1 DEF DataTypes, Underway, Printed, OwnPorts
  <2>3. \A y \in Askers : Data!OnItsWay(y) => Data!OnItsWay(y)'
    BY <2>1 DEF Data!OnItsWay
  <2>4. Owed'
    BY <1>14, <2>1, <2>3
  <2> QED BY <1>1, <2>2, <2>4
<1>12. CASE Data!Lose
  <2>1. \/ \E d \in requests : requests' = requests \ {d} /\ lost' = lost \cup {d.of} /\ UNCHANGED answers
        \/ \E d \in answers : answers' = answers \ {d} /\ lost' = lost \cup {d.of} /\ UNCHANGED requests
    BY <1>12 DEF Data!Lose
  <2>2. UNCHANGED <<arg, asker, port, printed, echo, clientaddr, readBuf>>
    BY <1>12 DEF Data!Lose, Data!client, Data!server
  <2>3. DataTypes' /\ Underway'
    BY <1>3, <2>1, <2>2 DEF DataTypes, Underway
  <2>4. Printed' /\ OwnPorts'
    BY <1>3, <2>2 DEF Printed, OwnPorts, DataTypes
  <2>5. \A y \in Askers : Data!OnItsWay(y) => Data!OnItsWay(y)' \/ y \in lost'
    BY <2>1, <2>2 DEF Data!OnItsWay
  <2>6. Owed' 
    BY <1>14, <2>1, <2>2, <2>5
  <2> QED BY <1>1, <2>3, <2>4, <2>6
<1> QED
  BY <1>4, <1>5, <1>6, <1>7, <1>8, <1>9, <1>10, <1>11, <1>12 DEF Data!Next, Data!Serves

\* What is promised of the datagrams follows.
LEMMA DataPromises == ASSUME DataInv PROVE Data!TypeOK /\ Data!AnswersForPort /\ Data!WaitsOnlyForLost
<1>1. Data!TypeOK
  BY DEF DataInv, DataTypes, Data!TypeOK
<1>2. Data!AnswersForPort
  BY DEF DataInv, Printed, Data!AnswersForPort
<1>3. Data!WaitsOnlyForLost
  BY DEF DataInv, Owed, Fills, Data!WaitsOnlyForLost
<1> QED BY <1>1, <1>2, <1>3

-----------------------------------------------------------------------------
(* The shared record: names of turns                                        *)

\* The length of the name of turn t, of a writer that was killed in turn k; byte p
\* belongs to it; a byte of turn b goes with an id of turn i, and with a sex of turn s.
Size(t, k)       == Fixed + Digits(IF k < t THEN t - 1 - k ELSE t - 1)
Belongs(p, t, k) == ~(t = 0 \/ p > Size(t, k))
Left(b, t, k)    == b <= k /\ k < t
Near(b, i, k)    == b+1..i-1 \subseteq {k} \/ Left(b, i, k)
Fits(b, i, s, k) == b > 0 /\ (b >= s \/ Left(b, s, k)) /\ Near(b, i, k)

LEMMA NamesOfTurns ==
  /\ \A t : Length(t) = Size(t, cut)
  /\ \A p, t : Ends0(p, t) \/ Belongs(p, t, cut)
  /\ \A b, t : LeftOver(b, t) <=> Left(b, t, cut)
  BY DEF Length, Index, Size, Ends0, LeftOver, Left, Belongs

\* Names fit into their bytes, and get longer with their numbers.
LEMMA DigitsFacts ==
  /\ \A i \in Int : Digits(i) \in Nat /\ Digits(i) >= 1 /\ Fixed + Digits(i) + 1 <= Bytes
  /\ \A i, j \in Int : i <= j => Digits(i) <= Digits(j)
  /\ Bytes \in Nat /\ Fixed \in Nat
<1> DEFINE Upto(i) == {n \in Longer : n <= i}
<1>1. IsFiniteSet(Longer) /\ Cardinality(Longer) \in Nat /\ Longer \subseteq Nat /\ Fixed \in Nat
  BY RecordAssumption, FS_CardinalityType
<1>2. ASSUME NEW i \in Int
      PROVE  /\ IsFiniteSet(Upto(i)) /\ Cardinality(Upto(i)) \in Nat
             /\ Cardinality(Upto(i)) <= Cardinality(Longer)
  <2>1. Upto(i) \subseteq Longer
    OBVIOUS
  <2> HIDE DEF Upto
  <2> QED BY <1>1, <2>1, FS_Subset, FS_CardinalityType
<1>3. ASSUME NEW i \in Int, NEW j \in Int, i <= j
      PROVE  Cardinality(Upto(i)) <= Cardinality(Upto(j))
  <2>1. Upto(i) \subseteq Upto(j)
    <3>1. ASSUME NEW n \in Upto(i) PROVE n \in Upto(j)
      <4>1. n \in Longer /\ n \in Int /\ n <= i
        BY <1>1
      <4>2. n <= j
        BY <1>3, <4>1
      <4> QED BY <4>1, <4>2
    <3> QED BY <3>1
  <2>2. IsFiniteSet(Upto(j))
    BY <1>2
  <2> HIDE DEF Upto
  <2> QED BY <2>1, <2>2, FS_Subset
<1>4. \A i : Digits(i) = 1 + Cardinality(Upto(i))
  BY DEF Digits
<1>5. Bytes = Fixed + 2 + Cardinality(Longer)
  BY DEF Bytes
<1> HIDE DEF Upto
<1>6. ASSUME NEW i \in Int
      PROVE  Digits(i) \in Nat /\ Digits(i) >= 1 /\ Fixed + Digits(i) + 1 <= Bytes
  BY <1>1, <1>2, <1>4, <1>5
<1>7. ASSUME NEW i \in Int, NEW j \in Int, i <= j PROVE Digits(i) <= Digits(j)
  BY <1>2, <1>3, <1>4, <1>7
<1> QED BY <1>1, <1>5, <1>6, <1>7

LEMMA SizeFacts ==
  ASSUME NEW t \in Nat, NEW k \in Nat
  PROVE  /\ Size(t, k) \in Nat /\ Size(t, k) >= 1 /\ Size(t, k) + 1 <= Bytes
         /\ Belongs(1, t, k) <=> t # 0
<1>1. (IF k < t THEN t - 1 - k ELSE t - 1) \in Int
  OBVIOUS
<1>2. Size(t, k) \in Nat /\ Size(t, k) >= 1 /\ Size(t, k) + 1 <= Bytes
  BY <1>1, DigitsFacts DEF Size
<1> QED BY <1>2 DEF Belongs

\* A longer name than that of turn t is a later one, or of the run that was killed.
LEMMA LongerIsLeft ==
  ASSUME NEW k \in Nat, NEW b \in Nat, NEW t \in Nat, 0 < b, b <= t, Size(t, k) < Size(b, k)
  PROVE  Left(b, t, k)
<1> DEFINE Idx(n) == IF k < n THEN n - 1 - k ELSE n - 1
<1>1. SUFFICES ASSUME ~Left(b, t, k) PROVE FALSE
  OBVIOUS
<1>2. Idx(b) \in Int /\ Idx(t) \in Int /\ Idx(b) <= Idx(t)
  BY <1>1 DEF Left
<1>3. Size(b, k) = Fixed + Digits(Idx(b)) /\ Size(t, k) = Fixed + Digits(Idx(t))
  BY DEF Size
<1> HIDE DEF Idx
<1>4. Digits(Idx(b)) <= Digits(Idx(t)) /\ Digits(Idx(b)) \in Nat /\ Digits(Idx(t)) \in Nat
  BY <1>2, DigitsFacts
<1> QED BY <1>3, <1>4, DigitsFacts

\* What was written last goes with everything.
LEMMA LastFits ==
  ASSUME NEW t \in Nat, 0 < t, NEW i \in Int, NEW s \in Int, NEW k, i <= t, s <= t
  PROVE  Fits(t, i, s, k)
<1>1. t+1..i-1 = {}
  OBVIOUS
<1> QED BY <1>1 DEF Fits, Near

\* What a kill in turn t makes of bytes that were written before it, or in it.
LEMMA KillFits ==
  ASSUME NEW t \in Nat, NEW b \in Nat
  PROVE  /\ b <= t => \A p : Belongs(p, b, t) <=> Belongs(p, b, 0)
         /\ \A i, s \in Int : Fits(b, i, s, 0) => Fits(b, i, s, t)
         /\ 0 < b /\ Near(b, t, 0) => Near(b, t + 1, t)
<1>1. ASSUME b <= t PROVE \A p : Belongs(p, b, t) <=> Belongs(p, b, 0)
  <2>1. Size(b, t) = Size(b, 0) \/ b = 0
    BY <1>1 DEF Size
  <2> QED BY <2>1 DEF Belongs
<1>2. ASSUME NEW i \in Int, 0 < b, Near(b, i, 0) PROVE b + 1 > i - 1
  <2>1. b+1..i-1 \subseteq {0}
    BY <1>2 DEF Near, Left
  <2>2. CASE b + 1 <= i - 1
    <3>1. b + 1 \in b+1..i-1
      BY <2>2
    <3> QED BY <2>1, <3>1
  <2> QED BY <2>2
<1>3. ASSUME NEW i \in Int, NEW s \in Int, Fits(b, i, s, 0) PROVE Fits(b, i, s, t)
  <2>1. 0 < b /\ Near(b, i, 0) /\ b >= s
    BY <1>3 DEF Fits, Left
  <2>2. b+1..i-1 = {}
    BY <1>2, <2>1
  <2> QED BY <2>1, <2>2 DEF Fits, Near
<1>4. ASSUME 0 < b, Near(b, t, 0) PROVE Near(b, t + 1, t)
  <2>1. b+1..(t+1)-1 \subseteq {t}
    BY <1>2, <1>4
  <2> QED BY <2>1 DEF Near
<1> QED BY <1>1, <1>3, <1>4

-----------------------------------------------------------------------------
(* The shared record: the invariant                                         *)

\* The bytes of a name go with the fields around it.  Who opens the file that has the
\* name mmap.temp finds the record of the turn before, unless the writer was killed.
MemInv ==
  /\ \A x \in Files : \A f \in Fields : mem[x][f] <= turn
  /\ \A x \in Files : \A p \in Name :
       Belongs(p, mem[x][p], cut) => Fits(mem[x][p], mem[x][Id], mem[x][Sex], cut)
  /\ link # NoFile /\ wfile # NoFile /\ link # wfile => \A f \in Fields : mem[link][f] = 0
  /\ wat = "open" /\ link # NoFile =>
       \A p \in Name : Belongs(p, mem[link][p], cut) => Near(mem[link][p], turn, cut)

\* What the writer has written in this turn.
WriteInv ==
  /\ wat # "write" => field = Id
  /\ wfile # NoFile =>
       /\ \A p \in Name : Belongs(p, mem[wfile][p], cut) => Near(mem[wfile][p], turn, cut)
       /\ field # Id => mem[wfile][Id] = turn
       /\ field \in Name => field <= Size(turn, cut) + 1
       /\ \A p \in Name : p < field /\ p <= Size(turn, cut) + 1 => mem[wfile][p] = turn

\* What a reader has of its line, and what it may still find for it.
Line(r) ==
  /\ seenId[r] <= turn /\ seenSex[r] <= turn
  /\ rfile[r] = NoFile => seenId[r] = Unread /\ seenSex[r] = Unread
  /\ seenId[r] = Unread \/ seenSex[r] = Unread => rat[r] # "copy" /\ len[r] = 0 /\ bytes[r] = {}
  /\ rfile[r] # NoFile => \A p \in Name : Belongs(p, mem[rfile[r]][p], cut) \/ p <= len[r] =>
                            Fits(mem[rfile[r]][p], seenId[r], seenSex[r], cut)
  /\ \A b \in bytes[r] : Fits(b, seenId[r], seenSex[r], cut)

\* A reader that is not early has a file with its size.
SizeInv ==
  /\ wat = "open" <=> wfile = NoFile
  /\ \A r \in Readers :
       /\ rat[r] \in {"unlink", "print", "copy"} =>
            rfile[r] \in Files /\ (r \in early \/ rfile[r] \in full)
       /\ rat[r] = "open" <=> rfile[r] = NoFile
       /\ rat[r] = "killed" => r \in early

\* In 07mmap_IPC the name mmap.temp stays.
TextInv ==
  kind = "text" => /\ \A r \in Readers : rat[r] # "unlink"
                   /\ link = NoFile => wfile = NoFile /\ \A r \in Readers : rfile[r] = NoFile

RecordInv ==
  /\ TypeOK /\ SizeInv /\ TextInv
  /\ kind = "record" => MemInv /\ WriteInv /\ \A r \in Readers : Line(r)

-----------------------------------------------------------------------------
(* The shared record: the steps of both programs                            *)

\* The file that has the name, or one that nobody has open.
Free(x) == x \in Files /\ IF link # NoFile THEN x = link ELSE x \notin InUse

WriterTakes(x) ==
  /\ wat = "open" /\ wat' = "extend" /\ wfile' = x
  /\ link' = x /\ full' = Kept(x) /\ mem' = Found(x)
  /\ UNCHANGED <<turn, field, cut, readers>>

Writes ==
  /\ wat = "write" /\ turn <= MaxTurns
  /\ mem' = [mem EXCEPT ![wfile][field] = turn]
  /\ field' \in Fields /\ turn' \in {turn, turn + 1}
  /\ kind = "record" => /\ field' = FieldAfter(field)
                        /\ turn' = IF field' = Id THEN turn + 1 ELSE turn
  /\ UNCHANGED <<link, full, wat, wfile, cut, readers>>

Killed ==
  /\ wat # "open" /\ turn <= MaxTurns /\ cut = 0
  /\ wat' = "open" /\ wfile' = NoFile
  /\ field' \in Fields /\ (kind = "record" => field' = Id)
  /\ turn' = turn + 1 /\ cut' = turn
  /\ UNCHANGED <<file, readers>>

ReaderTakes(r, x) ==
  /\ rat[r] = "open" /\ rfile' = [rfile EXCEPT ![r] = x]
  /\ link' = x /\ full' = Kept(x) /\ mem' = Found(x)
  /\ early' = IF link \in full THEN early ELSE early \cup {r}
  /\ \/ rat' = [rat EXCEPT ![r] = "print"]
     \/ rat' = [rat EXCEPT ![r] = "unlink"] /\ kind # "text"
  /\ UNCHANGED <<writer, line>>

Finds(r) ==
  /\ Reads(r) /\ (kind = "record" => seenId[r] # Unread /\ seenSex[r] # Unread)
  /\ \/ rat' = [rat EXCEPT ![r] = "copy"] /\ UNCHANGED len
     \/ /\ Belongs(len[r] + 1, mem[rfile[r]][len[r] + 1], cut)
        /\ len' = [len EXCEPT ![r] = @ + 1] /\ UNCHANGED rat
  /\ UNCHANGED <<file, writer, rfile, seenId, seenSex, copied, bytes, early>>

RecordStep ==
  \/ \E x : Free(x) /\ WriterTakes(x)
  \/ WriterExtends \/ Writes \/ Killed
  \/ \E r \in Readers : \/ \E x : Free(x) /\ ReaderTakes(r, x)
                        \/ ReaderUnlinks(r) \/ BusError(r) \/ ReadsId(r) \/ ReadsSex(r)
                        \/ Finds(r) \/ CopiesByte(r) \/ LineIsOut(r)

\* There are enough files for somebody who opens one.
LEMMA OpenedIsFree ==
  ASSUME RecordInv, wat = "open" \/ \E r \in Readers : rat[r] = "open"
  PROVE  Free(Opened)
<1>1. CASE link # NoFile
  BY <1>1 DEF RecordInv, TypeOK, Free, Opened
<1>2. CASE link = NoFile
  <2>1. \E x \in Files : x \notin InUse
    <3>1. PICK y \in Files : TRUE
      BY IpcAssumption
    <3>2. CASE wat = "open"
      <4> DEFINE f == [r \in Readers |-> IF rfile[r] = NoFile THEN y ELSE rfile[r]]
      <4>1. f \in [Readers -> Files]
        BY DEF RecordInv, TypeOK
      <4>2. PICK x \in Files : \A r \in Readers : f[r] # x
        BY <4>1, IpcAssumption
      <4>3. wfile = NoFile /\ x # NoFile /\ \A r \in Readers : rfile[r] # x
        BY <3>2, <4>2, IpcAssumption DEF RecordInv, SizeInv
      <4> QED BY <1>2, <4>3 DEF InUse
    <3>3. ASSUME NEW q \in Readers, rat[q] = "open" PROVE \E x \in Files : x \notin InUse
      <4> DEFINE w == IF wfile = NoFile THEN y ELSE wfile
                 f == [r \in Readers |-> IF rfile[r] = NoFile THEN w ELSE rfile[r]]
      <4>1. w \in Files /\ f \in [Readers -> Files]
        BY DEF RecordInv, TypeOK
      <4>2. PICK x \in Files : \A r \in Readers : f[r] # x
        BY <4>1, IpcAssumption
      <4>3. x # NoFile /\ \A r \in Readers : rfile[r] # x
        BY <4>2, IpcAssumption
      <4>4. rfile[q] = NoFile
        BY <3>3 DEF RecordInv, SizeInv
      <4>5. wfile # x
        BY <4>2, <4>3, <4>4
      <4> QED BY <1>2, <4>3, <4>5 DEF InUse
    <3> QED BY <3>2, <3>3
  <2> QED BY <1>2, <2>1 DEF Free, Opened
<1> QED BY <1>1, <1>2

LEMMA FieldsAreInts ==
  /\ Bytes \in Nat /\ 2 <= Bytes /\ Id = 0 /\ Sex = Bytes + 1 /\ Name = 1..Bytes
  /\ Fields = 0..Bytes+1 /\ Id \in Fields /\ Sex \in Fields /\ Name \subseteq Fields
  /\ Id \notin Name /\ Sex \notin Name /\ Id # Sex /\ 1 \in Name
<1>1. Bytes \in Nat /\ 2 <= Bytes
  BY DigitsFacts
<1> QED BY <1>1 DEF Id, Sex, Name, Fields

\* The field that the writer turns to.
LEMMA NextField ==
  ASSUME Unlinking, turn \in Nat, cut \in Nat, NEW f \in Fields, f \in Name => f <= Size(turn, cut) + 1
  PROVE  /\ FieldAfter(f) \in Fields
         /\ f = Id => FieldAfter(f) = 1
         /\ f \in Name /\ f <= Size(turn, cut) => FieldAfter(f) = f + 1 /\ f + 1 \in Name
         /\ f \in Name /\ f > Size(turn, cut) => f = Size(turn, cut) + 1 /\ FieldAfter(f) = Sex
         /\ f = Sex => FieldAfter(f) = Id
<1>1. Size(turn, cut) \in Nat /\ Size(turn, cut) + 1 <= Bytes /\ Length(turn) = Size(turn, cut)
  BY SizeFacts, NamesOfTurns
<1>2. First = Id
  BY DEF First
<1> QED BY <1>1, <1>2, FieldsAreInts DEF FieldAfter

\* The steps of the writer and the readers of 08mmap_process are such steps.
LEMMA RecordTakes == ASSUME RecordInv, kind = "record", Next PROVE RecordStep
<1>0. Unlinking /\ First = Id
  BY IpcAssumption DEF First
<1>1. CASE WriterOpens
  <2>1. Free(Opened)
    BY <1>1, OpenedIsFree DEF WriterOpens
  <2>2. WriterTakes(Opened)
    BY <1>1 DEF WriterOpens, WriterTakes
  <2> QED BY <2>1, <2>2 DEF RecordStep
<1>2. ASSUME NEW r \in Readers, ReaderOpens(r) PROVE RecordStep
  <2>1. Free(Opened)
    BY <1>2, OpenedIsFree DEF ReaderOpens
  <2>2. ReaderTakes(r, Opened)
    BY <1>0, <1>2 DEF ReaderOpens, ReaderTakes
  <2> QED BY <2>1, <2>2 DEF RecordStep
<1>3. CASE WriterWrites
  <2>1. field' \in Fields
    <3>1. field' = FieldAfter(field) /\ field \in Fields /\ turn \in Nat /\ cut \in Nat
      BY <1>3, RecordAssumption DEF WriterWrites, RecordInv, TypeOK
    <3>2. field \in Name => field <= Size(turn, cut) + 1
      BY <1>3 DEF RecordInv, WriteInv, SizeInv, WriterWrites
    <3> QED BY <1>0, <3>1, <3>2, NextField
  <2>2. Writes
    BY <1>0, <1>3, <2>1 DEF WriterWrites, Writes
  <2> QED BY <2>2 DEF RecordStep
<1>4. CASE WriterKilled
  <2>1. Killed
    BY <1>0, <1>4, FieldsAreInts DEF WriterKilled, Killed
  <2> QED BY <2>1 DEF RecordStep
<1>5. ASSUME NEW r \in Readers, FindsByte(r) PROVE RecordStep
  <2>1. Ends0(len[r] + 1, mem[rfile[r]][len[r] + 1])
          \/ Belongs(len[r] + 1, mem[rfile[r]][len[r] + 1], cut)
    BY NamesOfTurns
  <2>2. Finds(r)
    <3>1. \/ rat' = [rat EXCEPT ![r] = "copy"] /\ UNCHANGED len
          \/ /\ Belongs(len[r] + 1, mem[rfile[r]][len[r] + 1], cut)
             /\ len' = [len EXCEPT ![r] = @ + 1] /\ UNCHANGED rat
      BY <1>5, <2>1 DEF FindsByte
    <3> QED BY <1>0, <1>5, <3>1 DEF FindsByte, Finds
  <2> QED BY <2>2 DEF RecordStep
<1> QED BY <1>1, <1>2, <1>3, <1>4, <1>5 DEF Next, Writer, Reader, Prints, RecordStep

\* The program of 07mmap_IPC has one file, which it uses as that of 08 uses its first.
LEMMA TextTakes == ASSUME RecordInv, kind = "text", Text!Next PROVE RecordStep
<1>1. AnyFile \in Files /\ AnyReader \in Readers
  BY IpcAssumption DEF AnyFile, AnyReader
<1>k. \A S : Text!Cardinality(S) = Cardinality(S)
  BY DEF Text!Cardinality, Cardinality
<1>a. /\ Text!NoFile = NoFile /\ Text!Bytes = Bytes /\ Text!Name = Name /\ Text!Id = Id
      /\ Text!Sex = Sex /\ Text!Fields = Fields /\ Text!Blank = Blank /\ Text!First = 1
  <2>1. /\ Text!NoFile = NoFile /\ Text!Bytes = Bytes /\ Text!Id = Id /\ Text!First = 1
    BY <1>k DEF Text!NoFile, NoFile, Text!Bytes, Bytes, Text!Id, Id, Text!First
  <2>2. Text!Name = Name /\ Text!Sex = Sex
    BY <2>1 DEF Text!Name, Name, Text!Sex, Sex
  <2>3. Text!Fields = Fields
    BY <2>1, <2>2 DEF Text!Fields, Fields
  <2> QED BY <2>1, <2>2, <2>3 DEF Text!Blank, Blank
<1>b. \A x : Text!Kept(x) = Kept(x) /\ Text!Found(x) = Found(x)
  BY <1>a DEF Text!Kept, Kept, Text!Found, Found
<1>s. \A t : Text!Length(t) = Size(t, cut)
  <2>1. \A i : Text!Digits(i) = Digits(i)
    BY <1>k DEF Text!Digits, Digits
  <2> QED BY <2>1 DEF Text!Length, Text!Index, Size
<1>c. \A p, t : Text!Ends0(p, t) \/ Belongs(p, t, cut)
  BY <1>s DEF Text!Ends0, Belongs
<1>d. \A f \in Fields : Text!FieldAfter(f) \in Fields
  <2>1. turn \in Nat /\ cut \in Nat
    BY RecordAssumption DEF RecordInv, TypeOK
  <2>2. Text!Length(turn) \in Nat /\ Text!Length(turn) + 1 <= Bytes
    BY <1>s, <2>1, SizeFacts
  <2> QED BY <1>a, <2>2, FieldsAreInts DEF Text!FieldAfter
<1>2. Free(Text!Opened)
  <2>1. CASE link # NoFile
    BY <1>a, <2>1 DEF RecordInv, TypeOK, Free, Text!Opened
  <2>2. CASE link = NoFile
    <3>1. \A r \in Readers : rfile[r] = NoFile /\ wfile = NoFile
      BY <2>2 DEF RecordInv, TextInv
    <3>2. AnyFile \notin InUse /\ AnyFile \notin Text!InUse
      BY <1>1, <2>2, <3>1, IpcAssumption DEF InUse, Text!InUse
    <3>3. Text!Opened = AnyFile
      BY <1>a, <2>2, <3>2 DEF Text!Opened
    <3> QED BY <1>1, <2>2, <3>2, <3>3 DEF Free
  <2> QED BY <2>1, <2>2
<1>3. CASE Text!WriterOpens
  <2>1. WriterTakes(Text!Opened)
    BY <1>b, <1>3 DEF Text!WriterOpens, WriterTakes, Text!readers, readers, Text!line, line
  <2> QED BY <1>2, <2>1 DEF RecordStep
<1>4. CASE Text!WriterExtends
  BY <1>4 DEF RecordStep, Text!WriterExtends, WriterExtends, Text!readers, readers, Text!line, line
<1>5. CASE Text!WriterWrites
  <2>1. field' \in Fields
    <3>1. field \in Fields /\ field' = Text!FieldAfter(field)
      BY <1>5 DEF Text!WriterWrites, RecordInv, TypeOK
    <3> QED BY <1>d, <3>1
  <2>2. Writes
    BY <1>5, <2>1 DEF Text!WriterWrites, Writes, Text!readers, readers, Text!line, line
  <2> QED BY <2>2 DEF RecordStep
<1>6. CASE Text!WriterKilled
  <2>1. Killed
    BY <1>a, <1>6, FieldsAreInts DEF Text!WriterKilled, Killed, Text!readers, readers, Text!line, line,
       Text!file, file
  <2> QED BY <2>1 DEF RecordStep
<1>7. ASSUME NEW r \in {AnyReader}, Text!Reader(r) PROVE RecordStep
  <2> USE DEF Text!writer, writer, Text!file, file, Text!line, line
  <2>1. CASE Text!ReaderOpens(r)
    <3>1. ReaderTakes(r, Text!Opened)
      BY <1>b, <2>1 DEF Text!ReaderOpens, ReaderTakes
    <3> QED BY <1>1, <1>2, <3>1 DEF RecordStep
  <2>2. CASE Text!ReaderUnlinks(r)
    BY <1>1, <1>a, <2>2 DEF RecordStep, Text!ReaderUnlinks, ReaderUnlinks
  <2>3. CASE Text!BusError(r)
    BY <1>1, <2>3 DEF RecordStep, Text!BusError, BusError
  <2>4. CASE Text!FindsByte(r)
    <3>1. Finds(r)
      <4>1. \/ rat' = [rat EXCEPT ![r] = "copy"] /\ UNCHANGED len
            \/ /\ Belongs(len[r] + 1, mem[rfile[r]][len[r] + 1], cut)
               /\ len' = [len EXCEPT ![r] = @ + 1] /\ UNCHANGED rat
        BY <1>c, <2>4 DEF Text!FindsByte
      <4> QED BY <2>4, <4>1 DEF Text!FindsByte, Finds, Text!Reads, Reads
    <3> QED BY <1>1, <3>1 DEF RecordStep
  <2>5. CASE Text!CopiesByte(r)
    BY <1>1, <2>5 DEF RecordStep, Text!CopiesByte, CopiesByte
  <2>6. CASE Text!LineIsOut(r)
    <3>1. Text!Unread = Unread
      BY DEF Text!Unread, Unread
    <3> QED BY <1>1, <2>6, <3>1 DEF RecordStep, Text!LineIsOut, LineIsOut
  <2>7. ~Text!ReadsId(r) /\ ~Text!ReadsSex(r)
    BY DEF Text!ReadsId, Text!ReadsSex
  <2> QED BY <1>7, <2>1, <2>2, <2>3, <2>4, <2>5, <2>6, <2>7 DEF Text!Reader, Text!Prints
<1> QED BY <1>3, <1>4, <1>5, <1>6, <1>7 DEF Text!Next, Text!Writer

-----------------------------------------------------------------------------
(* The shared record: types, files and sizes                                *)

\* What opening a file does to the files.
LEMMA FileTaken ==
  ASSUME RecordInv, NEW x, Free(x), link' = x, full' = Kept(x), mem' = Found(x)
  PROVE  /\ x \in Files /\ x # NoFile /\ full' \subseteq Files
         /\ mem' \in [Files -> [Fields -> 0..MaxTurns]]
         /\ \A y \in Files : y # x => mem'[y] = mem[y] /\ (y \in full => y \in full')
         /\ link \in full => x \in full'
         /\ \/ x = link /\ mem' = mem /\ full' = full
            \/ /\ link = NoFile /\ wfile # x /\ \A r \in Readers : rfile[r] # x
               /\ \A f \in Fields : mem'[x][f] = 0
<1>1. x \in Files /\ x # NoFile
  BY IpcAssumption DEF Free
<1>2. CASE link # NoFile
  BY <1>1, <1>2 DEF Free, Kept, Found, RecordInv, TypeOK
<1>3. CASE link = NoFile
  <2>1. mem' = [mem EXCEPT ![x] = Blank] /\ full' = full \ {x}
    BY <1>3 DEF Kept, Found
  <2>2. Blank \in [Fields -> 0..MaxTurns] /\ \A f \in Fields : Blank[f] = 0
    BY RecordAssumption DEF Blank
  <2>3. wfile # x /\ \A r \in Readers : rfile[r] # x
    BY <1>3 DEF Free, InUse
  <2>4. link \notin full
    BY <1>3, IpcAssumption DEF RecordInv, TypeOK
  <2> QED BY <1>1, <1>3, <2>1, <2>2, <2>3, <2>4 DEF RecordInv, TypeOK
<1> QED BY <1>2, <1>3

\* Every step keeps the types, and what is known of the sizes.
LEMMA TypesKept ==
  ASSUME RecordInv, kind' = kind, RecordStep PROVE TypeOK' /\ SizeInv' /\ TextInv'
<1> USE DEF RecordInv, TypeOK, SizeInv, TextInv, file, line, writer, readers
<1>0. /\ MaxTurns \in Nat /\ turn \in Nat /\ cut \in Nat /\ Bytes \in Nat /\ NoFile \notin Files
      /\ -1 \in -1..MaxTurns /\ 0 \in 0..Bytes-1 /\ 0..MaxTurns \subseteq -1..MaxTurns
  BY RecordAssumption, IpcAssumption, FieldsAreInts
<1>1. ASSUME NEW x, Free(x), WriterTakes(x) PROVE TypeOK' /\ SizeInv' /\ TextInv'
  <2>1. link' = x /\ full' = Kept(x) /\ mem' = Found(x)
    BY <1>1 DEF WriterTakes
  <2>2. /\ x \in Files /\ x # NoFile /\ full' \subseteq Files
        /\ mem' \in [Files -> [Fields -> 0..MaxTurns]]
        /\ \A y \in Files : y # x => mem'[y] = mem[y] /\ (y \in full => y \in full')
        /\ (x = link /\ full' = full) \/ \A r \in Readers : rfile[r] # x
    BY <1>1, <2>1, FileTaken
  <2> QED BY <1>1, <2>1, <2>2 DEF WriterTakes
<1>2. CASE WriterExtends
  BY <1>2 DEF WriterExtends
<1>3. CASE Writes
  <2>1. turn \in 0..MaxTurns /\ turn' \in 1..MaxTurns+1
    BY <1>0, <1>3 DEF Writes
  <2>2. mem' \in [Files -> [Fields -> 0..MaxTurns]]
    BY <1>3, <2>1 DEF Writes
  <2> QED BY <1>3, <2>1, <2>2 DEF Writes
<1>4. CASE Killed
  <2>1. cut' \in 0..MaxTurns /\ turn' \in 1..MaxTurns+1
    BY <1>0, <1>4 DEF Killed
  <2> QED BY <1>4, <2>1 DEF Killed
<1>5. ASSUME NEW r \in Readers, NEW x, Free(x), ReaderTakes(r, x) PROVE TypeOK' /\ SizeInv' /\ TextInv'
  <2>1. link' = x /\ full' = Kept(x) /\ mem' = Found(x) /\ rfile' = [rfile EXCEPT ![r] = x]
        /\ early' = IF link \in full THEN early ELSE early \cup {r}
    BY <1>5 DEF ReaderTakes
  <2>2. /\ x \in Files /\ x # NoFile /\ full' \subseteq Files
        /\ mem' \in [Files -> [Fields -> 0..MaxTurns]]
        /\ \A y \in Files : y # x => mem'[y] = mem[y] /\ (y \in full => y \in full')
        /\ link \in full => x \in full'
        /\ (x = link /\ full' = full) \/ \A q \in Readers : rfile[q] # x
    BY <1>5, <2>1, FileTaken
  <2>3. r \in early' \/ x \in full'
    BY <2>1, <2>2
  <2>4. TypeOK'
    BY <1>5, <2>1, <2>2 DEF ReaderTakes
  <2>5. SizeInv'
    BY <1>5, <2>1, <2>2, <2>3 DEF ReaderTakes
  <2>6. TextInv'
    BY <1>5, <2>1, <2>2 DEF ReaderTakes
  <2> QED BY <2>4, <2>5, <2>6
<1>6. ASSUME NEW r \in Readers, ReaderUnlinks(r) PROVE TypeOK' /\ SizeInv' /\ TextInv'
  BY <1>6 DEF ReaderUnlinks
<1>7. ASSUME NEW r \in Readers, BusError(r) PROVE TypeOK' /\ SizeInv' /\ TextInv'
  BY <1>7 DEF BusError
<1>8. ASSUME NEW r \in Readers, ReadsId(r) \/ ReadsSex(r) PROVE TypeOK' /\ SizeInv' /\ TextInv'
  <2>1. rfile[r] \in Files
    BY <1>8 DEF ReadsId, ReadsSex, Reads
  <2>2. mem[rfile[r]][Id] \in -1..MaxTurns /\ mem[rfile[r]][Sex] \in -1..MaxTurns
    <3>1. mem[rfile[r]][Id] \in 0..MaxTurns /\ mem[rfile[r]][Sex] \in 0..MaxTurns
      <4>1. Id \in Fields /\ Sex \in Fields
        BY FieldsAreInts
      <4> QED BY <2>1, <4>1
    <3> QED BY <1>0, <3>1
  <2>3. seenId' \in [Readers -> -1..MaxTurns] /\ seenSex' \in [Readers -> -1..MaxTurns]
    BY <1>8, <2>2 DEF ReadsId, ReadsSex
  <2> QED BY <1>8, <2>3 DEF ReadsId, ReadsSex
<1>9. ASSUME NEW r \in Readers, Finds(r) PROVE TypeOK' /\ SizeInv' /\ TextInv'
  <2>1. rat[r] = "print" /\ rfile[r] \in Files
    BY <1>9 DEF Finds, Reads
  <2>2. CASE rat' = [rat EXCEPT ![r] = "copy"] /\ UNCHANGED len
    BY <1>9, <2>1, <2>2 DEF Finds
  <2>3. CASE /\ Belongs(len[r] + 1, mem[rfile[r]][len[r] + 1], cut)
             /\ len' = [len EXCEPT ![r] = @ + 1] /\ UNCHANGED rat
    <3>1. len[r] \in Nat /\ len[r] + 1 \in Fields
      BY <1>0, FieldsAreInts
    <3>2. mem[rfile[r]][len[r] + 1] \in Nat
      BY <1>0, <2>1, <3>1
    <3>3. len[r] + 1 <= Bytes - 1
      <4> DEFINE b == mem[rfile[r]][len[r] + 1]
      <4>1. Size(b, cut) \in Nat /\ Size(b, cut) + 1 <= Bytes
        BY <1>0, <3>2, SizeFacts
      <4>2. ~(len[r] + 1 > Size(b, cut))
        BY <2>3 DEF Belongs
      <4> QED BY <1>0, <3>1, <4>1, <4>2
    <3>4. len' \in [Readers -> 0..Bytes-1]
      BY <1>0, <2>3, <3>1, <3>3
    <3> QED BY <1>9, <2>3, <3>4 DEF Finds
  <2> QED BY <1>9, <2>2, <2>3 DEF Finds
<1>10. ASSUME NEW r \in Readers, CopiesByte(r) PROVE TypeOK' /\ SizeInv' /\ TextInv'
  <2>1. rfile[r] \in Files /\ copied[r] \in Nat /\ copied[r] + 1 \in 0..Bytes-1
    BY <1>0, <1>10 DEF CopiesByte
  <2>2. copied[r] + 1 \in Fields
    BY <2>1, FieldsAreInts
  <2>3. mem[rfile[r]][copied[r] + 1] \in 0..MaxTurns
    BY <2>1, <2>2
  <2>4. copied' \in [Readers -> 0..Bytes-1] /\ bytes' \in [Readers -> SUBSET (0..MaxTurns)]
    BY <1>10, <2>1, <2>3 DEF CopiesByte
  <2> QED BY <1>10, <2>4 DEF CopiesByte
<1>11. ASSUME NEW r \in Readers, LineIsOut(r) PROVE TypeOK' /\ SizeInv' /\ TextInv'
  <2>1. /\ seenId' \in [Readers -> -1..MaxTurns] /\ seenSex' \in [Readers -> -1..MaxTurns]
        /\ len' \in [Readers -> 0..Bytes-1] /\ copied' \in [Readers -> 0..Bytes-1]
        /\ bytes' \in [Readers -> SUBSET (0..MaxTurns)]
    BY <1>0, <1>11 DEF LineIsOut, Unread
  <2> QED BY <1>11, <2>1 DEF LineIsOut
<1> QED BY <1>1, <1>2, <1>3, <1>4, <1>5, <1>6, <1>7, <1>8, <1>9, <1>10, <1>11 DEF RecordStep

-----------------------------------------------------------------------------
(* The shared record: the writer's bytes                                    *)

\* What is known of the variables while 08mmap_process runs.
LEMMA RecordFacts ==
  ASSUME RecordInv, kind = "record"
  PROVE  /\ MemInv /\ WriteInv /\ \A r \in Readers : Line(r)
         /\ turn \in Nat /\ 0 < turn /\ cut \in Nat /\ field \in Fields /\ Unlinking
         /\ link \in Files \cup {NoFile} /\ wfile \in Files \cup {NoFile} /\ NoFile \notin Files
         /\ \A x \in Files : mem[x] \in [Fields -> Nat]
         /\ \A x \in Files : mem[x][Id] \in Nat /\ mem[x][Sex] \in Nat
         /\ \A x \in Files, p \in Name : mem[x][p] \in Nat
         /\ \A r \in Readers : seenId[r] \in Int /\ seenSex[r] \in Int /\ len[r] \in Nat
         /\ \A r \in Readers : bytes[r] \subseteq Nat /\ rfile[r] \in Files \cup {NoFile}
<1>1. TypeOK /\ MaxTurns \in Nat
  BY RecordAssumption DEF RecordInv
<1>2. \A x \in Files : mem[x] \in [Fields -> Nat]
  BY <1>1 DEF TypeOK
<1>3. Id \in Fields /\ Sex \in Fields /\ Name \subseteq Fields /\ Bytes \in Nat
  BY FieldsAreInts
<1> HIDE DEF RecordInv
<1>4. MemInv /\ WriteInv /\ \A r \in Readers : Line(r)
  BY DEF RecordInv
<1>5. \A x \in Files : mem[x][Id] \in Nat /\ mem[x][Sex] \in Nat
  BY <1>2, <1>3
<1>6. \A x \in Files, p \in Name : mem[x][p] \in Nat
  BY <1>2, <1>3
<1>7. \A r \in Readers : seenId[r] \in Int /\ seenSex[r] \in Int /\ len[r] \in Nat
  BY <1>1, <1>3 DEF TypeOK
<1>8. \A r \in Readers : bytes[r] \subseteq Nat /\ rfile[r] \in Files \cup {NoFile}
  BY <1>1 DEF TypeOK
<1>9. turn \in Nat /\ 0 < turn /\ cut \in Nat /\ field \in Fields
  BY <1>1 DEF TypeOK
<1> QED BY <1>1, <1>2, <1>4, <1>5, <1>6, <1>7, <1>8, <1>9, IpcAssumption DEF TypeOK

\* A file that has never been written holds no name.
LEMMA NoNameYet == \A p, k : ~Belongs(p, 0, k)
  BY DEF Belongs

\* Opening keeps what is known of the bytes,
LEMMA TakesKeepBytes ==
  ASSUME RecordInv, kind = "record", NEW x, Free(x), link' = x, full' = Kept(x), mem' = Found(x),
         UNCHANGED <<turn, field, cut>>,
         (wat = "open" /\ wat' = "extend" /\ wfile' = x) \/ UNCHANGED <<wat, wfile>>
  PROVE  MemInv' /\ WriteInv'
<1>1. /\ x \in Files /\ x # NoFile
      /\ \A y \in Files : y # x => mem'[y] = mem[y]
      /\ \/ x = link /\ mem' = mem
         \/ /\ link = NoFile /\ wfile # x
            /\ \A f \in Fields : mem'[x][f] = 0
  BY FileTaken
<1> DEFINE Old == \A y \in Files : mem'[y] = mem[y]
           New(y) == y = x /\ link = NoFile /\ wfile # x /\ \A f \in Fields : mem'[y][f] = 0
<1>2. \A y \in Files : mem'[y] = mem[y] \/ New(y)
  BY <1>1
<1>3. \A y : New(y) => /\ \A p \in Name : mem'[y][p] = 0 /\ ~Belongs(p, mem'[y][p], cut)
                       /\ \A f \in Fields : mem'[y][f] <= turn
  BY RecordFacts, NoNameYet, FieldsAreInts
<1>4. \A y \in Files : \A f \in Fields : mem'[y][f] <= turn
  BY <1>2, <1>3, RecordFacts DEF MemInv
<1>5. \A y \in Files : \A p \in Name :
        Belongs(p, mem'[y][p], cut) => Fits(mem'[y][p], mem'[y][Id], mem'[y][Sex], cut)
  BY <1>2, <1>3, RecordFacts DEF MemInv
<1>6. link' # NoFile /\ wfile' # NoFile /\ link' # wfile' => \A f \in Fields : mem'[link'][f] = 0
  BY <1>1, RecordFacts DEF MemInv
<1>7. wat = "open" => \A p \in Name : Belongs(p, mem'[x][p], cut) => Near(mem'[x][p], turn, cut)
  BY <1>1, <1>2, <1>3, RecordFacts DEF MemInv
<1>8. MemInv'
  BY <1>4, <1>5, <1>6, <1>7 DEF MemInv
<1>9. CASE wat = "open" /\ wat' = "extend" /\ wfile' = x
  <2>1. field = Id
    BY <1>9, RecordFacts DEF WriteInv
  <2>2. \A p \in Name : ~(p < Id)
    BY FieldsAreInts
  <2>3. WriteInv'
    BY <1>7, <1>9, <2>1, <2>2, FieldsAreInts DEF WriteInv
  <2> QED BY <1>8, <2>3
<1>10. CASE UNCHANGED <<wat, wfile>>
  <2>1. wfile # NoFile => mem'[wfile] = mem[wfile]
    BY <1>1, RecordFacts
  <2>2. WriteInv'
    BY <1>10, <2>1, RecordFacts DEF WriteInv
  <2> QED BY <1>8, <2>2
<1> QED BY <1>9, <1>10

\* a kill does,
LEMMA KillKeepsBytes ==
  ASSUME RecordInv, kind = "record", Killed PROVE MemInv' /\ WriteInv'
<1>1. /\ wat # "open" /\ wfile # NoFile /\ cut = 0 /\ cut' = turn /\ turn' = turn + 1
      /\ wat' = "open" /\ wfile' = NoFile /\ field' = Id /\ mem' = mem /\ link' = link
  BY DEF Killed, file, RecordInv, SizeInv
<1>2. \A y \in Files : \A f \in Fields : mem[y][f] <= turn /\ mem[y][f] <= turn + 1 /\ mem[y][f] \in Nat
  <2>1. ASSUME NEW y \in Files, NEW f \in Fields
        PROVE  mem[y][f] <= turn /\ mem[y][f] <= turn + 1 /\ mem[y][f] \in Nat
    <3>1. mem[y][f] <= turn /\ mem[y][f] \in Nat /\ turn \in Nat
      BY RecordFacts DEF MemInv
    <3> QED BY <3>1
  <2> QED BY <2>1
<1>3. ASSUME NEW y \in Files, NEW p \in Name, Belongs(p, mem[y][p], turn)
      PROVE  Belongs(p, mem[y][p], 0) /\ Fits(mem[y][p], mem[y][Id], mem[y][Sex], turn)
  <2>1. mem[y][p] \in Nat /\ mem[y][p] <= turn /\ turn \in Nat
    BY <1>2, RecordFacts, FieldsAreInts
  <2>2. Belongs(p, mem[y][p], 0)
    BY <1>3, <2>1, KillFits
  <2>3. Fits(mem[y][p], mem[y][Id], mem[y][Sex], 0)
    BY <1>1, <2>2, RecordFacts DEF MemInv
  <2>4. mem[y][Id] \in Int /\ mem[y][Sex] \in Int
    BY RecordFacts
  <2> QED BY <2>1, <2>2, <2>3, <2>4, KillFits
<1>4. ASSUME link # NoFile, NEW p \in Name, Belongs(p, mem[link][p], turn)
      PROVE  Near(mem[link][p], turn + 1, turn)
  <2>1. link \in Files
    BY <1>4, RecordFacts
  <2>2. Belongs(p, mem[link][p], 0) /\ Fits(mem[link][p], mem[link][Id], mem[link][Sex], turn)
    BY <1>3, <1>4, <2>1
  <2>3. link = wfile
    <3>1. CASE link # wfile
      <4>1. mem[link][p] = 0
        BY <1>1, <1>4, <3>1, RecordFacts, FieldsAreInts DEF MemInv
      <4> QED BY <2>2, <4>1, NoNameYet
    <3> QED BY <3>1
  <2>4. Near(mem[link][p], turn, 0)
    BY <1>1, <2>2, <2>3, RecordFacts DEF WriteInv
  <2>5. mem[link][p] \in Nat /\ 0 < mem[link][p] /\ turn \in Nat
    BY <2>1, <2>2, RecordFacts DEF Fits
  <2> QED BY <2>4, <2>5, KillFits
<1>5. MemInv'
  BY <1>1, <1>2, <1>3, <1>4 DEF MemInv
<1>6. WriteInv'
  BY <1>1 DEF WriteInv
<1> QED BY <1>5, <1>6

\* and so does writing the next one.
LEMMA WritesKeepBytes ==
  ASSUME RecordInv, kind = "record", Writes PROVE MemInv' /\ WriteInv'
<1>1. /\ wat = "write" /\ wfile # NoFile /\ wfile \in Files
      /\ mem' = [mem EXCEPT ![wfile][field] = turn]
      /\ field' = FieldAfter(field) /\ turn' = IF field' = Id THEN turn + 1 ELSE turn
      /\ UNCHANGED <<link, wat, wfile, cut>>
  BY RecordFacts DEF Writes, RecordInv, SizeInv
<1>2. /\ turn \in Nat /\ 0 < turn /\ cut \in Nat /\ field \in Fields /\ Unlinking
      /\ Size(turn, cut) \in Nat /\ Size(turn, cut) + 1 <= Bytes
      /\ field \in Name => field <= Size(turn, cut) + 1
  BY <1>1, RecordFacts, SizeFacts DEF WriteInv
<1>3. /\ \A y \in Files : y # wfile => mem'[y] = mem[y]
      /\ \A f \in Fields : mem'[wfile][f] = IF f = field THEN turn ELSE mem[wfile][f]
  <2>1. mem \in [Files -> [Fields -> 0..MaxTurns]]
    BY DEF RecordInv, TypeOK
  <2> QED BY <1>1, <2>1
<1>4. turn' \in Nat /\ turn <= turn'
  BY <1>1, <1>2
<1>5. ASSUME NEW p \in Name
      PROVE  /\ mem[wfile][p] \in Nat /\ mem[wfile][p] <= turn
             /\ Belongs(p, mem[wfile][p], cut) =>
                  /\ Fits(mem[wfile][p], mem[wfile][Id], mem[wfile][Sex], cut)
                  /\ Near(mem[wfile][p], turn, cut)
             /\ p < field /\ p <= Size(turn, cut) + 1 => mem[wfile][p] = turn
  BY <1>1, RecordFacts, FieldsAreInts DEF MemInv, WriteInv
<1>6. \A i, s \in Int : i <= turn /\ s <= turn => Fits(turn, i, s, cut)
  BY <1>2, LastFits
<1>7. \A y \in Files : \A f \in Fields : mem'[y][f] <= turn'
  <2>1. ASSUME NEW y \in Files, NEW f \in Fields PROVE mem'[y][f] <= turn'
    <3>1. mem[y][f] \in Nat /\ mem[y][f] <= turn
      BY RecordFacts DEF MemInv
    <3>2. mem'[y][f] \in {mem[y][f], turn}
      BY <1>3
    <3> QED BY <1>2, <1>4, <3>1, <3>2
  <2> QED BY <2>1
<1>8. link # NoFile /\ link # wfile => \A f \in Fields : mem'[link][f] = 0
  BY <1>1, <1>3, RecordFacts DEF MemInv
<1>9. ASSUME \A p \in Name : Belongs(p, mem'[wfile][p], cut) =>
               Fits(mem'[wfile][p], mem'[wfile][Id], mem'[wfile][Sex], cut)
      PROVE  MemInv'
  <2>1. \A y \in Files : \A p \in Name :
          Belongs(p, mem'[y][p], cut) => Fits(mem'[y][p], mem'[y][Id], mem'[y][Sex], cut)
    BY <1>3, <1>9, RecordFacts DEF MemInv
  <2> QED BY <1>1, <1>7, <1>8, <2>1 DEF MemInv
<1> DEFINE W == mem'[wfile]
<1>10. CASE field = Id
  <2>1. field' = 1 /\ turn' = turn /\ W[Id] = turn /\ W[Sex] = mem[wfile][Sex]
        /\ \A p \in Name : W[p] = mem[wfile][p]
    BY <1>1, <1>2, <1>3, <1>10, NextField, FieldsAreInts
  <2> HIDE DEF W
  <2>2. \A p \in Name : Belongs(p, W[p], cut) => Fits(W[p], W[Id], W[Sex], cut)
    BY <1>5, <2>1 DEF Fits
  <2>3. WriteInv'
    <3>1. field' <= Size(turn, cut) + 1 /\ \A p \in Name : ~(p < field')
      BY <1>2, <2>1, FieldsAreInts
    <3>2. \A p \in Name : Belongs(p, W[p], cut) => Near(W[p], turn, cut)
      BY <1>5, <2>1
    <3> QED BY <1>1, <2>1, <3>1, <3>2 DEF WriteInv, W
  <2> QED BY <1>9, <2>2, <2>3 DEF W
<1>11. CASE field \in Name
  <2>1. /\ W[field] = turn /\ W[Id] = mem[wfile][Id] /\ W[Sex] = mem[wfile][Sex]
        /\ \A p \in Name : p # field => W[p] = mem[wfile][p]
        /\ field # Id
    BY <1>1, <1>2, <1>3, <1>11, FieldsAreInts
  <2>2. field' # Id /\ turn' = turn /\ mem[wfile][Id] = turn
    BY <1>1, <1>2, <1>11, <2>1, NextField, RecordFacts, FieldsAreInts DEF WriteInv
  <2>3. mem[wfile][Sex] \in Int /\ mem[wfile][Sex] <= turn
    BY <1>1, RecordFacts, FieldsAreInts DEF MemInv
  <2> HIDE DEF W
  <2>4. \A p \in Name : Belongs(p, W[p], cut) => Fits(W[p], W[Id], W[Sex], cut)
    BY <1>2, <1>5, <1>6, <2>1, <2>2, <2>3
  <2>5. \A p \in Name : Belongs(p, W[p], cut) => Near(W[p], turn, cut)
    BY <2>2, <2>1, <2>4 DEF Fits
  <2>6. /\ field' \in Name => field' <= Size(turn, cut) + 1
        /\ \A p \in Name : p < field' /\ p <= Size(turn, cut) + 1 => W[p] = turn
    <3>1. CASE field <= Size(turn, cut)
      <4>1. field' = field + 1
        BY <1>1, <1>2, <1>11, <3>1, NextField
      <4>2. ASSUME NEW p \in Name, p < field', p <= Size(turn, cut) + 1 PROVE W[p] = turn
        <5>1. p = field \/ p < field
          BY <1>11, <4>1, <4>2, FieldsAreInts
        <5> QED BY <1>5, <2>1, <4>2, <5>1
      <4> QED BY <1>2, <1>11, <3>1, <4>1, <4>2, FieldsAreInts
    <3>2. CASE field > Size(turn, cut)
      <4>1. field = Size(turn, cut) + 1 /\ field' = Sex
        BY <1>1, <1>2, <1>11, <3>2, NextField
      <4>2. ASSUME NEW p \in Name, p <= Size(turn, cut) + 1 PROVE W[p] = turn
        <5>1. p = field \/ p < field
          BY <1>2, <4>1, <4>2, FieldsAreInts
        <5> QED BY <1>5, <2>1, <4>2, <5>1
      <4> QED BY <4>1, <4>2, FieldsAreInts
    <3> QED BY <1>2, <1>11, <3>1, <3>2, FieldsAreInts
  <2>7. WriteInv'
    BY <1>1, <2>1, <2>2, <2>5, <2>6 DEF WriteInv, W
  <2> QED BY <1>9, <2>4, <2>7 DEF W
<1>12. CASE field = Sex
  <2>1. /\ field' = Id /\ turn' = turn + 1 /\ W[Sex] = turn /\ W[Id] = mem[wfile][Id]
        /\ \A p \in Name : W[p] = mem[wfile][p]
    BY <1>1, <1>2, <1>3, <1>12, NextField, FieldsAreInts
  <2>2. ASSUME NEW p \in Name, Belongs(p, mem[wfile][p], cut)
        PROVE  mem[wfile][p] = turn \/ Left(mem[wfile][p], turn, cut)
    <3> DEFINE b == mem[wfile][p]
    <3>1. b \in Nat /\ 0 < b /\ b <= turn
      BY <1>5, <2>2 DEF Fits
    <3>2. CASE p <= Size(turn, cut) + 1
      <4>1. p < field
        BY <1>12, FieldsAreInts
      <4> QED BY <1>5, <3>2, <4>1
    <3>3. CASE p > Size(turn, cut) + 1
      <4>1. Size(b, cut) \in Nat
        BY <1>2, <3>1, SizeFacts
      <4>2. ~(p > Size(b, cut))
        BY <2>2 DEF Belongs
      <4> HIDE DEF b
      <4>3. Size(turn, cut) < Size(b, cut)
        BY <1>2, <3>3, <4>1, <4>2, FieldsAreInts
      <4>4. Left(b, turn, cut)
        BY <1>2, <3>1, <4>3, LongerIsLeft
      <4> QED BY <4>4 DEF b
    <3> QED BY <1>2, <3>2, <3>3, FieldsAreInts
  <2> HIDE DEF W
  <2>3. \A p \in Name : Belongs(p, W[p], cut) => Fits(W[p], W[Id], W[Sex], cut)
    <3>1. ASSUME NEW p \in Name, Belongs(p, W[p], cut) PROVE Fits(W[p], W[Id], W[Sex], cut)
      <4>1. Fits(W[p], W[Id], mem[wfile][Sex], cut) /\ (W[p] = turn \/ Left(W[p], turn, cut))
        BY <1>5, <2>1, <2>2, <3>1
      <4> QED BY <1>2, <2>1, <4>1 DEF Fits
    <3> QED BY <3>1
  <2>4. \A p \in Name : Belongs(p, W[p], cut) => Near(W[p], turn + 1, cut)
    <3>1. ASSUME NEW p \in Name, Belongs(p, W[p], cut) PROVE Near(W[p], turn + 1, cut)
      <4>1. CASE W[p] = turn
        <5>1. turn+1..(turn+1)-1 = {}
          BY <1>2
        <5> QED BY <4>1, <5>1 DEF Near
      <4>2. CASE Left(W[p], turn, cut)
        BY <1>2, <4>2 DEF Near, Left
      <4> QED BY <2>1, <2>2, <3>1, <4>1, <4>2
    <3> QED BY <3>1
  <2>5. WriteInv'
    <3>1. \A p \in Name : ~(p < Id)
      BY FieldsAreInts
    <3> QED BY <1>1, <2>1, <2>4, <3>1, FieldsAreInts DEF WriteInv, W
  <2> QED BY <1>9, <2>3, <2>5 DEF W
<1>13. field = Id \/ field \in Name \/ field = Sex
  BY <1>2, FieldsAreInts
<1> QED BY <1>10, <1>11, <1>12, <1>13

\* The steps of the readers leave the bytes alone.
LEMMA BytesKept ==
  ASSUME RecordInv, kind' = kind, kind = "record", RecordStep PROVE MemInv' /\ WriteInv'
<1>1. ASSUME NEW x, Free(x), WriterTakes(x) PROVE MemInv' /\ WriteInv'
  BY <1>1, TakesKeepBytes DEF WriterTakes
<1>2. ASSUME NEW r \in Readers, NEW x, Free(x), ReaderTakes(r, x) PROVE MemInv' /\ WriteInv'
  BY <1>2, TakesKeepBytes DEF ReaderTakes, writer
<1>3. CASE WriterExtends
  <2>1. /\ wat = "extend" /\ wat' = "write"
        /\ UNCHANGED <<link, mem, wfile, turn, field, cut>>
    BY <1>3 DEF WriterExtends
  <2> QED BY <2>1, RecordFacts DEF MemInv, WriteInv
<1>4. ASSUME UNCHANGED <<mem, wat, wfile, turn, field, cut>>, link' \in {link, NoFile}
      PROVE  MemInv' /\ WriteInv'
  BY <1>4, RecordFacts DEF MemInv, WriteInv
<1>5. ASSUME NEW r \in Readers,
             ReaderUnlinks(r) \/ BusError(r) \/ ReadsId(r) \/ ReadsSex(r)
             \/ Finds(r) \/ CopiesByte(r) \/ LineIsOut(r)
      PROVE  MemInv' /\ WriteInv'
  <2>1. UNCHANGED <<mem, wat, wfile, turn, field, cut>> /\ link' \in {link, NoFile}
    BY <1>5 DEF ReaderUnlinks, BusError, ReadsId, ReadsSex, Finds, CopiesByte, LineIsOut,
                file, writer
  <2> QED BY <1>4, <2>1
<1> QED BY <1>1, <1>2, <1>3, <1>5, KillKeepsBytes, WritesKeepBytes DEF RecordStep

-----------------------------------------------------------------------------
(* The shared record: the readers' lines                                    *)

\* A line stays what it is when its file is written, and when nothing is added to it.
LEMMA LineStays ==
  ASSUME RecordInv, kind = "record", NEW r \in Readers,
         cut' = cut, turn' \in Nat, turn <= turn',
         rfile'[r] = rfile[r], seenId'[r] = seenId[r], seenSex'[r] = seenSex[r],
         len'[r] = len[r], bytes'[r] = bytes[r], rat'[r] = "copy" => rat[r] = "copy",
         rfile[r] # NoFile =>
           \A p \in Name : mem'[rfile[r]][p] = mem[rfile[r]][p] \/ mem'[rfile[r]][p] = turn
  PROVE  Line(r)'
<1>1. /\ Line(r) /\ turn \in Nat /\ 0 < turn
      /\ seenId[r] \in Int /\ seenSex[r] \in Int
  BY RecordFacts
<1>2. seenId[r] <= turn /\ seenSex[r] <= turn
  BY <1>1 DEF Line
<1>3. Fits(turn, seenId[r], seenSex[r], cut)
  BY <1>1, <1>2, LastFits
<1>4. seenId[r] <= turn' /\ seenSex[r] <= turn'
  BY <1>1, <1>2
<1>5. ASSUME rfile[r] # NoFile, NEW p \in Name,
             Belongs(p, mem'[rfile[r]][p], cut) \/ p <= len[r]
      PROVE  Fits(mem'[rfile[r]][p], seenId[r], seenSex[r], cut)
  BY <1>1, <1>3, <1>5 DEF Line
<1> QED BY <1>1, <1>4, <1>5 DEF Line

\* An empty line goes with any file.
LEMMA EmptyLine ==
  ASSUME NEW b \in Nat, NEW p, NEW k, Belongs(p, b, k) PROVE Fits(b, Unread, Unread, k)
<1>1. 0 < b
  BY NoNameYet DEF Belongs
<1> QED BY <1>1, LastFits DEF Unread

\* Every step keeps the lines.
LEMMA LinesKept ==
  ASSUME RecordInv, kind' = kind, kind = "record", RecordStep, NEW r \in Readers PROVE Line(r)'
<1> DEFINE x == rfile[r]
<1>0. /\ Line(r) /\ turn \in Nat /\ 0 < turn /\ cut \in Nat
      /\ seenId[r] \in Int /\ seenSex[r] \in Int /\ len[r] \in Nat
      /\ bytes[r] \subseteq Nat /\ x \in Files \cup {NoFile} /\ NoFile \notin Files
      /\ \A q \in Readers : rat[q] = "open" <=> rfile[q] = NoFile
      /\ rat[r] \in {"unlink", "print", "copy"} => x \in Files
  BY RecordFacts DEF RecordInv, SizeInv
<1>a. /\ rat \in [Readers -> {"open", "unlink", "print", "copy", "failed", "killed"}]
      /\ rfile \in [Readers -> Files \cup {NoFile}]
      /\ seenId \in [Readers -> -1..MaxTurns] /\ seenSex \in [Readers -> -1..MaxTurns]
      /\ len \in [Readers -> 0..Bytes-1] /\ copied \in [Readers -> 0..Bytes-1]
      /\ bytes \in [Readers -> SUBSET (0..MaxTurns)]
      /\ mem \in [Files -> [Fields -> 0..MaxTurns]]
  BY DEF RecordInv, TypeOK
<1>b. \A p \in Name : x \in Files => mem[x][p] \in Nat
  BY RecordFacts
<1>1. ASSUME NEW y, Free(y), WriterTakes(y) PROVE Line(r)'
  <2>1. /\ UNCHANGED <<turn, cut, rat, rfile, seenId, seenSex, len, bytes>>
        /\ link' = y /\ full' = Kept(y) /\ mem' = Found(y)
    BY <1>1 DEF WriterTakes, readers, line
  <2>2. x # NoFile => mem'[x] = mem[x]
    BY <1>0, <1>1, <2>1, FileTaken
  <2> QED BY <1>0, <2>1, <2>2, LineStays
<1>2. CASE WriterExtends
  <2>1. UNCHANGED <<turn, cut, mem, rat, rfile, seenId, seenSex, len, bytes>>
    BY <1>2 DEF WriterExtends, readers, line
  <2> QED BY <1>0, <2>1, LineStays
<1>3. CASE Writes
  <2>1. /\ UNCHANGED <<cut, rat, rfile, seenId, seenSex, len, bytes>>
        /\ turn' \in {turn, turn + 1} /\ mem' = [mem EXCEPT ![wfile][field] = turn]
    BY <1>3 DEF Writes, readers, line
  <2>2. x # NoFile => \A p \in Name : mem'[x][p] = mem[x][p] \/ mem'[x][p] = turn
    BY <1>0, <1>a, <2>1, FieldsAreInts
  <2>3. turn' \in Nat /\ turn <= turn'
    BY <1>0, <2>1
  <2> QED BY <2>1, <2>2, <2>3, LineStays
<1>4. CASE Killed
  <2>1. /\ UNCHANGED <<mem, rat, rfile, seenId, seenSex, len, bytes>>
        /\ cut = 0 /\ cut' = turn /\ turn' = turn + 1
    BY <1>4 DEF Killed, file, readers, line
  <2>2. seenId[r] <= turn' /\ seenSex[r] <= turn'
    BY <1>0, <2>1 DEF Line
  <2>3. \A b \in Nat : Fits(b, seenId[r], seenSex[r], 0) => Fits(b, seenId[r], seenSex[r], turn)
    BY <1>0, KillFits
  <2>4. ASSUME x # NoFile, NEW p \in Name, Belongs(p, mem[x][p], turn) \/ p <= len[r]
        PROVE  Fits(mem[x][p], seenId[r], seenSex[r], turn)
    <3>1. mem[x][p] \in Nat /\ mem[x][p] <= turn
      BY <1>0, <1>b, <2>4, RecordFacts, FieldsAreInts DEF MemInv
    <3>2. Belongs(p, mem[x][p], 0) \/ p <= len[r]
      BY <1>0, <2>4, <3>1, KillFits
    <3> QED BY <1>0, <2>1, <2>3, <2>4, <3>1, <3>2 DEF Line
  <2>5. \A b \in bytes[r] : Fits(b, seenId[r], seenSex[r], turn)
    BY <1>0, <2>1, <2>3 DEF Line
  <2> QED BY <1>0, <2>1, <2>2, <2>4, <2>5 DEF Line
<1>5. ASSUME NEW q \in Readers, NEW y, Free(y), ReaderTakes(q, y) PROVE Line(r)'
  <2>1. /\ UNCHANGED <<turn, cut, seenId, seenSex, len, bytes>>
        /\ link' = y /\ full' = Kept(y) /\ mem' = Found(y)
        /\ rat[q] = "open" /\ rfile' = [rfile EXCEPT ![q] = y]
        /\ rat' \in {[rat EXCEPT ![q] = "print"], [rat EXCEPT ![q] = "unlink"]}
    BY <1>5 DEF ReaderTakes, writer, line
  <2>2. /\ y \in Files /\ mem' \in [Files -> [Fields -> 0..MaxTurns]]
        /\ x # NoFile => mem'[x] = mem[x]
    BY <1>0, <1>5, <2>1, FileTaken
  <2>3. CASE q # r
    BY <1>0, <1>a, <2>1, <2>2, <2>3, LineStays
  <2>4. CASE q = r
    <3>1. /\ seenId[r] = Unread /\ seenSex[r] = Unread /\ len[r] = 0 /\ bytes[r] = {}
      BY <1>0, <2>1, <2>4 DEF Line
    <3>2. rfile'[r] = y /\ rat'[r] # "copy"
      BY <1>a, <2>1, <2>4
    <3>3. ASSUME NEW p \in Name, Belongs(p, mem'[y][p], cut) \/ p <= 0
          PROVE  Fits(mem'[y][p], Unread, Unread, cut)
      <4>1. mem'[y][p] \in 0..MaxTurns
        BY <2>2, FieldsAreInts
      <4>2. mem'[y][p] \in Nat /\ ~(p <= 0)
        BY <4>1, FieldsAreInts, RecordAssumption
      <4> QED BY <3>3, <4>2, EmptyLine
    <3> QED BY <1>0, <2>1, <2>2, <3>1, <3>2, <3>3 DEF Line
  <2> QED BY <2>3, <2>4
<1>6. ASSUME NEW q \in Readers, ReaderUnlinks(q) \/ BusError(q) PROVE Line(r)'
  <2>1. /\ UNCHANGED <<mem, turn, cut, rfile, seenId, seenSex, len, bytes>>
        /\ rat'[r] = "copy" => rat[r] = "copy"
    BY <1>6, <1>a DEF ReaderUnlinks, BusError, file, writer, line
  <2> QED BY <1>0, <2>1, LineStays
<1>7. ASSUME NEW q \in Readers, q # r,
             ReadsId(q) \/ ReadsSex(q) \/ Finds(q) \/ CopiesByte(q) \/ LineIsOut(q)
      PROVE  Line(r)'
  <2>1. UNCHANGED <<mem, turn, cut, rfile>>
    BY <1>7 DEF ReadsId, ReadsSex, Finds, CopiesByte, LineIsOut, file, writer
  <2>2. /\ seenId'[r] = seenId[r] /\ seenSex'[r] = seenSex[r] /\ len'[r] = len[r]
        /\ bytes'[r] = bytes[r] /\ rat'[r] = rat[r]
    BY <1>7, <1>a DEF ReadsId, ReadsSex, Finds, CopiesByte, LineIsOut
  <2> QED BY <1>0, <2>1, <2>2, LineStays
<1>8. CASE ReadsId(r) \/ ReadsSex(r)
  <2>1. /\ UNCHANGED <<mem, turn, cut, rfile, rat, len, bytes>> /\ x \in Files
        /\ seenId[r] = Unread \/ seenSex[r] = Unread
        /\ \/ seenId'[r] = mem[x][Id] /\ seenSex'[r] = seenSex[r]
           \/ seenSex'[r] = mem[x][Sex] /\ seenId'[r] = seenId[r]
    BY <1>0, <1>8, <1>a DEF ReadsId, ReadsSex, Reads, file, writer
  <2>2. rat[r] # "copy" /\ len[r] = 0 /\ bytes[r] = {} /\ x # NoFile
    BY <1>0, <2>1 DEF Line
  <2>3. seenId'[r] <= turn /\ seenSex'[r] <= turn
    BY <1>0, <2>1, RecordFacts, FieldsAreInts DEF Line, MemInv
  <2>4. ASSUME NEW p \in Name, Belongs(p, mem[x][p], cut) \/ p <= 0
        PROVE  Fits(mem[x][p], seenId'[r], seenSex'[r], cut)
    <3>1. Belongs(p, mem[x][p], cut)
      BY <2>4, FieldsAreInts
    <3>2. Fits(mem[x][p], mem[x][Id], mem[x][Sex], cut)
      BY <2>1, <3>1, RecordFacts DEF MemInv
    <3>3. Fits(mem[x][p], seenId[r], seenSex[r], cut)
      BY <1>0, <2>2, <3>1 DEF Line
    <3> QED BY <2>1, <3>2, <3>3 DEF Fits
  <2> QED BY <1>0, <2>1, <2>2, <2>3, <2>4 DEF Line
<1>9. CASE Finds(r)
  <2>1. /\ UNCHANGED <<mem, turn, cut, rfile, seenId, seenSex, bytes>> /\ x \in Files
        /\ seenId[r] # Unread /\ seenSex[r] # Unread
        /\ \/ len' = len
           \/ len'[r] = len[r] + 1 /\ Belongs(len[r] + 1, mem[x][len[r] + 1], cut)
    BY <1>0, <1>9, <1>a DEF Finds, Reads, file, writer
  <2>2. ASSUME NEW p \in Name, Belongs(p, mem[x][p], cut) \/ p <= len'[r]
        PROVE  Fits(mem[x][p], seenId[r], seenSex[r], cut)
    <3>1. Belongs(p, mem[x][p], cut) \/ p <= len[r]
      <4>1. CASE len' = len
        BY <2>2, <4>1
      <4>2. CASE len'[r] = len[r] + 1 /\ Belongs(len[r] + 1, mem[x][len[r] + 1], cut)
        <5>1. p <= len[r] + 1 => p <= len[r] \/ p = len[r] + 1
          BY <1>0, FieldsAreInts
        <5> QED BY <2>2, <4>2, <5>1
      <4> QED BY <2>1, <4>1, <4>2
    <3> QED BY <1>0, <2>1, <3>1 DEF Line
  <2> QED BY <1>0, <2>1, <2>2 DEF Line
<1>10. CASE CopiesByte(r)
  <2>1. /\ UNCHANGED <<mem, turn, cut, rfile, rat, seenId, seenSex, len>> /\ x \in Files
        /\ rat[r] = "copy" /\ copied[r] < len[r]
        /\ bytes'[r] = bytes[r] \cup {mem[x][copied[r] + 1]}
    BY <1>0, <1>10, <1>a DEF CopiesByte, file, writer
  <2>2. copied[r] + 1 \in Name /\ copied[r] + 1 <= len[r]
    <3>1. copied[r] \in Nat /\ len[r] \in 0..Bytes-1 /\ Bytes \in Nat
      BY <1>a, FieldsAreInts
    <3>2. copied[r] + 1 <= len[r] /\ copied[r] + 1 \in 1..Bytes
      BY <2>1, <3>1
    <3> QED BY <3>2, FieldsAreInts
  <2>3. Fits(mem[x][copied[r] + 1], seenId[r], seenSex[r], cut)
    BY <1>0, <2>1, <2>2 DEF Line
  <2> QED BY <1>0, <2>1, <2>3 DEF Line
<1>11. CASE LineIsOut(r)
  <2>1. /\ UNCHANGED <<mem, turn, cut, rfile>> /\ rat'[r] = "print" /\ x \in Files
        /\ seenId'[r] = Unread /\ seenSex'[r] = Unread /\ len'[r] = 0 /\ bytes'[r] = {}
    BY <1>0, <1>11, <1>a DEF LineIsOut, file, writer
  <2>2. ASSUME NEW p \in Name, Belongs(p, mem[x][p], cut) \/ p <= 0
        PROVE  Fits(mem[x][p], Unread, Unread, cut)
    <3>1. Belongs(p, mem[x][p], cut) /\ mem[x][p] \in Nat
      BY <1>b, <2>1, <2>2, FieldsAreInts
    <3> QED BY <3>1, EmptyLine
  <2>3. Unread <= turn
    BY <1>0 DEF Unread
  <2> QED BY <1>0, <2>1, <2>2, <2>3 DEF Line
<1> QED BY <1>1, <1>2, <1>3, <1>4, <1>5, <1>6, <1>7, <1>8, <1>9, <1>10, <1>11 DEF RecordStep

\* The record starts so, both programs keep it so, and it gives what readers may rely on.
LEMMA RecordBegins == ASSUME Init, link = NoFile PROVE RecordInv
<1>1. /\ mem = [x \in Files |-> Blank] /\ full = {} /\ wat = "open" /\ wfile = NoFile /\ turn = 1
      /\ field = First /\ cut = 0 /\ early = {} /\ link = NoFile
      /\ rat = [r \in Readers |-> "open"] /\ rfile = [r \in Readers |-> NoFile]
      /\ seenId = [r \in Readers |-> Unread] /\ seenSex = [r \in Readers |-> Unread]
      /\ len = [r \in Readers |-> 0] /\ copied = [r \in Readers |-> 0]
      /\ bytes = [r \in Readers |-> {}]
  BY DEF Init
<1>2. First = Id /\ Id \in Fields
  BY IpcAssumption, FieldsAreInts DEF First
<1>3. \A x \in Files : \A f \in Fields : mem[x][f] = 0
  BY <1>1 DEF Blank
<1>4. TypeOK
  <2>1. /\ Blank \in [Fields -> 0..MaxTurns] /\ 1 \in 1..MaxTurns+1 /\ 0 \in 0..MaxTurns
        /\ Unread \in -1..MaxTurns /\ 0 \in 0..Bytes-1
    BY RecordAssumption, FieldsAreInts DEF Blank, Unread
  <2> QED BY <1>1, <1>2, <2>1 DEF TypeOK
<1>5. SizeInv /\ TextInv
  BY <1>1 DEF SizeInv, TextInv
<1>6. \A x \in Files : \A p \in Name : ~Belongs(p, mem[x][p], cut)
  BY <1>3, FieldsAreInts, NoNameYet
<1>7. MemInv
  BY <1>1, <1>3, <1>6 DEF MemInv
<1>8. WriteInv
  BY <1>1, <1>2 DEF WriteInv
<1>9. \A r \in Readers : Line(r)
  BY <1>1 DEF Line, Unread
<1> QED BY <1>4, <1>5, <1>7, <1>8, <1>9 DEF RecordInv

LEMMA RecordGoesOn ==
  ASSUME RecordInv, kind' = kind,
         UNCHANGED vars \/ (kind = "record" /\ Next) \/ (kind = "text" /\ Text!Next)
  PROVE  RecordInv'
<1>1. CASE UNCHANGED vars
  BY <1>1 DEF vars, file, writer, readers, line, RecordInv, TypeOK, MemInv, WriteInv, Line,
              SizeInv, TextInv
<1>2. CASE RecordStep
  BY <1>2, TypesKept, BytesKept, LinesKept DEF RecordInv
<1> QED BY <1>1, <1>2, RecordTakes, TextTakes

LEMMA RecordPromises == ASSUME RecordInv PROVE RecordsHold
<1>1. ASSUME kind = "record" PROVE LinesMixForwards
  <2>1. \A b, t : LeftOver(b, t) <=> Left(b, t, cut)
    BY NamesOfTurns
  <2> QED BY <1>1, <2>1, RecordFacts DEF Line, Fits, Near, LinesMixForwards
<1>2. OnlyEarlyReadersFault
  BY DEF RecordInv, SizeInv, OnlyEarlyReadersFault
<1> QED BY <1>1, <1>2 DEF RecordsHold

-----------------------------------------------------------------------------
(* All of them                                                              *)

IpcInv ==
  /\ SleepInv /\ PipeInv /\ SignalInv /\ GroupInv /\ NamesInv /\ DataInv /\ RecordInv

\* The start of each program is that of all.
LEMMA IpcBegins == ASSUME MCInit PROVE IpcInv
<1>1. /\ Sleep!Init /\ Pipe!Init /\ Init /\ Signal!Init /\ Data!Init /\ Names!Init /\ Group!Init
      /\ link = NoFile
  BY DEF MCInit
<1>2. RecordInv
  BY <1>1, RecordBegins
<1> QED
  BY <1>1, <1>2, SleepBegins, PipeBegins, SignalBegins, GroupBegins, NamesBegin,
       DataBegins DEF IpcInv

\* A step is one of the program that runs, and leaves the others alone.
LEMMA IpcSteps ==
  ASSUME [MCNext]_mcVars
  PROVE  /\ kind' = kind
         /\ [Sleep!Next]_sleepVars /\ [Pipe!Next]_pipeVars /\ [Signal!Next]_signalVars
         /\ [Group!Next]_groupVars /\ [Names!Next]_nameVars /\ [Data!Next]_dataVars
         /\ \/ UNCHANGED vars
            \/ kind = "record" /\ Next
            \/ kind = "text" /\ Text!Next
<1>1. CASE UNCHANGED mcVars
  BY <1>1 DEF mcVars
<1>2. CASE MCNext
  BY <1>2 DEF MCNext, SleepOnly, PipeOnly, MapOnly, SignalOnly, DataOnly, NamesOnly, GroupOnly
<1> QED BY <1>1, <1>2

\* Every step keeps all the invariants.
LEMMA IpcGoesOn == ASSUME IpcInv, [MCNext]_mcVars PROVE IpcInv'
<1>1. RecordInv'
  BY IpcSteps, RecordGoesOn DEF IpcInv
<1> QED
  BY <1>1, IpcSteps, SleepGoesOn, PipeGoesOn, SignalGoesOn, GroupGoesOn, NamesGoOn,
       DataGoesOn DEF IpcInv

\* Every program keeps its invariant, whichever of them runs (the mains of
\* src/005_process_IPC, src/007singnal and the datagram and name programs).
THEOREM IpcInvariant == MCSpec => []IpcInv
  BY IpcBegins, IpcGoesOn, PTL DEF MCSpec

\* All variables of the programs keep their types.
THEOREM IpcTypesKept == MCSpec => []MCTypeOK
<1>1. ASSUME IpcInv PROVE MCTypeOK
  BY <1>1, SleepPromises, SignalPromises, DataPromises, NamesPromise
     DEF IpcInv, MCTypeOK, PipeInv, GroupInv, RecordInv
<1> QED BY <1>1, IpcInvariant, PTL

\* mysleep (08sigsuspend.c:15-32) leaves no timer, mask or handler behind, and lasts its
\* time if nobody else sends SIGALRM.
THEOREM SleepsAreClean == MCSpec => []SleepsCleanly
<1>1. ASSUME IpcInv PROVE SleepsCleanly
  BY <1>1, SleepPromises DEF IpcInv
<1> QED BY <1>1, IpcInvariant, PTL

\* The reader of a pipe or FIFO (01pipe.c, 01pipe_nonblock.c, 03fifo_read.c) sees the end
\* of it before the message only when its writer was killed.
THEOREM EndMeansKilled == MCSpec => []NothingMeansKilled
<1>1. ASSUME IpcInv PROVE NothingMeansKilled
  BY <1>1 DEF IpcInv, PipeInv, NothingMeansKilled
<1> QED BY <1>1, IpcInvariant, PTL

\* No handler of 04SIG*_sigaction.c, 05signal.c and 08pause.c is entered twice or stopped
\* by what sa_mask keeps out, and 03sigprocmask.c is not ended by what it blocks.
THEOREM HandlersRunAlone == MCSpec => []HandlersUndisturbed
<1>1. ASSUME IpcInv PROVE HandlersUndisturbed
  BY <1>1, SignalPromises DEF IpcInv
<1> QED BY <1>1, IpcInvariant, PTL

\* What 03sigprocmask.c has printed as pending it prints again.
THEOREM PendingIsShown == MCSpec => PendingStays
<1>1. ASSUME IpcInv, [MCNext]_mcVars
      PROVE  [shown \ {"TSTP"} \subseteq shown']_(Signal!vars)
  BY <1>1, IpcSteps, SignalGoesOn DEF IpcInv
<1> QED BY <1>1, IpcInvariant, PTL DEF MCSpec, PendingStays, Signal!PendingStays

\* Clients of 02UDP print whole answers for their port, or wait because a datagram was
\* lost or too long; of the members of 04udp_broadcast on a host one hears the group, and
\* nothing that had come for the last time before its bind (01client.c:25).
THEOREM DatagramsAreAccounted == MCSpec => []DatagramsAccounted
<1>1. ASSUME IpcInv PROVE DatagramsAccounted
  BY <1>1, DataPromises DEF IpcInv, GroupInv, DatagramsAccounted
<1> QED BY <1>1, IpcInvariant, PTL

\* serv_accept finds the name of its client, and serv_listen fails only for a rival.
THEOREM NamesAreFound == MCSpec => []NamesFound
<1>1. ASSUME IpcInv PROVE NamesFound
  BY <1>1, NamesPromise DEF IpcInv
<1> QED BY <1>1, IpcInvariant, PTL

\* However the names that the readers of 08mmap_process print are torn between turns, and
\* whatever a killed writer leaves, each byte was written for a name, not before the sex
\* and not more than a turn before the id of the line; and SIGBUS kills only readers that
\* came before the file had its size.
THEOREM RecordsAreMixedForwards == MCSpec => []RecordsHold
<1>1. ASSUME IpcInv PROVE RecordsHold
  BY <1>1, RecordPromises DEF IpcInv
<1> QED BY <1>1, IpcInvariant, PTL
=============================================================================

---------------------------- MODULE ProcessFamily ----------------------------
(***************************************************************************)
(* A process and the child it forks, in src/004_process (07wait_1.c waits  *)
(* for the child in a loop, 07wait.c never does, 07child.c and 07child_2.c *)
(* end before it) and src/008process_Relation (02session.c, 03daemon.c).   *)
(* Either process may be killed at any time, and the terminal they were    *)
(* started from may be closed.  fork, chdir and open do not fail.  What is *)
(* closed just before a process ends is left to its end.                   *)
(***************************************************************************)
EXTENDS Naturals, Sequences

Families == {"wait", "no wait", "orphan", "short orphan", "session", "daemon"}

CONSTANT MaxWaits   \* bound: calls of wait that are recorded

VARIABLES
  family,    \* which program it is
  parent,    \* "fork", "on" (its loop), "ended"
  child,     \* "none", its next step, "zombie", or "gone" when it has been reaped
  ppid,      \* the child's parent: "parent" or "init"
  said,      \* the ppid that the child printed last
  session,   \* the session the child is in: the terminal's or its own
  fds,       \* what the child's descriptors 0, 1 and 2 are
  waits,     \* what wait has returned, oldest first
  terminal   \* the terminal is open

childVars == <<ppid, said, session, fds>>
vars == <<family, parent, child, childVars, waits, terminal>>

Standard == 0..2
NoFile   == "closed"

Init ==
  /\ family \in Families
  /\ parent = "fork" /\ child = "none"
  /\ ppid = "parent" /\ said = "nobody" /\ session = "terminal"
  /\ fds = [f \in Standard |-> "terminal"]
  /\ waits = <<>> /\ terminal = TRUE

ChildRuns == child \notin {"none", "zombie", "gone"}

-----------------------------------------------------------------------------
(* The ends of processes                                                    *)

\* (if nobody waited for a child whose parent had ended first)
ReapNobody(c) == c

\* init takes over the child and waits for it.
InitReaps(c) == IF c = "zombie" THEN "gone" ELSE c

ParentEnds ==
  /\ parent' = "ended"
  /\ ppid' = "init"
  /\ child' = InitReaps(child)

ChildEnds ==
  child' = IF ppid = "init" THEN InitReaps("zombie") ELSE "zombie"

KillParent ==
  /\ parent \in {"fork", "on"}
  /\ ParentEnds
  /\ UNCHANGED <<family, said, session, fds, waits, terminal>>

KillChild ==
  /\ ChildRuns
  /\ ChildEnds
  /\ UNCHANGED <<family, parent, childVars, waits, terminal>>

\* The terminal is closed: SIGHUP to the job of the parent.  An orphan that is still
\* in the terminal's session may be spared.
Hangup ==
  /\ terminal
  /\ terminal' = FALSE
  /\ parent' = "ended" /\ ppid' = "init"
  /\ \/ ChildRuns /\ session = "terminal" /\ child' = "gone"
     \/ (session = "own" \/ parent = "ended" \/ ~ChildRuns) /\ child' = InitReaps(child)
  /\ UNCHANGED <<family, said, session, fds, waits>>

-----------------------------------------------------------------------------
(* The parent                                                               *)

FirstStep ==
  CASE family \in {"orphan", "short orphan"} -> "print"
    [] family \in {"session", "daemon"}      -> "setsid"
    [] OTHER                                 -> "sleep"

Fork ==
  /\ parent = "fork"
  /\ parent' = "on"
  /\ child' = FirstStep
  /\ UNCHANGED <<family, childVars, waits, terminal>>

\* The parent returns from main, or calls exit.
ParentReturns ==
  /\ parent = "on" /\ family \notin {"wait", "no wait"}
  /\ ParentEnds
  /\ UNCHANGED <<family, said, session, fds, waits, terminal>>

\* (if the child was left in the process table)
LeaveZombie == UNCHANGED child

Reap == child' = "gone"

\* wait blocks while the child runs, and fails when there is none.
Wait ==
  /\ parent = "on" /\ family = "wait" /\ Len(waits) < MaxWaits
  /\ \/ child = "zombie" /\ Reap /\ waits' = Append(waits, "child")
     \/ child = "gone" /\ waits' = Append(waits, "none") /\ UNCHANGED child
  /\ UNCHANGED <<family, parent, childVars, terminal>>

-----------------------------------------------------------------------------
(* The child                                                                *)

\* printf of getppid(), again and again; 07child_2.c ends after ten times.
PrintParent ==
  /\ child = "print"
  /\ said' = ppid
  /\ UNCHANGED <<family, parent, child, ppid, session, fds, waits, terminal>>

ChildReturns ==
  /\ \/ child = "sleep"
     \/ child = "print" /\ family = "short orphan" /\ said # "nobody"
  /\ ChildEnds
  /\ UNCHANGED <<family, parent, childVars, waits, terminal>>

\* (if the daemon was not given a session of its own)
StayInSession == UNCHANGED session

\* The child does not lead its process group, so that setsid does not fail, whether
\* the parent has ended or not.
NewSession == session' = "own"

SetSid ==
  /\ child = "setsid"
  /\ NewSession
  /\ child' = IF family = "session" THEN "sleep" ELSE "close"
  /\ UNCHANGED <<family, parent, ppid, said, fds, waits, terminal>>

\* close(0), after chdir and umask
CloseInput ==
  /\ child = "close"
  /\ fds' = [fds EXCEPT ![0] = NoFile]
  /\ child' = "open"
  /\ UNCHANGED <<family, parent, ppid, said, session, waits, terminal>>

\* open takes the lowest descriptor that is free.
LowestFree == CHOOSE f \in Standard : fds[f] = NoFile /\ \A g \in 0..f-1 : fds[g] # NoFile

OpenNull ==
  /\ child = "open"
  /\ fds' = [fds EXCEPT ![LowestFree] = "null"]
  /\ child' = "dup"
  /\ UNCHANGED <<family, parent, ppid, said, session, waits, terminal>>

\* dup2(0, 1) and dup2(0, 2)
DupNull ==
  /\ child = "dup"
  /\ \/ /\ fds[1] # fds[0]
        /\ fds' = [fds EXCEPT ![1] = fds[0]] /\ UNCHANGED child
     \/ /\ fds[1] = fds[0]
        /\ fds' = [fds EXCEPT ![2] = fds[0]] /\ child' = "daemon"
  /\ UNCHANGED <<family, parent, ppid, said, session, waits, terminal>>

ChildMoves == SetSid \/ CloseInput \/ OpenNull \/ DupNull \/ ChildReturns

Next ==
  \/ Fork \/ Wait \/ ParentReturns
  \/ PrintParent \/ ChildMoves
  \/ KillParent \/ KillChild \/ Hangup

\* Processes run when they can.
FairSpec ==
  Init /\ [][Next]_vars /\ WF_vars(Wait) /\ WF_vars(ParentReturns) /\ WF_vars(ChildMoves)

-----------------------------------------------------------------------------
TypeOK ==
  /\ family \in Families
  /\ parent \in {"fork", "on", "ended"}
  /\ child \in {"none", "sleep", "print", "setsid", "close", "open", "dup", "daemon",
                "zombie", "gone"}
  /\ ppid \in {"parent", "init"} /\ said \in {"nobody", "parent", "init"}
  /\ session \in {"terminal", "own"}
  /\ fds \in [Standard -> {"terminal", "null", NoFile}]
  /\ waits \in Seq({"child", "none"})
  /\ terminal \in BOOLEAN

\* A zombie is the child of a parent that runs, for init reaps the others at once; only an
\* orphan sees init.  wait reports the child once, then that there is none.
ZombieHasParent ==
  /\ child = "zombie" => parent = "on" /\ ppid = "parent"
  /\ said = "init" => parent = "ended"
  /\ \A i \in 1..Len(waits) : waits[i] = (IF i = 1 /\ waits[1] = "child" THEN "child" ELSE "none")
  /\ waits # <<>> => waits[1] = "child" /\ child = "gone"

\* A daemon in its loop has nothing of the terminal, neither the session nor one of
\* its descriptors, in whatever order it and its parent ran.
DaemonDetached ==
  child = "daemon" => session = "own" /\ \A f \in Standard : fds[f] = "null"

\* A child that has ended is reaped, unless its parent is 07wait.c; the daemon comes
\* to its loop, or is killed.
FamilySettles ==
  /\ (child = "zombie" /\ family # "no wait") ~> child = "gone"
  /\ (child = "setsid" /\ family = "daemon") ~> child \in {"daemon", "zombie", "gone"}
=============================================================================

------------------------------ MODULE MySleep ------------------------------
(***************************************************************************)
(* mysleep of src/007singnal/08sigsuspend.c, called in a loop by a process *)
(* to which others may send SIGALRM too (02kill.c does).  SIGALRM is the   *)
(* only signal it handles: any other one ends it and is left out.  The     *)
(* disposition that mysleep finds and restores is the default one, its     *)
(* mask does not block SIGALRM.                                            *)
(***************************************************************************)
EXTENDS Naturals

CONSTANT MaxStray   \* bound: SIGALRMs that others send

VARIABLES
  at,       \* the next call; "main": between two sleeps, "asleep": in sigsuspend
  action,   \* what SIGALRM does: "default" ends the process
  blocked,  \* SIGALRM is in the mask of the process
  pending,  \* a SIGALRM was generated while it was blocked
  timer,    \* alarm(nSecs) has not run down
  strays    \* SIGALRMs others have sent

vars == <<at, action, blocked, pending, timer, strays>>

Init ==
  /\ at = "main" /\ action = "default"
  /\ blocked = FALSE /\ pending = FALSE /\ timer = FALSE /\ strays = 0

\* sigaction(SIGALRM, do_sig)
Install ==
  /\ at = "main"
  /\ action' = "do_sig"
  /\ at' = "block"
  /\ UNCHANGED <<blocked, pending, timer, strays>>

\* (if SIGALRM was not blocked)
BlockNothing == UNCHANGED blocked

BlockAlarm == blocked' = TRUE

\* sigprocmask(SIG_BLOCK)
Block ==
  /\ at = "block"
  /\ BlockAlarm
  /\ at' = "alarm"
  /\ UNCHANGED <<action, pending, timer, strays>>

\* alarm(nSecs)
SetAlarm ==
  /\ at = "alarm"
  /\ timer' = TRUE
  /\ at' = "suspend"
  /\ UNCHANGED <<action, blocked, pending, strays>>

\* sigsuspend lets SIGALRM through and blocks in one step; what is pending is
\* handled at once, and it returns with SIGALRM blocked again.
Suspend ==
  /\ at = "suspend"
  /\ at' = IF pending THEN "cancel" ELSE "asleep"
  /\ pending' = FALSE
  /\ UNCHANGED <<action, blocked, timer, strays>>

\* (if the timer was left running)
KeepTimer == UNCHANGED timer

StopTimer == timer' = FALSE

\* alarm(0)
Cancel ==
  /\ at = "cancel"
  /\ StopTimer
  /\ at' = "restore"
  /\ UNCHANGED <<action, blocked, pending, strays>>

\* sigaction(SIGALRM, oldact)
Restore ==
  /\ at = "restore"
  /\ action' = "default"
  /\ at' = "unblock"
  /\ UNCHANGED <<blocked, pending, timer, strays>>

\* sigprocmask(SIG_SETMASK, oldmask): a pending SIGALRM does what the restored
\* disposition says.
Unblock ==
  /\ at = "unblock"
  /\ blocked' = FALSE /\ pending' = FALSE
  /\ at' = IF pending THEN "killed" ELSE "main"
  /\ UNCHANGED <<action, timer, strays>>

\* SIGALRM is generated.
Alarmed ==
  IF blocked /\ at # "asleep" THEN pending' = TRUE /\ UNCHANGED at
  ELSE /\ at' = CASE action = "default" -> "killed"
                  [] at = "asleep"      -> "cancel"
                  [] OTHER              -> at
       /\ UNCHANGED pending

Expire ==
  /\ timer /\ at # "killed"
  /\ timer' = FALSE
  /\ Alarmed
  /\ UNCHANGED <<action, blocked, strays>>

Stray ==
  /\ strays < MaxStray /\ at # "killed"
  /\ strays' = strays + 1
  /\ Alarmed
  /\ UNCHANGED <<action, blocked, timer>>

Process == Install \/ Block \/ SetAlarm \/ Suspend \/ Cancel \/ Restore \/ Unblock

Next == Process \/ Expire \/ Stray

\* The process runs when it can, and a timer runs down.
FairSpec == Init /\ [][Next]_vars /\ WF_vars(Process) /\ WF_vars(Expire)

-----------------------------------------------------------------------------
TypeOK ==
  /\ at \in {"main", "block", "alarm", "suspend", "asleep", "cancel", "restore",
             "unblock", "killed"}
  /\ action \in {"default", "do_sig"}
  /\ blocked \in BOOLEAN /\ pending \in BOOLEAN /\ timer \in BOOLEAN
  /\ strays \in 0..MaxStray

\* A sleep leaves nothing of itself: no timer that ends the process later, no mask,
\* no handler, although another SIGALRM may have cut it short.
NothingLeft ==
  at = "main" => ~timer /\ ~blocked /\ ~pending /\ action = "default"

\* "block SIGALRM first, so that there is no race": without others' signals the
\* process survives and wakes only when its timer has run down, however long it
\* takes from alarm to sigsuspend.
SleepsItsTime ==
  strays = 0 => at # "killed" /\ (at \in {"cancel", "restore", "unblock"} => ~timer)

\* Each sleep ends.
SleepEnds == at = "suspend" ~> at \in {"main", "killed"}
=============================================================================

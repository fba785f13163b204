---------------------------- MODULE SharedRecord ----------------------------
(***************************************************************************)
(* The mapped files of src/005_process_IPC/07mmap_IPC and 08mmap_process:  *)
(* a writer that goes on overwriting a record, and readers that print it,  *)
(* over a file "mmap.temp" that whoever comes first creates.  The readers  *)
(* of 08 take the file's name away.  Nothing is locked: id and sex are     *)
(* written and read in one piece, the name ("zhang-" and the number of the *)
(* turn; in 07 it is all there is) byte by byte.  A byte is modelled as    *)
(* the turn it was written in.  The writer may be killed once, at any      *)
(* point, and started again; its turns are counted on then, but the        *)
(* numbers it writes begin with 0 again.                                   *)
(***************************************************************************)
EXTENDS Integers, FiniteSets

CONSTANTS
  Readers,
  Unlinking,  \* the programs are those of 08mmap_process
  Fixed,      \* bytes of a name beside its number
  Longer,     \* numbers with one digit more than the one before: 10, 100, ...
  Files,      \* bound: files that have had the name
  MaxTurns    \* bound: turns of the writer

ASSUME RecordAssumption ==
  /\ MaxTurns \in Nat /\ Unlinking \in BOOLEAN
  /\ Fixed \in Nat /\ Longer \subseteq Nat /\ IsFiniteSet(Longer)

\* The bytes of the longest name that is written, with the one that ends it: they fit
\* into the 20 that it has.  The record is written from the first field to the last.
Bytes  == Fixed + 2 + Cardinality(Longer)
Id     == 0
Name   == 1..Bytes
Sex    == Bytes + 1
Fields == Id..Sex

NoFile == 0
Unread == -1

VARIABLES
  link,   \* the file that has the name mmap.temp
  full,   \* files the writer has given their size
  mem,    \* the record in each file; 0 before the first turn
  wat, wfile, turn, field,   \* the writer: place, file, turn, what it writes next
  cut,    \* the turn in which the writer was killed, 0 before that
  rat, rfile,       \* each reader: place, file
  seenId, seenSex,  \* those of its line
  len,              \* the bytes of the name it has found
  copied, bytes,    \* how many of them it has printed, and of which turns
  early   \* readers that opened a file before it had its size

writer  == <<wat, wfile, turn, field, cut>>
line    == <<seenId, seenSex, len, copied, bytes>>
readers == <<rat, rfile, line, early>>
file    == <<link, full, mem>>
vars    == <<file, writer, readers>>

Blank == [f \in Fields |-> 0]

\* In 07mmap_IPC the record is the name.
First == IF Unlinking THEN Id ELSE 1

\* There is no file yet, or one that was left by an earlier run.
Init ==
  /\ link \in Files \cup {NoFile}
  /\ full = {link} \ {NoFile}
  /\ mem = [x \in Files |-> Blank]
  /\ wat = "open" /\ wfile = NoFile /\ turn = 1 /\ field = First /\ cut = 0
  /\ rat = [r \in Readers |-> "open"]
  /\ rfile = [r \in Readers |-> NoFile]
  /\ seenId = [r \in Readers |-> Unread] /\ seenSex = [r \in Readers |-> Unread]
  /\ len = [r \in Readers |-> 0] /\ copied = [r \in Readers |-> 0]
  /\ bytes = [r \in Readers |-> {}]
  /\ early = {}

\* open(O_CREAT): the file that has the name, or a new one, which is empty (which one
\* of those that nobody has open makes no difference).
InUse  == {wfile, link} \cup {rfile[r] : r \in Readers}
Opened == IF link # NoFile THEN link ELSE CHOOSE x \in Files : x \notin InUse
Found(x) == IF link # NoFile THEN mem ELSE [mem EXCEPT ![x] = Blank]

\* Index: it begins with 0 in each run of the writer.
Index(t) == IF cut < t THEN t - 1 - cut ELSE t - 1

Digits(i) == 1 + Cardinality({k \in Longer : k <= i})
Length(t) == Fixed + Digits(Index(t))

\* (if a name was written without the byte that ends it)
Unended(p, t) == t = 0

\* What turn t left at byte p ends a name: sprintf puts a 0 behind it, and there are
\* zeros where it has never been.
Ends0(p, t) == t = 0 \/ p > Length(t)

-----------------------------------------------------------------------------
(* The writer                                                               *)

\* (if it was opened with O_TRUNC)
Truncated(x) == full \ {x}

\* The files that have their size once x is opened.
Kept(x) == IF link # NoFile THEN full ELSE full \ {x}

WriterOpens ==
  /\ wat = "open"
  /\ wfile' = Opened /\ link' = Opened /\ full' = Kept(Opened) /\ mem' = Found(Opened)
  /\ wat' = "extend"
  /\ UNCHANGED <<turn, field, cut, readers>>

\* One byte is written at the end of the size the record needs.
WriterExtends ==
  /\ wat = "extend"
  /\ full' = full \cup {wfile}
  /\ wat' = "write"
  /\ UNCHANGED <<link, mem, wfile, turn, field, cut, readers>>

\* (if sex was set before the name)
SexFirst(f) ==
  IF f = Id THEN Sex ELSE IF f = Sex THEN 1 ELSE IF f = Length(turn) + 1 THEN Id ELSE f + 1

\* id, the name with the byte that ends it, sex, and the next turn.
FieldAfter(f) ==
  IF f \in Name /\ f <= Length(turn) THEN f + 1
  ELSE IF f = Id THEN 1
  ELSE IF f \in Name /\ Unlinking THEN Sex
  ELSE First

\* The next byte of the name, or the next field.  The turn ends with the last of them.
WriterWrites ==
  /\ wat = "write" /\ turn <= MaxTurns
  /\ mem' = [mem EXCEPT ![wfile][field] = turn]
  /\ field' = FieldAfter(field)
  /\ turn' = IF field' = First THEN turn + 1 ELSE turn
  /\ UNCHANGED <<link, full, wat, wfile, cut, readers>>

\* The record stays as it is, and the next run opens what has the name mmap.temp then;
\* killed at most once (bound).
WriterKilled ==
  /\ wat # "open" /\ turn <= MaxTurns /\ cut = 0
  /\ wat' = "open" /\ wfile' = NoFile /\ field' = First
  /\ turn' = turn + 1 /\ cut' = turn
  /\ UNCHANGED <<file, readers>>

Writer == WriterOpens \/ WriterExtends \/ WriterWrites

-----------------------------------------------------------------------------
(* A reader                                                                 *)

\* The file's size is not looked at: lseek's arguments are swapped, and it returns
\* 2 for every file.
ReaderOpens(r) ==
  /\ rat[r] = "open"
  /\ rfile' = [rfile EXCEPT ![r] = Opened]
  /\ link' = Opened /\ full' = Kept(Opened) /\ mem' = Found(Opened)
  /\ early' = IF link \in full THEN early ELSE early \cup {r}
  /\ rat' = [rat EXCEPT ![r] = IF Unlinking THEN "unlink" ELSE "print"]
  /\ UNCHANGED <<writer, line>>

\* unlink fails when another reader was faster; then the program exits.
ReaderUnlinks(r) ==
  /\ rat[r] = "unlink"
  /\ rat' = [rat EXCEPT ![r] = IF link = NoFile THEN "failed" ELSE "print"]
  /\ link' = NoFile
  /\ UNCHANGED <<full, mem, writer, rfile, line, early>>

\* The mapping ends with the file: access to an empty one raises SIGBUS.
BusError(r) ==
  /\ rat[r] = "print" /\ rfile[r] \notin full
  /\ rat' = [rat EXCEPT ![r] = "killed"]
  /\ UNCHANGED <<file, writer, rfile, line, early>>

Reads(r) == rat[r] = "print" /\ rfile[r] \in full

\* printf has id and sex as arguments, in an order the compiler chooses,
ReadsId(r) ==
  /\ Reads(r) /\ Unlinking /\ seenId[r] = Unread
  /\ seenId' = [seenId EXCEPT ![r] = mem[rfile[r]][Id]]
  /\ UNCHANGED <<file, writer, rat, rfile, seenSex, len, copied, bytes, early>>

ReadsSex(r) ==
  /\ Reads(r) /\ Unlinking /\ seenSex[r] = Unread
  /\ seenSex' = [seenSex EXCEPT ![r] = mem[rfile[r]][Sex]]
  /\ UNCHANGED <<file, writer, rat, rfile, seenId, len, copied, bytes, early>>

\* and for the name it has a pointer: it looks for the byte that ends the name,
FindsByte(r) ==
  /\ Reads(r) /\ (Unlinking => seenId[r] # Unread /\ seenSex[r] # Unread)
  /\ IF Ends0(len[r] + 1, mem[rfile[r]][len[r] + 1])
     THEN rat' = [rat EXCEPT ![r] = "copy"] /\ UNCHANGED len
     ELSE len' = [len EXCEPT ![r] = @ + 1] /\ UNCHANGED rat
  /\ UNCHANGED <<file, writer, rfile, seenId, seenSex, copied, bytes, early>>

\* and reads those before it once more, to print them.
CopiesByte(r) ==
  /\ rat[r] = "copy" /\ copied[r] < len[r]
  /\ copied' = [copied EXCEPT ![r] = @ + 1]
  /\ bytes' = [bytes EXCEPT ![r] = @ \cup {mem[rfile[r]][copied[r] + 1]}]
  /\ UNCHANGED <<file, writer, rat, rfile, seenId, seenSex, len, early>>

\* The line is printed; after a second comes the next one.
LineIsOut(r) ==
  /\ rat[r] = "copy" /\ copied[r] = len[r]
  /\ rat' = [rat EXCEPT ![r] = "print"]
  /\ seenId' = [seenId EXCEPT ![r] = Unread] /\ seenSex' = [seenSex EXCEPT ![r] = Unread]
  /\ len' = [len EXCEPT ![r] = 0] /\ copied' = [copied EXCEPT ![r] = 0]
  /\ bytes' = [bytes EXCEPT ![r] = {}]
  /\ UNCHANGED <<file, writer, rfile, early>>

Prints(r) == ReadsId(r) \/ ReadsSex(r) \/ FindsByte(r) \/ CopiesByte(r) \/ LineIsOut(r)

Reader(r) == ReaderOpens(r) \/ ReaderUnlinks(r) \/ BusError(r) \/ Prints(r)

Next == Writer \/ WriterKilled \/ \E r \in Readers : Reader(r)

Spec == Init /\ [][Next]_vars

-----------------------------------------------------------------------------
TypeOK ==
  /\ link \in Files \cup {NoFile} /\ full \subseteq Files
  /\ mem \in [Files -> [Fields -> 0..MaxTurns]]
  /\ wat \in {"open", "extend", "write"}
  /\ wfile \in Files \cup {NoFile} /\ turn \in 1..MaxTurns+1
  /\ field \in Fields /\ cut \in 0..MaxTurns
  /\ rat \in [Readers -> {"open", "unlink", "print", "copy", "failed", "killed"}]
  /\ rfile \in [Readers -> Files \cup {NoFile}]
  /\ seenId \in [Readers -> -1..MaxTurns] /\ seenSex \in [Readers -> -1..MaxTurns]
  /\ len \in [Readers -> 0..Bytes-1] /\ copied \in [Readers -> 0..Bytes-1]
  /\ bytes \in [Readers -> SUBSET (0..MaxTurns)]
  /\ early \subseteq Readers

\* A byte of turn b that the killed writer has left, in a file that was written in turn t.
LeftOver(b, t) == b <= cut /\ cut < t

\* A name may be that of no turn, "zhang-1" between "zhang-9" and "zhang-10", and a line
\* may mix the fields of several, for nothing keeps writer and readers apart and a name
\* may be left half written.  But each byte of the name that is printed was written for a
\* name, not earlier than the sex of the line and not before the turn of its id, but for
\* the last turn and the one in which the writer was killed.  Digits that a killed writer
\* left behind the name may be printed once its successor's numbers get longer.
LinesMixForwards ==
  \A r \in Readers : \A b \in bytes[r] :
    /\ b > 0
    /\ b >= seenSex[r] \/ LeftOver(b, seenSex[r])
    /\ b+1..seenId[r]-1 \subseteq {cut} \/ LeftOver(b, seenId[r])

\* A reader that found the file with its size is not killed by SIGBUS, whoever else
\* opens the file or takes its name away; the check for an empty file, which never
\* fails, is missed by the others only.
OnlyEarlyReadersFault == \A r \in Readers : rat[r] = "killed" => r \in early
=============================================================================

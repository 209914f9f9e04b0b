--------------------------- MODULE FFSPathLookup ---------------------------
(* What a create on a mounted FFS volume promises, whatever the driver      *)
(* keeps in memory: the file it opens is the one the directories on disk    *)
(* lead to.  FFSNameCache is shown to implement it.                         *)
EXTENDS FFSDirTree

CONSTANTS
  Handles,      \* file objects
  NoQuestion

VARIABLES
  question,   \* the create under way, or NoQuestion
  hindered,   \* it met a failed read, a failed allocation or a share conflict
  file        \* [Handles -> the inode a file object is open on, or NoIno]

vars == <<question, hindered, file>>

(* A question: the file object to open, the inode its name is relative to  *)
(* (the root for a full name), the path, whether a backslash ends it, and  *)
(* whether it has to be new, a directory, or anything but a directory.     *)
Question == [to : Handles, start : Inodes, path : Paths, slash : BOOLEAN,
             want : {"any", "directory", "file", "new"}]

(* The parent of the last component is a file that is not a directory. *)
BelowAFile(q) ==
  /\ Len(q.path) > 1
  /\ LET up == Resolve(q.start, Front(q.path)) IN up # NoIno /\ ~IsDir(up)

(* What may be open after an unhindered create.  Nothing is ever created,  *)
(* and the empty name does not reopen the file object it is relative to.   *)
(* A backslash behind a file is overlooked or refused: the code is not of  *)
(* one mind about it.                                                      *)
Answers(q) ==
  LET ino == Resolve(q.start, q.path) IN
  IF \/ q.path = <<>> /\ ~q.slash
     \/ q.want = "new" \/ (q.want = "file" /\ IsDir(ino))
  THEN {NoIno}
  ELSE {ino} \cup (IF q.slash /\ ~IsDir(ino) THEN {NoIno} ELSE {})

Init ==
  /\ question = NoQuestion /\ hindered = FALSE
  /\ file = [h \in Handles |-> NoIno]

Ask(q) ==
  /\ question = NoQuestion /\ file[q.to] = NoIno
  /\ q.start = RootIno \/ \E h \in Handles : q.start = file[h]
  /\ question' = q
  /\ UNCHANGED <<hindered, file>>

Hinder ==
  /\ question # NoQuestion
  /\ hindered' = TRUE
  /\ UNCHANGED <<question, file>>

Answer ==
  /\ question # NoQuestion
  /\ \E ino \in Answers(question) \cup (IF hindered THEN {NoIno} ELSE {}) :
       file' = [file EXCEPT ![question.to] = ino]
  /\ question' = NoQuestion /\ hindered' = FALSE

Close(h) ==
  /\ question = NoQuestion /\ file[h] # NoIno
  /\ file' = [file EXCEPT ![h] = NoIno]
  /\ UNCHANGED <<question, hindered>>

(* The one question that may bring the system down, for a name below a file *)
Fault ==
  /\ question # NoQuestion /\ BelowAFile(question) /\ ~question.slash
  /\ question' = NoQuestion /\ hindered' = FALSE
  /\ file' = [h \in Handles |-> NoIno]

Next ==
  \/ \E q \in Question : Ask(q)
  \/ Hinder \/ Answer
  \/ \E h \in Handles : Close(h)
  \/ Fault

Spec == Init /\ [][Next]_vars
=============================================================================

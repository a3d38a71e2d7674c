------------------------------- MODULE FileApi -------------------------------
(***************************************************************************)
(* What open, close, read and write promise to a program.  A descriptor    *)
(* belongs to one process, stands for the file its path names and has a    *)
(* position of its own: the bytes of two transfers through it follow each  *)
(* other, and nothing that another process does moves it.  An open may     *)
(* fail for want of resources.                                             *)
(***************************************************************************)
EXTENDS Integers

CONSTANTS
  Process, Fd, Path,
  Denoted,           \* the file a path names, NoFile when it names none
  NoFile,
  Transfers(_, _)    \* how many bytes one transfer at a position may move

VARIABLE desc        \* the descriptors of a process

Closed == [vnode |-> NoFile, pos |-> 0]

Init == desc = [p \in Process |-> [fd \in Fd |-> Closed]]

Open(p, path) ==
  /\ Denoted[path] # NoFile
  /\ \E fd \in Fd :
       /\ desc[p][fd] = Closed
       /\ desc' = [desc EXCEPT ![p][fd] = [vnode |-> Denoted[path], pos |-> 0]]

Close(p, fd) ==
  /\ desc[p][fd] # Closed
  /\ desc' = [desc EXCEPT ![p][fd] = Closed]

Transfer(p, fd) ==
  /\ desc[p][fd] # Closed
  /\ \E n \in Transfers(desc[p][fd].vnode, desc[p][fd].pos) :
       desc' = [desc EXCEPT ![p][fd].pos = @ + n]

Next ==
  \E p \in Process : \/ \E path \in Path : Open(p, path)
                     \/ \E fd \in Fd : Close(p, fd) \/ Transfer(p, fd)

Spec == Init /\ [][Next]_desc

==============================================================================

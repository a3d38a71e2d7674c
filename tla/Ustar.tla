-------------------------------- MODULE Ustar --------------------------------
(***************************************************************************)
(* The archive behind the initrd file system: src/initrd/initrd.c and the  *)
(* scan that it shares with src/initrd/initrdfs.c.                         *)
(*                                                                         *)
(* The archive is a sequence of blocks: a header for each member, followed *)
(* by as many blocks of data as its size needs, and blocks of zeros.  The  *)
(* scan steps from header to header by the size that it reads in octal.    *)
(* The writer, tar, is external.  A string is the sequence of its          *)
(* characters.                                                             *)
(***************************************************************************)
EXTENDS Integers, SequencesExt

CONSTANTS
  Member,       \* what was archived: names, dir and size, in order
  BLOCK,        \* 512
  NAME_SIZE,    \* 100, the bytes of the field for the name
  DIGITS,       \* 11, the octal digits of the field for the size
  MAX_NAME      \* 256, the bytes of the buffers for paths

ASSUME UstarAssumption ==
  /\ BLOCK \in Nat \ {0}
  /\ NAME_SIZE \in Nat \ {0}
  /\ DIGITS \in Nat \ {0}
  /\ MAX_NAME \in Nat \ {0, 1}

SLASH == <<"/">>

Minimum(a, b) == IF a < b THEN a ELSE b

\* The number of blocks that hold n bytes.
Rounded(n) == (n + BLOCK - 1) \div BLOCK

(***************************************************************************)
(* tar.  A path longer than the field for the name is split at a slash; a  *)
(* name that fills its field is not terminated.  What follows in the       *)
(* header are the digits of the mode.                                      *)
(***************************************************************************)
Joined(names) ==
  IF names = <<>> THEN <<>>
  ELSE Tail(FlattenSeq([i \in DOMAIN names |-> SLASH \o names[i]]))

PathOf(m) == Joined(m.names) \o (IF m.dir THEN SLASH ELSE <<>>)

Splits(path) == {i \in 2 .. Len(path) - 1 : path[i] = "/" /\ Len(path) - i <= NAME_SIZE}

SplitAt(path) == IF Len(path) <= NAME_SIZE THEN 0 ELSE Min(Splits(path))

\* n without its last k octal digits.
Without(n) ==
  LET rest[k \in 0 .. DIGITS] == IF k = 0 THEN n ELSE rest[k - 1] \div 8 IN rest

Octal(n) ==
  [i \in 1 .. DIGITS + 1 |-> IF i > DIGITS THEN -1 ELSE Without(n)[DIGITS - i] % 8]

Mode(m) == IF m.dir THEN <<"7">> ELSE <<"6">>

Header(m, path, split) ==
  [is       |-> "header",
   prefix   |-> SubSeq(path, 1, split - 1),
   name     |-> SubSeq(path, split + 1, Len(path)),
   mode     |-> Mode(m),
   size     |-> Octal(m.size),
   typeflag |-> IF m.dir THEN 5 ELSE 0]

HeaderOf(m) == Header(m, PathOf(m), SplitAt(PathOf(m)))

Filler(is, n) == [i \in 1 .. n |-> [is |-> is]]

Image ==
  FlattenSeq([i \in DOMAIN Member |->
                <<HeaderOf(Member[i])>>
                  \o Filler("data", (Member[i].size + BLOCK - 1) \div BLOCK)])
    \o Filler("zeros", 2)

------------------------------------------------------------------------------
(***************************************************************************)
(* The scan.                                                               *)
(***************************************************************************)
\* Digits up to the first character that is none (-1 is the NUL at the end).
oct2int(field) ==
  LET val[i \in 0 .. Len(field)] ==
        IF i = 0 THEN 0
        ELSE IF \E j \in 1 .. i : field[j] \notin 0 .. 7 THEN val[i - 1]
        ELSE val[i - 1] * 8 + field[i]
  IN  val[Len(field)]

StripSlash(path) ==
  IF Len(path) > 1 /\ Last(path) = "/" THEN Front(path) ELSE path

\* With a prefix the name is measured by its field; without one it is copied up
\* to the first NUL, which may lie behind the field, in the mode.
fullpath(h) ==
  StripSlash(IF h.prefix # <<>> THEN h.prefix \o SLASH \o h.name
             ELSE IF Len(h.name) < NAME_SIZE THEN h.name
             ELSE h.name \o h.mode)

\* The scan ends at the end of the archive and at anything that is no header.
ScanOf(image) ==
  LET from[i \in Nat \ {0}] ==
        IF i > Len(image) THEN <<>>
        ELSE IF image[i].is # "header" THEN <<>>
        ELSE <<[path |-> fullpath(image[i]), size |-> oct2int(image[i].size),
                dir |-> image[i].typeflag = 5]>>
               \o from[i + 1 + Rounded(oct2int(image[i].size))]
  IN  from[1]

Scan == ScanOf(Image)

\* The entries that the scan compares with a path; the first one is taken.
Matches(path) == {i \in DOMAIN Scan : Scan[i].path = path}

initrd_lookup(path) == Scan[Min(Matches(path))]

(***************************************************************************)
(* readdir of a directory: the entries that begin with its path and a      *)
(* slash and have no other slash behind it, one by one.                    *)
(***************************************************************************)
\* A slip: the slash behind the directory's path is not looked at.
RestUnchecked(dir, path) ==
  IF dir = <<>> THEN path
  ELSE IF IsPrefix(dir, path) THEN SubSeq(path, Len(dir) + 2, Len(path)) ELSE <<>>

Rest(dir, path) ==
  IF dir = <<>> THEN path
  ELSE IF IsPrefix(dir \o SLASH, path) THEN SubSeq(path, Len(dir) + 2, Len(path)) ELSE <<>>

IsChild(dir, path) == Rest(dir, path) # <<>> /\ "/" \notin ToSet(Rest(dir, path))

\* strncpy to a buffer of max bytes, with a terminator: at most max - 1.
Cut(name, max) == SubSeq(name, 1, Minimum(Len(name), max - 1))

\* Those that are found, one by one; <<>> stands for what is passed over.
Found(rests) ==
  LET upto[i \in 0 .. Len(rests)] ==
        IF i = 0 THEN <<>>
        ELSE IF rests[i] = <<>> THEN upto[i - 1]
        ELSE Append(upto[i - 1], rests[i])
  IN  upto[Len(rests)]

Children(dir) ==
  Found([i \in DOMAIN Scan |->
           IF IsChild(dir, Scan[i].path) THEN Rest(dir, Scan[i].path) ELSE <<>>])

\* <<>> stands for -1: no entry with this index.
initrd_dir_readdir(dir, index, max) ==
  IF index < Len(Children(dir)) THEN Cut(Children(dir)[index + 1], max) ELSE <<>>

==============================================================================

------------------------------- MODULE VfsPath -------------------------------
(***************************************************************************)
(* Paths: find_mount and vfs_resolve of src/vfs/vfs.c with the finddir of  *)
(* the two file systems, src/devfs/devfs.c and src/initrd/initrdfs.c.      *)
(*                                                                         *)
(* A path is a sequence of characters, a name the characters between two   *)
(* slashes.  A vnode is its file system and its path from the root of that *)
(* file system.  No driver ever sets mounted_here, so the mount table is   *)
(* the only way from one file system to another.  The mount table and the  *)
(* registry of devices are filled by kmain and do not change afterwards.   *)
(***************************************************************************)
EXTENDS Ustar

CONSTANTS
  Mount,      \* mount_table: the paths, each with its file system
  registry    \* devfs's entries: name, kind and size

Kind == {"dir", "file", "tty", "null", "zero", "fb"}

NoNode   == [fs |-> "none", path |-> <<>>]
Root(fs) == [fs |-> fs, path |-> <<>>]

\* The first device of a name is the one that is found.
Registered(name) == {i \in DOMAIN registry : registry[i].name = name}

\* What kind of vnode it is, and how many bytes its driver finds in it:
\* initrd_vnode_create, devfs_vnode_from_entry.
Entry(node) ==
  IF node.path = <<>> THEN [kind |-> "dir", size |-> 0]
  ELSE IF node.fs = "devfs"
  THEN LET d == registry[Min(Registered(node.path))] IN [kind |-> d.kind, size |-> d.size]
  ELSE LET e == initrd_lookup(node.path) IN
       [kind |-> IF e.dir THEN "dir" ELSE "file", size |-> e.size]

IsDir(node) == node # NoNode /\ Entry(node).kind = "dir"

(***************************************************************************)
(* The names in a path.                                                    *)
(***************************************************************************)
EndName(w) == IF w.name = <<>> THEN w
              ELSE [names |-> Append(w.names, w.name), name |-> <<>>]

Names(path) ==
  LET w[i \in 0..Len(path)] ==
        IF i = 0 THEN [names |-> <<>>, name |-> <<>>]
        ELSE IF path[i] = "/" THEN EndName(w[i - 1])
        ELSE [w[i - 1] EXCEPT !.name = Append(@, path[i])]
  IN  EndName(w[Len(path)]).names

(***************************************************************************)
(* find_mount: the mount with the longest path that path begins with,      *)
(* character by character; the first one of two of a length.               *)
(***************************************************************************)
\* A slip: the first mount that matches.
FindFirstMount(path) ==
  LET match == {i \in DOMAIN Mount : IsPrefix(Mount[i].path, path)} IN
  IF match = {} THEN 0 ELSE Min(match)

find_mount(path) ==
  LET match == {i \in DOMAIN Mount : /\ Mount[i].path # <<>>
                                     /\ IsPrefix(Mount[i].path, path)}
      best  == {i \in match : \A j \in match : Len(Mount[j].path) <= Len(Mount[i].path)}
  IN  IF match = {} THEN 0 ELSE Min(best)

(***************************************************************************)
(* finddir and readdir of the two file systems: devfs has one directory,   *)
(* and the archive is searched for the whole path of the child.            *)
(***************************************************************************)
devfs_root_finddir(node, name) ==
  IF Registered(name) # {} THEN [node EXCEPT !.path = name] ELSE NoNode

\* ksnprintf cuts the child's path to its buffer.
child_path(node, name) ==
  Cut(IF node.path = <<>> THEN name ELSE node.path \o SLASH \o name, MAX_NAME)

initrd_dir_finddir(node, name) ==
  IF Matches(child_path(node, name)) # {}
  THEN [node EXCEPT !.path = child_path(node, name)] ELSE NoNode

devfs_root_readdir(index, max) ==
  IF index < Len(registry) THEN Cut(registry[index + 1].name, max) ELSE <<>>

\* vfs_readdir; <<>> stands for -1.
vfs_readdir(node, index, max) ==
  IF ~IsDir(node) THEN <<>>
  ELSE IF node.fs = "devfs" THEN devfs_root_readdir(index, max)
  ELSE initrd_dir_readdir(node.path, index, max)

finddir(node, name) ==
  IF ~IsDir(node) THEN NoNode
  ELSE IF node.fs = "devfs" THEN devfs_root_finddir(node, name)
  ELSE initrd_dir_finddir(node, name)

\* Where the names lead from the root of a file system.
Walk(root, names) ==
  LET node[i \in 0..Len(names)] ==
        IF i = 0 THEN root ELSE finddir(node[i - 1], names[i])
  IN  node[Len(names)]

vfs_resolve(path) ==
  LET mnt == find_mount(path) IN
  IF mnt = 0 THEN NoNode
  ELSE Walk(Root(Mount[mnt].fs),
            Names(SubSeq(path, Len(Mount[mnt].path) + 1, Len(path))))

(***************************************************************************)
(* What a path names in the one tree that the mounts make of the file      *)
(* systems, whatever slashes it is written with.  The entries of the       *)
(* archive below another mount (initrd.tar has an empty dev) are hidden.   *)
(* A member whose name fills the field of its header goes by a name that   *)
(* ends with the digits of its mode.                                       *)
(***************************************************************************)
MountNames(i) == Names(Mount[i].path)

Hidden(names) ==
  \E i \in DOMAIN Mount : Mount[i].fs # "initrd" /\ IsPrefix(MountNames(i), names)

Shown(m) == IF Len(PathOf(m)) = NAME_SIZE THEN Names(PathOf(m) \o Mode(m)) ELSE m.names

MemberNode(m) == [fs |-> "initrd", path |-> Joined(Shown(m))]

Archived == {m \in ToSet(Member) : ~Hidden(Shown(m))}

Node == {Root(Mount[i].fs) : i \in DOMAIN Mount}
          \cup {[fs |-> "devfs", path |-> d.name] : d \in ToSet(registry)}
          \cup {MemberNode(m) : m \in Archived}

FullName(node) ==
  MountNames(CHOOSE i \in DOMAIN Mount : Mount[i].fs = node.fs) \o Names(node.path)

\* There is no current directory: a path that does not begin with a slash
\* names nothing.
Absolute(path) == path # <<>> /\ path[1] = "/"

Named(path) == {node \in Node : Absolute(path) /\ FullName(node) = Names(path)}

Denotes(path) == IF Named(path) = {} THEN NoNode ELSE CHOOSE node \in Named(path) : TRUE

\* find_mount compares characters, not names: "/device" begins with "/dev" and
\* "//dev" does not.  For these paths the comparison means what it should.
Plain(path) ==
  \A i \in DOMAIN Mount :
    IsPrefix(Mount[i].path, path) <=>
      Absolute(path) /\ IsPrefix(MountNames(i), Names(path))

\* The names in a directory, in their order: of devices, or of members.
NamesIn(node) ==
  IF node.fs = "devfs" THEN [i \in DOMAIN registry |-> registry[i].name]
  ELSE Found([i \in DOMAIN Member |->
                IF Front(Shown(Member[i])) = Names(node.path)
                THEN Last(Shown(Member[i])) ELSE <<>>])

(***************************************************************************)
(* What kmain mounts and registers, and what may be archived: tar refuses  *)
(* a path that it cannot split and a size that its field cannot hold; no   *)
(* two members go by one name, and every path fits a buffer.               *)
(***************************************************************************)
Name == Seq(STRING \ {"/"}) \ {<<>>}

ASSUME FileSystemsAssumption ==
  /\ Mount \in Seq([path : Seq(STRING), fs : {"initrd", "devfs"}]) /\ Len(Mount) = 2
  /\ Mount[1] = [path |-> SLASH, fs |-> "initrd"]
  /\ Mount[2] = [path |-> SLASH \o Tail(Mount[2].path), fs |-> "devfs"]
  /\ Tail(Mount[2].path) \in Name
  /\ registry \in Seq([name : Name, kind : Kind \ {"dir"}, size : Nat])
  /\ Member \in Seq([names : Seq(Name) \ {<<>>}, dir : BOOLEAN, size : Nat])
  /\ \A i \in DOMAIN Member :
       /\ Without(Member[i].size)[DIGITS] = 0
       /\ Len(PathOf(Member[i])) > NAME_SIZE => Splits(PathOf(Member[i])) # {}
       /\ Len(Joined(Shown(Member[i]))) < MAX_NAME
       /\ \A j \in DOMAIN Member : Shown(Member[i]) = Shown(Member[j]) => i = j

\* A file is in directories that are archived, too.
Reached(names) ==
  \A k \in 1 .. Len(names) - 1 :
    \E m \in ToSet(Member) : m.dir /\ Shown(m) = SubSeq(names, 1, k)

==============================================================================

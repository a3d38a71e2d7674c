-------------------------------- MODULE MCVfs --------------------------------
(***************************************************************************)
(* Bounds for model-checking Vfs: one letter stands for each name.         *)
(***************************************************************************)
EXTENDS Vfs, TLC

CONSTANTS p1, p2, f1, f2, f3, f4

MCProcess == {p1, p2}
MCFile    == {f1, f2, f3, f4}
MCSymmetry == Permutations(MCProcess) \cup Permutations(MCFile)

\* "/" with the archive and "/d" with the devices.  The archive has an empty
\* directory d of its own, which the mount hides.  Sizes fill no block, one,
\* or a part of the last one; b/pp and b/d/ fill the field for the name, and
\* what is in p/tt needs a prefix; the file bpp begins like the directory b.
MCMount == << [path |-> <<"/">>, fs |-> "initrd"],
              [path |-> <<"/", "d">>, fs |-> "devfs"] >>

Dir(names)        == [names |-> names, dir |-> TRUE, size |-> 0]
Regular(names, n) == [names |-> names, dir |-> FALSE, size |-> n]

MCMember == << Dir(<< <<"b">> >>), Regular(<< <<"b">>, <<"p">> >>, 3),
               Regular(<< <<"b", "p", "p">> >>, 9), Regular(<< <<"b">>, <<"p", "p">> >>, 2),
               Dir(<< <<"b">>, <<"d">> >>), Dir(<< <<"d">> >>), Dir(<< <<"p">> >>),
               Dir(<< <<"p">>, <<"t", "t">> >>),
               Regular(<< <<"p">>, <<"t", "t">>, <<"b">> >>, 0),
               Regular(<< <<"t">> >>, 1) >>

MCRegistry == << [name |-> <<"n">>, kind |-> "null", size |-> 0],
                 [name |-> <<"z">>, kind |-> "zero", size |-> 0],
                 [name |-> <<"f">>, kind |-> "fb", size |-> 2],
                 [name |-> <<"t">>, kind |-> "tty", size |-> 0] >>

MCPath == { <<"/", "b", "/", "p">>, <<"/", "d">>, <<"/", "d", "/", "t", "/">>,
            <<"/", "d", "/", "f">>,
            <<"/", "d", "/", "z">>, <<"/", "d", "/", "n">> }

\* All paths of up to five of these characters.
MCSpelling == BoundedSeq({"/", "b", "d", "p", "t"}, 5)
                \cup {<<"/", "p", "/", "t", "t", "/", "b">>}

MCLens == {1, 2}

\* In units of 16 MiB: the program from 0x08048000 on, and the stack below
\* 0xb0000000, where the frame pointer leads too.
MCUserMapped == {8, 175}

==============================================================================

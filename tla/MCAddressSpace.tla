--------------------------- MODULE MCAddressSpace ----------------------------
(***************************************************************************)
(* A small machine for model-checking AddressSpace: pages of 3 bytes,      *)
(* tables of 8 entries, 13 slots, memory up to frame 61, which four        *)
(* processes can exhaust.  Frames 0 and 1 are the legacy area, 3 and 4 the *)
(* kernel, 5 to 7 the bitmap.                                              *)
(***************************************************************************)
EXTENDS AddressSpace

\* The first usable region ends inside a page, as it does on a PC.
MCMemoryMap == << [base |-> 0,   length |-> 5,   usable |-> TRUE],
                  [base |-> 5,   length |-> 1,   usable |-> FALSE],
                  [base |-> 6,   length |-> 180, usable |-> TRUE],
                  [base |-> 500, length |-> 12,  usable |-> FALSE],
                  [base |-> 1010, length |-> 30, usable |-> FALSE] >>
MCKernel      == [start |-> 9, end |-> 14]
MCFramebuffer == [addr |-> 600, size |-> 5]

\* The boot loader's memory, above what the boot hands out; the framebuffer's
\* marks fall on byte 40, in frame 13.
MCModule == [start |-> 150, end |-> 152]
MCInfo   == [start |-> 154, end |-> 158]

Segment(vaddr, filesz, memsz, offset) ==
  [vaddr |-> vaddr, filesz |-> filesz, memsz |-> memsz, offset |-> offset]

\* One segment over three pages that starts and ends inside a page; text and
\* data in pages of their own; two segments that meet in a page, the second
\* one without a byte in the file, and two whose ends wrap, one to below its first
\* page and one into it; a segment that reaches the stack; a file that is not a
\* program.
MCInit_program == [elf |-> TRUE, segments |-> <<Segment(25, 3, 5, 1)>>]
MCProgram ==
  {[elf |-> TRUE, segments |-> <<Segment(24, 3, 3, 1), Segment(28, 1, 4, 5)>>],
   [elf |-> TRUE, segments |-> <<Segment(26, 2, 3, 2), Segment(29, 0, 1, 4),
                                 Segment(30, 1, 1010, 1), Segment(32, 1, 1023, 2)>>],
   [elf |-> TRUE, segments |-> <<Segment(71, 2, 2, 1)>>],
   [elf |-> FALSE, segments |-> <<>>]}

=============================================================================

------------------------------ MODULE Arguments ------------------------------
(***************************************************************************)
(* The arguments of a program, from spawn to main: sys_spawn copies the    *)
(* strings into rows of its own (src/userspace/usyscall.c), uprocess_load  *)
(* lays them out in the upper page of the new stack, the strings first and *)
(* a table of pointers, its address and argc below them                    *)
(* (src/userspace/uprocess.c), and libc's _start reads them from there.    *)
(*                                                                         *)
(* A string is the sequence of its characters.  A word in the page is its  *)
(* value in the first of its bytes.  The rows are uninitialized memory     *)
(* before, which holds any bytes: junk or NULs.                            *)
(***************************************************************************)
EXTENDS Integers, Sequences

CONSTANTS
  MAX_ARGS, MAX_PATH,
  STACK_PAGE,     \* PAGE_SIZE, the bytes of the page
  WORD_SIZE,      \* 4
  STACK_BASE,     \* USER_STACK_TOP - PAGE_SIZE, the page's address
  Given           \* the arguments that programs spawn others with

ASSUME ArgumentsAssumption ==
  /\ {MAX_ARGS, MAX_PATH, STACK_PAGE, WORD_SIZE, STACK_BASE} \subseteq Nat \ {0}
  /\ STACK_PAGE % WORD_SIZE = 0
  /\ Given \subseteq Seq(Seq(STRING \ {"NUL"}))

VARIABLES
  args,           \* argv in the program that calls spawn
  kernel_strs,    \* the rows, one behind the other, and the byte behind the last
  copied,         \* how many strings are in their rows
  page,           \* the page by offset
  esp,            \* where the stack begins
  at,             \* "copy", "loaded", "main", "refused", or "overrun": something
                  \* was read or written outside of the rows or the page
  main            \* what main gets

argVars == <<args, kernel_strs, copied, page, esp, at, main>>

ArgInit ==
  /\ args \in Given
  /\ \E junk \in {"junk", "NUL"} : kernel_strs = [a \in 0 .. MAX_ARGS * MAX_PATH |-> junk]
  /\ copied = 0
  /\ page = [o \in 0 .. STACK_PAGE - 1 |-> "NUL"]
  /\ esp = 0 /\ at = "copy" /\ main = [argc |-> 0, argv |-> <<>>, last |-> 0]

------------------------------------------------------------------------------
(***************************************************************************)
(* sys_spawn: strnlen(user_str, MAX_PATH) + 1 bytes of each string; one    *)
(* that is too long loses its NUL, or leaves it in the next row.           *)
(***************************************************************************)
ByteOf(s, k) == IF k < Len(s) THEN s[k + 1] ELSE "NUL"

spawn_refuse ==
  /\ at = "copy" /\ Len(args) > MAX_ARGS
  /\ at' = "refused"
  /\ UNCHANGED <<args, kernel_strs, copied, page, esp, main>>

spawn_copy ==
  /\ at = "copy" /\ Len(args) <= MAX_ARGS /\ copied < Len(args)
  /\ LET s   == args[copied + 1]
         row == copied * MAX_PATH
         len == IF Len(s) < MAX_PATH THEN Len(s) ELSE MAX_PATH
     IN  kernel_strs' = [a \in DOMAIN kernel_strs |->
                           IF a \in row .. row + len THEN ByteOf(s, a - row) ELSE kernel_strs[a]]
  /\ copied' = copied + 1
  /\ UNCHANGED <<args, page, esp, at, main>>

(***************************************************************************)
(* uprocess_load.                                                          *)
(***************************************************************************)
\* Up to the first NUL: also through the rows that follow.
EndOf(bytes, a) == {e \in DOMAIN bytes : e >= a /\ bytes[e] = "NUL"}

StringAt(bytes, a) ==
  LET e == CHOOSE e \in EndOf(bytes, a) : \A f \in EndOf(bytes, a) : e <= f
  IN  IF EndOf(bytes, a) = {} THEN <<"unended">>
      ELSE [k \in 1 .. e - a |-> bytes[a + k - 1]]

\* A slip: no room for the NUL.
LenWithoutNul(s) == Len(s)

LenWithNul(s) == Len(s) + 1

\* Offsets of the strings, from the last one on; of the pointers, with a null
\* behind them; of argv and argc.
Offsets(strs) ==
  LET off[i \in 1 .. Len(strs) + 1] ==
        IF i = Len(strs) + 1 THEN STACK_PAGE ELSE off[i + 1] - LenWithNul(strs[i])
  IN  off

Null_at(off)    == (off \div WORD_SIZE) * WORD_SIZE - WORD_SIZE
ArgvAt(n, null) == null - n * WORD_SIZE

\* The words from argc on: argv is the 0-th.
Word(strs, off, argv, w) ==
  CASE w = -2                    -> Len(strs)
    [] w = -1                    -> STACK_BASE + argv
    [] w \in 0 .. Len(strs) - 1  -> STACK_BASE + off[w + 1]
    [] w = Len(strs)             -> 0

\* The strings whose bytes, with the NUL, include the one at o.
StringsOver(strs, off, o) ==
  {i \in 1 .. Len(strs) : o \in off[i] .. off[i] + LenWithNul(strs[i]) - 1}

Page(strs, off, argv) ==
  [o \in 0 .. STACK_PAGE - 1 |->
     IF o \in argv - 2 * WORD_SIZE .. argv + (Len(strs) + 1) * WORD_SIZE - 1
     THEN IF (o - argv) % WORD_SIZE = 0
          THEN Word(strs, off, argv, (o - argv) \div WORD_SIZE)
          ELSE "word"
     ELSE IF StringsOver(strs, off, o) # {}
     THEN LET i == CHOOSE i \in StringsOver(strs, off, o) : TRUE
          IN  ByteOf(strs[i], o - off[i])
     ELSE "NUL"]

Rows == [i \in 1 .. Len(args) |-> StringAt(kernel_strs, (i - 1) * MAX_PATH)]

load_args(strs, off, argv) ==
  /\ IF argv < 2 * WORD_SIZE
     THEN at' = "overrun" /\ UNCHANGED <<page, esp>>
     ELSE /\ page' = Page(strs, off, argv)
          /\ esp' = STACK_BASE + argv - 2 * WORD_SIZE
          /\ at' = "loaded"
  /\ UNCHANGED <<args, kernel_strs, copied, main>>

load_from(strs, off) == load_args(strs, off, ArgvAt(Len(strs), Null_at(off[1])))

uprocess_load_args ==
  /\ at = "copy" /\ Len(args) <= MAX_ARGS /\ copied = Len(args)
  /\ IF \E i \in 1 .. Len(args) : EndOf(kernel_strs, (i - 1) * MAX_PATH) = {}
     THEN at' = "overrun" /\ UNCHANGED <<args, kernel_strs, copied, page, esp, main>>
     ELSE load_from(Rows, Offsets(Rows))

(***************************************************************************)
(* _start: argc at esp, argv in the word above it; main follows argv.      *)
(***************************************************************************)
WordAt(addr) == page[addr - STACK_BASE]

_start ==
  /\ at = "loaded"
  /\ LET argc == WordAt(esp)
         argv == WordAt(esp + WORD_SIZE)
     IN  main' = [argc |-> argc,
                  argv |-> [i \in 1 .. argc |->
                              StringAt(page, WordAt(argv + (i - 1) * WORD_SIZE) - STACK_BASE)],
                  last |-> WordAt(argv + argc * WORD_SIZE)]
  /\ at' = "main"
  /\ UNCHANGED <<args, kernel_strs, copied, page, esp>>

ArgNext == spawn_refuse \/ spawn_copy \/ uprocess_load_args \/ _start

------------------------------------------------------------------------------
Bytes_needed ==
  LET sum[i \in 0 .. Len(args)] == IF i = 0 THEN 0 ELSE sum[i - 1] + Len(args[i]) + 1
      strings == sum[Len(args)]
  IN  strings + ((-strings) % WORD_SIZE) + (Len(args) + 3) * WORD_SIZE

Short == \A i \in DOMAIN args : Len(args[i]) < MAX_PATH

\* main gets the arguments that the caller of spawn gave, with a null pointer
\* behind them, when every string is shorter than MAX_PATH and all fit the page;
\* and only then is nothing outside of the page written.  (MAX_ARGS strings of
\* the length that sys_spawn lets pass need twice the page.)
ArgumentsArrive ==
  Short =>
    /\ at = "main" => main = [argc |-> Len(args), argv |-> args, last |-> 0]
    /\ at \in {"loaded", "main"} => Bytes_needed <= STACK_PAGE
    /\ at = "overrun" => Bytes_needed > STACK_PAGE

==============================================================================

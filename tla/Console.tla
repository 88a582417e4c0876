------------------------------ MODULE Console -------------------------------
(***************************************************************************)
(* The way of a keystroke: the interrupt handler of kernel/driver/ps2.c    *)
(* puts it into a ring, kernel_getkey takes it out with interrupts on,     *)
(* read_line of usr/shell.c edits a line with it, and parse_cmd splits the *)
(* line into words.                                                        *)
(*                                                                         *)
(* A key is what the line editor tells apart: a letter, a space, backspace *)
(* and enter, or a key without a character (shift, function keys).  Break  *)
(* codes and extended keys never enter the ring and are left out, with the *)
(* state of the modifiers.  Which key a keystroke was makes no difference  *)
(* to the ring, so it is chosen when the keystroke is read.                *)
(***************************************************************************)
EXTENDS Integers, Sequences, FiniteSets, SequencesExt

CONSTANTS
  Ring,         \* slots of the ring, 32
  Length,       \* MAX_COMMAND_LENGTH
  ArgLength,    \* MAX_ARGUMENT_LENGTH
  Keys          \* the keys on the keyboard

ASSUME ConsoleAssumption ==
  /\ Ring \in Nat \ {0} /\ Length \in Nat \ {0} /\ ArgLength \in Nat \ {0, 1}
  /\ Keys \subseteq {"x", "space", "backspace", "enter", "none"}

VARIABLES
  marked,                     \* history: a keystroke was marked, any one
  buffer, ready,              \* the slots: the marked keystroke?  a key at all?
  buffer_wptr, buffer_rptr,
  at,                         \* where the shell is
  temp,                       \* the key kernel_getkey is about to return
  str,                        \* the line read so far
  used,                       \* places of cmd that read_line stored to, from its start
  returned,                   \* history: kernel_getkey returned the marked one
  words                       \* command name and arguments of the last line

ring == <<buffer, ready, buffer_wptr, buffer_rptr>>
consoleVars == <<marked, ring, at, temp, str, used, returned, words>>

Slots == 0 .. Ring - 1
NoKey == [mark |-> FALSE, c |-> "none"]
Nothing == [i \in Slots |-> FALSE]

ConsoleInit ==
  /\ marked = FALSE
  /\ buffer = Nothing /\ ready = Nothing
  /\ buffer_wptr = 0 /\ buffer_rptr = 0
  /\ at = "getkey" /\ temp = NoKey
  /\ str = << >> /\ used = 0 /\ returned = FALSE /\ words = << >>

-----------------------------------------------------------------------------
(* The ring.                                                               *)

\* Mutant: the write pointer is masked with 30.
AfterShort(w) == (w + 1) % (Ring - 1)

\* (buffer_wptr + 1) & 31
After(w) == (w + 1) % Ring

\* ps2_handler stores a key, wherever the shell is.  It does not look whether
\* the slot is taken.
ps2_handler ==
  \E m \in BOOLEAN :
     /\ m => ~marked
     /\ marked' = (marked \/ m)
     /\ buffer' = [buffer EXCEPT ![buffer_wptr] = m]
     /\ ready' = [ready EXCEPT ![buffer_wptr] = TRUE]
     /\ buffer_wptr' = After(buffer_wptr)
     /\ UNCHANGED <<buffer_rptr, at, temp, str, used, returned, words>>

\* kernel_getkey, up to the copy of the key.
kernel_getkey ==
  /\ at = "getkey" /\ ready[buffer_rptr]
  /\ \E c \in Keys : temp' = [mark |-> buffer[buffer_rptr], c |-> c]
  /\ at' = "clear"
  /\ UNCHANGED <<marked, ring, str, used, returned, words>>

\* Mutant: the read pointer wraps as the write pointer does, the flag stays.
WrapsUncleared ==
  /\ at = "clear"
  /\ buffer_rptr' = (buffer_rptr + 1) % Ring
  /\ at' = "getchar"
  /\ UNCHANGED <<marked, buffer, ready, buffer_wptr, temp, str, used, returned, words>>

\* The flag is cleared and the pointer moved; past the last slot the whole
\* ring is initialised again.  (The key stays in its slot, but nobody looks at
\* a slot without its flag: the model forgets it.)
getkey_advance ==
  /\ at = "clear"
  /\ ready' = [ready EXCEPT ![buffer_rptr] = FALSE]
  /\ buffer' = [i \in Slots |-> ready'[i] /\ buffer[i]]
  /\ buffer_rptr' = buffer_rptr + 1
  /\ at' = IF buffer_rptr + 1 = Ring THEN "wipe" ELSE "getchar"
  /\ UNCHANGED <<marked, buffer_wptr, temp, str, used, returned, words>>

\* init_buffer: the slots are wiped, then the two pointers set, in three steps
\* between which a key can arrive.  (A key that arrives during the loop over
\* the slots is as good as one before or after it.)
init_buffer_wipe ==
  /\ at = "wipe"
  /\ buffer' = Nothing /\ ready' = Nothing
  /\ at' = "wptr"
  /\ UNCHANGED <<marked, buffer_wptr, buffer_rptr, temp, str, used, returned, words>>

init_buffer_wptr ==
  /\ at = "wptr"
  /\ buffer_wptr' = 0
  /\ at' = "rptr"
  /\ UNCHANGED <<marked, buffer, ready, buffer_rptr, temp, str, used, returned, words>>

init_buffer_rptr ==
  /\ at = "rptr"
  /\ buffer_rptr' = 0
  /\ at' = "getchar"
  /\ UNCHANGED <<marked, buffer, ready, buffer_wptr, temp, str, used, returned, words>>

-----------------------------------------------------------------------------
(* The line editor.                                                        *)

\* Mutant: the place for the newline is forgotten.
HasRoomToEnd(s) == Len(s) < Length

HasRoom(s) == Len(s) < Length - 1

\* kernel_getkey has returned; read_line stores to the first n places of cmd at
\* most.
Got(next, line, n) ==
  /\ at = "getchar"
  /\ returned' = (returned \/ temp.mark)
  /\ temp' = NoKey /\ at' = next /\ str' = line
  /\ used' = IF used < n THEN n ELSE used
  /\ UNCHANGED <<marked, ring, words>>

\* kernel_getchar asks again for a key without a character.
kernel_getchar == temp.c = "none" /\ Got("getkey", str, 0)

\* read_line stores a character while there is room, puts a 0 behind the last
\* one and takes it back, or ends the line with the newline and a 0 behind it:
\* for a full line that 0 is stored behind the array.  (cmd is the only variable
\* of osh, which never returns: nobody reads what it falls on.)
read_line ==
  \/ temp.c = "enter" /\ Got("parse", Append(str, "enter"), Len(str) + 2)
  \/ /\ temp.c = "backspace"
     /\ IF str = << >> THEN Got("getkey", str, 0)
        ELSE Got("getkey", Front(str), Len(str) + 1)
  \/ /\ temp.c \in {"x", "space"}
     /\ IF HasRoom(str) THEN Got("getkey", Append(str, temp.c), Len(str) + 1)
        ELSE Got("getkey", str, 0)

\* One character of parse_cmd.  p has the words so far, the word being read
\* and whether the loop was left: a word of ArgLength characters or more ends
\* the loop, and what was read before is executed all the same.
EndWord(p) == [p EXCEPT !.words = IF p.word = 0 THEN @ ELSE Append(@, p.word),
                        !.word = 0]

\* Mutant: the last word needs a blank behind it.
ParseNeedsBlank(p, c) ==
  IF p.done THEN p
  ELSE IF c = "x" THEN [p EXCEPT !.word = @ + 1]
  ELSE IF c = "enter" THEN [p EXCEPT !.done = TRUE]
  ELSE EndWord(p)

ParseChar(p, c) ==
  IF p.done THEN p
  ELSE IF c = "x"
    THEN IF p.word < ArgLength - 1 THEN [p EXCEPT !.word = @ + 1]
         ELSE [p EXCEPT !.done = TRUE]
  ELSE [EndWord(p) EXCEPT !.done = (c = "enter")]

\* The words of a line; a word is known by its length.
Parsed(line) ==
  LET Parse[k \in 0 .. Len(line)] ==
        IF k = 0 THEN [words |-> << >>, word |-> 0, done |-> FALSE]
        ELSE ParseChar(Parse[k - 1], line[k])
  IN Parse[Len(line)].words

\* parse_cmd and exec_cmd of the line.
parse_cmd ==
  /\ at = "parse"
  /\ words' = Parsed(str)
  /\ at' = "prompt"
  /\ UNCHANGED <<marked, ring, temp, str, used, returned>>

\* osh: the next line.
osh ==
  /\ at = "prompt"
  /\ at' = "getkey" /\ str' = << >> /\ used' = 0 /\ words' = << >>
  /\ UNCHANGED <<marked, ring, temp, returned>>

Shell == \/ kernel_getkey \/ getkey_advance
         \/ init_buffer_wipe \/ init_buffer_wptr \/ init_buffer_rptr
         \/ kernel_getchar \/ read_line \/ parse_cmd \/ osh

ConsoleNext == Shell \/ ps2_handler

\* The shell gets processor time; whoever sits at the keyboard goes on typing.
ConsoleSpec == /\ ConsoleInit /\ [][ConsoleNext]_consoleVars
        /\ WF_consoleVars(Shell) /\ WF_consoleVars(ps2_handler)

-----------------------------------------------------------------------------
(* Properties.                                                             *)

\* The types; the pointers stay in the ring, except that the read pointer is
\* one past it while the ring is initialised.  read_line keeps the characters of
\* the line in cmd and, until the line is ended, everything it stores; the 0
\* behind the newline is at most one place past the array (shell.c:277).
TypeOK ==
  /\ buffer \in [Slots -> BOOLEAN] /\ ready \in [Slots -> BOOLEAN]
  /\ buffer_wptr \in Slots
  /\ IF at \in {"wipe", "wptr", "rptr"} THEN buffer_rptr = Ring
     ELSE buffer_rptr \in Slots
  /\ used \in Nat /\ Len(str) <= used
  /\ IF at \in {"parse", "prompt"} THEN Len(str) <= Length /\ used <= Length + 1
     ELSE Len(str) <= Length - 1 /\ used <= Length

\* No keystroke is returned twice, however the handler interrupts the reader
\* and overruns or survives the reset of the ring (ps2.c kernel_getkey,
\* init_buffer).
ReturnedOnce == at = "getchar" /\ temp.mark => ~returned

\* The words of a line: where they begin, how long the one at i is, and the
\* ones up to the first that is too long.
Begins(s) == {i \in 1 .. Len(s) : s[i] = "x" /\ (i = 1 \/ s[i - 1] # "x")}
WordAt(s, i) == CHOOSE n \in 1 .. Len(s) - i + 1 :
  /\ \A k \in i .. i + n - 1 : s[k] = "x"
  /\ i + n > Len(s) \/ s[i + n] # "x"
Fitting(s) ==
  {i \in Begins(s) : \A j \in Begins(s) : j <= i => WordAt(s, j) < ArgLength}

\* w has these words, in their order.
AreWordsOf(w, s) ==
  \E b \in [1 .. Len(w) -> Begins(s)] :
    /\ \A i, j \in 1 .. Len(w) : i < j => b[i] < b[j]
    /\ Range(b) = Fitting(s)
    /\ \A i \in 1 .. Len(w) : w[i] = WordAt(s, b[i])

\* The state machine of parse_cmd finds exactly the words of the line, the last
\* one included, up to the first that does not fit (shell.c parse_cmd).
ParsesWords == at = "prompt" => AreWordsOf(words, str)

\* As long as keys are typed the shell goes on receiving characters, wherever
\* the two pointers of the ring got to: a reader that was left behind or
\* overtaken by the handler meets it again (ps2.c ps2_handler, kernel_getkey).
KeysKeepComing == []<>(at = "getchar")
=============================================================================

------------------------------ MODULE FlatFile ------------------------------
(***************************************************************************)
(* What fs_open, fs_read, fs_write, fs_seek, fs_delete and fs_close        *)
(* promise their callers: a file is a flat sequence of bytes that keeps    *)
(* what was written to it, and a handle is a position in it.  Fat32 is     *)
(* shown to implement it.                                                  *)
(***************************************************************************)
EXTENDS Integers, Sequences

CONSTANTS Files, Handles, Modes, Bytes, Lens, Offsets, Absent, Closed, Deleted

VARIABLES contents, handle, buffer

flatVars == <<contents, handle, buffer>>

Writes(m) == m # "READ"
Reads(m) == m # "WRITE"

\* s with the n bytes from position p on replaced by b.
Overwritten(s, p, n, b) ==
  [i \in 1 .. (IF p + n > Len(s) THEN p + n ELSE Len(s)) |->
     IF i \in (p + 1) .. (p + n) THEN b ELSE s[i]]

Init ==
  /\ contents = [f \in Files |-> Absent]
  /\ handle = [h \in Handles |-> Closed]
  /\ buffer = << >>

\* A file is created when it is opened for writing and emptied in mode WRITE.
Open(h, f, m) ==
  LET s == IF contents[f] = Absent \/ m = "WRITE" THEN << >> ELSE contents[f]
  IN /\ handle[h] = Closed
     /\ contents[f] # Absent \/ Writes(m)
     /\ contents' = [contents EXCEPT ![f] = s]
     /\ handle' = [handle EXCEPT ![h] =
          [file |-> f, mode |-> m, pos |-> IF m = "APPEND" THEN Len(s) ELSE 0]]
     /\ buffer' = << >>

Usable(h) == handle[h] \notin {Closed, Deleted}

Read(h, n) ==
  /\ Usable(h) /\ Reads(handle[h].mode)
  /\ LET s == contents[handle[h].file]
         p == handle[h].pos
     IN /\ p + n <= Len(s)
        /\ buffer' = SubSeq(s, p + 1, p + n)
  /\ handle' = [handle EXCEPT ![h].pos = @ + n]
  /\ UNCHANGED contents

Write(h, n, b) ==
  /\ Usable(h) /\ Writes(handle[h].mode)
  /\ contents' = [contents EXCEPT ![handle[h].file] =
                    Overwritten(@, handle[h].pos, n, b)]
  /\ handle' = [handle EXCEPT ![h].pos = @ + n]
  /\ buffer' = << >>

\* A seek counts from the start, the end or the position of the handle.  One
\* that leads out of the file, on either side, leads to its end.
Seek(h, flag, offset) ==
  /\ Usable(h)
  /\ LET end == Len(contents[handle[h].file])
         base == CASE flag = "HEAD" -> 0
                   [] flag = "TAIL" -> end
                   [] flag = "CUR" -> handle[h].pos
     IN handle' = [handle EXCEPT ![h].pos =
          IF base + offset \in 0 .. end THEN base + offset ELSE end]
  /\ buffer' = << >>
  /\ UNCHANGED contents

Delete(h) ==
  /\ Usable(h)
  /\ contents' = [contents EXCEPT ![handle[h].file] = Absent]
  /\ handle' = [handle EXCEPT ![h] = Deleted]
  /\ buffer' = << >>

Close(h) ==
  /\ handle[h] # Closed
  /\ handle' = [handle EXCEPT ![h] = Closed]
  /\ buffer' = << >>
  /\ UNCHANGED contents

\* A call that does nothing, or the machine switched off and on again.
Idle ==
  /\ buffer' = << >>
  /\ UNCHANGED <<contents, handle>>

Next == Idle \/ \E h \in Handles :
  \/ \E f \in Files, m \in Modes \cup {"WRITE"} : Open(h, f, m)
  \/ \E n \in Lens :
       Read(h, n) \/ \E b \in UNION {Bytes[f] : f \in Files} : Write(h, n, b)
  \/ \E flag \in {"HEAD", "TAIL", "CUR"}, o \in Offsets : Seek(h, flag, o)
  \/ Delete(h) \/ Close(h)

Spec == Init /\ [][Next]_flatVars
=============================================================================

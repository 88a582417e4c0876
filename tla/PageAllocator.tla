--------------------------- MODULE PageAllocator ----------------------------
(***************************************************************************)
(* What the page allocator promises its callers: it owns the frames it was *)
(* given at boot, hands out aligned blocks of frames nobody else holds,    *)
(* and refuses a request only when no aligned run of that many frames is   *)
(* free.  How the free frames are kept (lists, splitting, merging) is not  *)
(* visible here.                                                           *)
(***************************************************************************)
EXTENDS Blocks

CONSTANTS
  Frames,               \* the frames boot may hand over
  Requests              \* levels callers ask for, too large ones included

VARIABLES
  given,                \* frames handed to the allocator so far
  live,                 \* blocks callers hold: records [pgn, level]
  answer                \* the last call: level asked for and block returned

absVars == <<given, live, answer>>

\* No frame number: the null pointer that a refused request returns.
nullptr == -1

\* A call that returns nothing, such as a free.
NoAnswer == [level |-> nullptr, pgn |-> nullptr]

LivePages == UNION {Block(b.pgn, b.level) : b \in live}

\* A request of level l can be served at frame p.
Available(p, l) ==
  Aligned(p, l) /\ Block(p, l) \subseteq given /\ Block(p, l) \cap LivePages = {}

AInit == given = {} /\ live = {} /\ answer = NoAnswer

\* Boot hands over one frame more.
Give(p) ==
  /\ p \notin given
  /\ given' = given \cup {p}
  /\ answer' = NoAnswer
  /\ UNCHANGED live

Alloc(l) ==
  /\ l \in Levels
  /\ \E p \in Frames :
       /\ answer' = [level |-> l, pgn |-> p]
       /\ live' = live \cup {[pgn |-> p, level |-> l]}
       /\ Available(p, l)
  /\ UNCHANGED given

Refuse(l) ==
  /\ answer' = [level |-> l, pgn |-> nullptr]
  /\ l \in Levels => \A p \in Frames : ~Available(p, l)
  /\ UNCHANGED <<given, live>>

Free(b) ==
  /\ live' = live \ {b}
  /\ answer' = NoAnswer
  /\ UNCHANGED given

\* A free of a block nobody holds.
Ignore == answer' = NoAnswer /\ UNCHANGED <<given, live>>

ANext ==
  \/ \E p \in Frames : Give(p)
  \/ \E l \in Requests : Alloc(l) \/ Refuse(l)
  \/ \E b \in live : Free(b)
  \/ Ignore

ASpec == AInit /\ [][ANext]_absVars
=============================================================================

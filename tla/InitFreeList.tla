----------------------------- MODULE InitFreeList -----------------------------
(***************************************************************************)
(* How mkfs fills the free list of a new volume: v6fs_initfreelist and its *)
(* counterpart in v7fs.c, bsd29fs.c and bsd211fs.c, which are one          *)
(* algorithm twice.                                                        *)
(*                                                                         *)
(* Both free the data blocks from the last to the first, in spans of n     *)
(* blocks and in an order of interleave m within each span.  The V6 one    *)
(* brings the last block to the end of a span first and frees what is left *)
(* of the first span by itself; the others begin past the end and skip     *)
(* what is not a data block.  Each step frees at most one block.           *)
(***************************************************************************)
EXTENDS Integers, Sequences, SequencesExt

CONSTANTS Releases,      \* of {"v6", "v7"}
          MaxSize,       \* bound: blocks of the volume
          MaxN           \* bound: blocks of a span (100, 500)

VARIABLES
  release,
  n, m,      \* the span and its interleave
  low,       \* the first data block
  size,      \* s_fsize
  phase,     \* the loop that is running
  i,         \* its variable (d in v7fs.c)
  j,         \* that of the loop within it
  freed      \* how often each block was freed

params == <<release, n, m, low, size>>

-----------------------------------------------------------------------------
SpanOrderBlind(len, step) ==  \* mutant: flg is not looked at
  [k \in 1 .. len |-> ((k - 1) * step) % len]

(* From p around the span, the first place that is not taken              *)
NextPlace(len, taken, p) ==
  CHOOSE q \in 0 .. len - 1 :
    /\ q \notin ToSet(taken)
    /\ \A r \in 0 .. len - 1 : r \notin ToSet(taken) => (q - p) % len <= (r - p) % len

(* adr: the k-th block of a span to be freed.  The search for the next one *)
(* begins step after the last.                                             *)
SpanOrder(len, step) ==
  LET adr[k \in 0 .. len] ==
        IF k = 0 THEN <<>>
        ELSE LET taken == adr[k - 1]
                 p == IF k = 1 THEN 0 ELSE (Last(taken) + step) % len IN
             Append(taken, NextPlace(len, taken, p))
  IN adr[len]

Free(b) == freed' = [freed EXCEPT ![b] = @ + 1]

(* The next block of a span, and after the last the next span *)
NextOfSpan ==
  IF j < n THEN j' = j + 1 /\ UNCHANGED i ELSE j' = 1 /\ i' = i - n

-----------------------------------------------------------------------------
(* v6fs_initfreelist                                                       *)
TopAligned == phase = "top" /\ ((i + 1) % n = 0 \/ i < low)

Top ==
  /\ phase = "top"
  /\ IF TopAligned THEN phase' = "spans" /\ UNCHANGED <<i, freed>>
     ELSE Free(i) /\ i' = i - 1 /\ UNCHANGED phase
  /\ UNCHANGED <<params, j>>

SpanFits == i >= low + n

Spans ==
  /\ phase = "spans" /\ release = "v6"
  /\ IF SpanFits THEN Free(i - SpanOrder(n, m)[j]) /\ NextOfSpan /\ UNCHANGED phase
     ELSE phase' = "bottom" /\ UNCHANGED <<i, j, freed>>
  /\ UNCHANGED params

Bottom ==
  /\ phase = "bottom"
  /\ IF i >= low THEN Free(i) /\ i' = i - 1 /\ UNCHANGED phase
     ELSE phase' = "done" /\ UNCHANGED <<i, freed>>
  /\ UNCHANGED <<params, j>>

-----------------------------------------------------------------------------
(* v7fs_initfreelist                                                       *)
RoundUp ==
  /\ phase = "round"
  /\ IF i % n # 0 THEN i' = i + 1 /\ UNCHANGED phase
     ELSE phase' = "spans" /\ UNCHANGED i
  /\ UNCHANGED <<params, j, freed>>

SpansBelowShort ==             \* mutant: the first span is left out
  /\ phase = "spans" /\ release = "v7"
  /\ LET f == i - (SpanOrder(n, m)[j] + 1) IN
       IF i > n
       THEN /\ IF f \in low .. size - 1 THEN Free(f) ELSE UNCHANGED freed
            /\ NextOfSpan /\ UNCHANGED phase
       ELSE phase' = "done" /\ UNCHANGED <<i, j, freed>>
  /\ UNCHANGED params

SpansBelow ==
  /\ phase = "spans" /\ release = "v7"
  /\ LET f == i - (SpanOrder(n, m)[j] + 1) IN
       IF i > 0
       THEN /\ IF f \in low .. size - 1 THEN Free(f) ELSE UNCHANGED freed
            /\ NextOfSpan /\ UNCHANGED phase
       ELSE phase' = "done" /\ UNCHANGED <<i, j, freed>>
  /\ UNCHANGED params

-----------------------------------------------------------------------------
(* Before mkfs.                                                            *)
Init ==
  /\ release = "none" /\ n = 0 /\ m = 0 /\ low = 0 /\ size = 0
  /\ phase = "none" /\ i = 0 /\ j = 0 /\ freed = <<>>

(* mkfs, with the parameters the command line lets through.  There is an   *)
(* inode block after the superblock, and data blocks after those.          *)
Begin ==
  /\ phase = "none"
  /\ release' \in Releases
  /\ n' \in 1 .. MaxN /\ m' \in 1 .. n'
  /\ size' \in 4 .. MaxSize /\ low' \in 3 .. size' - 1
  /\ phase' = IF release' = "v6" THEN "top" ELSE "round"
  /\ i' = size' - 1 /\ j' = 1
  /\ freed' = [b \in 0 .. MaxSize - 1 |-> 0]

Next == Top \/ Spans \/ Bottom \/ RoundUp \/ SpansBelow

-----------------------------------------------------------------------------
(* Properties.                                                             *)

(* v7fs_initfreelist and its copies leave the last block out when it is    *)
(* the first of a span.  No file will ever have it.                        *)
LastLeftOut == release = "v7" /\ (size - 1) % n = 0

(* v6fs.c on v6fs_initfreelist: it "construct[s] the initial free block    *)
(* list for a new filesystem", of all its data blocks, each once, whatever *)
(* the span and the interleave; so do the others, but for that last one.   *)
FreedOnce ==
  /\ \A b \in DOMAIN freed : freed[b] <= IF b \in low .. size - 1 THEN 1 ELSE 0
  /\ phase = "done" =>
       {b \in low .. size - 1 : freed[b] = 0} = IF LastLeftOut THEN {size - 1} ELSE {}
=============================================================================

------------------------------ MODULE FileStore ------------------------------
(***************************************************************************)
(* What the open files of a volume promise: a file is a sequence of bytes  *)
(* that outlives its names until nobody has it open; a read answers the    *)
(* bytes at its offset; a write that succeeds is all there, one that fails *)
(* leaves a prefix of what was to be written, perhaps followed by zeros.   *)
(***************************************************************************)
EXTENDS Integers, Sequences, FiniteSetsExt

CONSTANTS Inos, Names, FDs,
          Bytes,         \* 0 among them: what a byte never written reads as
          MaxOff,        \* bound: the largest offset of a call
          MaxCount       \* bound: the longest read or write

VARIABLES
  text,      \* the contents of each file
  name,      \* the file each name stands for, 0 if none
  open,      \* the open files: [ino, flag], or Closed
  answer     \* what the last read or write answered, until the caller has it

vars == <<text, name, open, answer>>

Closed == [ino |-> 0, flag |-> {}]
None == [ok |-> TRUE, got |-> <<>>, of |-> "none"]
Answer(op, ok, got) == answer' = [ok |-> ok, got |-> got, of |-> op]

Alive(i, nm, op) == (\E n \in Names : nm[n] = i) \/ (\E fd \in FDs : op[fd].ino = i)

(* A file nobody can reach is gone. *)
Gone(nm, op, t) == [i \in Inos |-> IF Alive(i, nm, op) THEN t[i] ELSE <<>>]

Upto(t, len) == [k \in 1 .. Max({Len(t), len}) |-> IF k <= Len(t) THEN t[k] ELSE 0]

(* t with b at the n places from off on *)
Written(t, off, n, b) ==
  IF n = 0 THEN t
  ELSE [k \in 1 .. Max({Len(t), off + n}) |->
          IF k > off /\ k <= off + n THEN b ELSE IF k <= Len(t) THEN t[k] ELSE 0]

ReadOf(t, off, n) == SubSeq(t, off + 1, Min({off + n, Len(t)}))

Init ==
  /\ text = [i \in Inos |-> <<>>]
  /\ name = [n \in Names |-> 0]
  /\ open = [fd \in FDs |-> Closed]
  /\ answer = None

Create(n, i) ==
  /\ answer = None
  /\ name[n] = 0 /\ ~Alive(i, name, open)
  /\ name' = [name EXCEPT ![n] = i]
  /\ UNCHANGED <<text, open, answer>>

Unlink(n) ==
  /\ answer = None
  /\ name' = [name EXCEPT ![n] = 0]
  /\ text' = Gone(name', open, text)
  /\ UNCHANGED <<open, answer>>

Empty(i) == [text EXCEPT ![i] = <<>>]

(* An open that is allowed gets the lowest descriptor; when there is none  *)
(* it fails, but has emptied the file if it was to.                        *)
Open(n, flag, trunc) ==
  /\ answer = None
  /\ name[n] # 0
  /\ LET free == {fd \in FDs : open[fd] = Closed} IN
       open' = IF free = {} THEN open
               ELSE [open EXCEPT ![Min(free)] = [ino |-> name[n], flag |-> flag]]
  /\ text' = IF trunc THEN Empty(name[n]) ELSE text
  /\ UNCHANGED <<name, answer>>

Close(fd) ==
  /\ answer = None
  /\ open[fd] # Closed
  /\ open' = [open EXCEPT ![fd] = Closed]
  /\ text' = Gone(name, open', text)
  /\ UNCHANGED <<name, answer>>

(* What is cut off is gone, and what is added reads as zeros. *)
Truncate(n, len) ==
  /\ answer = None
  /\ name[n] # 0
  /\ text' = [text EXCEPT ![name[n]] = Upto(SubSeq(@, 1, Min({len, Len(@)})), len)]
  /\ UNCHANGED <<name, open, answer>>

Pread(fd, off, n) ==
  \/ Answer("read", FALSE, <<>>)
  \/ /\ open[fd] # Closed /\ "r" \in open[fd].flag
     /\ Answer("read", TRUE, ReadOf(text[open[fd].ino], off, n))

Read ==
  /\ answer = None /\ answer'.of = "read"
  /\ \E fd \in FDs, off \in 0 .. MaxOff, n \in 1 .. MaxCount : Pread(fd, off, n)
  /\ UNCHANGED <<text, name, open>>

Pwrite(fd, off, n, b) ==
  LET i == open[fd].ino IN
  \/ Answer("write", FALSE, <<>>) /\ UNCHANGED text
  \/ /\ open[fd] # Closed /\ "w" \in open[fd].flag
     /\ \/ /\ Answer("write", TRUE, <<>>)
           /\ text' = [text EXCEPT ![i] = Written(@, off, n, b)]
        \/ /\ Answer("write", FALSE, <<>>)
           /\ \E k \in 0 .. n : \E m \in 0 .. n - k :
                text' = [text EXCEPT ![i] =
                           IF k + m = 0 THEN @
                           ELSE Upto(Written(@, off, k, b), off + k + m)]

Write ==
  /\ answer = None /\ answer'.of = "write"
  /\ \E fd \in FDs, off \in 0 .. MaxOff, n \in 1 .. MaxCount, b \in Bytes :
       Pwrite(fd, off, n, b)
  /\ UNCHANGED <<name, open>>

Return == answer # None /\ answer' = None /\ UNCHANGED <<text, name, open>>

Next ==
  \/ \E n \in Names : \/ Unlink(n)
                      \/ \E i \in Inos : Create(n, i)
                      \/ \E len \in 0 .. MaxOff : Truncate(n, len)
                      \/ \E flag \in SUBSET {"r", "w"}, t \in BOOLEAN : Open(n, flag, t)
  \/ \E fd \in FDs : Close(fd)
  \/ Read \/ Write
  \/ Return

Spec == Init /\ [][Next]_vars
=============================================================================

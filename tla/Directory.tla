------------------------------ MODULE Directory ------------------------------
(***************************************************************************)
(* What a directory promises, wherever it keeps its entries: a set of      *)
(* pairs of a name and an inode, one for each name that is there, and true *)
(* answers about it.                                                       *)
(***************************************************************************)
CONSTANTS Names, None

VARIABLES entries,
          answer         \* to the last question; None after a change

vars == <<entries, answer>>

Init ==
  /\ entries = {}
  /\ answer = None

(* A name is entered, or what it stands for replaced; or it is deleted.    *)
Put(e) ==
  /\ entries' = {f \in entries : f[1] # e[1]} \union {e}
  /\ answer' = None

Delete(e) ==
  /\ entries' = entries \ {e}
  /\ answer' = None

Lookup ==
  \/ \E e \in entries : answer' = <<"lookup", e[1], e[2]>>
  \/ \E n \in Names \ {e[1] : e \in entries} : answer' = <<"lookup", n, 0>>

Empty == answer' = <<"empty", entries = {}>>

(* Each entry is listed once. *)
List ==
  /\ answer' # None /\ answer'[1] = "list"
  /\ {answer'[2][k] : k \in DOMAIN answer'[2]} = entries
  /\ \A j, k \in DOMAIN answer'[2] : answer'[2][j] = answer'[2][k] => j = k

Next ==
  \/ \E e \in entries' \ entries : Put(e)
  \/ \E e \in entries \ entries' : Delete(e)
  \/ /\ UNCHANGED entries
     /\ Lookup \/ Empty \/ List

Spec == Init /\ [][Next]_vars
==============================================================================

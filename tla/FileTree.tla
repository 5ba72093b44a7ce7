------------------------------ MODULE FileTree ------------------------------
(***************************************************************************)
(* What a filesystem promises of its names: a tree of directories with     *)
(* files in them, in which each call takes effect at once or not at all.   *)
(***************************************************************************)
CONSTANTS Inos, ROOT, Names

VARIABLES kind,          \* "free", "file" or "dir", for each inode
          tree           \* the names: <<directory, name, inode>>

vars == <<kind, tree>>

Init ==
  /\ kind = [i \in Inos |-> IF i = ROOT THEN "dir" ELSE "free"]
  /\ tree = {}

Unused(d, n) == kind[d] = "dir" /\ \A t \in tree : ~(t[1] = d /\ t[2] = n)

Empty(d) == \A t \in tree : t[1] # d

(* The directories above d, d included *)
Above(d) ==
  {a \in Inos : \A S \in SUBSET Inos :
     (d \in S /\ \A t \in tree : t[3] \in S => t[1] \in S) => a \in S}

Make(d, n, i, k) ==
  /\ Unused(d, n) /\ kind[i] = "free" /\ k \in {"file", "dir"}
  /\ tree' = tree \union {<<d, n, i>>}
  /\ kind' = [kind EXCEPT ![i] = k]

Link(d, n, i) ==
  /\ Unused(d, n) /\ kind[i] = "file"
  /\ tree' = tree \union {<<d, n, i>>}
  /\ UNCHANGED kind

(* The kinds once t, and with it perhaps the last name of its inode, is gone *)
Without(t) ==
  IF \E u \in tree \ {t} : u[3] = t[3] THEN kind ELSE [kind EXCEPT ![t[3]] = "free"]

Remove(t) ==
  /\ t \in tree
  /\ kind[t[3]] = "dir" => Empty(t[3])
  /\ tree' = tree \ {t}
  /\ kind' = Without(t)

(* t gets the name <<d, n>>; what had it must be of t's kind, and empty. *)
Rename(t, d, n) ==
  /\ t \in tree /\ kind[d] = "dir"
  /\ kind[t[3]] = "dir" => t[3] \notin Above(d)
  /\ \/ /\ Unused(d, n)
        /\ tree' = (tree \ {t}) \union {<<d, n, t[3]>>}
        /\ UNCHANGED kind
     \/ \E u \in tree :
          /\ u[1] = d /\ u[2] = n /\ u[3] # t[3]
          /\ kind[u[3]] = kind[t[3]] /\ (kind[u[3]] = "dir" => Empty(u[3]))
          /\ tree' = (tree \ {t, u}) \union {<<d, n, t[3]>>}
          /\ kind' = Without(u)

(* At most one name is new in a step, and most calls change none. *)
Next ==
  \/ \E t \in tree' \ tree : \/ \E k \in {"file", "dir"} : Make(t[1], t[2], t[3], k)
                             \/ Link(t[1], t[2], t[3])
                             \/ \E u \in tree \ tree' : Rename(u, t[1], t[2])
  \/ \E t \in tree \ tree' : Remove(t)

Spec == Init /\ [][Next]_vars
==============================================================================

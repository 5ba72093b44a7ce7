----------------------------- MODULE MCFileMap -----------------------------
(***************************************************************************)
(* An instance of FileMap for TLC: a new image, whose blocks hold zeros    *)
(* until a file's data is written to them.                                 *)
(***************************************************************************)
EXTENDS FileMap, FiniteSetsExt, TLC

(* V6: one small address and a double one; the others: one direct address, *)
(* and one of each level.                                                  *)
MCNaddr == [k \in Kernels |-> IF k = "v6" THEN 2 ELSE 4]

(* The data reads as the number of a block of another file. *)
MCJunk == {[j \in 0 .. PER - 1 |-> IF j = 0 THEN CHOOSE b \in Others : TRUE ELSE 0]}

(* alloc may return any free block. *)
MCSymmetry == Permutations(Blocks)

(* Bound: nothing is asked of the file after a block has been forgotten. *)
MCNothingForgotten == ~forgot
-----------------------------------------------------------------------------
(* itrunc of 2.11BSD as it is written, from call to call.                  *)

Factor(level) == CASE level = 0 -> 1 [] level = 1 -> PER [] level = 2 -> PER * PER

(* indirtrunc, and then its caller's free of b when nothing of it stays:   *)
(* the entries after last are cleared, and all under them is freed; what   *)
(* the last one leads to is cut in turn.                                   *)
RECURSIVE Indirtrunc(_, _, _, _)
Indirtrunc(w, b, lastbn, level) ==
  LET last == IF lastbn > 0 THEN lastbn \div Factor(level) ELSE lastbn
      old == w.content[b]
      gone == {old[j] : j \in {k \in 0 .. PER - 1 : k > last}} \ {0}
      v == [content |-> [w.content EXCEPT ![b] =
                           [j \in 0 .. PER - 1 |-> IF j > last THEN 0 ELSE old[j]]],
            freed |-> w.freed \union (IF lastbn < 0 THEN {b} ELSE {})]
      cut == FoldSet(LAMBDA nb, x : Indirtrunc(x, nb, -1, level - 1), v, gone) IN
  IF level = 0 THEN [v EXCEPT !.freed = @ \union gone]
  ELSE IF lastbn >= 0 /\ old[last] # 0
  THEN Indirtrunc(cut, old[last], lastbn % Factor(level), level - 1)
  ELSE cut

ItruncLevels(last) ==
  LET reached == {i \in 0 .. Naddr - 1 : IF i < Naddr - 3 THEN i > last ELSE Reached(i, last)}
      step(i, w) ==
        IF i_addr[i] = 0 THEN w
        ELSE IF i < Naddr - 3 THEN [w EXCEPT !.freed = @ \union {i_addr[i]}]
        ELSE Indirtrunc(w, i_addr[i], Max({-1, Lastiblock(last, i - (Naddr - 3))}),
                        i - (Naddr - 3)) IN
  FoldSet(step, [content |-> content, freed |-> {}], reached)

(* Wherever the file is cut, the nested calls free the blocks of the       *)
(* places after the last block's, and clear the entries that led there:    *)
(* what the divisions and remainders on the way down keep is the front of  *)
(* the file.                                                               *)
CutsTheTail ==
  call = Idle /\ kernel = "211" =>
    \A last \in -1 .. MaxL :
      ItruncLevels(last) = [content |-> ContentCut(last), freed |-> FreedAfter(last)]
=============================================================================

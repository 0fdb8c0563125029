-------------------------------- MODULE Lists --------------------------------
(***************************************************************************)
(* What the browser's code does with its arrays of rows and TLA+'s         *)
(* sequences have no provable operator for.                                *)
(***************************************************************************)
EXTENDS Naturals, Sequences

\* the rows before and after the one with this id: rows.filter((row) => row.id !== id)
Without(list, i) ==
    LET kept[n \in 0..Len(list)] ==
          IF n = 0 THEN <<>> ELSE IF list[n].id = i THEN kept[n - 1] ELSE Append(kept[n - 1], list[n])
    IN kept[Len(list)]
==============================================================================

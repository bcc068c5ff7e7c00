------------------------------- MODULE Lists -------------------------------
(***************************************************************************)
(* The loop over a slice that appends the wanted items to a new slice: in  *)
(* MemoryStore.ListAuditEvents and in envList.                             *)
(***************************************************************************)
EXTENDS Naturals, Sequences

(* kept[i] is the new slice after the first i items of s. *)
Kept(s, wanted) ==
  LET kept[i \in 0..Len(s)] ==
        IF i = 0 THEN <<>>
        ELSE IF s[i] \in wanted THEN Append(kept[i - 1], s[i])
        ELSE kept[i - 1]
  IN  kept[Len(s)]
=============================================================================

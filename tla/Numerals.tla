------------------------------ MODULE Numerals ------------------------------
(***************************************************************************)
(* Numbers that reach the program as text: in the environment, in the body *)
(* of a request or in a query.  strconv reads them into 64 bits and fails  *)
(* beyond; big.Int reads any.  MaxInt64 is small here.                     *)
(***************************************************************************)
EXTENDS Integers

CONSTANTS
  MaxInt64,   \* the largest int64
  MaxNumber,  \* bound on the numbers that are written, above MaxInt64
  Malformed,  \* a text that is no number
  None        \* the empty string of Go: nothing was written; also Go's nil

Numbers == -1..MaxNumber
Texts == Numbers \cup {Malformed}

ASSUME NumeralsAssumption ==
  /\ MaxInt64 \in Nat /\ MaxNumber \in Nat /\ MaxInt64 < MaxNumber
  /\ None # Malformed /\ None \notin Numbers /\ Malformed \notin Numbers

(* strconv.ParseInt and strconv.Atoi. *)
ParseInt(text) == IF text \in Numbers /\ text <= MaxInt64 THEN text ELSE Malformed
=============================================================================

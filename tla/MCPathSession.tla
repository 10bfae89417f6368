---------------------------- MODULE MCPathSession ----------------------------
(***************************************************************************)
(* PathSession for TLC: two path variables and every text of at most       *)
(* MaxInput characters over an alphabet of the separator, the dot and one  *)
(* letter, texts with doubled separators included.                         *)
(***************************************************************************)
EXTENDS PathSession

MCAlphabet == {Sep, Dot, "a"}

MaxInput == 3

MCInputTexts == BoundedSeq(MCAlphabet, MaxInput)

MCVars == {"p", "q"}

\* ASCII
MCCode == Dot :> 46 @@ Sep :> 47 @@ "a" :> 97

=============================================================================

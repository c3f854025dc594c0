--------------------------- MODULE MCSepticTank ---------------------------
(***************************************************************************)
(* Small instances of SepticTank.  int64_t shrinks to -2 .. 1, which keeps *)
(* the asymmetry of two's complement; "01" parses to an integer without    *)
(* being its decimal form, and "x" does not parse.                         *)
(***************************************************************************)
EXTENDS SepticTank

MCStrings == {"-2", "-1", "0", "1", "01", "x"}

MCStringFromInt64 ==
  [n \in -2 .. 1 |-> CASE n = -2 -> "-2" [] n = -1 -> "-1" [] n = 0 -> "0" [] n = 1 -> "1"]

MCParseInt64 ==
  [s \in MCStrings |->
     CASE s = "-2" -> -2 [] s = "-1" -> -1 [] s = "0" -> 0
       [] s \in {"1", "01"} -> 1 [] s = "x" -> NotInt]

MCMinInt == -2
MCDeltas == {-2, -1, 1}

(* One in the past of every clock, which is the sentinel, one on the way   *)
(* and one at the end of time.                                             *)
MCExpiries == {-1, 1, 3}
=============================================================================

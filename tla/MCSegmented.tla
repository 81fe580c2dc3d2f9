---------------------------- MODULE MCSegmented ----------------------------
(* Segments of 2, 3 and 4 cells: six elements in a and in b, sixteen in    *)
(* out.  Either a or b holds every sequence of the values 0 and 1, while   *)
(* the other has 0, 0, 1, 0, 1, 1, whose parts are every shorter pattern;  *)
(* or a holds every ordered sequence of the values 0, 1 and 2.             *)
EXTENDS SegmentedAlgorithms

MCBlock  == [d \in {"a", "b", "out"} |-> CASE d = "a" -> 2 [] d = "b" -> 3 [] d = "out" -> 4]
MCBlocks == [d \in {"a", "b", "out"} |-> CASE d = "a" -> 3 [] d = "b" -> 2 [] d = "out" -> 4]
MCValues == 0..2
MCP      == {1}
MCGen    == <<1, 0, 0, 1, 1, 0>>
MCOp     == [v \in 0..2 |-> (v + 1) % 3]
MCCounts == 0..4

Segmented(d, s) ==
  [k \in 0..(Blocks[d] - 1) |-> [c \in 0..(Block[d] - 1) |-> s[k * Block[d] + c + 1]]]

Memory(a, b) ==
  [d \in {"a", "b", "out"} |->
     CASE d = "a"   -> Segmented(d, a)
       [] d = "b"   -> Segmented(d, b)
       [] d = "out" -> Segmented(d, [k \in 1..16 |-> 2])]

Pattern == <<0, 0, 1, 0, 1, 1>>
Steps   == <<0, 1, 1, 2, 2, 2>>

MCInitial ==
  LET all    == [1..6 -> 0..1]
      sorted == {s \in [1..6 -> 0..2] : \A k \in 2..6 : s[k - 1] <= s[k]}
  IN  {Memory(s, Pattern) : s \in all} \cup {Memory(Pattern, s) : s \in {t \in all : t[1] = 0}}
        \cup {Memory(s, Steps) : s \in sorted}

=============================================================================

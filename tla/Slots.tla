-------------------------------- MODULE Slots --------------------------------
(***************************************************************************)
(* Operators on dense slot arrays.  The code numbers slots from 0; a       *)
(* sequence numbers them from 1, so slot s of the code is position s + 1.  *)
(***************************************************************************)
EXTENDS Naturals, Sequences

\* The elements of a sequence.
Elements(s) == {s[i] : i \in 1..Len(s)}

\* No element occurs twice.
IsDistinct(s) == \A i, j \in 1..Len(s) : s[i] = s[j] => i = j

\* Where x occurs in s.
PositionIn(s, x) == CHOOSE i \in 1..Len(s) : s[i] = x

\* Mutant: the array is truncated without filling the hole.
PopOnly(s, i) == SubSeq(s, 1, Len(s) - 1)

\* The last element moves into slot i, and the array shrinks by one.
SwapRemove(s, i) == [j \in 1..(Len(s) - 1) |-> IF j = i THEN s[Len(s)] ELSE s[j]]

=============================================================================

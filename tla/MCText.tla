------------------------------- MODULE MCText -------------------------------
(***************************************************************************)
(* Small strings: the end of a line, and a combining mark, which joins     *)
(* what it follows.  The mark is one that has an upper-case form (U+0345). *)
(***************************************************************************)
EXTENDS Text, TLC

MCCharacter == {"newline", "mark"}
MCJoined == MCCharacter \X {"mark"}
MCBlank == {"newline"}
MCUpper == [c \in MCCharacter |-> IF c = "mark" THEN "iota" ELSE c]
MCLower == [c \in MCCharacter |-> c]
MCIndex == {-3, -1, 0, 1, 2, 3}
MCCount == {-1, 1, 2}

\* All buffers are alike.
BufferSymmetry == Permutations(Buffer)

\* The steps and the invariants do not depend on the last call, and TLC checks the
\* property of steps for each step, also to a state that it knows.
WithoutCall == <<heap, impl>>
=============================================================================

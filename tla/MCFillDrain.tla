---------------------------- MODULE MCFillDrain ----------------------------
(* An approval with a first copy of one model and its second copy on the   *)
(* other drive, and a second model.                                        *)
EXTENDS FillDrain

CONSTANTS d1, d2, A, B

MCTask ==
  [r \in 1..3 |->
     IF r = 1 THEN [repo |-> A, source |-> None, target |-> d1, files |-> {1}, waits |-> FALSE]
     ELSE IF r = 2 THEN [repo |-> A, source |-> d1, target |-> d2, files |-> {1}, waits |-> TRUE]
     ELSE [repo |-> B, source |-> None, target |-> d2, files |-> {2}, waits |-> FALSE]]
=============================================================================

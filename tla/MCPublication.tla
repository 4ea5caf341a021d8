--------------------------- MODULE MCPublication ---------------------------
(***************************************************************************)
(* Instances of Publication for TLC.                                       *)
(***************************************************************************)
EXTENDS Publication

CONSTANT one

MCKeys == {"k1", "k2"}
One    == {one}

SignedPolicy == [x \in One |-> "k1"]
=============================================================================

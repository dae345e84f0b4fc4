--------------------------- MODULE MCScaleToZero ----------------------------
(***************************************************************************)
(* Small instances of ScaleToZero.  One unit of time is one polling        *)
(* interval.                                                               *)
(***************************************************************************)
EXTENDS ScaleToZero, TLC

CONSTANT ShortDelay

Clients == Request \cup {Monitor}

Good == [valid |-> TRUE, grace |-> Grace, delay |-> DefaultDelay]
Quick == [valid |-> TRUE, grace |-> 1, delay |-> ShortDelay]
Unannotated == [valid |-> FALSE, grace |-> Grace, delay |-> DefaultDelay]
BadDelay == [valid |-> TRUE, grace |-> Grace, delay |-> 0]

OnlyQuick == {Quick}
AllPools == {Good, Quick, Unannotated, BadDelay}

None == {}
UpToOne == 0..1

RequestSymmetry == Permutations(Request)
=============================================================================

--------------------------- MODULE MCFollowerArm ---------------------------
(* Instances of FollowerArm for TLC. *)
EXTENDS FollowerArm

MCJawValues == {[kind |-> "open", n |-> 0], [kind |-> "hold", n |-> 0],
                [kind |-> "fraction", n |-> 7]}
MCJointValues == {[kind |-> "up", n |-> 0], [kind |-> "fraction", n |-> 7],
                  [kind |-> "hold", n |-> 0], [kind |-> "nan", n |-> 0]}
MCLimits == {<<1, 3>>}
=============================================================================

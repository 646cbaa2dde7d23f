------------------------------ MODULE MCTransport ------------------------------
(* Instances of Transport for TLC. *)
EXTENDS Transport

Pair(paths, ice, loss, room, sends, beats, trouble, kinds) ==
    [ paths |-> paths, ice |-> ice, lossWindow |-> loss, room |-> room,
      senders |-> {"op"}, sends |-> sends, ticks |-> beats, faults |-> trouble,
      kinds |-> kinds ]

Both == {"eth", "wifi"}

All == {"stop", "cut", "disable"}

MCSetups == { Pair({"eth"}, TRUE, 1, 1, 0, 0, 2, All),
              Pair({"eth"}, FALSE, 1, 1, 0, Unbounded, 1, {"cut"}),
              Pair(Both, FALSE, 1, 2, 4, 0, 1, All),
              Pair(Both, FALSE, 2, 2, 3, 2, 0, All) }
=============================================================================

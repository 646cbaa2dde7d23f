------------------------------ MODULE AtMostOnce ------------------------------
(***************************************************************************)
(* What an mlink pair promises its applications (mlink-transport/README.md *)
(* section 7.0.3): a datagram is handed to the application of the other    *)
(* end at most once, in any order, and only if it was submitted.  An end   *)
(* that starts again remembers nothing.                                    *)
(***************************************************************************)
CONSTANT Datagrams

VARIABLES
    sent,     \* datagrams the applications of each end have submitted
    got       \* how often each datagram was handed to the application of each end
              \* since that end started

Ends == {"op", "edge"}
Peer(e) == IF e = "op" THEN "edge" ELSE "op"

Nothing == [m \in Datagrams |-> 0]

Init ==
    /\ sent = [e \in Ends |-> {}]
    /\ got = [e \in Ends |-> Nothing]

Submit(e) ==
    /\ \E m \in Datagrams \ sent[e] : sent' = [sent EXCEPT ![e] = @ \cup {m}]
    /\ UNCHANGED got

Deliver(e) ==
    /\ \E m \in sent[Peer(e)] : got[e][m] = 0 /\ got' = [got EXCEPT ![e][m] = 1]
    /\ UNCHANGED sent

Forget(e) ==
    /\ got' = [got EXCEPT ![e] = Nothing]
    /\ UNCHANGED sent

Next == \E e \in Ends : Submit(e) \/ Deliver(e) \/ Forget(e)

Spec == Init /\ [][Next]_<<sent, got>>
=============================================================================

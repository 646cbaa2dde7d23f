---------------------------- MODULE ControlPayload ----------------------------
(***************************************************************************)
(* The control datagrams that mlink carries between the operator           *)
(* (packaging/operator_app/payload.py) and the robot                       *)
(* (teleop_demo/mlink_payload.py, a copy that either end has of its own).  *)
(*                                                                         *)
(* A message is its type and the lengths in bytes of its texts; numbers    *)
(* are packed in their fixed widths and come out as they went in.  A       *)
(* layout gives the bytes of the numbers in front of the texts and behind  *)
(* them, and how many texts there are.                                     *)
(***************************************************************************)
EXTENDS Integers

HeaderSize == 4
MaxPayload == 1440
MaxText == 255
Version == 1

Layout(head, texts, tail) == [head |-> head, texts |-> texts, tail |-> tail]

OperatorTypes == {"command", "heartbeat", "namedPoseReq", "jointCommand"}
RobotTypes == {"ack", "state", "toolPose", "namedPoseRep", "jointTicks"}

\* What the operator packs, <QII7d, <QII, <I and <6d.
OperatorEncodes ==
    [ command |-> Layout(72, 2, 0), heartbeat |-> Layout(16, 1, 0),
      namedPoseReq |-> Layout(4, 1, 0), jointCommand |-> Layout(48, 0, 0) ]

\* What the robot packs, <QIIII, <II with <7d behind, <II7d, <IB and <6h.
RobotEncodes ==
    [ ack |-> Layout(24, 2, 0), state |-> Layout(8, 5, 56), toolPose |-> Layout(64, 0, 0),
      namedPoseRep |-> Layout(5, 1, 0), jointTicks |-> Layout(12, 0, 0) ]

\* What either unpacks: all nine types.
RobotDecodes ==
    [ command |-> Layout(72, 2, 0), heartbeat |-> Layout(16, 1, 0),
      ack |-> Layout(24, 2, 0), state |-> Layout(8, 5, 56), toolPose |-> Layout(64, 0, 0),
      namedPoseReq |-> Layout(4, 1, 0), namedPoseRep |-> Layout(5, 1, 0),
      jointTicks |-> Layout(12, 0, 0), jointCommand |-> Layout(48, 0, 0) ]
OperatorDecodes ==
    [ command |-> Layout(72, 2, 0), heartbeat |-> Layout(16, 1, 0),
      ack |-> Layout(24, 2, 0), state |-> Layout(8, 5, 56), toolPose |-> Layout(64, 0, 0),
      namedPoseReq |-> Layout(4, 1, 0), namedPoseRep |-> Layout(5, 1, 0),
      jointTicks |-> Layout(12, 0, 0), jointCommand |-> Layout(48, 0, 0) ]

\* A text takes its length byte and its bytes; no message has more than five.
TextBytes(texts) ==
    LET Bytes(i) == IF i \in DOMAIN texts THEN 1 + texts[i] ELSE 0
    IN  Bytes(1) + Bytes(2) + Bytes(3) + Bytes(4) + Bytes(5)

Body(layout, texts) == layout.head + TextBytes(texts) + layout.tail

Error == [type |-> "PayloadError", texts |-> [i \in {} |-> 0]]

\* The datagram a message is sent as, if it fits: _put_str and _frame.
Encodable(layout, texts) ==
    /\ \A i \in DOMAIN texts : texts[i] <= MaxText
    /\ HeaderSize + Body(layout, texts) <= MaxPayload

Encoded(layout, type, texts) ==
    [ version |-> Version, type |-> type, bodyLen |-> Body(layout, texts),
      bytes |-> HeaderSize + Body(layout, texts), texts |-> texts ]

\* The first n bytes of a datagram.
Cut(datagram, n) == [datagram EXCEPT !.bytes = n]

\* decode, with the decoder of the type: the body must hold what it unpacks.
Decoded(layouts, datagram) ==
    IF /\ datagram.bytes >= HeaderSize
       /\ datagram.version = Version
       /\ datagram.bytes >= HeaderSize + datagram.bodyLen
       /\ HeaderSize + datagram.bodyLen <= MaxPayload
       /\ datagram.type \in DOMAIN layouts
       /\ DOMAIN datagram.texts = 1 .. layouts[datagram.type].texts
       /\ datagram.bodyLen >= Body(layouts[datagram.type], datagram.texts)
    THEN [type |-> datagram.type, texts |-> datagram.texts]
    ELSE Error

\* A message of one end, however long its texts, either raises at the sender or
\* arrives as it is; and cut short by any number of bytes it is refused.
Arrives(encodes, decodes, type, texts) ==
    Encodable(encodes[type], texts) =>
        LET datagram == Encoded(encodes[type], type, texts) IN
        /\ Decoded(decodes, datagram) = [type |-> type, texts |-> texts]
        /\ \A n \in 0 .. datagram.bytes - 1 : Decoded(decodes, Cut(datagram, n)) = Error

\* Only a text can be too long: no message of allowed texts exceeds a datagram.
Fits(encodes, type, texts) ==
    (\A i \in DOMAIN texts : texts[i] <= MaxText) => Encodable(encodes[type], texts)
===============================================================================

---------------------------- MODULE PadLinkProofs ----------------------------
(* Proofs about the controller board, for any set of reports of the pad.    *)
EXTENDS PadLink, TLAPS

(* A centred stick fits a signed byte, a trigger an unsigned one
   (ps5_parser.c:211-223). *)
LEMMA CentredFits ==
  ASSUME NEW a \in Axis, NEW byte \in Byte
  PROVE  /\ Centred(a, byte) \in IF a \in {"l2", "r2"} THEN Byte ELSE -128..127
         /\ Centred(a, byte) \in Int
<1>1. CASE a \in {"lx", "rx"}
  <2>1. Centred(a, byte) = byte - 128
    BY <1>1 DEF Centred
  <2>2. QED
    BY <1>1, <2>1 DEF Byte
<1>2. CASE a \in {"ly", "ry"}
  <2>1. Centred(a, byte) = 127 - byte
    BY <1>2 DEF Centred
  <2>2. QED
    BY <1>2, <2>1 DEF Byte
<1>3. CASE a \in {"l2", "r2"}
  <2>1. Centred(a, byte) = byte
    BY <1>3 DEF Centred
  <2>2. QED
    BY <1>3, <2>1 DEF Byte
<1>4. QED
  BY <1>1, <1>2, <1>3 DEF Axis

(* The parser makes of any report axes that fit in the packet's bytes, and
   buttons the packet has (ps5_parser.c:211-276). *)
LEMMA ParsedFits == ASSUME NEW report \in Reports PROVE Parsed(report) \in Controls
<1>1. /\ report.hat \in 0..15
      /\ report.pressed \in SUBSET (FaceButton \cup ExtraButton)
      /\ report.axis \in [Axis -> Byte]
  BY PadLinkAssumption
<1>2. report.pressed \cup Directions(report.hat) \in SUBSET Button
  BY <1>1 DEF Directions, Button, Direction, Hat
<1> DEFINE analog == [a \in Axis |-> Centred(a, report.axis[a])]
<1>3. \A a \in Axis :
        /\ analog[a] \in IF a \in {"l2", "r2"} THEN Byte ELSE -128..127
        /\ analog[a] \in Int
  BY <1>1, CentredFits
<1>4. analog \in [Axis -> Int]
  BY <1>3
<1> HIDE DEF analog
<1>5. [button |-> report.pressed \cup Directions(report.hat), analog |-> analog] \in Controls
  BY <1>2, <1>3, <1>4 DEF Controls
<1>6. QED
  BY <1>5 DEF Parsed, analog

LEMMA ReleasedFits == Released \in Controls
BY DEF Released, Controls, Axis, Byte
-----------------------------------------------------------------------------
(* Only the interrupt channel brings packets, and its end makes the pad
   inactive. *)
ActiveIsLinked == is_active => link["interrupt"] = "configured"

IInv == TypeOK /\ ActiveIsLinked

LEMMA CheckStep ==
  ASSUME TypeOK, CheckTask
  PROVE  TypeOK' /\ UNCHANGED bluetooth
<1> USE DEF TypeOK, bluetooth, Goto, Mark
<1>1. data.controls \in Controls /\ data.correct \in BOOLEAN
  BY DEF Packet
<1>2. CASE FindLost \/ FindNew
  BY <1>1, <1>2 DEF FindLost, FindNew, Packet
<1>3. CASE FindNone \/ FindPad \/ Sleep \/ Compare
  BY <1>3 DEF FindNone, FindPad, Sleep, Compare
<1>4. CASE SetChecksum
  BY <1>4 DEF SetChecksum, Packet
<1>5. CASE WriteLost \/ WriteNew
  BY <1>5 DEF WriteLost, WriteNew
<1>6. CASE Copy
  BY <1>1, <1>6 DEF Copy, Packet
<1>7. QED
  BY <1>2, <1>3, <1>4, <1>5, <1>6 DEF CheckTask

LEMMA BluetoothStep ==
  ASSUME IInv, BluetoothTask
  PROVE  IInv'
<1> USE DEF IInv, TypeOK, ActiveIsLinked, check, Channel
<1>1. ASSUME NEW c \in Channel, ConnectInd(c) PROVE IInv'
  BY <1>1 DEF ConnectInd
<1>2. ASSUME NEW c \in Channel, ConfigCfm(c) PROVE IInv'
  BY <1>2 DEF ConfigCfm, ConnectEvent
<1>3. ASSUME NEW c \in Channel, DisconnectInd(c) PROVE IInv'
  BY <1>3 DEF DisconnectInd, ConnectEvent
<1>4. CASE DataInd
  <2>1. Parsed(pad) \in Controls
    BY ParsedFits
  <2> HIDE DEF Parsed
  <2>2. [controls |-> Parsed(pad), connected |-> FALSE, correct |-> FALSE] \in Packet
    BY <2>1 DEF Packet
  <2>3. data' \in Packet /\ is_active' \in BOOLEAN
    BY <1>4, <2>2 DEF DataInd, PacketEvent
  <2>4. QED
    BY <1>4, <2>3 DEF DataInd
<1>5. QED
  BY <1>1, <1>2, <1>3, <1>4 DEF BluetoothTask

THEOREM Invariant == Spec => []IInv
<1>1. ASSUME Init PROVE IInv
  <2>1. data \in Packet /\ sent \in Packet
    BY <1>1, ReleasedFits DEF Init, Packet
  <2>2. QED
    BY <1>1, <2>1, ReleasedFits DEF Init, IInv, TypeOK, ActiveIsLinked
<1>2. IInv /\ [Next]_vars => IInv'
  <2>1. CASE Use
    BY <2>1 DEF Use, IInv, TypeOK, ActiveIsLinked, check
  <2>2. CASE CheckTask
    BY <2>2, CheckStep DEF IInv, ActiveIsLinked, bluetooth
  <2>3. CASE UNCHANGED vars
    BY <2>3 DEF vars, bluetooth, check, IInv, TypeOK, ActiveIsLinked
  <2>4. QED
    BY <2>1, <2>2, <2>3, BluetoothStep DEF Next
<1>3. QED
  BY <1>1, <1>2, PTL DEF Spec

(* For any reports the controls parsed, remembered and sent fit the packet's
   bytes, and ps5_check stays in its loop (ps5_parser.c, app_main.c). *)
THEOREM TypeCorrect == Spec => []TypeOK
<1>1. IInv => TypeOK
  BY DEF IInv
<1>2. QED
  BY <1>1, Invariant, PTL

(* With both channels closed the pad is not active, in whatever order they
   ended and whatever came in between (ps5_l2cap.c:357-366, 393-410). *)
THEOREM NoGhost == Spec => []NoGhostPad
<1>1. IInv => NoGhostPad
  BY DEF IInv, ActiveIsLinked, NoGhostPad, Channel
<1>2. QED
  BY <1>1, Invariant, PTL
=============================================================================

------------------------------ MODULE PadLink ------------------------------
(***************************************************************************)
(* The controller board (src/ps5): from the DualSense pad's L2CAP channels *)
(* to the packets the main board receives.                                 *)
(*                                                                         *)
(* Two tasks share _data and is_active with no lock.  The Bluetooth task   *)
(* runs the L2CAP callbacks (ps5_l2cap.c), the parser (ps5_parser.c) and   *)
(* the event callbacks (ps5.c, ps5_controller.c); a callback is one step.  *)
(* ps5_check (app_main.c) polls what they left and writes to the UART; a   *)
(* step is one access to the shared data.                                  *)
(***************************************************************************)
EXTENDS Integers

CONSTANT Reports  (* what the pad can report: raw bytes of a HID report    *)

Byte == 0..255
Channel == {"control", "interrupt"}
FaceButton == {"square", "cross", "circle", "triangle"}
ExtraButton == {"l1", "r1", "l2", "r2", "share", "options", "l3", "r3", "ps", "touchpad"}
Hat == <<"up", "upright", "right", "downright", "down", "downleft", "left", "upleft">>
Direction == {Hat[i] : i \in 1..8}
Button == FaceButton \cup ExtraButton \cup Direction
Axis == {"lx", "ly", "rx", "ry", "l2", "r2"}

ASSUME PadLinkAssumption ==
  Reports \subseteq [hat: 0..15, pressed: SUBSET (FaceButton \cup ExtraButton), axis: [Axis -> Byte]]

VARIABLES
  pad,                  (* what the pad's controls are                     *)
  link,                 (* each L2CAP channel, as the stack knows it       *)
  is_connected,         (* ps5_l2cap.c                                     *)
  is_active,            (* ps5.c: a packet came since the connection       *)
  data,                 (* _data of ps5_controller.c                       *)
  old_data,             (* controls of the last change sent                *)
  was_connected, pc,    (* ps5_check's local and its place in the loop     *)
  sent                  (* the last packet written to the UART             *)

bluetooth == <<pad, link, is_connected, is_active>>
check     == <<old_data, was_connected, pc, sent>>
vars      == <<bluetooth, data, check>>

-----------------------------------------------------------------------------
(* The parser *)

(* The sticks are centred and the vertical axes turned round. *)
Centred(axis, byte) ==
  CASE axis \in {"lx", "rx"} -> byte - 128
    [] axis \in {"ly", "ry"} -> 127 - byte
    [] axis \in {"l2", "r2"} -> byte

(* The hat's nibble is a compass point, 8 at rest. *)
Directions(hat) == IF hat < 8 THEN {Hat[hat + 1]} ELSE {}

Parsed(report) ==
  [button |-> report.pressed \cup Directions(report.hat),
   analog |-> [a \in Axis |-> Centred(a, report.axis[a])]]

(* int8_t sticks and uint8_t triggers. *)
Controls ==
  {c \in [button: SUBSET Button, analog: [Axis -> Int]] :
     \A a \in Axis : c.analog[a] \in IF a \in {"l2", "r2"} THEN Byte ELSE -128..127}
Released == [button |-> {}, analog |-> [a \in Axis |-> 0]]

(* ps5_check's comparison: the diagonals and four buttons do not count, and
   an axis by more than its jitter. *)
Compared == Button \ {"upright", "downright", "downleft", "upleft",
                      "share", "options", "ps", "touchpad"}
THRESHOLD == 2
Distance(a, b) == IF a < b THEN b - a ELSE a - b

HasChanges(new, old) ==
  \/ new.button \cap Compared # old.button \cap Compared
  \/ \E a \in Axis : Distance(new.analog[a], old.analog[a]) > THRESHOLD

-----------------------------------------------------------------------------
(* A packet is correct when its checksum is that of its content. *)
Packet == [controls: Controls, connected: BOOLEAN, correct: BOOLEAN]

TypeOK ==
  /\ pad \in Reports
  /\ link \in [Channel -> {"closed", "open", "configured"}]
  /\ is_connected \in BOOLEAN
  /\ is_active \in BOOLEAN
  /\ data \in Packet
  /\ old_data \in Controls
  /\ was_connected \in BOOLEAN
  /\ pc \in {"check", "sumLost", "writeLost", "sleep", "sumNew", "writeNew", "compare", "copy"}
  /\ sent \in Packet

Init ==
  /\ pad \in Reports
  /\ link = [c \in Channel |-> "closed"]
  /\ is_connected = FALSE
  /\ is_active = FALSE
  /\ data = [controls |-> Released, connected |-> FALSE, correct |-> TRUE]
  /\ old_data = Released
  /\ was_connected = FALSE
  /\ pc = "check"
  /\ sent = data

-----------------------------------------------------------------------------
(* The Bluetooth task *)

(* Somebody uses the pad. *)
Use ==
  /\ pad' \in Reports
  /\ UNCHANGED <<link, is_connected, is_active, data, check>>

(* ps5_l2cap_connect_ind_cback: the pad opens the control channel first and
   the interrupt channel when that one is configured. *)
ConnectInd(c) ==
  /\ link[c] = "closed"
  /\ link["interrupt"] = "closed"
  /\ c = "interrupt" => link["control"] = "configured"
  /\ link' = [link EXCEPT ![c] = "open"]
  /\ UNCHANGED <<pad, is_connected, is_active, data, check>>

(* ps5ConnectEvent: the pad is told to send, or no packet has come yet. *)
ConnectEvent(connected) == is_active' = (is_active /\ connected)

(* ps5_l2cap_config_cfm_cback *)
ConfigCfm(c) ==
  /\ link[c] = "open"
  /\ link' = [link EXCEPT ![c] = "configured"]
  /\ is_connected' = (c = "interrupt")
  /\ IF is_connected' # is_connected THEN ConnectEvent(is_connected') ELSE UNCHANGED is_active
  /\ UNCHANGED <<pad, data, check>>

(* Mutant: only the control channel's end counts. *)
DisconnectIndControl(c) ==
  /\ link[c] # "closed"
  /\ link' = [link EXCEPT ![c] = "closed"]
  /\ is_connected' = FALSE
  /\ IF c = "control" THEN ConnectEvent(FALSE) ELSE UNCHANGED is_active
  /\ UNCHANGED <<pad, data, check>>

(* ps5_l2cap_disconnect_ind_cback, for the channels in any order. *)
DisconnectInd(c) ==
  /\ link[c] # "closed"
  /\ link' = [link EXCEPT ![c] = "closed"]
  /\ is_connected' = FALSE
  /\ ConnectEvent(FALSE)
  /\ UNCHANGED <<pad, data, check>>

(* ps5PacketEvent: the first packet is taken for the connection and its
   content for nothing; _event_callback copies any other over _data, with the
   two fields the parser leaves at 0. *)
PacketEvent(controls) ==
  IF is_active
  THEN /\ data' = [controls |-> controls, connected |-> FALSE, correct |-> FALSE]
       /\ UNCHANGED is_active
  ELSE /\ is_active' = TRUE
       /\ UNCHANGED data

(* ps5_l2cap_data_ind_cback with either kind of report. *)
DataInd ==
  /\ link["interrupt"] = "configured"
  /\ PacketEvent(Parsed(pad))
  /\ UNCHANGED <<pad, link, is_connected, check>>

-----------------------------------------------------------------------------
(* ps5_check *)

Goto(from, to) == pc = from /\ pc' = to

(* data->controller_connected = c *)
Mark(c) == data' = [data EXCEPT !.connected = c, !.correct = @ /\ data.connected = c]

(* Mutant: the loss is noticed but not sent. *)
FindLostSilent ==
  /\ ~is_active
  /\ was_connected
  /\ Goto("check", "sleep")
  /\ was_connected' = FALSE
  /\ Mark(FALSE)
  /\ UNCHANGED <<bluetooth, old_data, sent>>

FindLost ==
  /\ ~is_active
  /\ was_connected
  /\ Goto("check", "sumLost")
  /\ was_connected' = FALSE
  /\ Mark(FALSE)
  /\ UNCHANGED <<bluetooth, old_data, sent>>

FindNone ==
  /\ ~is_active
  /\ ~was_connected
  /\ Goto("check", "sleep")
  /\ UNCHANGED <<bluetooth, data, old_data, was_connected, sent>>

FindNew ==
  /\ is_active
  /\ ~was_connected
  /\ Goto("check", "sumNew")
  /\ Mark(TRUE)
  /\ UNCHANGED <<bluetooth, old_data, was_connected, sent>>

FindPad ==
  /\ is_active
  /\ was_connected
  /\ Goto("check", "compare")
  /\ UNCHANGED <<bluetooth, data, old_data, was_connected, sent>>

(* set_checksum on _data itself *)
SetChecksum ==
  /\ Goto("sumLost", "writeLost") \/ Goto("sumNew", "writeNew")
  /\ data' = [data EXCEPT !.correct = TRUE]
  /\ UNCHANGED <<bluetooth, old_data, was_connected, sent>>

(* uart_write_bytes of _data: a pad lost, a pad found *)
WriteLost ==
  /\ Goto("writeLost", "sleep")
  /\ sent' = data
  /\ UNCHANGED <<bluetooth, data, old_data, was_connected>>

WriteNew ==
  /\ Goto("writeNew", "compare")
  /\ sent' = data
  /\ was_connected' = TRUE
  /\ UNCHANGED <<bluetooth, data, old_data>>

(* Three seconds without a pad. *)
Sleep ==
  /\ Goto("sleep", "check")
  /\ UNCHANGED <<bluetooth, data, old_data, was_connected, sent>>

(* has_changes; without any, the loop goes on after it has listened to the
   main board. *)
Compare ==
  /\ IF HasChanges(data.controls, old_data) THEN Goto("compare", "copy")
                                            ELSE Goto("compare", "check")
  /\ UNCHANGED <<bluetooth, data, old_data, was_connected, sent>>

(* Mutant: the change is sent but not remembered. *)
CopyNot ==
  /\ Goto("copy", "check")
  /\ sent' = [controls |-> data.controls, connected |-> TRUE, correct |-> TRUE]
  /\ UNCHANGED <<bluetooth, data, old_data, was_connected>>

(* old_data, a copy no other task touches, is completed and sent. *)
Copy ==
  /\ Goto("copy", "check")
  /\ old_data' = data.controls
  /\ sent' = [controls |-> data.controls, connected |-> TRUE, correct |-> TRUE]
  /\ UNCHANGED <<bluetooth, data, was_connected>>

-----------------------------------------------------------------------------
BluetoothTask ==
  \/ \E c \in Channel : ConnectInd(c) \/ ConfigCfm(c) \/ DisconnectInd(c)
  \/ DataInd

CheckTask ==
  \/ FindLost \/ FindNone \/ FindNew \/ FindPad
  \/ SetChecksum \/ WriteLost \/ WriteNew \/ Sleep \/ Compare \/ Copy

Next == Use \/ BluetoothTask \/ CheckTask

Spec == Init /\ [][Next]_vars

(* ps5_check blocks in delays only; a pad whose link is up reports all the
   time, changed or not. *)
FairSpec == Spec /\ WF_vars(CheckTask) /\ WF_vars(DataInd)

-----------------------------------------------------------------------------
(* Properties *)

(* No channel, no pad: a report that comes between the ends of the two
   channels makes the pad active again, but never for good. *)
NoGhostPad == (\A c \in Channel : link[c] = "closed") => ~is_active

Steady(report) == (\A c \in Channel : link[c] = "configured") /\ pad = report

(* The threshold lets no change go unnoticed for good: in the end old_data is
   what the pad's controls are, but for the jitter and the buttons nobody
   looks at. *)
ChangesNoticed ==
  \A r \in Reports : <>[]Steady(r) => <>[]~HasChanges(Parsed(r), old_data)

(* What hardware_run makes of a packet: an incorrect one and one of a lost pad
   have all controls released. *)
Understood(packet) ==
  IF packet.correct /\ packet.connected THEN packet.controls ELSE Released

(* A pad lost for good never leaves the main board with a control pressed,
   even when the packet of the loss is spoilt by a last report. *)
LossReleases ==
  <>[](\A c \in Channel : link[c] = "closed") => <>[](Understood(sent) = Released)

(* ps5/README.md:4: "This software listens for incoming dualsense events and
   forwards them".  In the end what the main board makes of the last packet is
   what the pad's controls are. *)
Forwarded ==
  \A r \in Reports : <>[]Steady(r) => <>[]~HasChanges(Parsed(r), Understood(sent))
=============================================================================

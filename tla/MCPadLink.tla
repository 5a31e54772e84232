----------------------------- MODULE MCPadLink -----------------------------
(* Three reports of the pad: nothing touched (a stick rests a little off its
   centre), a trigger pulled with CROSS, and a hat diagonal with the trigger
   within its jitter. *)
EXTENDS PadLink

Report(hat, pressed, ly, r2) ==
  [hat |-> hat, pressed |-> pressed,
   axis |-> [a \in Axis |-> CASE a = "ly" -> ly [] a \in {"l2", "r2"} -> r2 [] OTHER -> 128]]

MCReports == {Report(8, {}, 126, 0), Report(2, {"cross", "r2"}, 0, 200),
              Report(1, {"share"}, 126, 2)}
=============================================================================

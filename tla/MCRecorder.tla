---------------------------- MODULE MCRecorder ----------------------------
(* The recorder on a route of a few slots and two distinct samples: enough
   for a full route, for a discarded sample and for a recording shorter than
   the one it replaces. *)
EXTENDS Recorder

CONSTANTS s1, s2
MCSample == {s1, s2}
=============================================================================

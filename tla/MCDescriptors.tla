---------------------------- MODULE MCDescriptors ----------------------------
(* Descriptors for TLC: two interfaces with and without UAS alternates. *)
EXTENDS Descriptors

AllShapes ==
  {Interface(n, uas) : n \in {0, 1}, uas \in BOOLEAN} \cup {Association, Endpoint}
==============================================================================

--------------------------- MODULE MCServiceStart ---------------------------
(* Two participants, for TLC. *)
EXTENDS ServiceStart

MCParticipants == <<"p1", "p2">>
=============================================================================

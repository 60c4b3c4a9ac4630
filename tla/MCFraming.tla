--------------------------------- MODULE MCFraming ---------------------------------
(* Frames of six, seven and ten bytes in a buffer of twelve, so that it ends    *)
(* behind a record, within a length and within a body; one of thirteen is too    *)
(* long.  Two restarts: a record torn by the first is followed by others.        *)
EXTENDS Framing
================================================================================

---------------------------- MODULE MCConference ----------------------------
(***************************************************************************)
(* Instances of Conference for TLC: the lengths of speeches and the        *)
(* probabilities that make the interesting cases happen.                   *)
(***************************************************************************)
EXTENDS Conference

MayPassWord   == {0, 1}     \* a speech of length 0 is over without a sleep
AlwaysSpeaks  == {1, 2}
Sometimes     == 50         \* percent
Always        == 101        \* percent: at 100, probabilityCheck may still be FALSE
=============================================================================

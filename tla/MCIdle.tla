------------------------------- MODULE MCIdle --------------------------------
(* Idle over a bounded time. *)
EXTENDS Idle

CONSTANT MaxTemps       \* bound on mtime

\* The run stops with time, at the bound, or where a trap was lost.
Horizon == (mtime = MaxTemps \/ egare) /\ UNCHANGED varsI

MCNext == (NextI /\ mtime' <= MaxTemps) \/ Horizon

MCSpec == InitI /\ [][MCNext]_varsI
=============================================================================

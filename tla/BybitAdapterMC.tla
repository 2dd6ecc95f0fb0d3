--------------------------- MODULE BybitAdapterMC ---------------------------
(***************************************************************************)
(* One unit of time is half a second: the second by which a timestamp may  *)
(* lie ahead is two units, the margin of 250 ms one.  The window of 8 s is *)
(* shortened to the least that Calibrated allows for a round trip of one   *)
(* second, the lifetime of 60 s to two units and the burst of ten calls to *)
(* two, so that each of them runs out.                                     *)
(***************************************************************************)
EXTENDS BybitAdapter

\* A local clock that is far behind and one that is ahead.
Early == {-7, 3}
=============================================================================

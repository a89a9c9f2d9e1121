----------------------------- MODULE MC_ClockFeed -----------------------------
(* A log of two rows, a gap of two ticks, fits of two samples in a window of  *)
(* four; clocks that have run for longer than a gap.                          *)
EXTENDS ClockFeed
===============================================================================

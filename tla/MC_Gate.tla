------------------------------- MODULE MC_Gate -------------------------------
(* A clock of a dozen ticks; instants fired at once, within and beyond the    *)
(* lead; aggregates as large as the pool.                                     *)
EXTENDS Gate
=============================================================================

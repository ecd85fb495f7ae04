---------------------------- MODULE MCInterconnect ----------------------------
(***************************************************************************)
(* Instances of Interconnect: two sources, two destinations, delays of one *)
(* to four cycles in the proportions that fill the queues named in the     *)
(* configurations.                                                         *)
(***************************************************************************)
EXTENDS Interconnect

\* One unit of a packet's size takes one cycle of the link.
CyclesPerUnit(size) == size
===============================================================================

------------------------------- MODULE Channels -------------------------------
(***************************************************************************)
(* What the rack's interconnect promises in each direction: between every  *)
(* source and every destination a reliable first-in first-out channel.     *)
(***************************************************************************)
EXTENDS Sequences

CONSTANTS Sources, Dests, Packets

VARIABLE channel   \* channel[s][d]: the packets on their way from s to d

Init == channel = [s \in Sources |-> [d \in Dests |-> <<>>]]

Send(s, d) ==
  \E p \in Packets : channel' = [channel EXCEPT ![s][d] = Append(@, p)]

Receive(s, d) ==
  /\ channel[s][d] # <<>>
  /\ channel' = [channel EXCEPT ![s][d] = Tail(@)]

Next == \E s \in Sources, d \in Dests : Send(s, d) \/ Receive(s, d)

Spec == Init /\ [][Next]_channel
===============================================================================

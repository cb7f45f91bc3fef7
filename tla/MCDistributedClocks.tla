------------------------ MODULE MCDistributedClocks ------------------------
(***************************************************************************)
(* TLC instances of the configuration of distributed clocks.               *)
(***************************************************************************)
EXTENDS DistributedClocks

\* Delays whose sums tell the cables apart, and equal ones.
MCCables == {[d \in 1..(MaxDevices - 1) |-> 2^(d - 1)],
             [d \in 1..(MaxDevices - 1) |-> 3]}

\* One of the commands at a time.
MCMisses == {{}, {"latch"}, {"time"}, {"offset"}, {"delay"}}

\* Power up, and another segment's times.
MCOldLatches == {[ports |-> [p \in PortIdx |-> 0], time |-> 0],
                 [ports |-> [p \in PortIdx |-> 90 - 20 * p], time |-> 90]}
=============================================================================

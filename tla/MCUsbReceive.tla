---------------------------- MODULE MCUsbReceive ----------------------------
(* Small instances of UsbReceive for TLC. *)
EXTENDS UsbReceive

\* A header of an alarm, and a body line with an address.
HeaderAndBody == {[head |-> TRUE, smoke |-> TRUE, address |-> FALSE],
                  [head |-> FALSE, smoke |-> FALSE, address |-> TRUE]}

==============================================================================

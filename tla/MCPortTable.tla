---------------------------- MODULE MCPortTable ----------------------------
(* Instances of PortTable for TLC. *)
EXTENDS PortTable

\* No socket is bound to a device: two that are bound differently never meet.
NoDevices == [s \in Socks |-> Wild]
=============================================================================

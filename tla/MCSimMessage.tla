---------------------------- MODULE MCSimMessage ----------------------------
(* Platforms for SimMessage: start() waits for the program or does not.     *)
EXTENDS SimMessage

UnixAndWindows == {[start |-> "Starting", spice |-> 1], [start |-> "Running", spice |-> 2]}
=============================================================================

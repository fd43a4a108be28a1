--------------------------- MODULE MCServeExports --------------------------
(* ServeExports on small instances: two drives, two directories.            *)
EXTENDS ServeExports

CONSTANTS d1, d2, p1, p2

Plugged == {[d \in Drives |-> IF d = d1 THEN p1 ELSE p2]}

Left(kinds, m, f) == {[kinds |-> kinds, moves |-> m, faults |-> f]}

(* Drives and the tailnet move, commands fail, the daemon dies.             *)
Trouble == Left({"drives", "tailscale", "publisher"}, 2, 0)
           \cup Left({"drives", "crash", "reboot"}, 1, 1) \cup Left({}, 0, 2)
=============================================================================

--------------------------- MODULE MCServeMounts ---------------------------
(* ServeMounts on small instances: one or two shares of one peer.           *)
EXTENDS ServeMounts

CONSTANTS peer, s1

OnePeer == [s \in Shares |-> peer]

Some(kinds, m, f, shares) == {[kinds |-> kinds, moves |-> m, faults |-> f, shares |-> shares]}

(* Outages without failing commands, failing commands with intruders, an     *)
(* intruder in the way of a lazy detach, or two shares that want the one    *)
(* record of the table.                                                     *)
Trouble     == Some({"nfs", "rpc", "tailscale", "use", "unmount", "reboot"}, 4, 0, {s1})
               \cup Some({"nfs", "discover", "use", "write", "foreign", "unmount", "crash"}, 2, 2, {s1})
               \cup Some({"nfs", "foreign", "unmount"}, 3, 0, {s1})
               \cup Some({"nfs", "unmount"}, 2, 1, Shares)
Elsewhere   == Some({"unmount"}, 1, 1, {s1})
Outage      == Some({"nfs", "use", "reboot"}, 3, 1, {s1})
=============================================================================

-------------------------- MODULE MCServeDiscovery --------------------------
(* Small instances of ServeDiscovery for TLC. *)
EXTENDS ServeDiscovery

CONSTANTS s1, s2, alpha, beta, a1, a2

NoWorld == [s \in Services |-> None]
At(n, a) == [name |-> n, addr |-> a]
Say(s, n, a) == [svc |-> s, name |-> n, addr |-> a]

(* One server announced on two interfaces, one of which moves.  *)
OnTwoLinks   == {[NoWorld EXCEPT ![s1] = At(alpha, a1)]}
TwoLinks     == {Say(s1, alpha, a2), Say(s2, alpha, a2)}
AlphaAnswers == {[a \in Addrs |-> alpha]}

(* A service that changes the server it advertises, and a second service. *)
OnePeer == {[NoWorld EXCEPT ![s1] = At(alpha, a1)]}
Renames == {Say(s1, beta, a1), Say(s2, alpha, a2)}
Anyone  == {[a \in Addrs |-> IF a = a1 THEN beta ELSE alpha],
            [a \in Addrs |-> alpha]}

Left(m, f, a) == [moves |-> m, faults |-> f, asks |-> a]

AsksOrFaults  == {Left(2, 0, 1), Left(2, 1, 0), Left(1, 0, 2), Left(1, 1, 1), Left(1, 2, 0)}
AskOrFault    == {Left(1, 0, 1), Left(1, 1, 0)}
OneOfEach     == {Left(2, 1, 1)}
=============================================================================

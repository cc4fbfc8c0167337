----------------------------- MODULE MCGuestOps -----------------------------
(* A machine, a free vmid and a container, two nodes and two storages.     *)
EXTENDS GuestOps

CONSTANTS v1, v2, v3, n1, n2, s1, s2

MCVmids    == {v1, v2, v3}
MCNodes    == {n1, n2}
MCStorages == {s1, s2}
MCSizes    == {1, 2}
MCChanges  == {[cores |-> 2, memory |-> None], [cores |-> None, memory |-> 2]}

Guest(k, c) == [kind |-> k, serial |-> 0, running |-> FALSE, node |-> n1, disk |-> s1,
                size |-> 1, cores |-> c, memory |-> 1, snap |-> None]

\* The machine's configuration names c cores.
Start(c) == [v \in MCVmids |-> CASE v = v1 -> Guest("qemu", c)
                                 [] v = v2 -> None
                                 [] v = v3 -> Guest("lxc", 1)]

MCGuests      == {Start(1)}
MCUnsetGuests == {Start(None)}
=============================================================================

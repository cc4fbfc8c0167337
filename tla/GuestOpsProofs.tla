--------------------------- MODULE GuestOpsProofs ---------------------------
(***************************************************************************)
(* Proofs about GuestOps, for any ids, nodes, storages, sizes and first    *)
(* guests, and any number of steps.                                        *)
(***************************************************************************)
EXTENDS GuestOps, Integers, TLAPS

Seqs == INSTANCE SequenceTheorems

Inventories == [Vmids -> {None} \cup Machines]

Tools == {"vm_start", "vm_stop", "vm_shutdown", "vm_reboot", "ct_start", "ct_stop",
          "vm_snapshot_create", "vm_snapshot_delete", "vm_snapshot_rollback",
          "vm_reconfigure", "vm_clone", "vm_delete", "vm_migrate", "vm_move_disk",
          "vm_resize_disk", "vm_backup", "backup_restore"}

\* The tools a token can call.
InverseTools == {"vm_start", "vm_stop", "ct_start", "ct_stop", "vm_snapshot_delete",
                 "vm_reconfigure", "vm_delete", "vm_migrate", "vm_move_disk"}

\* A call with arguments of its tool; held are the archives there are.
WellFormed(op, held) ==
    /\ op.tool \in Tools /\ op.vmid \in Vmids /\ op.node \in Nodes \cup {None}
    /\ op.tool = "vm_clone" => op.arg \in Vmids
    /\ op.tool = "vm_migrate" => op.arg \in Nodes
    /\ op.tool = "vm_move_disk" => op.arg \in Storages
    /\ op.tool = "vm_reconfigure" => op.arg.cores \in Configs /\ op.arg.memory \in Configs
    /\ op.tool = "vm_resize_disk" => op.arg.size \in Sizes
    /\ op.tool = "backup_restore" => op.arg.archive \in held /\ op.arg.storage \in Storages

\* The configurations in the guests g and in the archives held name their values.
Named(g, held) ==
    /\ \A v \in Vmids : g[v] # None =>
          Names(g[v]) /\ (g[v].snap # None => Names(g[v].snap))
    /\ \A a \in held : Names(a)

-----------------------------------------------------------------------------
(* The definitions by cases, one tool at a time                            *)

LEMMA Constants ==
    /\ None \notin Vmids /\ None \notin Nodes /\ None \notin Storages /\ None \notin Sizes
    /\ None \notin Machines /\ None \notin Snapshots /\ Sizes \subseteq Nat
    /\ FirstGuests \subseteq Inventories
BY GuestAssumption DEF Inventories

LEMMA LargestIsSize == Largest \in Sizes
BY GuestAssumption DEF Largest

LEMMA TakesCases ==
    ASSUME NEW g, NEW op, NEW host, NodeTakes(g, op, host)
    PROVE  LET vm == g[op.vmid]
           IN /\ op.tool # "backup_restore" => vm # None /\ vm.node = host
              /\ op.tool \notin {"backup_restore", "vm_backup"} => vm.kind = Kind(op)
              /\ op.tool \in {"vm_start", "ct_start", "vm_delete"} => ~vm.running
              /\ op.tool \in {"vm_reboot", "ct_stop"} => vm.running
              /\ op.tool = "vm_snapshot_create" => vm.snap = None
              /\ op.tool \in {"vm_snapshot_delete", "vm_snapshot_rollback"} => vm.snap # None
              /\ op.tool = "vm_clone" => g[op.arg] = None
              /\ op.tool = "vm_migrate" => vm.node # op.arg
              /\ op.tool = "vm_move_disk" => vm.disk # op.arg
              /\ op.tool = "backup_restore" =>
                    /\ op.arg.archive.kind = "qemu"
                    /\ vm # None => op.arg.force /\ vm.node = host
BY DEF NodeTakes, At

LEMMA InverseCases ==
    ASSUME NEW g, NEW op
    PROVE  LET v  == op.vmid
               vm == g[v]
               i  == Inverse(g, op)
           IN /\ op.tool = "vm_start" => i = Call("vm_stop", v, op.node, None)
              /\ op.tool \in {"vm_stop", "vm_shutdown"} => i = Call("vm_start", v, op.node, None)
              /\ op.tool = "ct_start" => i = Call("ct_stop", v, op.node, None)
              /\ op.tool = "ct_stop" => i = Call("ct_start", v, op.node, None)
              /\ op.tool = "vm_snapshot_create" =>
                    i = Call("vm_snapshot_delete", v, op.node, None)
              /\ op.tool = "vm_reconfigure" =>
                    i = Call("vm_reconfigure", v, op.node,
                             [cores |-> vm.cores, memory |-> vm.memory])
              /\ op.tool = "vm_clone" => i = Call("vm_delete", op.arg, op.node, None)
              /\ op.tool = "vm_migrate" => i = Call("vm_migrate", v, op.arg, vm.node)
              /\ op.tool = "vm_move_disk" => i = Call("vm_move_disk", v, vm.node, vm.disk)
              /\ op.tool = "backup_restore" =>
                    i = IF Overwrites(g, op) THEN None
                        ELSE Call("vm_delete", v, RestoreNode(op), None)
              /\ op.tool \in Tools \ {"vm_start", "vm_stop", "vm_shutdown", "ct_start", "ct_stop",
                                      "vm_snapshot_create", "vm_reconfigure", "vm_clone",
                                      "vm_migrate", "vm_move_disk", "backup_restore"} => i = None
BY DEF Inverse, StartInverse, StopInverse, ShutdownInverse, StartCtInverse, StopCtInverse,
       SnapshotInverse, ReconfigureInverse, CloneInverse, MigrateInverse, MoveInverse,
       RestoreInverse, Tools

LEMMA GuardCases ==
    ASSUME NEW g, NEW op, Guards(g, op)
    PROVE  /\ op.tool = "backup_restore" =>
                 /\ RestoreNode(op) # None
                 /\ Overwrites(g, op) => op.arg.force
           /\ op.tool \notin {"backup_restore", "vm_backup"} => Found(g, op)
           /\ op.tool = "vm_reconfigure" => op.arg.cores # None \/ op.arg.memory # None
BY DEF Guards

\* What an inverse needs to be accepted.
LEMMA AcceptInverse ==
    ASSUME NEW g, NEW op, NEW t \in InverseTools, op.tool = t,
           g[op.vmid] # None, g[op.vmid].node = Host(g, op), g[op.vmid].kind = Kind(op),
           t \in {"vm_start", "ct_start", "vm_delete"} => ~g[op.vmid].running,
           t = "ct_stop" => g[op.vmid].running,
           t = "vm_snapshot_delete" => g[op.vmid].snap # None,
           t = "vm_migrate" => g[op.vmid].node # op.arg,
           t = "vm_move_disk" => g[op.vmid].disk # op.arg,
           t = "vm_reconfigure" => op.arg.cores # None
    PROVE  Accepts(g, op)
<1>1. Found(g, op) /\ At(g, op.vmid, Host(g, op))
  BY DEF Found, At
<1>2. Guards(g, op)
  BY <1>1 DEF Guards, InverseTools
<1>3. NodeTakes(g, op, Host(g, op))
  BY <1>1 DEF NodeTakes, InverseTools
<1>4. QED
  BY <1>2, <1>3 DEF Accepts

-----------------------------------------------------------------------------
(* Machines and inventories                                                *)

LEMMA MachineFields ==
    ASSUME NEW m \in Machines
    PROVE  /\ m # None /\ m.kind \in {"qemu", "lxc"} /\ m.serial \in Nat
           /\ m.running \in BOOLEAN /\ m.node \in Nodes /\ m.disk \in Storages
           /\ m.size \in Configs /\ m.cores \in Configs /\ m.memory \in Configs
           /\ m.snap \in {None} \cup Snapshots
BY Constants DEF Machines

\* A machine with one field changed, and changed back.
LEMMA MachineChange ==
    ASSUME NEW m \in Machines
    PROVE  /\ \A b \in BOOLEAN :
                 /\ [m EXCEPT !.running = b] \in Machines
                 /\ [[m EXCEPT !.running = b] EXCEPT !.running = m.running] = m
           /\ \A n \in Nodes :
                 /\ [m EXCEPT !.node = n] \in Machines
                 /\ [[m EXCEPT !.node = n] EXCEPT !.node = m.node] = m
           /\ \A d \in Storages :
                 /\ [m EXCEPT !.disk = d] \in Machines
                 /\ [[m EXCEPT !.disk = d] EXCEPT !.disk = m.disk] = m
           /\ \A x \in {None} \cup Snapshots :
                 /\ [m EXCEPT !.snap = x] \in Machines
                 /\ [[m EXCEPT !.snap = x] EXCEPT !.snap = m.snap] = m
           /\ \A z \in Configs : [m EXCEPT !.size = z] \in Machines
           /\ \A c, y \in Configs :
                 /\ [m EXCEPT !.cores = c, !.memory = y] \in Machines
                 /\ [[m EXCEPT !.cores = c, !.memory = y]
                        EXCEPT !.cores = m.cores, !.memory = m.memory] = m
BY DEF Machines

\* An inventory with one guest changed, and changed back.
LEMMA InventoryChange ==
    ASSUME NEW g \in Inventories, NEW v \in Vmids, NEW m \in {None} \cup Machines
    PROVE  /\ [g EXCEPT ![v] = m] \in Inventories
           /\ [g EXCEPT ![v] = m][v] = m
           /\ [[g EXCEPT ![v] = m] EXCEPT ![v] = g[v]] = g
           /\ \A w \in Vmids : w # v => [g EXCEPT ![v] = m][w] = g[w]
           /\ \A w \in Vmids : g[w] \in {None} \cup Machines
BY DEF Inventories

LEMMA CallFields ==
    ASSUME NEW t, NEW v, NEW n, NEW a
    PROVE  /\ Call(t, v, n, a).tool = t /\ Call(t, v, n, a).vmid = v
           /\ Call(t, v, n, a).node = n /\ Call(t, v, n, a).arg = a
BY DEF Call

\* A call that names no other node finds the guest where it was.
LEMMA HostAgain ==
    ASSUME NEW g, NEW op, NEW e, NEW i,
           i.node = op.node, e[i.vmid] # None, e[i.vmid].node = Host(g, op)
    PROVE  e[i.vmid].node = Host(e, i)
BY DEF Host

-----------------------------------------------------------------------------
(* What a call makes of the guests                                         *)

\* The id whose guest the call changes.
Target(op) == IF op.tool = "vm_clone" THEN op.arg ELSE op.vmid

\* The guest a call leaves at its target: it is gone only where it was deleted,
\* a guest that was made is numbered, and one that was not keeps its number and
\* its snapshot.
Changed(h, op, held, s, m) ==
    /\ m \in {None} \cup Machines
    /\ op.tool = "vm_delete" <=> m = None
    /\ op.tool \in {"vm_clone", "backup_restore"} => m.serial = s
    /\ op.tool \notin {"vm_clone", "backup_restore", "vm_delete"} =>
          /\ h[op.vmid] # None /\ m.serial = h[op.vmid].serial
          /\ h[op.vmid].snap # None /\ op.tool # "vm_snapshot_delete" =>
                m.snap = h[op.vmid].snap
    /\ Named(h, held) /\ m # None => Names(m) /\ (m.snap # None => Names(m.snap))

\* The guest an accepted call is sent to.
LEMMA TakenGuest ==
    ASSUME NEW h \in Inventories, NEW op, NEW held, NEW host,
           WellFormed(op, held), NodeTakes(h, op, host)
    PROVE  /\ op.vmid \in Vmids /\ op.tool \in Tools
           /\ h[op.vmid] \in {None} \cup Machines
           /\ op.tool # "backup_restore" => h[op.vmid] \in Machines /\ h[op.vmid] # None
           /\ Named(h, held) /\ h[op.vmid] # None =>
                 /\ Names(h[op.vmid])
                 /\ h[op.vmid].snap # None => Names(h[op.vmid].snap)
<1>1. op.vmid \in Vmids /\ op.tool \in Tools
  BY DEF WellFormed
<1>2. h[op.vmid] \in {None} \cup Machines
  BY <1>1 DEF Inventories
<1>3. op.tool # "backup_restore" => h[op.vmid] # None
  BY TakesCases
<1>4. QED
  BY <1>1, <1>2, <1>3 DEF Named

LEMMA EffectShape ==
    ASSUME NEW h \in Inventories, NEW op, NEW held \in SUBSET Archives, NEW host,
           WellFormed(op, held), NodeTakes(h, op, host), NEW s \in Nat,
           op.tool = "backup_restore" => RestoreNode(op) \in Nodes
    PROVE  /\ Target(op) \in Vmids
           /\ \E m \in {None} \cup Machines :
                 Changed(h, op, held, s, m) /\ Effect(h, op, s) = [h EXCEPT ![Target(op)] = m]
<1> DEFINE v == op.vmid
           vm == h[v]
           e == Effect(h, op, s)
           Result(m) == Changed(h, op, held, s, m) /\ e = [h EXCEPT ![v] = m]
<1>1. /\ v \in Vmids /\ op.tool \in Tools
      /\ op.tool # "backup_restore" => vm \in Machines /\ vm # None
      /\ Named(h, held) /\ vm # None => Names(vm) /\ (vm.snap # None => Names(vm.snap))
  BY TakenGuest
<1>2. Target(op) \in Vmids /\ (op.tool # "vm_clone" => Target(op) = v)
  BY <1>1 DEF Target, WellFormed
<1> SUFFICES \E m \in {None} \cup Machines :
                Changed(h, op, held, s, m) /\ e = [h EXCEPT ![Target(op)] = m]
  BY <1>2
<1>3. vm \in Machines =>
         /\ vm.serial \in Nat /\ vm.cores \in Configs /\ vm.memory \in Configs
         /\ vm.size \in Configs /\ vm.snap \in {None} \cup Snapshots
  BY MachineFields
<1>4. CASE op.tool \in {"vm_start", "ct_start", "vm_stop", "vm_shutdown", "ct_stop"}
  <2>1. PICK b \in BOOLEAN : e = [h EXCEPT ![v].running = b]
    <3>1. CASE op.tool \in {"vm_start", "ct_start"}
      <4>1. e = [h EXCEPT ![v].running = TRUE]
        BY <3>1 DEF Effect
      <4>2. QED
        BY <4>1
    <3>2. CASE op.tool \in {"vm_stop", "vm_shutdown", "ct_stop"}
      <4>1. e = [h EXCEPT ![v].running = FALSE]
        BY <3>2 DEF Effect
      <4>2. QED
        BY <4>1
    <3>3. QED
      BY <1>4, <3>1, <3>2
  <2> DEFINE m == [vm EXCEPT !.running = b]
  <2>2. m \in Machines /\ m # None
    BY <1>1, <1>4, MachineChange, MachineFields
  <2>3. /\ m.serial = vm.serial /\ m.snap = vm.snap
        /\ m.cores = vm.cores /\ m.memory = vm.memory
    BY <1>1, <1>4 DEF Machines
  <2>4. e = [h EXCEPT ![v] = m]
    BY <2>1
  <2> HIDE DEF m
  <2>5. Changed(h, op, held, s, m)
    BY <1>1, <1>4, <2>2, <2>3 DEF Changed, Names
  <2>6. QED
    BY <1>2, <1>4, <2>2, <2>4, <2>5
<1>5. CASE op.tool \in {"vm_reboot", "vm_backup"}
  <2>1. e = h
    BY <1>5 DEF Effect
  <2>2. e = [h EXCEPT ![v] = vm]
    BY <2>1 DEF Inventories
  <2>3. Changed(h, op, held, s, vm)
    BY <1>1, <1>5 DEF Changed
  <2>4. QED
    BY <1>1, <1>2, <1>5, <2>2, <2>3
<1>6. CASE op.tool \in {"vm_snapshot_create", "vm_snapshot_delete"}
  <2>1. PICK x \in {None} \cup Snapshots :
           /\ e = [h EXCEPT ![v].snap = x]
           /\ op.tool = "vm_snapshot_create" => vm.snap = None
           /\ op.tool = "vm_snapshot_delete" => x = None
           /\ x # None => x.cores = vm.cores /\ x.memory = vm.memory
    <3>1. CASE op.tool = "vm_snapshot_create"
      <4> DEFINE x == [serial |-> s, cores |-> vm.cores, memory |-> vm.memory, size |-> vm.size]
      <4>1. x \in Snapshots
        BY <1>1, <1>3, <3>1 DEF Snapshots
      <4>2. e = [h EXCEPT ![v].snap = x]
        BY <3>1 DEF Effect
      <4>3. vm.snap = None
        BY <3>1, TakesCases
      <4>4. x.cores = vm.cores /\ x.memory = vm.memory
        OBVIOUS
      <4> HIDE DEF x
      <4>5. QED
        BY <3>1, <4>1, <4>2, <4>3, <4>4
    <3>2. CASE op.tool = "vm_snapshot_delete"
      <4>1. e = [h EXCEPT ![v].snap = None]
        BY <3>2 DEF Effect
      <4>2. QED
        BY <3>2, <4>1
    <3>3. QED
      BY <1>6, <3>1, <3>2
  <2> DEFINE m == [vm EXCEPT !.snap = x]
  <2>2. m \in Machines /\ m # None
    BY <1>1, <1>6, MachineChange, MachineFields
  <2>3. /\ m.serial = vm.serial /\ m.snap = x
        /\ m.cores = vm.cores /\ m.memory = vm.memory
    BY <1>1, <1>6 DEF Machines
  <2>4. e = [h EXCEPT ![v] = m]
    BY <2>1
  <2> HIDE DEF m
  <2>5. Changed(h, op, held, s, m)
    BY <1>1, <1>6, <2>1, <2>2, <2>3 DEF Changed, Names
  <2>6. QED
    BY <1>2, <1>6, <2>2, <2>4, <2>5
<1>7. CASE op.tool = "vm_snapshot_rollback"
  <2> DEFINE m == [vm EXCEPT !.cores = vm.snap.cores, !.size = vm.snap.size,
                             !.memory = vm.snap.memory, !.running = FALSE]
  <2>1. e = [h EXCEPT ![v] = m]
    BY <1>7 DEF Effect
  <2> HIDE DEF e
  <2>2. vm.snap # None
    BY <1>7, TakesCases
  <2>3. vm.snap.cores \in Configs /\ vm.snap.size \in Configs /\ vm.snap.memory \in Configs
    BY <1>1, <1>3, <1>7, <2>2 DEF Snapshots
  <2>4. /\ m \in Machines /\ m.serial = vm.serial /\ m.snap = vm.snap
        /\ m.cores = vm.snap.cores /\ m.memory = vm.snap.memory
    BY <1>1, <1>7, <2>3 DEF Machines
  <2>5. m # None
    BY <2>4, MachineFields
  <2> HIDE DEF m
  <2>6. Changed(h, op, held, s, m)
    BY <1>1, <1>7, <2>2, <2>4, <2>5 DEF Changed, Names
  <2>7. QED
    BY <1>2, <1>7, <2>1, <2>4, <2>6
<1>8. CASE op.tool = "vm_reconfigure"
  <2> DEFINE c == Given(op.arg.cores, vm.cores)
             y == Given(op.arg.memory, vm.memory)
             m == [vm EXCEPT !.cores = c, !.memory = y]
  <2>1. e = [h EXCEPT ![v].cores = Given(op.arg.cores, @),
                      ![v].memory = Given(op.arg.memory, @)]
    BY <1>8 DEF Effect
  <2>2. c \in Configs /\ y \in Configs
    BY <1>1, <1>3, <1>8 DEF Given, WellFormed
  <2>3. Names(vm) => c # None /\ y # None
    BY DEF Names, Given
  <2> HIDE DEF c, y
  <2>4. /\ m \in Machines /\ m.serial = vm.serial /\ m.snap = vm.snap
        /\ m.cores = c /\ m.memory = y
    BY <1>1, <1>8, <2>2 DEF Machines
  <2>5. m # None
    BY <2>4, MachineFields
  <2>6. e = [h EXCEPT ![v] = m]
    BY <1>1, <2>1 DEF Inventories, c, y, Given
  <2> HIDE DEF m
  <2>7. Changed(h, op, held, s, m)
    BY <1>1, <1>8, <2>3, <2>4, <2>5 DEF Changed, Names
  <2>8. QED
    BY <1>2, <1>8, <2>4, <2>6, <2>7
<1>9. CASE op.tool = "vm_clone"
  <2> DEFINE m == [vm EXCEPT !.serial = s, !.running = FALSE, !.snap = None]
  <2>1. e = [h EXCEPT ![op.arg] = m]
    BY <1>9 DEF Effect
  <2>2. /\ m \in Machines /\ m.serial = s /\ m.snap = None
        /\ m.cores = vm.cores /\ m.memory = vm.memory
    BY <1>1, <1>9 DEF Machines
  <2>3. m # None
    BY <2>2, MachineFields
  <2> HIDE DEF m
  <2>4. Changed(h, op, held, s, m)
    BY <1>1, <1>9, <2>2, <2>3 DEF Changed, Names
  <2>5. Target(op) = op.arg
    BY <1>9 DEF Target
  <2>6. QED
    BY <2>1, <2>2, <2>4, <2>5
<1>10. CASE op.tool = "vm_delete"
  <2>1. e = [h EXCEPT ![v] = None]
    BY <1>10 DEF Effect
  <2>2. Changed(h, op, held, s, None)
    BY <1>10 DEF Changed
  <2>3. QED
    BY <1>2, <1>10, <2>1, <2>2
<1>11. CASE op.tool \in {"vm_migrate", "vm_move_disk", "vm_resize_disk"}
  <2>1. PICK m \in Machines :
           /\ e = [h EXCEPT ![v] = m] /\ m.serial = vm.serial /\ m.snap = vm.snap
           /\ m.cores = vm.cores /\ m.memory = vm.memory
    <3>1. CASE op.tool = "vm_migrate"
      <4> DEFINE m == [vm EXCEPT !.node = op.arg]
      <4>1. op.arg \in Nodes
        BY <3>1 DEF WellFormed
      <4>2. e = [h EXCEPT ![v] = m]
        BY <3>1 DEF Effect
      <4>3. /\ m \in Machines /\ m.serial = vm.serial /\ m.snap = vm.snap
            /\ m.cores = vm.cores /\ m.memory = vm.memory
        BY <1>1, <3>1, <4>1 DEF Machines
      <4> HIDE DEF m
      <4>4. QED
        BY <4>2, <4>3
    <3>2. CASE op.tool = "vm_move_disk"
      <4> DEFINE m == [vm EXCEPT !.disk = op.arg]
      <4>1. op.arg \in Storages
        BY <3>2 DEF WellFormed
      <4>2. e = [h EXCEPT ![v] = m]
        BY <3>2 DEF Effect
      <4>3. /\ m \in Machines /\ m.serial = vm.serial /\ m.snap = vm.snap
            /\ m.cores = vm.cores /\ m.memory = vm.memory
        BY <1>1, <3>2, <4>1 DEF Machines
      <4> HIDE DEF m
      <4>4. QED
        BY <4>2, <4>3
    <3>3. CASE op.tool = "vm_resize_disk"
      <4> DEFINE z == IF op.arg.increment THEN Largest ELSE op.arg.size
                 m == [vm EXCEPT !.size = z]
      <4>1. z \in Sizes
        BY <3>3, LargestIsSize DEF WellFormed
      <4>2. e = [h EXCEPT ![v] = m]
        BY <3>3 DEF Effect
      <4> HIDE DEF z
      <4>3. /\ m \in Machines /\ m.serial = vm.serial /\ m.snap = vm.snap
            /\ m.cores = vm.cores /\ m.memory = vm.memory
        BY <1>1, <3>3, <4>1 DEF Machines, Configs
      <4> HIDE DEF m
      <4>4. QED
        BY <4>2, <4>3
    <3>4. QED
      BY <1>11, <3>1, <3>2, <3>3
  <2>2. m # None
    BY <2>1, MachineFields
  <2>3. Changed(h, op, held, s, m)
    BY <1>1, <1>11, <2>1, <2>2 DEF Changed, Names
  <2>4. QED
    BY <1>2, <1>11, <2>1, <2>3
<1>12. CASE op.tool = "backup_restore"
  <2> DEFINE a == op.arg.archive
             m == [kind |-> a.kind, serial |-> s, running |-> FALSE, node |-> RestoreNode(op),
                   disk |-> op.arg.storage, size |-> a.size, cores |-> a.cores,
                   memory |-> a.memory, snap |-> None]
  <2>1. e = [h EXCEPT ![v] = m]
    BY <1>12 DEF Effect
  <2>2. a \in held /\ a \in Archives /\ op.arg.storage \in Storages
    BY <1>12 DEF WellFormed
  <2> HIDE DEF a
  <2>3. m \in Machines /\ m.serial = s /\ m.snap = None
        /\ m.cores = a.cores /\ m.memory = a.memory
    BY <1>12, <2>2 DEF Machines, Archives
  <2>4. m # None
    BY <2>3, MachineFields
  <2> HIDE DEF m
  <2>5. Changed(h, op, held, s, m)
    BY <1>12, <2>2, <2>3, <2>4 DEF Changed, Names, Named
  <2>6. QED
    BY <1>2, <1>12, <2>1, <2>3, <2>5
<1>13. QED
  BY <1>1, <1>4, <1>5, <1>6, <1>7, <1>8, <1>9, <1>10, <1>11, <1>12 DEF Tools
-----------------------------------------------------------------------------
(* Inverses invert                                                         *)

\* The node takes inv of the guests e, and that yields the guests h.
Inverts(inv, e, h) ==
    /\ inv.tool \in InverseTools
    /\ Accepts(e, inv)
    /\ \A s \in Nat : Effect(e, inv, s) = h

\* A call reads the guests g and writes the guests h, and what its inverse
\* restores is the same in both.
Unraced(g, h, op) ==
    /\ op.tool = "vm_reconfigure" =>
          h[op.vmid].cores = g[op.vmid].cores /\ h[op.vmid].memory = g[op.vmid].memory
    /\ op.tool = "vm_move_disk" => h[op.vmid].disk = g[op.vmid].disk
    /\ op.tool = "backup_restore" => ~(op.arg.force /\ Overwrites(h, op))

\* The inverse keeps the vmid and the node of the call, and the guest has stayed.
LEMMA InvertsInPlace ==
    ASSUME NEW g, NEW op, NEW e, NEW inv, NEW m \in Machines,
           e[inv.vmid] = m, m.node = Host(g, op), m.kind = Kind(inv), inv.node = op.node,
           inv.tool \in InverseTools \ {"vm_migrate", "vm_move_disk"},
           inv.tool \in {"vm_start", "ct_start", "vm_delete"} => ~m.running,
           inv.tool = "ct_stop" => m.running,
           inv.tool = "vm_snapshot_delete" => m.snap # None,
           inv.tool = "vm_reconfigure" => inv.arg.cores # None
    PROVE  Accepts(e, inv)
<1>1. e[inv.vmid] # None
  BY MachineFields
<1>2. e[inv.vmid].node = Host(e, inv)
  BY <1>1, HostAgain
<1>3. QED
  BY <1>1, <1>2, AcceptInverse

LEMMA InverseInverts ==
    ASSUME NEW g \in Inventories, NEW h \in Inventories, NEW op, NEW held \in SUBSET Archives,
           WellFormed(op, held), Named(h, held), default \in Nodes \cup {None},
           Guards(g, op), NodeTakes(h, op, Host(g, op)), ~Idle(h, op), Unraced(g, h, op),
           NEW s \in Nat, Inverse(g, op) # None
    PROVE  Inverts(Inverse(g, op), Effect(h, op, s), h)
<1> DEFINE v == op.vmid
           vm == h[v]
           e == Effect(h, op, s)
           inv == Inverse(g, op)
<1>1. /\ v \in Vmids /\ op.tool \in Tools
      /\ op.tool # "backup_restore" => vm \in Machines /\ vm # None
      /\ vm # None => Names(vm)
  BY TakenGuest
<1>2. vm \in Machines =>
         /\ vm.running \in BOOLEAN /\ vm.node \in Nodes /\ vm.disk \in Storages
         /\ vm.cores \in Configs /\ vm.memory \in Configs
  BY MachineFields
<1>3. op.tool \notin {"backup_restore", "vm_backup"} => vm.node = Host(g, op) /\ vm.kind = Kind(op)
  BY TakesCases
<1>4. CASE op.tool \in {"vm_start", "vm_stop", "vm_shutdown", "ct_start", "ct_stop"}
  <2>1. PICK b \in BOOLEAN :
           /\ e = [h EXCEPT ![v].running = b] /\ vm.running = ~b
           /\ op.tool \in {"vm_start", "ct_start"} <=> b
    <3>1. CASE op.tool \in {"vm_start", "ct_start"}
      <4>1. e = [h EXCEPT ![v].running = TRUE]
        BY <3>1 DEF Effect
      <4>2. ~vm.running
        BY <3>1, TakesCases
      <4>3. QED
        BY <1>1, <1>4, <1>2, <3>1, <4>1, <4>2
    <3>2. CASE op.tool \in {"vm_stop", "vm_shutdown", "ct_stop"}
      <4>1. e = [h EXCEPT ![v].running = FALSE]
        BY <3>2 DEF Effect
      <4>2. vm.running
        BY <3>2, TakesCases DEF Idle
      <4>3. QED
        BY <1>1, <1>4, <1>2, <3>2, <4>1, <4>2
    <3>3. QED
      BY <1>4, <3>1, <3>2
  <2> DEFINE m == [vm EXCEPT !.running = b]
             t == IF op.tool \in {"ct_start", "ct_stop"}
                  THEN IF b THEN "ct_stop" ELSE "ct_start"
                  ELSE IF b THEN "vm_stop" ELSE "vm_start"
  <2>2. inv = Call(t, v, op.node, None)
    <3>1. /\ op.tool = "vm_start" => inv = Call("vm_stop", v, op.node, None)
          /\ op.tool \in {"vm_stop", "vm_shutdown"} => inv = Call("vm_start", v, op.node, None)
          /\ op.tool = "ct_start" => inv = Call("ct_stop", v, op.node, None)
          /\ op.tool = "ct_stop" => inv = Call("ct_start", v, op.node, None)
      BY InverseCases
    <3> HIDE DEF inv, v
    <3>2. QED
      BY <1>4, <2>1, <3>1
  <2>3. vm \in Machines
    BY <1>1, <1>4
  <2>4. m \in Machines /\ m.node = vm.node /\ m.kind = vm.kind /\ m.running = b
    BY <2>3 DEF Machines
  <2>5. [m EXCEPT !.running = ~b] = vm
    BY <2>1, <2>3, MachineChange
  <2>6. e[v] = m /\ [e EXCEPT ![v] = vm] = h
    BY <1>1, <2>1 DEF Inventories
  <2> HIDE DEF m, e
  <2>7. /\ inv.tool = t /\ inv.vmid = v /\ inv.node = op.node
        /\ t \in {"vm_start", "ct_start", "vm_stop", "ct_stop"}
        /\ t \in {"vm_start", "ct_start"} <=> ~b
        /\ Kind(inv) = Kind(op)
    BY <1>4, <2>2, CallFields DEF Kind
  <2> HIDE DEF t, inv
  <2>8. inv.tool \in InverseTools \ {"vm_migrate", "vm_move_disk"}
    BY <2>7 DEF InverseTools
  <2>9. Accepts(e, inv)
    <3>1. e[inv.vmid] = m /\ m.node = Host(g, op) /\ m.kind = Kind(inv)
      BY <1>3, <1>4, <2>4, <2>6, <2>7
    <3>2. m.running <=> ~(inv.tool \in {"vm_start", "ct_start"})
      BY <2>4, <2>7
    <3>3. QED
      BY <2>4, <2>7, <2>8, <3>1, <3>2, InvertsInPlace
  <2>10. ASSUME NEW k \in Nat PROVE Effect(e, inv, k) = h
    <3>1. Effect(e, inv, k) = [e EXCEPT ![v].running = ~b]
      BY <2>7 DEF Effect
    <3>2. QED
      BY <2>5, <2>6, <3>1
  <2>11. QED
    BY <2>8, <2>9, <2>10 DEF Inverts, inv, e
<1>5. CASE op.tool = "vm_snapshot_create"
  <2> DEFINE x == [serial |-> s, cores |-> vm.cores, memory |-> vm.memory, size |-> vm.size]
             m == [vm EXCEPT !.snap = x]
  <2>1. e = [h EXCEPT ![v] = m]
    BY <1>5 DEF Effect
  <2>2. vm \in Machines /\ vm.snap = None
    BY <1>1, <1>5, TakesCases
  <2>3. x \in Snapshots /\ x # None
    <3>1. vm.size \in Configs
      BY <2>2, MachineFields
    <3>2. x \in Snapshots
      BY <1>2, <2>2, <3>1 DEF Snapshots
    <3>3. QED
      BY <3>2, Constants
  <2> HIDE DEF x
  <2>4. m \in Machines /\ m.node = vm.node /\ m.kind = vm.kind /\ m.snap = x
    BY <2>2, <2>3 DEF Machines
  <2>5. [m EXCEPT !.snap = None] = vm
    BY <2>2, <2>3, MachineChange
  <2> HIDE DEF m, e
  <2>6. e[v] = m /\ [e EXCEPT ![v] = vm] = h
    BY <1>1, <2>1 DEF Inventories
  <2>7. inv = Call("vm_snapshot_delete", v, op.node, None)
    BY <1>5, InverseCases
  <2>8. /\ inv.tool = "vm_snapshot_delete" /\ inv.vmid = v /\ inv.node = op.node
        /\ Kind(inv) = Kind(op)
    BY <1>5, <2>7, CallFields DEF Kind
  <2> HIDE DEF inv
  <2>9. inv.tool \in InverseTools \ {"vm_migrate", "vm_move_disk"}
    BY <2>8 DEF InverseTools
  <2>10. Accepts(e, inv)
    <3>1. e[inv.vmid] = m /\ m.node = Host(g, op) /\ m.kind = Kind(inv) /\ m.snap # None
      BY <1>3, <1>5, <2>3, <2>4, <2>6, <2>8
    <3>2. QED
      BY <2>4, <2>8, <2>9, <3>1, InvertsInPlace
  <2>11. ASSUME NEW k \in Nat PROVE Effect(e, inv, k) = h
    <3>1. Effect(e, inv, k) = [e EXCEPT ![v].snap = None]
      BY <2>8 DEF Effect
    <3>2. QED
      BY <2>5, <2>6, <3>1
  <2>12. QED
    BY <2>9, <2>10, <2>11 DEF Inverts, inv, e
<1>6. CASE op.tool = "vm_reconfigure"
  <2> DEFINE c == Given(op.arg.cores, vm.cores)
             y == Given(op.arg.memory, vm.memory)
             m == [vm EXCEPT !.cores = c, !.memory = y]
             old == [cores |-> vm.cores, memory |-> vm.memory]
  <2>1. e = [h EXCEPT ![v].cores = Given(op.arg.cores, @),
                      ![v].memory = Given(op.arg.memory, @)]
    BY <1>6 DEF Effect
  <2>2. vm \in Machines /\ c \in Configs /\ y \in Configs
    BY <1>1, <1>2, <1>6 DEF Given, WellFormed
  <2>3. e = [h EXCEPT ![v] = m]
    BY <1>1, <2>1 DEF Inventories, Given
  <2> HIDE DEF c, y
  <2>4. m \in Machines /\ m.node = vm.node /\ m.kind = vm.kind
    BY <2>2 DEF Machines
  <2>5. [m EXCEPT !.cores = vm.cores, !.memory = vm.memory] = vm
    BY <2>2, MachineChange
  <2> HIDE DEF m, e
  <2>6. e \in Inventories /\ e[v] = m /\ [e EXCEPT ![v] = vm] = h
    BY <1>1, <2>3, <2>4 DEF Inventories
  <2>7. inv = Call("vm_reconfigure", v, op.node, old)
    BY <1>6, InverseCases DEF Unraced
  <2>8. /\ inv.tool = "vm_reconfigure" /\ inv.vmid = v /\ inv.node = op.node /\ inv.arg = old
        /\ Kind(inv) = Kind(op)
    BY <1>6, <2>7, CallFields DEF Kind
  <2>9. vm.cores # None /\ vm.memory # None /\ inv.arg.cores = vm.cores /\ inv.arg.memory = vm.memory
    BY <1>1, <1>6, <2>8 DEF Names
  <2> HIDE DEF inv, old
  <2>10. inv.tool \in InverseTools \ {"vm_migrate", "vm_move_disk"}
    BY <2>8 DEF InverseTools
  <2>11. Accepts(e, inv)
    <3>1. e[inv.vmid] = m /\ m.node = Host(g, op) /\ m.kind = Kind(inv)
      BY <1>3, <1>6, <2>4, <2>6, <2>8
    <3>2. QED
      BY <2>4, <2>8, <2>9, <2>10, <3>1, InvertsInPlace
  <2>12. ASSUME NEW k \in Nat PROVE Effect(e, inv, k) = h
    <3>1. Effect(e, inv, k) = [e EXCEPT ![v].cores = Given(inv.arg.cores, @),
                                        ![v].memory = Given(inv.arg.memory, @)]
      BY <2>8 DEF Effect
    <3>2. Effect(e, inv, k) = [e EXCEPT ![v] = [m EXCEPT !.cores = vm.cores, !.memory = vm.memory]]
      BY <1>1, <2>6, <2>9, <3>1 DEF Given, Inventories
    <3>3. QED
      BY <2>5, <2>6, <3>2
  <2>13. QED
    BY <2>10, <2>11, <2>12 DEF Inverts, inv, e
<1>7. CASE op.tool = "vm_clone"
  <2> DEFINE m == [vm EXCEPT !.serial = s, !.running = FALSE, !.snap = None]
             w == op.arg
  <2>1. e = [h EXCEPT ![w] = m]
    BY <1>7 DEF Effect
  <2>2. w \in Vmids /\ h[w] = None
    BY <1>7, TakesCases DEF WellFormed
  <2>3. m \in Machines /\ m.node = vm.node /\ m.kind = vm.kind /\ ~m.running
    BY <1>1, <1>7 DEF Machines
  <2> HIDE DEF m, e
  <2>4. e[w] = m /\ m # None /\ [e EXCEPT ![w] = None] = h
    BY <2>1, <2>2, <2>3, MachineFields DEF Inventories
  <2>5. inv = Call("vm_delete", w, op.node, None)
    BY <1>7, InverseCases
  <2>6. /\ inv.tool = "vm_delete" /\ inv.vmid = w /\ inv.node = op.node
        /\ inv.tool \in InverseTools /\ Kind(inv) = Kind(op)
    BY <1>7, <2>5, CallFields DEF InverseTools, Kind
  <2> HIDE DEF inv
  <2>7. e[inv.vmid].node = Host(e, inv)
    BY <1>3, <1>7, <2>3, <2>4, <2>6, HostAgain
  <2>8. Accepts(e, inv)
    BY <1>3, <1>7, <2>3, <2>4, <2>6, <2>7, AcceptInverse
  <2>9. ASSUME NEW k \in Nat PROVE Effect(e, inv, k) = h
    <3>1. Effect(e, inv, k) = [e EXCEPT ![w] = None]
      BY <2>6 DEF Effect
    <3>2. QED
      BY <2>4, <3>1
  <2>10. QED
    BY <2>6, <2>8, <2>9 DEF Inverts, inv, e
<1>8. CASE op.tool = "vm_migrate"
  <2> DEFINE m == [vm EXCEPT !.node = op.arg]
  <2>1. e = [h EXCEPT ![v] = m]
    BY <1>8 DEF Effect
  <2>2. op.arg \in Nodes /\ op.arg # None /\ vm.node # op.arg
    BY <1>8, TakesCases, Constants DEF WellFormed
  <2>3. /\ m \in Machines /\ m.node = op.arg /\ m.kind = vm.kind
        /\ [m EXCEPT !.node = vm.node] = vm
    BY <1>1, <1>8, <2>2, MachineChange DEF Machines
  <2>4. vm.node = g[v].node
    <3>1. g[v].node = Host(g, op)
      BY <1>8, GuardCases DEF Found, At
    <3>2. QED
      BY <1>3, <1>8, <3>1
  <2> HIDE DEF m, e
  <2>5. e[v] = m /\ m # None /\ [e EXCEPT ![v] = vm] = h
    BY <1>1, <2>1, <2>3, MachineFields DEF Inventories
  <2>6. inv = Call("vm_migrate", v, op.arg, vm.node)
    BY <1>8, <2>4, InverseCases
  <2>7. /\ inv.tool = "vm_migrate" /\ inv.vmid = v /\ inv.node = op.arg /\ inv.arg = vm.node
        /\ inv.tool \in InverseTools /\ Kind(inv) = Kind(op)
    BY <1>8, <2>6, CallFields DEF InverseTools, Kind
  <2> HIDE DEF inv
  <2>8. e[inv.vmid].node = Host(e, inv)
    BY <2>2, <2>3, <2>5, <2>7 DEF Host
  <2>9. Accepts(e, inv)
    BY <1>3, <1>8, <2>2, <2>3, <2>5, <2>7, <2>8, AcceptInverse
  <2>10. ASSUME NEW k \in Nat PROVE Effect(e, inv, k) = h
    <3>1. Effect(e, inv, k) = [e EXCEPT ![v].node = vm.node]
      BY <2>7 DEF Effect
    <3>2. QED
      BY <2>3, <2>5, <3>1
  <2>11. QED
    BY <2>7, <2>9, <2>10 DEF Inverts, inv, e
<1>9. CASE op.tool = "vm_move_disk"
  <2> DEFINE m == [vm EXCEPT !.disk = op.arg]
  <2>1. e = [h EXCEPT ![v] = m]
    BY <1>9 DEF Effect
  <2>2. op.arg \in Storages /\ vm.disk # op.arg /\ vm.node # None
    BY <1>1, <1>2, <1>9, TakesCases, Constants DEF WellFormed
  <2>3. /\ m \in Machines /\ m.node = vm.node /\ m.disk = op.arg /\ m.kind = vm.kind
        /\ [m EXCEPT !.disk = vm.disk] = vm
    BY <1>1, <1>9, <2>2, MachineChange DEF Machines
  <2>4. vm.node = g[v].node
    <3>1. g[v].node = Host(g, op)
      BY <1>9, GuardCases DEF Found, At
    <3>2. QED
      BY <1>3, <1>9, <3>1
  <2> HIDE DEF m, e
  <2>5. e[v] = m /\ m # None /\ [e EXCEPT ![v] = vm] = h
    BY <1>1, <2>1, <2>3, MachineFields DEF Inventories
  <2>6. inv = Call("vm_move_disk", v, vm.node, vm.disk)
    BY <1>9, <2>4, InverseCases DEF Unraced
  <2>7. /\ inv.tool = "vm_move_disk" /\ inv.vmid = v /\ inv.node = vm.node /\ inv.arg = vm.disk
        /\ inv.tool \in InverseTools /\ Kind(inv) = Kind(op)
    BY <1>9, <2>6, CallFields DEF InverseTools, Kind
  <2> HIDE DEF inv
  <2>8. e[inv.vmid].node = Host(e, inv)
    BY <2>2, <2>3, <2>5, <2>7 DEF Host
  <2>9. Accepts(e, inv)
    BY <1>3, <1>9, <2>2, <2>3, <2>5, <2>7, <2>8, AcceptInverse
  <2>10. ASSUME NEW k \in Nat PROVE Effect(e, inv, k) = h
    <3>1. Effect(e, inv, k) = [e EXCEPT ![v].disk = vm.disk]
      BY <2>7 DEF Effect
    <3>2. QED
      BY <2>3, <2>5, <3>1
  <2>11. QED
    BY <2>7, <2>9, <2>10 DEF Inverts, inv, e
<1>10. CASE op.tool = "backup_restore"
  <2> DEFINE a == op.arg.archive
             m == [kind |-> a.kind, serial |-> s, running |-> FALSE, node |-> RestoreNode(op),
                   disk |-> op.arg.storage, size |-> a.size, cores |-> a.cores,
                   memory |-> a.memory, snap |-> None]
  <2>1. e = [h EXCEPT ![v] = m]
    BY <1>10 DEF Effect
  <2>2. a.kind = "qemu" /\ (vm # None => op.arg.force /\ vm.node = Host(g, op))
    BY <1>10, TakesCases
  <2>3. RestoreNode(op) # None /\ RestoreNode(op) \in Nodes /\ RestoreNode(op) = Host(g, op)
    <3>1. RestoreNode(op) # None
      BY <1>10, GuardCases
    <3>2. QED
      BY <3>1 DEF RestoreNode, Host, WellFormed
  <2>4. vm = None
    BY <1>10, <2>2, <2>3 DEF Unraced, Overwrites, At
  <2>5. m \in Machines /\ m.node = RestoreNode(op) /\ m.kind = "qemu" /\ ~m.running
    <3>1. a \in Archives /\ op.arg.storage \in Storages
      BY <1>10 DEF WellFormed
    <3> HIDE DEF a
    <3>2. QED
      BY <2>2, <2>3, <3>1 DEF Archives, Machines
  <2> HIDE DEF m, e
  <2>6. e[v] = m /\ m # None /\ [e EXCEPT ![v] = None] = h
    BY <1>1, <2>1, <2>4, <2>5, MachineFields DEF Inventories
  <2>7. inv = Call("vm_delete", v, RestoreNode(op), None)
    BY <1>10, InverseCases
  <2>8. /\ inv.tool = "vm_delete" /\ inv.vmid = v /\ inv.node = RestoreNode(op)
        /\ inv.tool \in InverseTools /\ Kind(inv) = "qemu"
    BY <2>7, CallFields DEF InverseTools, Kind
  <2> HIDE DEF inv
  <2>9. e[inv.vmid].node = Host(e, inv)
    BY <2>3, <2>5, <2>6, <2>8 DEF Host
  <2>10. Accepts(e, inv)
    BY <2>5, <2>6, <2>8, <2>9, AcceptInverse
  <2>11. ASSUME NEW k \in Nat PROVE Effect(e, inv, k) = h
    <3>1. Effect(e, inv, k) = [e EXCEPT ![v] = None]
      BY <2>8 DEF Effect
    <3>2. QED
      BY <2>6, <3>1
  <2>12. QED
    BY <2>8, <2>10, <2>11 DEF Inverts, inv, e
<1>11. op.tool \in {"vm_start", "vm_stop", "vm_shutdown", "ct_start", "ct_stop",
                    "vm_snapshot_create", "vm_reconfigure", "vm_clone", "vm_migrate",
                    "vm_move_disk", "backup_restore"}
  BY <1>1, InverseCases
<1>12. QED
  BY <1>4, <1>5, <1>6, <1>7, <1>8, <1>9, <1>10, <1>11
-----------------------------------------------------------------------------
(* Tokens and trail                                                        *)

TokenCalls ==
    [tool : InverseTools, vmid : Vmids, node : Nodes \cup {None},
     arg : {None} \cup Nodes \cup Storages \cup [cores : Configs, memory : Configs]]

Tokens  == [call : TokenCalls, spent : BOOLEAN, serial : Nat]
Entries == [token : Nat, before : Inventories]

\* The tokens of the trail are recorded, and in the order of their records.
Ordered(tk, tr) ==
    /\ \A k \in 1..Len(tr) : tr[k].token \in 1..Len(tk) /\ ~tk[tr[k].token].spent
    /\ \A j, k \in 1..Len(tr) : j < k => tr[j].token < tr[k].token

\* The guests after the k-th write of the trail.
After(tr, g, k) == IF k = Len(tr) THEN g ELSE tr[k + 1].before

\* Every token of the trail takes the guests one write back.
Restorable(tk, tr, g) ==
    \A k \in 1..Len(tr) : Inverts(tk[tr[k].token].call, After(tr, g, k), tr[k].before)

LEMMA AppendFacts ==
    ASSUME NEW S, NEW s \in Seq(S), NEW x \in S
    PROVE  /\ Append(s, x) \in Seq(S)
           /\ Len(s) \in Nat /\ Len(Append(s, x)) = Len(s) + 1
           /\ \A i \in 1..Len(s) : Append(s, x)[i] = s[i]
           /\ Append(s, x)[Len(s) + 1] = x
OBVIOUS

LEMMA FrontFacts ==
    ASSUME NEW S, NEW s \in Seq(S), s # <<>>
    PROVE  /\ Len(s) \in Nat \ {0} /\ s[Len(s)] \in S
           /\ SubSeq(s, 1, Len(s) - 1) \in Seq(S)
           /\ Len(SubSeq(s, 1, Len(s) - 1)) = Len(s) - 1
           /\ \A i \in 1..(Len(s) - 1) : SubSeq(s, 1, Len(s) - 1)[i] = s[i]
<1>1. Len(s) \in Nat \ {0} /\ s[Len(s)] \in S
  OBVIOUS
<1>2. 1 \in Int /\ Len(s) - 1 \in Int /\ \A i \in 1..(Len(s) - 1) : s[i] \in S
  BY <1>1
<1>3. /\ SubSeq(s, 1, Len(s) - 1) \in Seq(S)
      /\ Len(SubSeq(s, 1, Len(s) - 1)) = IF 1 <= Len(s) - 1 THEN Len(s) - 1 - 1 + 1 ELSE 0
  BY <1>2, Seqs!SubSeqProperties
<1>4. (IF 1 <= Len(s) - 1 THEN Len(s) - 1 - 1 + 1 ELSE 0) = Len(s) - 1
  BY <1>1
<1>5. \A i \in 1..(Len(s) - 1) : SubSeq(s, 1, Len(s) - 1)[i] = s[i]
  BY <1>1
<1>6. QED
  BY <1>1, <1>3, <1>4, <1>5

\* A write that can be undone goes to the end of the trail.
LEMMA TrailGrows ==
    ASSUME NEW tk \in Seq(Tokens), NEW tr \in Seq(Entries), NEW x \in Tokens, ~x.spent,
           NEW g \in Inventories, NEW h \in Inventories, Ordered(tk, tr),
           NEW entry, entry = [token |-> Len(tk) + 1, before |-> g]
    PROVE  /\ Append(tk, x) \in Seq(Tokens) /\ Append(tr, entry) \in Seq(Entries)
           /\ Ordered(Append(tk, x), Append(tr, entry))
           /\ Restorable(tk, tr, g) /\ Inverts(x.call, h, g) =>
                 Restorable(Append(tk, x), Append(tr, entry), h)
<1> DEFINE tk2 == Append(tk, x)
           tr2 == Append(tr, entry)
           n == Len(tk)
           m == Len(tr)
<1>1. /\ tk2 \in Seq(Tokens) /\ n \in Nat /\ Len(tk2) = n + 1
      /\ \A i \in 1..n : tk2[i] = tk[i]
      /\ tk2[n + 1] = x
  BY AppendFacts
<1>2. entry \in Entries
  BY <1>1 DEF Entries
<1>3. /\ tr2 \in Seq(Entries) /\ m \in Nat /\ Len(tr2) = m + 1
      /\ \A k \in 1..m : tr2[k] = tr[k]
      /\ tr2[m + 1] = entry
  BY <1>2, AppendFacts
<1>4. entry.token = n + 1 /\ entry.before = g
  OBVIOUS
<1> HIDE DEF tk2, tr2, n, m
<1>5. \A k \in 1..m : tr[k].token \in 1..n /\ ~tk[tr[k].token].spent
  BY DEF Ordered, n, m
<1>6. \A k \in 1..(m + 1) : k = m + 1 \/ k \in 1..m
  BY <1>3
<1>7. \A k \in 1..(m + 1) : tr2[k].token \in 1..(n + 1) /\ ~tk2[tr2[k].token].spent
  <2>1. tr2[m + 1].token \in 1..(n + 1) /\ ~tk2[tr2[m + 1].token].spent
    BY <1>1, <1>3, <1>4
  <2>2. ASSUME NEW k \in 1..m PROVE tr2[k].token \in 1..(n + 1) /\ ~tk2[tr2[k].token].spent
    <3>1. tr2[k] = tr[k] /\ tr[k].token \in 1..n /\ ~tk[tr[k].token].spent
      BY <1>3, <1>5
    <3>2. tk2[tr[k].token] = tk[tr[k].token] /\ tr[k].token \in 1..(n + 1)
      BY <1>1, <3>1
    <3>3. QED
      BY <3>1, <3>2
  <2>3. QED
    BY <1>6, <2>1, <2>2
<1>8. \A j, k \in 1..(m + 1) : j < k => tr2[j].token < tr2[k].token
  <2> SUFFICES ASSUME NEW j \in 1..(m + 1), NEW k \in 1..(m + 1), j < k
               PROVE  tr2[j].token < tr2[k].token
    OBVIOUS
  <2>1. j \in 1..m /\ tr2[j] = tr[j] /\ tr[j].token \in 1..n
    BY <1>3, <1>5
  <2>2. CASE k = m + 1
    BY <1>1, <1>3, <1>4, <2>1, <2>2
  <2>3. CASE k \in 1..m
    BY <1>3, <2>1, <2>3 DEF Ordered, m
  <2>4. QED
    BY <1>6, <2>2, <2>3
<1>9. ASSUME Restorable(tk, tr, g), Inverts(x.call, h, g), NEW k \in 1..(m + 1)
      PROVE  Inverts(tk2[tr2[k].token].call, After(tr2, h, k), tr2[k].before)
  <2>1. CASE k = m + 1
    BY <1>1, <1>3, <1>4, <1>9, <2>1 DEF After
  <2>2. CASE k \in 1..m
    <3>1. tr2[k] = tr[k] /\ tk2[tr2[k].token] = tk[tr[k].token]
      BY <1>1, <1>3, <1>5, <2>2
    <3>2. After(tr2, h, k) = After(tr, g, k)
      <4>1. CASE k = m
        BY <1>3, <1>4, <4>1 DEF After, m
      <4>2. CASE k # m
        <5>1. k + 1 \in 1..m /\ k # m + 1
          BY <1>3, <2>2, <4>2
        <5>2. QED
          BY <1>3, <4>2, <5>1 DEF After, m
      <4>3. QED
        BY <4>1, <4>2
    <3>3. QED
      BY <1>9, <2>2, <3>1, <3>2 DEF Restorable, m
  <2>3. QED
    BY <1>6, <2>1, <2>2
<1>10. QED
  BY <1>1, <1>3, <1>7, <1>8, <1>9 DEF Ordered, Restorable, tk2, tr2

\* The last write of the trail is undone.
LEMMA TrailShrinks ==
    ASSUME NEW tk \in Seq(Tokens), NEW tr \in Seq(Entries), tr # <<>>, Ordered(tk, tr),
           NEW tk2 \in Seq(Tokens), Len(tk2) >= Len(tk), NEW g,
           \A i \in 1..Len(tk) : tk2[i].call = tk[i].call,
           \A i \in 1..Len(tk) : i # tr[Len(tr)].token => tk2[i].spent = tk[i].spent
    PROVE  LET rest == SubSeq(tr, 1, Len(tr) - 1)
           IN /\ rest \in Seq(Entries) /\ Ordered(tk2, rest)
              /\ Restorable(tk, tr, g) => Restorable(tk2, rest, tr[Len(tr)].before)
<1> DEFINE m == Len(tr)
           n == Len(tk)
           rest == SubSeq(tr, 1, m - 1)
<1>1. /\ m \in Nat \ {0} /\ rest \in Seq(Entries) /\ Len(rest) = m - 1
      /\ \A k \in 1..(m - 1) : rest[k] = tr[k]
  BY FrontFacts
<1>2. n \in Nat /\ Len(tk2) \in Nat /\ Len(tk2) >= n
  OBVIOUS
<1> HIDE DEF m, n, rest
<1>3. \A k \in 1..m : tr[k].token \in 1..n /\ ~tk[tr[k].token].spent
  BY DEF Ordered, n, m
<1>4. \A k \in 1..(m - 1) : k \in 1..m /\ tr[k].token # tr[m].token
  <2>1. \A k \in 1..(m - 1) : k \in 1..m /\ m \in 1..m /\ k < m
    BY <1>1
  <2>2. \A k \in 1..(m - 1) : tr[k].token < tr[m].token
    BY <2>1 DEF Ordered, m
  <2>3. \A k \in 1..m : tr[k].token \in Nat
    BY <1>2, <1>3
  <2>4. QED
    BY <1>1, <2>1, <2>2, <2>3
<1>5. \A k \in 1..(m - 1) :
         /\ rest[k].token \in 1..Len(tk2) /\ ~tk2[rest[k].token].spent
         /\ tk2[rest[k].token].call = tk[tr[k].token].call
  <2> SUFFICES ASSUME NEW k \in 1..(m - 1), NEW i, i = tr[k].token
               PROVE  i \in 1..Len(tk2) /\ ~tk2[i].spent /\ tk2[i].call = tk[i].call
    BY <1>1
  <2>1. k \in 1..m /\ i \in 1..n /\ ~tk[i].spent /\ i # tr[m].token
    BY <1>3, <1>4
  <2>2. tk2[i].spent = tk[i].spent /\ tk2[i].call = tk[i].call
    BY <2>1 DEF m, n
  <2>3. QED
    BY <1>2, <2>1, <2>2
<1>6. \A j, k \in 1..(m - 1) : j < k => rest[j].token < rest[k].token
  BY <1>1, <1>4 DEF Ordered, m
<1>7. ASSUME NEW k \in 1..(m - 1) PROVE After(rest, tr[m].before, k) = After(tr, g, k)
  <2>1. k # m
    BY <1>1
  <2>2. CASE k = m - 1
    <3>1. k + 1 = m
      BY <1>1, <2>2
    <3>2. QED
      BY <1>1, <2>1, <2>2, <3>1 DEF After, m
  <2>3. CASE k # m - 1
    <3>1. k + 1 \in 1..(m - 1)
      BY <1>1, <2>3
    <3>2. QED
      BY <1>1, <2>1, <2>3, <3>1 DEF After, m
  <2>4. QED
    BY <2>2, <2>3
<1>8. ASSUME Restorable(tk, tr, g), NEW k \in 1..(m - 1)
      PROVE  Inverts(tk2[rest[k].token].call, After(rest, tr[m].before, k), rest[k].before)
  <2>1. Inverts(tk[tr[k].token].call, After(tr, g, k), tr[k].before)
    BY <1>4, <1>8 DEF Restorable, m
  <2>2. QED
    BY <1>1, <1>5, <1>7, <2>1
<1>9. Ordered(tk2, rest)
  BY <1>1, <1>5, <1>6 DEF Ordered
<1>10. Restorable(tk, tr, g) => Restorable(tk2, rest, tr[m].before)
  BY <1>1, <1>8 DEF Restorable
<1>11. QED
  BY <1>1, <1>9, <1>10 DEF m, rest

LEMMA InvertsKept ==
    ASSUME NEW inv, NEW e, NEW h, default' = default, Inverts(inv, e, h)
    PROVE  Inverts(inv, e, h)'
BY DEF Inverts, Accepts, Guards, NodeTakes, Effect, Host, Found, RestoreNode, Overwrites,
       RejectsShrink, At, Kind

LEMMA RestorableKept ==
    ASSUME default' = default, Restorable(tokens', trail', guests')
    PROVE  Restorable(tokens, trail, guests)'
BY InvertsKept DEF Restorable, After

-----------------------------------------------------------------------------
(* The invariant                                                           *)

\* A recorded token that deletes a machine.
Deletes(tk, i) == i \in 1..Len(tk) /\ ~tk[i].spent /\ tk[i].call.tool = "vm_delete"

\* Its machine is the one its call made, and no other such token is after it.
Owned(tk, g) ==
    /\ \A i \in 1..Len(tk) : Deletes(tk, i) =>
          LET v == tk[i].call.vmid IN g[v] # None /\ g[v].serial = tk[i].serial
    /\ \A i, j \in 1..Len(tk) :
          Deletes(tk, i) /\ Deletes(tk, j) /\ tk[i].call.vmid = tk[j].call.vmid => i = j

Types ==
    /\ default \in Nodes \cup {None} /\ reuse \in BOOLEAN /\ serial \in Nat
    /\ guests \in Inventories /\ archives \in SUBSET Archives
    /\ tokens \in Seq(Tokens) /\ trail \in Seq(Entries)

\* Every token holds a call with arguments of its tool.
TokensFormed == \A i \in 1..Len(tokens) : WellFormed(tokens[i].call, {})

TrailRestores == Configured => Named(guests, archives) /\ Restorable(tokens, trail, guests)

OwnWork == ~reuse => Owned(tokens, guests)

IInv == Types /\ TokensFormed /\ Ordered(tokens, trail) /\ TrailRestores /\ OwnWork

-----------------------------------------------------------------------------
(* A call is carried out                                                   *)

LEMMA RestoreNodeIsNode ==
    ASSUME NEW g, NEW op, NEW held, WellFormed(op, held), default \in Nodes \cup {None},
           Guards(g, op)
    PROVE  op.tool = "backup_restore" => RestoreNode(op) \in Nodes
<1>1. op.tool = "backup_restore" => RestoreNode(op) # None
  BY GuardCases
<1>2. RestoreNode(op) \in Nodes \cup {None}
  BY DEF RestoreNode, WellFormed
<1>3. QED
  BY <1>1, <1>2

LEMMA ArchiveFields ==
    ASSUME NEW m \in Machines
    PROVE  ArchiveOf(m) \in Archives /\ (Names(m) => Names(ArchiveOf(m)))
BY MachineFields DEF ArchiveOf, Archives, Names

\* The guests and the archives after a call.
LEMMA EffectKept ==
    ASSUME NEW h \in Inventories, NEW op, NEW host, archives \in SUBSET Archives,
           WellFormed(op, archives), NodeTakes(h, op, host), NEW s \in Nat,
           op.tool = "backup_restore" => RestoreNode(op) \in Nodes
    PROVE  /\ Effect(h, op, s) \in Inventories
           /\ Archived(h, op) \in SUBSET Archives
           /\ Named(h, archives) => Named(Effect(h, op, s), Archived(h, op))
<1> DEFINE w == Target(op)
           e == Effect(h, op, s)
<1>1. w \in Vmids
  BY EffectShape
<1>2. PICK m \in {None} \cup Machines : Changed(h, op, archives, s, m) /\ e = [h EXCEPT ![w] = m]
  BY EffectShape
<1> HIDE DEF e, w
<1>3. e \in Inventories /\ e[w] = m /\ \A v \in Vmids : v # w => e[v] = h[v]
  BY <1>1, <1>2, SMT DEF Inventories
<1>4. op.tool = "vm_backup" =>
         h[op.vmid] \in Machines /\ (Named(h, archives) => Names(h[op.vmid]))
  BY TakenGuest
<1>5. Archived(h, op) \in SUBSET Archives
  BY <1>4, ArchiveFields DEF Archived
<1>6. ASSUME Named(h, archives)
      PROVE  Named(e, Archived(h, op))
  <2>1. \A a \in Archived(h, op) : Names(a)
    BY <1>4, <1>6, ArchiveFields DEF Archived, Named
  <2>2. \A v \in Vmids : e[v] # None =>
           Names(e[v]) /\ (e[v].snap # None => Names(e[v].snap))
    BY <1>2, <1>3, <1>6 DEF Named, Changed
  <2>3. QED
    BY <2>1, <2>2 DEF Named
<1>7. QED
  BY <1>3, <1>5, <1>6 DEF e

\* Every inverse is a call with arguments of its tool.
LEMMA InverseFormed ==
    ASSUME NEW g \in Inventories, NEW op, NEW held, WellFormed(op, held),
           default \in Nodes \cup {None}, Guards(g, op), Inverse(g, op) # None
    PROVE  LET inv == Inverse(g, op)
           IN /\ inv \in TokenCalls /\ WellFormed(inv, {})
              /\ inv.tool = "vm_delete" =>
                    op.tool \in {"vm_clone", "backup_restore"} /\ inv.vmid = Target(op)
<1> DEFINE v == op.vmid
           vm == g[v]
           inv == Inverse(g, op)
<1>1. v \in Vmids /\ op.node \in Nodes \cup {None} /\ op.tool \in Tools
  BY DEF WellFormed
<1>2. vm \in {None} \cup Machines
  BY <1>1, InventoryChange
<1>3. op.tool \notin {"backup_restore", "vm_backup"} => vm \in Machines
  BY <1>2, GuardCases DEF Found, At
<1>4. vm \in Machines =>
         /\ vm.node \in Nodes /\ vm.disk \in Storages
         /\ vm.cores \in Configs /\ vm.memory \in Configs
  BY MachineFields
<1>5. \E t \in InverseTools, w \in Vmids, n \in Nodes \cup {None},
         a \in {None} \cup Nodes \cup Storages \cup [cores : Configs, memory : Configs] :
         /\ inv = Call(t, w, n, a)
         /\ t = "vm_delete" => op.tool \in {"vm_clone", "backup_restore"} /\ w = Target(op)
         /\ t = "vm_migrate" => a \in Nodes
         /\ t = "vm_move_disk" => a \in Storages
         /\ t = "vm_reconfigure" => a.cores \in Configs /\ a.memory \in Configs
  <2>1. CASE op.tool \in {"vm_start", "vm_stop", "vm_shutdown", "ct_start", "ct_stop",
                          "vm_snapshot_create"}
    <3>1. PICK t \in {"vm_stop", "vm_start", "ct_stop", "ct_start", "vm_snapshot_delete"} :
             inv = Call(t, v, op.node, None)
      BY <2>1, InverseCases
    <3>2. QED
      BY <1>1, <3>1 DEF InverseTools
  <2>2. CASE op.tool = "vm_reconfigure"
    <3> DEFINE a == [cores |-> vm.cores, memory |-> vm.memory]
    <3>1. inv = Call("vm_reconfigure", v, op.node, a)
      BY <2>2, InverseCases
    <3>2. a \in [cores : Configs, memory : Configs] /\ a.cores \in Configs /\ a.memory \in Configs
      BY <1>3, <1>4, <2>2
    <3> HIDE DEF a
    <3>3. QED
      BY <1>1, <3>1, <3>2 DEF InverseTools
  <2>3. CASE op.tool = "vm_clone"
    <3>1. inv = Call("vm_delete", op.arg, op.node, None)
      BY <2>3, InverseCases
    <3>2. op.arg \in Vmids /\ Target(op) = op.arg
      BY <2>3 DEF WellFormed, Target
    <3>3. QED
      BY <1>1, <2>3, <3>1, <3>2 DEF InverseTools
  <2>4. CASE op.tool = "vm_migrate"
    <3>1. inv = Call("vm_migrate", v, op.arg, vm.node)
      BY <2>4, InverseCases
    <3>2. op.arg \in Nodes
      BY <2>4 DEF WellFormed
    <3>3. QED
      BY <1>1, <1>3, <1>4, <2>4, <3>1, <3>2 DEF InverseTools
  <2>5. CASE op.tool = "vm_move_disk"
    <3>1. inv = Call("vm_move_disk", v, vm.node, vm.disk)
      BY <2>5, InverseCases
    <3>2. QED
      BY <1>1, <1>3, <1>4, <2>5, <3>1 DEF InverseTools
  <2>6. CASE op.tool = "backup_restore"
    <3>1. inv = Call("vm_delete", v, RestoreNode(op), None)
      BY <2>6, InverseCases
    <3>2. Target(op) = v /\ RestoreNode(op) \in Nodes
      BY <2>6, RestoreNodeIsNode DEF Target
    <3>3. QED
      BY <1>1, <2>6, <3>1, <3>2 DEF InverseTools
  <2>7. QED
    BY <1>1, <2>1, <2>2, <2>3, <2>4, <2>5, <2>6, InverseCases
<1> HIDE DEF inv
<1>6. PICK t \in InverseTools, w \in Vmids, n \in Nodes \cup {None},
           a \in {None} \cup Nodes \cup Storages \cup [cores : Configs, memory : Configs] :
         /\ inv = Call(t, w, n, a)
         /\ t = "vm_delete" => op.tool \in {"vm_clone", "backup_restore"} /\ w = Target(op)
         /\ t = "vm_migrate" => a \in Nodes
         /\ t = "vm_move_disk" => a \in Storages
         /\ t = "vm_reconfigure" => a.cores \in Configs /\ a.memory \in Configs
  BY <1>5
<1>7. inv \in TokenCalls
  BY <1>6 DEF TokenCalls, Call
<1>8. inv.tool = t /\ inv.vmid = w /\ inv.node = n /\ inv.arg = a
  BY <1>6, CallFields
<1>9. WellFormed(inv, {})
  BY <1>6, <1>8 DEF WellFormed, InverseTools, Tools
<1>10. QED
  BY <1>6, <1>7, <1>8, <1>9 DEF inv

LEMMA MoreArchives ==
    ASSUME NEW op, WellFormed(op, {})
    PROVE  WellFormed(op, archives)
BY DEF WellFormed

-----------------------------------------------------------------------------
(* The invariant is kept                                                   *)

\* No token that deletes is added, and the guests of those that are left stay.
LEMMA OwnedKept ==
    ASSUME NEW tk, NEW g, NEW tk2, NEW g2, Owned(tk, g),
           \A i \in 1..Len(tk2) : Deletes(tk2, i) =>
              /\ Deletes(tk, i) /\ tk2[i].call = tk[i].call /\ tk2[i].serial = tk[i].serial
              /\ g[tk[i].call.vmid] # None =>
                    /\ g2[tk[i].call.vmid] # None
                    /\ g2[tk[i].call.vmid].serial = g[tk[i].call.vmid].serial
    PROVE  Owned(tk2, g2)
<1>1. \A i : Deletes(tk, i) => i \in 1..Len(tk)
  BY DEF Deletes
<1>2. \A i \in 1..Len(tk) : Deletes(tk, i) =>
         g[tk[i].call.vmid] # None /\ g[tk[i].call.vmid].serial = tk[i].serial
  BY DEF Owned
<1>3. \A i, j \in 1..Len(tk) :
         Deletes(tk, i) /\ Deletes(tk, j) /\ tk[i].call.vmid = tk[j].call.vmid => i = j
  BY DEF Owned
<1>4. \A i \in 1..Len(tk2) : Deletes(tk2, i) =>
         g2[tk2[i].call.vmid] # None /\ g2[tk2[i].call.vmid].serial = tk2[i].serial
  BY <1>1, <1>2
<1>5. \A i, j \in 1..Len(tk2) :
         Deletes(tk2, i) /\ Deletes(tk2, j) /\ tk2[i].call.vmid = tk2[j].call.vmid => i = j
  BY <1>1, <1>3
<1>6. QED
  BY <1>4, <1>5 DEF Owned

\* A machine is made where there was none, and its token deletes it.
LEMMA OwnedMade ==
    ASSUME NEW tk \in Seq(Tokens), NEW g, NEW x \in Tokens, NEW w, NEW g2, Owned(tk, g),
           x.call.vmid = w, g[w] = None, g2[w] # None, g2[w].serial = x.serial,
           \A i \in 1..Len(tk) : tk[i].call.vmid # w => g2[tk[i].call.vmid] = g[tk[i].call.vmid]
    PROVE  Owned(Append(tk, x), g2)
<1> DEFINE tk2 == Append(tk, x)
           n == Len(tk)
<1>1. /\ n \in Nat /\ Len(tk2) = n + 1
      /\ \A i \in 1..n : tk2[i] = tk[i]
      /\ tk2[n + 1] = x
  BY AppendFacts
<1> HIDE DEF tk2, n
<1>2. \A i \in 1..(n + 1) : i = n + 1 \/ i \in 1..n
  BY <1>1
<1>3. \A i \in 1..n : Deletes(tk2, i) => Deletes(tk, i)
  BY <1>1 DEF Deletes, n
<1>4. \A i \in 1..n : Deletes(tk, i) =>
         g[tk[i].call.vmid] # None /\ g[tk[i].call.vmid].serial = tk[i].serial
  BY DEF Owned, n
<1>5. \A i \in 1..n : Deletes(tk, i) => tk[i].call.vmid # w
  BY <1>4
<1>6. \A i, j \in 1..n :
         Deletes(tk, i) /\ Deletes(tk, j) /\ tk[i].call.vmid = tk[j].call.vmid => i = j
  BY DEF Owned, n
<1>7. \A i \in 1..(n + 1) : Deletes(tk2, i) =>
         g2[tk2[i].call.vmid] # None /\ g2[tk2[i].call.vmid].serial = tk2[i].serial
  <2> SUFFICES ASSUME NEW i \in 1..(n + 1), Deletes(tk2, i)
               PROVE  g2[tk2[i].call.vmid] # None /\ g2[tk2[i].call.vmid].serial = tk2[i].serial
    OBVIOUS
  <2>1. CASE i = n + 1
    BY <1>1, <2>1
  <2>2. CASE i \in 1..n
    BY <1>1, <1>3, <1>4, <1>5, <2>2 DEF n
  <2>3. QED
    BY <1>2, <2>1, <2>2
<1>8. \A i, j \in 1..(n + 1) :
         Deletes(tk2, i) /\ Deletes(tk2, j) /\ tk2[i].call.vmid = tk2[j].call.vmid => i = j
  <2> SUFFICES ASSUME NEW i \in 1..(n + 1), NEW j \in 1..(n + 1), Deletes(tk2, i),
                      Deletes(tk2, j), tk2[i].call.vmid = tk2[j].call.vmid
               PROVE  i = j
    OBVIOUS
  <2>1. CASE i = n + 1 \/ j = n + 1
    BY <1>1, <1>2, <1>3, <1>5, <2>1
  <2>2. CASE i \in 1..n /\ j \in 1..n
    BY <1>1, <1>3, <1>6, <2>2
  <2>3. QED
    BY <1>2, <2>1, <2>2
<1>9. QED
  BY <1>1, <1>7, <1>8 DEF Owned, tk2

LEMMA EmptyTrail ==
    ASSUME NEW tk, NEW g
    PROVE  <<>> \in Seq(Entries) /\ Ordered(tk, <<>>) /\ Restorable(tk, <<>>, g)
BY DEF Ordered, Restorable

\* The conjuncts of the invariant, after a step.
LEMMA StepInv ==
    ASSUME default' = default, reuse' = reuse, Types', TokensFormed', Ordered(tokens', trail'),
           Configured => Named(guests', archives') /\ Restorable(tokens', trail', guests'),
           ~reuse => Owned(tokens', guests')
    PROVE  IInv'
<1>1. Configured' <=> Configured
  BY DEF Configured, Names
<1>2. TrailRestores'
  BY <1>1, RestorableKept DEF TrailRestores, Named, Names
<1>3. OwnWork'
  BY DEF OwnWork, Owned, Deletes
<1>4. Ordered(tokens, trail)'
  BY DEF Ordered
<1>5. QED
  BY <1>2, <1>3, <1>4 DEF IInv

\* What a call confirmed does besides its tokens and the trail.
LEMMA PerformFacts ==
    ASSUME IInv, NEW op, WellFormed(op, archives), Perform(op)
    PROVE  /\ Guards(guests, op) /\ NodeTakes(guests, op, Host(guests, op))
           /\ default' = default /\ reuse' = reuse /\ serial' \in Nat /\ serial + 1 \in Nat
           /\ guests' \in Inventories /\ archives' \in SUBSET Archives
           /\ Named(guests, archives) => Named(guests', archives')
           /\ Target(op) \in Vmids
           /\ \E m \in {None} \cup Machines :
                 /\ Changed(guests, op, archives, serial + 1, m)
                 /\ guests' = [guests EXCEPT ![Target(op)] = m]
<1>1. /\ default \in Nodes \cup {None} /\ serial \in Nat
      /\ guests \in Inventories /\ archives \in SUBSET Archives
  BY DEF IInv, Types
<1>2. /\ Guards(guests, op) /\ NodeTakes(guests, op, Host(guests, op))
      /\ guests' = Effect(guests, op, serial + 1) /\ archives' = Archived(guests, op)
      /\ default' = default /\ reuse' = reuse
      /\ serial' = IF Makes(op) THEN serial + 1 ELSE serial
  BY DEF Perform, Accepts
<1>3. serial + 1 \in Nat /\ serial' \in Nat
  BY <1>1, <1>2
<1>4. op.tool = "backup_restore" => RestoreNode(op) \in Nodes
  BY <1>1, <1>2, RestoreNodeIsNode
<1>5. /\ guests' \in Inventories /\ archives' \in SUBSET Archives
      /\ Named(guests, archives) => Named(guests', archives')
  BY <1>1, <1>2, <1>3, <1>4, EffectKept
<1>6. /\ Target(op) \in Vmids
      /\ \E m \in {None} \cup Machines :
            /\ Changed(guests, op, archives, serial + 1, m)
            /\ guests' = [guests EXCEPT ![Target(op)] = m]
  BY <1>1, <1>2, <1>3, <1>4, EffectShape
<1>7. QED
  BY <1>2, <1>3, <1>5, <1>6

\* The token of a call.
LEMMA TokenFacts ==
    ASSUME IInv, NEW op, WellFormed(op, archives), Perform(op), Inverse(guests, op) # None
    PROVE  /\ Token(op) \in Tokens /\ ~Token(op).spent
           /\ Token(op).call = Inverse(guests, op) /\ Token(op).serial = serial + 1
           /\ WellFormed(Token(op).call, {})
           /\ Token(op).call.tool = "vm_delete" =>
                 op.tool \in {"vm_clone", "backup_restore"} /\ Token(op).call.vmid = Target(op)
           /\ ~Idle(guests, op) /\ Named(guests, archives)
              /\ (op.tool = "backup_restore" => ~(op.arg.force /\ Overwrites(guests, op))) =>
                 Inverts(Token(op).call, guests', guests)
<1>1. default \in Nodes \cup {None} /\ guests \in Inventories /\ archives \in SUBSET Archives
  BY DEF IInv, Types
<1>2. /\ Guards(guests, op) /\ NodeTakes(guests, op, Host(guests, op)) /\ serial + 1 \in Nat
      /\ guests' = Effect(guests, op, serial + 1)
  BY PerformFacts DEF Perform
<1>3. /\ Inverse(guests, op) \in TokenCalls /\ WellFormed(Inverse(guests, op), {})
      /\ Inverse(guests, op).tool = "vm_delete" =>
            op.tool \in {"vm_clone", "backup_restore"} /\ Inverse(guests, op).vmid = Target(op)
  BY <1>1, <1>2, InverseFormed
<1>4. /\ Token(op).call = Inverse(guests, op) /\ ~Token(op).spent
      /\ Token(op).serial = serial + 1 /\ Token(op) \in Tokens
  BY <1>2, <1>3 DEF Token, Tokens
<1>5. ASSUME ~Idle(guests, op), Named(guests, archives),
             op.tool = "backup_restore" => ~(op.arg.force /\ Overwrites(guests, op))
      PROVE  Inverts(Inverse(guests, op), guests', guests)
  <2>1. Unraced(guests, guests, op)
    BY <1>5 DEF Unraced
  <2>2. QED
    BY <1>1, <1>2, <1>5, <2>1, InverseInverts
<1>6. QED
  BY <1>3, <1>4, <1>5

\* A restore that overwrites has no inverse.
LEMMA OverwriteHasNone ==
    ASSUME NEW g, NEW op, Inverse(g, op) # None
    PROVE  op.tool = "backup_restore" => ~Overwrites(g, op)
BY InverseCases

LEMMA OperateInv ==
    ASSUME IInv, NEW op, WellFormed(op, archives), Operate(op),
           ~reuse => /\ op.tool # "vm_delete"
                     /\ op.tool = "backup_restore" => ~op.arg.force
    PROVE  IInv'
<1>1. /\ default \in Nodes \cup {None} /\ reuse \in BOOLEAN /\ guests \in Inventories
      /\ tokens \in Seq(Tokens) /\ trail \in Seq(Entries)
      /\ Ordered(tokens, trail)
  BY DEF IInv, Types
<1>2. Perform(op)
  BY DEF Operate
<1>3. /\ Guards(guests, op) /\ NodeTakes(guests, op, Host(guests, op))
      /\ default' = default /\ reuse' = reuse /\ serial' \in Nat /\ serial + 1 \in Nat
      /\ guests' \in Inventories /\ archives' \in SUBSET Archives /\ Target(op) \in Vmids
      /\ Named(guests, archives) => Named(guests', archives')
  BY <1>2, PerformFacts
<1>4. PICK m \in {None} \cup Machines :
         /\ Changed(guests, op, archives, serial + 1, m)
         /\ guests' = [guests EXCEPT ![Target(op)] = m]
  BY <1>2, PerformFacts
<1>5. Configured => Named(guests, archives) /\ Restorable(tokens, trail, guests)
  BY DEF IInv, TrailRestores
<1>6. guests'[Target(op)] = m /\ \A v \in Vmids : v # Target(op) => guests'[v] = guests[v]
  BY <1>1, <1>3, <1>4 DEF Inventories
<1>7. \A i \in 1..Len(tokens) : WellFormed(tokens[i].call, {}) /\ tokens[i].call.vmid \in Vmids
  BY DEF IInv, TokensFormed, WellFormed
<1>8. ~reuse => Owned(tokens, guests)
  BY DEF IInv, OwnWork
<1>9. op.tool \notin {"vm_clone", "backup_restore", "vm_delete"} =>
         \A v \in Vmids : guests[v] # None =>
            guests'[v] # None /\ guests'[v].serial = guests[v].serial
  BY <1>4, <1>6 DEF Changed, Target
<1>10. CASE Inverse(guests, op) # None
  <2> DEFINE x == Token(op)
             entry == [token |-> Len(tokens) + 1, before |-> guests]
  <2>1. /\ tokens' = Append(tokens, x)
        /\ trail' = IF Idle(guests, op) THEN <<>> ELSE Append(trail, entry)
    BY <1>10 DEF Operate
  <2>2. /\ x \in Tokens /\ ~x.spent /\ x.serial = serial + 1 /\ WellFormed(x.call, {})
        /\ x.call.tool = "vm_delete" =>
              op.tool \in {"vm_clone", "backup_restore"} /\ x.call.vmid = Target(op)
        /\ ~Idle(guests, op) /\ Named(guests, archives)
           /\ (op.tool = "backup_restore" => ~(op.arg.force /\ Overwrites(guests, op))) =>
              Inverts(x.call, guests', guests)
    BY <1>2, <1>10, TokenFacts
  <2>3. op.tool = "backup_restore" => ~Overwrites(guests, op)
    BY <1>10, OverwriteHasNone
  <2> HIDE DEF x, entry
  <2>4. /\ tokens' \in Seq(Tokens) /\ Len(tokens) \in Nat /\ Len(tokens') = Len(tokens) + 1
        /\ \A i \in 1..Len(tokens) : tokens'[i] = tokens[i]
        /\ tokens'[Len(tokens) + 1] = x
    BY <1>1, <2>1, <2>2, AppendFacts
  <2>5. \A i \in 1..Len(tokens') : i = Len(tokens) + 1 \/ i \in 1..Len(tokens)
    BY <2>4
  <2>6. TokensFormed'
    <3>1. \A i \in 1..Len(tokens') : WellFormed(tokens'[i].call, {})
      BY <1>7, <2>2, <2>4, <2>5
    <3>2. QED
      BY <3>1 DEF TokensFormed, WellFormed
  <2>7. /\ trail' \in Seq(Entries) /\ Ordered(tokens', trail')
        /\ Configured => Restorable(tokens', trail', guests')
    <3>1. CASE Idle(guests, op)
      BY <2>1, <3>1, EmptyTrail
    <3>2. CASE ~Idle(guests, op)
      <4>1. Configured => Inverts(x.call, guests', guests)
        BY <1>5, <2>2, <2>3, <3>2
      <4>2. trail' = Append(trail, entry)
        BY <2>1, <3>2
      <4>3. entry = [token |-> Len(tokens) + 1, before |-> guests]
        BY DEF entry
      <4>4. /\ Append(trail, entry) \in Seq(Entries)
            /\ Ordered(Append(tokens, x), Append(trail, entry))
            /\ Restorable(tokens, trail, guests) /\ Inverts(x.call, guests', guests) =>
                  Restorable(Append(tokens, x), Append(trail, entry), guests')
        BY <1>1, <1>3, <2>2, <4>3, TrailGrows
      <4>5. QED
        BY <1>5, <2>1, <4>1, <4>2, <4>4
    <3>3. QED
      BY <3>1, <3>2
  <2>8. ~reuse => Owned(tokens', guests')
    <3> SUFFICES ASSUME ~reuse PROVE Owned(tokens', guests')
      OBVIOUS
    <3>1. CASE op.tool \in {"vm_clone", "backup_restore"}
      <4>1. m # None /\ m.serial = serial + 1
        BY <1>4, <3>1 DEF Changed
      <4>2. guests[Target(op)] = None
        BY <1>3, <3>1, TakesCases DEF Target
      <4>3. x.call.vmid = Target(op)
        <5>1. x.call = Inverse(guests, op)
          BY <1>2, <1>10, TokenFacts DEF x
        <5>2. CASE op.tool = "vm_clone"
          <6>1. x.call = Call("vm_delete", op.arg, op.node, None)
            BY <5>1, <5>2, InverseCases
          <6>2. QED
            BY <5>2, <6>1, CallFields DEF Target
        <5>3. CASE op.tool = "backup_restore"
          <6>1. x.call = Call("vm_delete", op.vmid, RestoreNode(op), None)
            BY <5>1, <5>3, <2>3, InverseCases
          <6>2. QED
            BY <5>3, <6>1, CallFields DEF Target
        <5>4. QED
          BY <3>1, <5>2, <5>3
      <4>4. \A i \in 1..Len(tokens) : tokens[i].call.vmid # Target(op) =>
               guests'[tokens[i].call.vmid] = guests[tokens[i].call.vmid]
        BY <1>6, <1>7
      <4>5. guests'[Target(op)] # None /\ guests'[Target(op)].serial = x.serial
        BY <1>6, <2>2, <4>1
      <4>6. Owned(tokens, guests)
        BY <1>8
      <4>7. Owned(Append(tokens, x), guests')
        BY <1>1, <2>2, <4>2, <4>3, <4>4, <4>5, <4>6, OwnedMade
      <4>8. QED
        BY <2>1, <4>7
    <3>2. CASE op.tool \notin {"vm_clone", "backup_restore"}
      <4>1. x.call.tool # "vm_delete"
        BY <2>2, <3>2
      <4>2. \A i \in 1..Len(tokens') : Deletes(tokens', i) =>
               /\ i \in 1..Len(tokens) /\ Deletes(tokens, i)
               /\ tokens'[i].call = tokens[i].call /\ tokens'[i].serial = tokens[i].serial
        BY <2>4, <2>5, <4>1 DEF Deletes
      <4>3. Owned(tokens, guests)
        BY <1>8
      <4>4. \A i \in 1..Len(tokens') : Deletes(tokens', i) =>
               /\ Deletes(tokens, i)
               /\ tokens'[i].call = tokens[i].call /\ tokens'[i].serial = tokens[i].serial
               /\ guests[tokens[i].call.vmid] # None =>
                     /\ guests'[tokens[i].call.vmid] # None
                     /\ guests'[tokens[i].call.vmid].serial = guests[tokens[i].call.vmid].serial
        BY <1>7, <1>9, <3>2, <4>2
      <4>5. QED
        BY <4>3, <4>4, OwnedKept
    <3>3. QED
      BY <3>1, <3>2
  <2>9. Types'
    BY <1>1, <1>3, <2>4, <2>7 DEF Types
  <2>10. QED
    BY <1>3, <1>5, <2>6, <2>7, <2>8, <2>9, StepInv
<1>11. CASE Inverse(guests, op) = None
  <2>1. tokens' = tokens /\ trail' = IF guests' = guests THEN trail ELSE <<>>
    BY <1>11 DEF Operate
  <2>2. TokensFormed'
    BY <1>7, <2>1 DEF TokensFormed, WellFormed
  <2>3. /\ trail' \in Seq(Entries) /\ Ordered(tokens', trail')
        /\ Configured => Restorable(tokens', trail', guests')
    <3>1. CASE guests' = guests
      BY <1>1, <1>5, <2>1, <3>1
    <3>2. CASE guests' # guests
      BY <2>1, <3>2, EmptyTrail
    <3>3. QED
      BY <3>1, <3>2
  <2>4. ASSUME ~reuse PROVE Owned(tokens', guests')
    <3>1. op.tool \in {"vm_clone", "backup_restore"} => guests[Target(op)] = None
      BY <1>3, <2>4, TakesCases DEF Target
    <3>2. Owned(tokens, guests)
      BY <1>8, <2>4
    <3>3. \A i \in 1..Len(tokens) :
             guests[tokens[i].call.vmid] # None =>
                /\ guests'[tokens[i].call.vmid] # None
                /\ guests'[tokens[i].call.vmid].serial = guests[tokens[i].call.vmid].serial
      BY <1>6, <1>7, <1>9, <2>4, <3>1
    <3>4. QED
      BY <2>1, <3>2, <3>3, OwnedKept
  <2>5. Types'
    BY <1>1, <1>3, <2>1, <2>3 DEF Types
  <2>6. QED
    BY <1>3, <1>5, <2>2, <2>3, <2>4, <2>5, StepInv
<1>12. QED
  BY <1>10, <1>11

LEMMA SpendFacts ==
    ASSUME NEW i \in 1..Len(tokens), tokens \in Seq(Tokens)
    PROVE  /\ Spend(i) \in Seq(Tokens) /\ Len(Spend(i)) = Len(tokens)
           /\ \A j \in 1..Len(tokens) :
                 /\ Spend(i)[j].call = tokens[j].call /\ Spend(i)[j].serial = tokens[j].serial
                 /\ Spend(i)[j].spent = IF j = i THEN TRUE ELSE tokens[j].spent
<1>1. \A j \in 1..Len(tokens) : tokens[j] \in Tokens
  OBVIOUS
<1>2. [tokens[i] EXCEPT !.spent = TRUE] \in Tokens
  BY <1>1 DEF Tokens
<1>3. Spend(i) = [tokens EXCEPT ![i] = [tokens[i] EXCEPT !.spent = TRUE]]
  BY DEF Spend
<1>4. Spend(i) \in Seq(Tokens) /\ Len(Spend(i)) = Len(tokens)
  BY <1>2, <1>3, Seqs!ExceptSeq
<1>5. \A j \in 1..Len(tokens) :
         Spend(i)[j] = IF j = i THEN [tokens[i] EXCEPT !.spent = TRUE] ELSE tokens[j]
  BY <1>3
<1>6. \A j \in 1..Len(tokens) :
         /\ Spend(i)[j].call = tokens[j].call /\ Spend(i)[j].serial = tokens[j].serial
         /\ Spend(i)[j].spent = IF j = i THEN TRUE ELSE tokens[j].spent
  <2>1. /\ [tokens[i] EXCEPT !.spent = TRUE].call = tokens[i].call
        /\ [tokens[i] EXCEPT !.spent = TRUE].serial = tokens[i].serial
        /\ [tokens[i] EXCEPT !.spent = TRUE].spent = TRUE
    BY <1>1 DEF Tokens
  <2>2. QED
    BY <1>5, <2>1
<1>7. QED
  BY <1>4, <1>6

LEMMA UndoInv ==
    ASSUME IInv, NEW i \in Recorded, Undo(i)
    PROVE  IInv'
<1> DEFINE op == tokens[i].call
           x == Token(op)
           sp == Spend(i)
<1>1. /\ default \in Nodes \cup {None} /\ reuse \in BOOLEAN /\ guests \in Inventories
      /\ tokens \in Seq(Tokens) /\ trail \in Seq(Entries)
      /\ Ordered(tokens, trail)
  BY DEF IInv, Types
<1>2. /\ i \in 1..Len(tokens) /\ ~tokens[i].spent
      /\ sp \in Seq(Tokens) /\ Len(sp) = Len(tokens) /\ Len(tokens) \in Nat
      /\ \A j \in 1..Len(tokens) :
            /\ sp[j].call = tokens[j].call /\ sp[j].serial = tokens[j].serial
            /\ sp[j].spent = IF j = i THEN TRUE ELSE tokens[j].spent
  <2>1. Len(tokens) \in Nat
    BY <1>1
  <2>2. i \in 1..Len(tokens) /\ ~tokens[i].spent
    BY DEF Recorded
  <2>3. QED
    BY <1>1, <2>1, <2>2, SpendFacts
<1>3. \A j \in 1..Len(tokens) : WellFormed(tokens[j].call, {}) /\ tokens[j].call.vmid \in Vmids
  BY DEF IInv, TokensFormed, WellFormed
<1>4. WellFormed(op, archives) /\ op.tool \in InverseTools
  <2>1. tokens[i] \in Tokens
    BY <1>1, <1>2
  <2>2. QED
    BY <1>2, <1>3, <2>1, MoreArchives DEF Tokens, TokenCalls
<1>5. Perform(op)
  BY DEF Undo
<1>6. /\ tokens' = IF Inverse(guests, op) # None THEN Append(sp, x) ELSE sp
      /\ trail' = IF trail # <<>> /\ Top.token = i
                  THEN SubSeq(trail, 1, Len(trail) - 1) ELSE <<>>
  BY DEF Undo
<1>7. Inverse(guests, op) # None =>
         x \in Tokens /\ ~x.spent /\ WellFormed(x.call, {}) /\ x.call.tool # "vm_delete"
  BY <1>4, <1>5, TokenFacts DEF InverseTools
<1> HIDE DEF op, x, sp
<1>8. /\ guests' = Effect(guests, op, serial + 1)
      /\ default' = default /\ reuse' = reuse /\ serial' \in Nat /\ serial + 1 \in Nat
      /\ guests' \in Inventories /\ archives' \in SUBSET Archives /\ Target(op) \in Vmids
      /\ Named(guests, archives) => Named(guests', archives')
  BY <1>4, <1>5, PerformFacts DEF Perform
<1>9. PICK m \in {None} \cup Machines :
         /\ Changed(guests, op, archives, serial + 1, m)
         /\ guests' = [guests EXCEPT ![Target(op)] = m]
  BY <1>4, <1>5, PerformFacts
<1>10. Configured => Named(guests, archives) /\ Restorable(tokens, trail, guests)
  BY DEF IInv, TrailRestores
<1>11. /\ tokens' \in Seq(Tokens) /\ Len(tokens') \in Nat /\ Len(tokens') >= Len(tokens)
       /\ \A j \in 1..Len(tokens) :
             /\ tokens'[j].call = tokens[j].call /\ tokens'[j].serial = tokens[j].serial
             /\ tokens'[j].spent = IF j = i THEN TRUE ELSE tokens[j].spent
       /\ \A j \in 1..Len(tokens') : j \notin 1..Len(tokens) =>
             tokens'[j] = x /\ x.call.tool # "vm_delete" /\ WellFormed(x.call, {})
  <2>1. CASE Inverse(guests, op) # None
    <3>1. /\ Append(sp, x) \in Seq(Tokens)
          /\ Len(Append(sp, x)) = Len(tokens) + 1
          /\ \A j \in 1..Len(tokens) : Append(sp, x)[j] = sp[j]
          /\ Append(sp, x)[Len(tokens) + 1] = x
      BY <1>2, <1>7, <2>1, AppendFacts
    <3>2. tokens' = Append(sp, x)
      BY <1>6, <2>1
    <3>3. \A j \in 1..(Len(tokens) + 1) : j \in 1..Len(tokens) \/ j = Len(tokens) + 1
      BY <1>2
    <3>4. Len(tokens') = Len(tokens) + 1 /\ tokens' \in Seq(Tokens)
      BY <3>1, <3>2
    <3>5. \A j \in 1..Len(tokens) : tokens'[j] = sp[j]
      BY <3>1, <3>2
    <3>6. \A j \in 1..Len(tokens') : j \notin 1..Len(tokens) => tokens'[j] = x
      BY <3>1, <3>2, <3>3, <3>4
    <3>7. Len(tokens') \in Nat /\ Len(tokens') >= Len(tokens)
      BY <1>2, <3>4
    <3>8. \A j \in 1..Len(tokens) :
             /\ tokens'[j].call = tokens[j].call /\ tokens'[j].serial = tokens[j].serial
             /\ tokens'[j].spent = IF j = i THEN TRUE ELSE tokens[j].spent
      BY <1>2, <3>5
    <3>9. \A j \in 1..Len(tokens') : j \notin 1..Len(tokens) =>
             tokens'[j] = x /\ x.call.tool # "vm_delete" /\ WellFormed(x.call, {})
      BY <1>7, <2>1, <3>6
    <3>10. QED
      BY <3>4, <3>7, <3>8, <3>9
  <2>2. CASE Inverse(guests, op) = None
    <3>1. tokens' = sp
      BY <1>6, <2>2
    <3>2. tokens' \in Seq(Tokens) /\ Len(tokens') = Len(tokens)
      BY <1>2, <3>1
    <3>3. Len(tokens') \in Nat /\ Len(tokens') >= Len(tokens)
      BY <1>2, <3>2
    <3>4. \A j \in 1..Len(tokens) :
             /\ tokens'[j].call = tokens[j].call /\ tokens'[j].serial = tokens[j].serial
             /\ tokens'[j].spent = IF j = i THEN TRUE ELSE tokens[j].spent
      BY <1>2, <3>1
    <3>5. \A j \in 1..Len(tokens') : j \notin 1..Len(tokens) =>
             tokens'[j] = x /\ x.call.tool # "vm_delete" /\ WellFormed(x.call, {})
      BY <3>2
    <3>6. QED
      BY <3>2, <3>3, <3>4, <3>5
  <2>3. QED
    BY <2>1, <2>2
<1>12. TokensFormed'
  <2>1. \A j \in 1..Len(tokens') : WellFormed(tokens'[j].call, {})
    BY <1>3, <1>11
  <2>2. QED
    BY <2>1 DEF TokensFormed, WellFormed
<1>13. /\ trail' \in Seq(Entries) /\ Ordered(tokens', trail')
       /\ Configured => Restorable(tokens', trail', guests')
  <2>1. CASE trail # <<>> /\ Top.token = i
    <3>1. Top = trail[Len(trail)] /\ Len(trail) \in Nat \ {0}
      BY <1>1, <2>1, FrontFacts DEF Top
    <3>2. LET rest == SubSeq(trail, 1, Len(trail) - 1)
          IN /\ rest \in Seq(Entries) /\ Ordered(tokens', rest)
             /\ Restorable(tokens, trail, guests) => Restorable(tokens', rest, Top.before)
      <4>1. \A j \in 1..Len(tokens) : tokens'[j].call = tokens[j].call
        BY <1>11
      <4>2. \A j \in 1..Len(tokens) :
               j # trail[Len(trail)].token => tokens'[j].spent = tokens[j].spent
        BY <1>11, <2>1, <3>1
      <4>3. QED
        BY <1>1, <1>11, <2>1, <3>1, <4>1, <4>2, TrailShrinks
    <3>3. Configured => Top.before = guests'
      <4>1. Configured => Inverts(tokens[trail[Len(trail)].token].call,
                                  After(trail, guests, Len(trail)), trail[Len(trail)].before)
        BY <1>10, <3>1 DEF Restorable
      <4>2. After(trail, guests, Len(trail)) = guests
        BY DEF After
      <4>3. Configured => Inverts(op, guests, Top.before)
        BY <2>1, <3>1, <4>1, <4>2 DEF op
      <4>4. QED
        BY <1>8, <4>3 DEF Inverts
    <3>4. QED
      BY <1>6, <1>10, <2>1, <3>2, <3>3
  <2>2. CASE ~(trail # <<>> /\ Top.token = i)
    BY <1>6, <2>2, EmptyTrail
  <2>3. QED
    BY <2>1, <2>2
<1>14. ASSUME ~reuse PROVE Owned(tokens', guests')
  <2>1. Owned(tokens, guests)
    BY <1>14 DEF IInv, OwnWork
  <2>2. \A j \in 1..Len(tokens') : Deletes(tokens', j) =>
           /\ j \in 1..Len(tokens) /\ j # i /\ Deletes(tokens, j)
           /\ tokens'[j].call = tokens[j].call /\ tokens'[j].serial = tokens[j].serial
    BY <1>11 DEF Deletes
  <2>3. Target(op) = op.vmid /\ op.tool \notin {"vm_clone", "backup_restore"}
    BY <1>4 DEF InverseTools, Target
  <2>4. guests'[op.vmid] = m /\ \A v \in Vmids : v # op.vmid => guests'[v] = guests[v]
    BY <1>1, <1>8, <1>9, <2>3 DEF Inventories
  <2>5. \A j \in 1..Len(tokens) : j # i /\ Deletes(tokens, j) /\ guests[tokens[j].call.vmid] # None =>
           /\ guests'[tokens[j].call.vmid] # None
           /\ guests'[tokens[j].call.vmid].serial = guests[tokens[j].call.vmid].serial
    <3>1. CASE op.tool = "vm_delete"
      <4>1. Deletes(tokens, i)
        BY <1>2, <3>1 DEF Deletes, op
      <4>2. \A j \in 1..Len(tokens) : j # i /\ Deletes(tokens, j) => tokens[j].call.vmid # op.vmid
        BY <1>2, <2>1, <4>1 DEF Owned, op
      <4>3. QED
        BY <1>3, <2>4, <4>2
    <3>2. CASE op.tool # "vm_delete"
      <4>1. m # None /\ m.serial = guests[op.vmid].serial
        BY <1>9, <2>3, <3>2 DEF Changed
      <4>2. QED
        BY <1>3, <2>4, <4>1
    <3>3. QED
      BY <3>1, <3>2
  <2>6. \A j \in 1..Len(tokens') : Deletes(tokens', j) =>
           /\ Deletes(tokens, j)
           /\ tokens'[j].call = tokens[j].call /\ tokens'[j].serial = tokens[j].serial
           /\ guests[tokens[j].call.vmid] # None =>
                 /\ guests'[tokens[j].call.vmid] # None
                 /\ guests'[tokens[j].call.vmid].serial = guests[tokens[j].call.vmid].serial
    BY <2>2, <2>5
  <2>7. QED
    BY <2>1, <2>6, OwnedKept
<1>15. Types'
  BY <1>1, <1>8, <1>11, <1>13 DEF Types
<1>16. QED
  BY <1>8, <1>10, <1>12, <1>13, <1>14, <1>15, StepInv

-----------------------------------------------------------------------------
(* The theorems                                                            *)

LEMMA InitInv ==
    ASSUME Init
    PROVE  IInv
<1>1. /\ default \in Nodes \cup {None} /\ reuse \in BOOLEAN /\ serial \in Nat
      /\ guests \in FirstGuests /\ guests \in Inventories
      /\ tokens = <<>> /\ trail = <<>>
      /\ archives = {ArchiveOf(guests[v]) : v \in {w \in Vmids : guests[w] # None}}
  BY Constants DEF Init
<1>2. \A v \in Vmids : guests[v] # None => guests[v] \in Machines
  BY <1>1 DEF Inventories
<1>3. archives \in SUBSET Archives
  BY <1>1, <1>2, ArchiveFields
<1>4. Types
  BY <1>1, <1>3 DEF Types
<1>5. Configured => Named(guests, archives)
  <2> SUFFICES ASSUME Configured PROVE Named(guests, archives)
    OBVIOUS
  <2>1. \A v \in Vmids : guests[v] # None =>
           Names(guests[v]) /\ (guests[v].snap # None => Names(guests[v].snap))
    BY <1>1 DEF Configured
  <2>2. \A a \in archives : Names(a)
    BY <1>1, <1>2, <2>1, ArchiveFields
  <2>3. QED
    BY <2>1, <2>2 DEF Named
<1>6. TrailRestores
  BY <1>1, <1>5, EmptyTrail DEF TrailRestores
<1>7. TokensFormed /\ Ordered(tokens, trail) /\ Owned(tokens, guests)
  BY <1>1 DEF TokensFormed, Ordered, Owned
<1>8. QED
  BY <1>4, <1>6, <1>7 DEF IInv, OwnWork

\* Each operation is a call with arguments of its tool.
LEMMA PlainCall ==
    ASSUME NEW t, NEW v \in Vmids, NEW n \in Nodes \cup {None}, NEW a, NEW held,
           t \in Tools,
           t = "vm_clone" => a \in Vmids,
           t = "vm_migrate" => a \in Nodes,
           t = "vm_move_disk" => a \in Storages,
           t = "vm_reconfigure" => a.cores \in Configs /\ a.memory \in Configs,
           t = "vm_resize_disk" => a.size \in Sizes,
           t = "backup_restore" => a.archive \in held /\ a.storage \in Storages
    PROVE  WellFormed(Call(t, v, n, a), held)
BY CallFields DEF WellFormed

\* A step of an agent is a call it makes or an undo.
Called ==
    \E op :
        /\ WellFormed(op, archives) /\ Operate(op)
        /\ ~reuse => op.tool # "vm_delete" /\ (op.tool = "backup_restore" => ~op.arg.force)

LEMMA NextCases ==
    ASSUME IInv, Next
    PROVE  Called \/ \E i \in Recorded : Undo(i)
<1>1. ASSUME NEW v \in Vmids, NEW n \in Nodes \cup {None}, NEW t, NEW a,
             t \in Tools,
             t = "vm_clone" => a \in Vmids,
             t = "vm_migrate" => a \in Nodes,
             t = "vm_move_disk" => a \in Storages,
             t = "vm_reconfigure" => a.cores \in Configs /\ a.memory \in Configs,
             t = "vm_resize_disk" => a.size \in Sizes,
             t = "backup_restore" => a.archive \in archives /\ a.storage \in Storages,
             ~reuse => t # "vm_delete" /\ (t = "backup_restore" => ~a.force),
             Operate(Call(t, v, n, a))
      PROVE  Called
  <2>1. WellFormed(Call(t, v, n, a), archives)
    BY <1>1, PlainCall
  <2>2. Call(t, v, n, a).tool = t /\ Call(t, v, n, a).arg = a
    BY CallFields
  <2>3. QED
    BY <1>1, <2>1, <2>2 DEF Called
<1>2. ASSUME NEW v \in Vmids, NEW n \in Nodes \cup {None}
      PROVE  /\ StartVM(v, n) \/ StopVM(v, n) \/ ShutdownVM(v, n) \/ RebootVM(v, n) => Called
             /\ StartCT(v, n) \/ StopCT(v, n) \/ BackupGuest(v, n) => Called
             /\ CreateSnapshot(v, n) \/ RollbackSnapshot(v, n) => Called
  <2>1. \A t \in {"vm_start", "vm_stop", "vm_shutdown", "vm_reboot", "ct_start", "ct_stop",
                  "vm_backup", "vm_snapshot_create", "vm_snapshot_rollback"} :
           Operate(Call(t, v, n, None)) => Called
    BY <1>1 DEF Tools
  <2>2. QED
    BY <2>1 DEF StartVM, StopVM, ShutdownVM, RebootVM, StartCT, StopCT, BackupGuest,
                CreateSnapshot, RollbackSnapshot
<1>3. ASSUME NEW v \in Vmids, NEW n \in Nodes \cup {None}, DeleteSnapshot(v, n)
      PROVE  Called
  BY <1>1, <1>3 DEF DeleteSnapshot, Tools
<1>4. ASSUME NEW v \in Vmids, NEW n \in Nodes \cup {None}, ReconfigureVM(v, n)
      PROVE  Called
  <2>1. PICK r \in Changes : Operate(Call("vm_reconfigure", v, n, r))
    BY <1>4 DEF ReconfigureVM
  <2>2. r.cores \in Configs /\ r.memory \in Configs
    BY GuestAssumption DEF Configs
  <2>3. QED
    BY <1>1, <2>1, <2>2 DEF Tools
<1>5. ASSUME NEW v \in Vmids, NEW n \in Nodes \cup {None}, CloneVM(v, n)
      PROVE  Called
  BY <1>1, <1>5 DEF CloneVM, Tools
<1>6. ASSUME NEW v \in Vmids, NEW n \in Nodes \cup {None}, DeleteVM(v, n)
      PROVE  Called
  BY <1>1, <1>6 DEF DeleteVM, Tools
<1>7. ASSUME NEW v \in Vmids, NEW n \in Nodes \cup {None}, MigrateVM(v, n)
      PROVE  Called
  BY <1>1, <1>7 DEF MigrateVM, Tools
<1>8. ASSUME NEW v \in Vmids, NEW n \in Nodes \cup {None}, MoveDisk(v, n)
      PROVE  Called
  BY <1>1, <1>8 DEF MoveDisk, Tools
<1>9. ASSUME NEW v \in Vmids, NEW n \in Nodes \cup {None}, ResizeDisk(v, n)
      PROVE  Called
  <2>1. PICK z \in Sizes, inc \in BOOLEAN :
           Operate(Call("vm_resize_disk", v, n, [size |-> z, increment |-> inc]))
    BY <1>9 DEF ResizeDisk
  <2>2. [size |-> z, increment |-> inc].size \in Sizes
    OBVIOUS
  <2>3. QED
    BY <1>1, <2>1, <2>2 DEF Tools
<1>10. ASSUME NEW v \in Vmids, NEW n \in Nodes \cup {None}, RestoreBackup(v, n)
       PROVE  Called
  <2>1. PICK b \in archives, d \in Storages, force \in {FALSE, reuse} :
           Operate(Call("backup_restore", v, n, [archive |-> b, storage |-> d, force |-> force]))
    BY <1>10 DEF RestoreBackup
  <2> DEFINE a == [archive |-> b, storage |-> d, force |-> force]
  <2>2. a.archive \in archives /\ a.storage \in Storages /\ a.force = force
    OBVIOUS
  <2> HIDE DEF a
  <2>3. Operate(Call("backup_restore", v, n, a))
    BY <2>1 DEF a
  <2>4. ~reuse => ~a.force
    BY <2>2
  <2>5. QED
    BY <1>1, <2>2, <2>3, <2>4 DEF Tools
<1>11. QED
  BY <1>2, <1>3, <1>4, <1>5, <1>6, <1>7, <1>8, <1>9, <1>10 DEF Next

LEMMA NextInv ==
    ASSUME IInv, Next
    PROVE  IInv'
BY NextCases, OperateInv, UndoInv DEF Called

LEMMA StutterInv ==
    ASSUME IInv, UNCHANGED <<default, guests, archives, tokens, trail, reuse, serial>>
    PROVE  IInv'
<1>1. Types' /\ TokensFormed'
  BY DEF IInv, Types, TokensFormed, WellFormed
<1>2. QED
  BY <1>1, StepInv DEF IInv, TrailRestores, OwnWork

\* The inductive invariant holds of every behaviour of an agent.
THEOREM Invariance == Spec => []IInv
<1>1. Init => IInv
  BY InitInv
<1>2. IInv /\ [Next]_vars => IInv'
  BY NextInv, StutterInv DEF vars
<1>3. QED
  BY <1>1, <1>2, PTL DEF Spec

LEMMA TypeOf ==
    ASSUME IInv
    PROVE  TypeOK
<1>1. /\ guests \in [Vmids -> {None} \cup Machines] /\ archives \subseteq Archives
      /\ serial \in Nat /\ tokens \in Seq(Tokens) /\ trail \in Seq(Entries)
  BY DEF IInv, Types, Inventories
<1>2. \A i \in DOMAIN tokens : tokens[i].call.vmid \in Vmids
  BY <1>1 DEF IInv, TokensFormed, WellFormed
<1>3. \A k \in DOMAIN trail : trail[k].token \in Recorded
  BY <1>1 DEF IInv, Ordered, Recorded
<1>4. QED
  BY <1>1, <1>2, <1>3 DEF TypeOK

LEMMA RestoringOf ==
    ASSUME IInv
    PROVE  UndoRestores
<1> SUFFICES ASSUME Configured, trail # <<>>
             PROVE  LET op == tokens[Top.token].call
                    IN Accepts(guests, op) /\ Effect(guests, op, serial + 1) = Top.before
  BY DEF UndoRestores, RestoresTop
<1>1. trail \in Seq(Entries) /\ serial + 1 \in Nat /\ Restorable(tokens, trail, guests)
  BY DEF IInv, Types, TrailRestores
<1>2. Len(trail) \in Nat \ {0}
  BY <1>1, FrontFacts
<1>3. Inverts(tokens[Top.token].call, After(trail, guests, Len(trail)), Top.before)
  BY <1>1, <1>2 DEF Restorable, Top
<1>4. After(trail, guests, Len(trail)) = guests
  BY DEF After
<1>5. QED
  BY <1>1, <1>3, <1>4 DEF Inverts

LEMMA OwnWorkOf ==
    ASSUME IInv
    PROVE  UndoRemovesOwnWork
<1>1. \A i \in Recorded : tokens[i].call.tool = "vm_delete" => i \in 1..Len(tokens) /\ Deletes(tokens, i)
  BY DEF IInv, Types, Recorded, Deletes
<1>2. QED
  BY <1>1 DEF IInv, OwnWork, Owned, UndoRemovesOwnWork

\* Guests, archives, tokens and the trail have their types, and every token of
\* the trail is recorded.
THEOREM TypeCorrect == Spec => []TypeOK
<1>1. IInv => TypeOK
  BY TypeOf
<1>2. QED
  BY <1>1, Invariance, PTL

\* Every inverse a tool records undoes its call: the newest write that is not
\* undone has a token the node accepts, and applying it yields exactly the
\* guests from before, after any history of calls and undos.
THEOREM UndoRestoring == Spec => []UndoRestores
<1>1. IInv => UndoRestores
  BY RestoringOf
<1>2. QED
  BY <1>1, Invariance, PTL

\* The whole trail: after the tokens behind it are applied, each token on it is
\* accepted too and takes the guests one write further back.
THEOREM TrailRestoring == Spec => [](Configured => Restorable(tokens, trail, guests))
<1>1. IInv => (Configured => Restorable(tokens, trail, guests))
  BY DEF IInv, TrailRestores
<1>2. QED
  BY <1>1, Invariance, PTL

\* Where machines are removed by undo alone, a token that deletes a machine
\* deletes the one its own call made.
THEOREM UndoOwnWork == Spec => []UndoRemovesOwnWork
<1>1. IInv => UndoRemovesOwnWork
  BY OwnWorkOf
<1>2. QED
  BY <1>1, Invariance, PTL
=============================================================================

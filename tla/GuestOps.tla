------------------------------ MODULE GuestOps ------------------------------
(***************************************************************************)
(* The write operations on virtual machines and containers                 *)
(* (ops/vm_lifecycle.py, lxc.py, backup.py, disk.py), the inverse each     *)
(* governed tool records (mcp_server/tools/), and what applying those      *)
(* inverses does to the guests.  Every call here is confirmed by the node; *)
(* calls that are refused or whose outcome is unknown record no token and  *)
(* are the matter of CallOutcome.  A call is one step here: Commands parts *)
(* its reads from its write.                                               *)
(*                                                                         *)
(* A guest is reduced to what an operation or an inverse reads or writes;  *)
(* serial numbers tell guests and snapshots that follow one another under  *)
(* the same name apart, and no code sees them.                             *)
(***************************************************************************)
EXTENDS Naturals, Sequences

CONSTANTS Vmids, Nodes, Storages,
          Sizes,         \* values of cores, of memory and of a disk's size
          Changes,       \* the cores and memory a reconfiguration may give
          None,          \* an argument or configuration key that is absent
          FirstGuests,   \* the guests a behaviour may start with: each a
                         \* function from Vmids to a guest or None
          MaxSteps       \* operations and undos in a behaviour

Configs == Sizes \cup {None}

Snapshots == [serial : Nat, cores : Configs, memory : Configs, size : Configs]

Machines ==
    [kind : {"qemu", "lxc"}, serial : Nat, running : BOOLEAN, node : Nodes, disk : Storages,
     size : Configs, cores : Configs, memory : Configs, snap : {None} \cup Snapshots]

Archives == [kind : {"qemu", "lxc"}, cores : Configs, memory : Configs, size : Configs]

ASSUME GuestAssumption ==
    /\ None \notin Vmids \cup Nodes \cup Storages \cup Sizes
    /\ None \notin Machines \cup Snapshots
    /\ Sizes \subseteq Nat
    /\ \E m \in Sizes : \A k \in Sizes : k <= m
    /\ Changes \subseteq [cores : Sizes \cup {None}, memory : Sizes \cup {None}]
    /\ FirstGuests \subseteq [Vmids -> {None} \cup Machines]
    /\ MaxSteps \in Nat

VARIABLES default,  \* the node configured for the target, or None
          guests,   \* guests[v]: the machine or container with id v, or None
          archives, \* the backups taken
          tokens,   \* undo tokens in the order of their records
          trail,    \* the writes not undone yet, each with the guests before it
          reuse,    \* whether machines are also deleted or overwritten by a call
          serial,   \* machines and snapshots made so far
          steps

vars == <<default, guests, archives, tokens, trail, reuse, serial, steps>>

\* One call of a tool: the tool, its vmid and node, and its other argument.
Call(t, v, n, a) == [tool |-> t, vmid |-> v, node |-> n, arg |-> a]

\* What a backup holds of a guest.
ArchiveOf(vm) ==
    [kind |-> vm.kind, cores |-> vm.cores, memory |-> vm.memory, size |-> vm.size]

Init ==
    /\ default \in Nodes \cup {None}
    /\ guests \in FirstGuests
    /\ archives = {ArchiveOf(guests[v]) : v \in {w \in Vmids : guests[w] # None}}
    /\ tokens = <<>>
    /\ trail = <<>>
    /\ reuse \in BOOLEAN
    /\ serial = 0
    /\ steps = 0

-----------------------------------------------------------------------------
(* What a tool reads and checks before its write                           *)

\* The list of guests a tool searches.
Kind(op) == IF op.tool \in {"ct_start", "ct_stop"} THEN "lxc" ELSE "qemu"

At(g, v, n) == g[v] # None /\ g[v].node = n

\* The node a call addresses: the one named, else the default, else the one
\* the scan of all nodes finds the guest on.
Host(g, op) ==
    IF op.node # None THEN op.node
    ELSE IF default # None THEN default
    ELSE IF g[op.vmid] # None THEN g[op.vmid].node ELSE None

\* _find_node_for_vmid, _find_node_for_ct
Found(g, op) == At(g, op.vmid, Host(g, op)) /\ g[op.vmid].kind = Kind(op)

\* restore_backup needs a node, and scans no other.
RestoreNode(op) == IF op.node # None THEN op.node ELSE default

\* _guest_exists
Overwrites(g, op) == At(g, op.vmid, RestoreNode(op))

\* Grow-only, where the size is absolute and the current one is known.
RejectsShrink(vm, arg) == ~arg.increment /\ vm.size # None /\ arg.size < vm.size

\* A refusal of the tool's own, before any write is sent.
Guards(g, op) ==
    CASE op.tool = "backup_restore" ->
             RestoreNode(op) # None /\ (Overwrites(g, op) => op.arg.force)
      [] op.tool = "vm_backup" -> op.node # None \/ At(g, op.vmid, Host(g, op))
      [] op.tool = "vm_reconfigure" ->
             (op.arg.cores # None \/ op.arg.memory # None) /\ Found(g, op)
      [] op.tool = "vm_resize_disk" -> Found(g, op) /\ ~RejectsShrink(g[op.vmid], op.arg)
      [] OTHER -> Found(g, op)

-----------------------------------------------------------------------------
(* The node                                                                *)

\* The write of op, sent to node host, is carried out.  Stopping a machine
\* that is stopped is carried out too.
NodeTakes(g, op, host) ==
    LET vm == g[op.vmid] IN
    IF op.tool = "backup_restore"
    THEN /\ op.arg.archive.kind = "qemu"
         /\ vm # None =>
               op.arg.force /\ vm.node = host /\ vm.kind = "qemu" /\ ~vm.running
    ELSE /\ At(g, op.vmid, host)
         /\ op.tool # "vm_backup" => vm.kind = Kind(op)
         /\ CASE op.tool \in {"vm_start", "ct_start"} -> ~vm.running
              [] op.tool \in {"vm_reboot", "ct_stop"} -> vm.running
              [] op.tool = "vm_snapshot_create" -> vm.snap = None
              [] op.tool \in {"vm_snapshot_delete", "vm_snapshot_rollback"} -> vm.snap # None
              [] op.tool = "vm_clone" -> g[op.arg] = None
              [] op.tool = "vm_delete" -> ~vm.running
              [] op.tool = "vm_migrate" -> vm.node # op.arg
              [] op.tool = "vm_move_disk" -> vm.disk # op.arg
              [] op.tool = "vm_resize_disk" ->
                     vm.size # None /\ (op.arg.increment \/ op.arg.size >= vm.size)
              [] OTHER -> TRUE

\* The call is confirmed.
Accepts(g, op) == Guards(g, op) /\ NodeTakes(g, op, Host(g, op))

\* A key that is not given keeps its value.
Given(new, old) == IF new # None THEN new ELSE old

\* A stop that finds the machine stopped.
Idle(g, op) == op.tool \in {"vm_stop", "vm_shutdown"} /\ ~g[op.vmid].running

Largest == CHOOSE m \in Sizes : \A k \in Sizes : k <= m

\* What the node makes of the guests; s numbers a machine or snapshot made.
Effect(g, op, s) ==
    LET v  == op.vmid
        vm == g[v]
    IN CASE op.tool \in {"vm_start", "ct_start"} -> [g EXCEPT ![v].running = TRUE]
         [] op.tool \in {"vm_stop", "vm_shutdown", "ct_stop"} ->
                [g EXCEPT ![v].running = FALSE]
         [] op.tool \in {"vm_reboot", "vm_backup"} -> g
         [] op.tool = "vm_snapshot_create" ->
                [g EXCEPT ![v].snap = [serial |-> s, cores |-> vm.cores,
                                       memory |-> vm.memory, size |-> vm.size]]
         [] op.tool = "vm_snapshot_delete" -> [g EXCEPT ![v].snap = None]
         [] op.tool = "vm_snapshot_rollback" ->
                [g EXCEPT ![v] = [vm EXCEPT !.cores = vm.snap.cores, !.size = vm.snap.size,
                                            !.memory = vm.snap.memory, !.running = FALSE]]
         [] op.tool = "vm_reconfigure" ->
                [g EXCEPT ![v].cores = Given(op.arg.cores, @),
                          ![v].memory = Given(op.arg.memory, @)]
         [] op.tool = "vm_clone" ->
                [g EXCEPT ![op.arg] = [vm EXCEPT !.serial = s, !.running = FALSE, !.snap = None]]
         [] op.tool = "vm_delete" -> [g EXCEPT ![v] = None]
         [] op.tool = "vm_migrate" -> [g EXCEPT ![v].node = op.arg]
         [] op.tool = "vm_move_disk" -> [g EXCEPT ![v].disk = op.arg]
         [] op.tool = "vm_resize_disk" ->
                [g EXCEPT ![v].size = IF op.arg.increment THEN Largest ELSE op.arg.size]
         [] op.tool = "backup_restore" ->
                LET a == op.arg.archive IN
                [g EXCEPT ![v] =
                    [kind |-> a.kind, serial |-> s, running |-> FALSE, node |-> RestoreNode(op),
                     disk |-> op.arg.storage, size |-> a.size, cores |-> a.cores,
                     memory |-> a.memory, snap |-> None]]

\* The archives after op.
Archived(g, op) ==
    archives \cup IF op.tool = "vm_backup" THEN {ArchiveOf(g[op.vmid])} ELSE {}

-----------------------------------------------------------------------------
(* The inverse each tool records                                           *)

StartInverse(op) == Call("vm_stop", op.vmid, op.node, None)

StartCtInverse(op) == Call("ct_stop", op.vmid, op.node, None)
StopCtInverse(op)  == Call("ct_start", op.vmid, op.node, None)

\* Of vm_stop and of vm_shutdown, whether or not the machine ran.
StopInverse(op)     == Call("vm_start", op.vmid, op.node, None)
ShutdownInverse(op) == Call("vm_start", op.vmid, op.node, None)

SnapshotInverse(op) == Call("vm_snapshot_delete", op.vmid, op.node, None)

\* Both values as they were, whichever the call changed.
ReconfigureInverse(vm, op) ==
    Call("vm_reconfigure", op.vmid, op.node, [cores |-> vm.cores, memory |-> vm.memory])

\* Faulty: the inverse of a clone does not find the id of the clone.
CloneInverseOfResult(op) == Call("vm_delete", None, op.node, None)

CloneInverse(op) == Call("vm_delete", op.arg, op.node, None)

\* Faulty: the inverse of a migration looks for the machine where it was.
MigrateInverseOfCall(vm, op) == Call("vm_migrate", op.vmid, op.node, vm.node)

\* The machine is looked for where the migration took it.
MigrateInverse(vm, op) == Call("vm_migrate", op.vmid, op.arg, vm.node)

MoveInverse(vm, op) == Call("vm_move_disk", op.vmid, vm.node, vm.disk)

\* Only where the restore made a machine.
RestoreInverse(g, op) ==
    IF Overwrites(g, op) THEN None ELSE Call("vm_delete", op.vmid, RestoreNode(op), None)

\* None stands for "no inverse".
Inverse(g, op) ==
    LET vm == g[op.vmid] IN
    CASE op.tool = "vm_start"           -> StartInverse(op)
      [] op.tool = "vm_stop"            -> StopInverse(op)
      [] op.tool = "vm_shutdown"        -> ShutdownInverse(op)
      [] op.tool = "ct_start"           -> StartCtInverse(op)
      [] op.tool = "ct_stop"            -> StopCtInverse(op)
      [] op.tool = "vm_snapshot_create" -> SnapshotInverse(op)
      [] op.tool = "vm_reconfigure"     -> ReconfigureInverse(vm, op)
      [] op.tool = "vm_clone"           -> CloneInverse(op)
      [] op.tool = "vm_migrate"         -> MigrateInverse(vm, op)
      [] op.tool = "vm_move_disk"       -> MoveInverse(vm, op)
      [] op.tool = "backup_restore"     -> RestoreInverse(g, op)
      [] OTHER -> None

\* The tools whose effect is a machine or a snapshot made.
Makes(op) == op.tool \in {"vm_clone", "vm_snapshot_create", "backup_restore"}

\* A confirmed call: its effect, and its token if it has an inverse.
Perform(op) ==
    /\ Accepts(guests, op)
    /\ guests' = Effect(guests, op, serial + 1)
    /\ serial' = IF Makes(op) THEN serial + 1 ELSE serial
    /\ archives' = Archived(guests, op)
    /\ steps' = steps + 1
    /\ UNCHANGED <<default, reuse>>

Token(op) == [call |-> Inverse(guests, op), spent |-> FALSE, serial |-> serial + 1]

\* A call by an agent.  A write with no inverse ends the trail, and so does a
\* stop that stopped nothing: its token starts the machine.
Operate(op) ==
    /\ Perform(op)
    /\ IF Inverse(guests, op) # None
       THEN /\ tokens' = Append(tokens, Token(op))
            /\ trail' = IF Idle(guests, op) THEN <<>>
                        ELSE Append(trail, [token |-> Len(tokens) + 1, before |-> guests])
       ELSE /\ UNCHANGED tokens
            /\ trail' = IF guests' = guests THEN trail ELSE <<>>

StartVM(v, n)    == Operate(Call("vm_start", v, n, None))
StopVM(v, n)     == Operate(Call("vm_stop", v, n, None))
ShutdownVM(v, n) == Operate(Call("vm_shutdown", v, n, None))
RebootVM(v, n)   == Operate(Call("vm_reboot", v, n, None))
StartCT(v, n)    == Operate(Call("ct_start", v, n, None))
StopCT(v, n)     == Operate(Call("ct_stop", v, n, None))

CreateSnapshot(v, n)   == Operate(Call("vm_snapshot_create", v, n, None))
DeleteSnapshot(v, n)   == reuse /\ Operate(Call("vm_snapshot_delete", v, n, None))
RollbackSnapshot(v, n) == Operate(Call("vm_snapshot_rollback", v, n, None))

ReconfigureVM(v, n) ==
    \E r \in Changes : Operate(Call("vm_reconfigure", v, n, r))

CloneVM(v, n)   == \E w \in Vmids : Operate(Call("vm_clone", v, n, w))
DeleteVM(v, n)  == reuse /\ Operate(Call("vm_delete", v, n, None))
MigrateVM(v, n) == \E d \in Nodes : Operate(Call("vm_migrate", v, n, d))
MoveDisk(v, n)  == \E d \in Storages : Operate(Call("vm_move_disk", v, n, d))

ResizeDisk(v, n) ==
    \E z \in Sizes, inc \in BOOLEAN :
        Operate(Call("vm_resize_disk", v, n, [size |-> z, increment |-> inc]))

BackupGuest(v, n) == Operate(Call("vm_backup", v, n, None))

RestoreBackup(v, n) ==
    \E a \in archives, d \in Storages, force \in {FALSE, reuse} :
        Operate(Call("backup_restore", v, n, [archive |-> a, storage |-> d, force |-> force]))

-----------------------------------------------------------------------------
(* Undo                                                                    *)

Recorded == {i \in DOMAIN tokens : ~tokens[i].spent}

Top == trail[Len(trail)]

\* Faulty: the token is not marked as applied.
SpendNothing(i) == tokens

Spend(i) == [tokens EXCEPT ![i].spent = TRUE]

\* undo_apply of any recorded token.  The inverse is a governed call: it has
\* its own token if it has an inverse itself.
Undo(i) ==
    LET op == tokens[i].call IN
    /\ Perform(op)
    /\ tokens' = IF Inverse(guests, op) # None THEN Append(Spend(i), Token(op)) ELSE Spend(i)
    /\ trail' = IF trail # <<>> /\ Top.token = i
                THEN SubSeq(trail, 1, Len(trail) - 1)
                ELSE <<>>

-----------------------------------------------------------------------------
Next ==
    /\ steps < MaxSteps
    /\ \/ \E v \in Vmids, n \in Nodes \cup {None} :
             \/ StartVM(v, n) \/ StopVM(v, n) \/ ShutdownVM(v, n) \/ RebootVM(v, n)
             \/ CreateSnapshot(v, n) \/ DeleteSnapshot(v, n) \/ RollbackSnapshot(v, n)
             \/ ReconfigureVM(v, n) \/ CloneVM(v, n) \/ DeleteVM(v, n)
             \/ MigrateVM(v, n) \/ MoveDisk(v, n) \/ ResizeDisk(v, n)
             \/ BackupGuest(v, n) \/ RestoreBackup(v, n) \/ StartCT(v, n) \/ StopCT(v, n)
       \/ \E i \in Recorded : Undo(i)

Spec == Init /\ [][Next]_vars

-----------------------------------------------------------------------------
(* Properties                                                              *)

TypeOK ==
    /\ guests \in [Vmids -> {None} \cup Machines]
    /\ archives \subseteq Archives
    /\ \A i \in DOMAIN tokens : tokens[i].call.vmid \in Vmids
    /\ \A k \in DOMAIN trail : trail[k].token \in Recorded
    /\ serial \in Nat

RestoresTop ==
    trail # <<>> =>
        LET op == tokens[Top.token].call IN
        /\ Accepts(guests, op)
        /\ Effect(guests, op, serial + 1) = Top.before

\* A configuration that names its cores and memory.
Names(config) == config.cores # None /\ config.memory # None

\* Every machine's does, and every snapshot's.
Configured ==
    \A g \in FirstGuests, v \in Vmids : g[v] # None =>
        Names(g[v]) /\ (g[v].snap # None => Names(g[v].snap))

\* Applying the tokens in reverse order takes the machines back, step by step:
\* the newest write that is not undone always has an inverse the node accepts
\* and that yields exactly the machines from before it, whatever nodes, clones,
\* disks and snapshots the writes in between went through and undid, provided
\* every configuration names its cores and memory.
UndoRestores == Configured => RestoresTop

\* The same of every machine: "Inverse of vm_reconfigure: restore the previous
\* cores/memory" (tools/vm.py:269).  It fails, because the inverse of a
\* machine with no cores in its configuration carries none.
UndoRestoresAlways == RestoresTop

\* A recorded token that deletes a machine deletes the one its own call made,
\* never a later machine under the same vmid, in whatever order the tokens are
\* applied, as long as machines are removed by undo alone: undo_apply marks the
\* token of a clone or a restore when it removes the machine, so the token
\* cannot reach the next holder of the vmid.
UndoRemovesOwnWork ==
    ~reuse => \A i \in Recorded :
        LET op == tokens[i].call IN
        op.tool = "vm_delete" /\ guests[op.vmid] # None =>
            guests[op.vmid].serial = tokens[i].serial
=============================================================================

------------------------------ MODULE Commands ------------------------------
(***************************************************************************)
(* One write command at a terminal (cli/vm.py, lxc.py, backup.py, undo.py) *)
(* while an agent uses the same guests: the preview behind --dry-run, the  *)
(* two confirmations of a destructive command, and the governed call with  *)
(* the requests it reads from parted from the one that writes.  The        *)
(* agent's calls and undos are those of GuestOps, one step each.           *)
(*                                                                         *)
(* All reads of a call are one step: whatever changes between two of them  *)
(* makes the later one fail, and nothing has been written then.  What a    *)
(* command says of a lost answer is the matter of CallOutcome.             *)
(***************************************************************************)
EXTENDS GuestOps

CONSTANTS MaxSetup,    \* steps of the agent before a command is entered
          MaxRivals    \* the same and those beside the command

ASSUME RivalAssumption == MaxSetup \in Nat /\ MaxRivals \in Nat

VARIABLES terminal,    \* whether a command is run in this behaviour
          command,     \* its call, whether it is a preview, the token it undoes
          stage,       \* where it is
          yeses,       \* confirmations given
          seen,        \* the guests as its reads found them
          before,      \* the guests its write found
          exit         \* its exit code

commandVars == <<terminal, command, stage, yeses, seen, before, exit>>
allVars     == <<vars, commandVars>>

CommandInit ==
    /\ Init
    /\ terminal \in BOOLEAN
    /\ terminal => reuse     \* commands delete and overwrite
    /\ command = None
    /\ stage = "prompt"
    /\ yeses = 0
    /\ seen = None
    /\ before = None
    /\ exit = None

-----------------------------------------------------------------------------
(* The commands, and the governed call each makes                          *)

PowerCommands(v, n) ==
    {Call(t, v, n, None) : t \in {"vm_start", "vm_stop", "vm_shutdown", "vm_reboot"}}

SnapshotCommands(v, n) ==
    {Call(t, v, n, None) :
        t \in {"vm_snapshot_create", "vm_snapshot_delete", "vm_snapshot_rollback"}}

\* Neither option need be given.
ReconfigureCommand(v, n) ==
    {Call("vm_reconfigure", v, n, r) : r \in Changes \cup {[cores |-> None, memory |-> None]}}

CloneCommand(v, n)   == {Call("vm_clone", v, n, w) : w \in Vmids}
DeleteCommand(v, n)  == {Call("vm_delete", v, n, None)}
MigrateCommand(v, n) == {Call("vm_migrate", v, n, d) : d \in Nodes}

ResizeCommand(v, n) ==
    {Call("vm_resize_disk", v, n, a) : a \in [size : Sizes, increment : BOOLEAN]}

MoveCommand(v, n) == {Call("vm_move_disk", v, n, d) : d \in Storages}

ContainerCommands(v, n) == {Call(t, v, n, None) : t \in {"ct_start", "ct_stop"}}

BackupCommand(v, n) == {Call("vm_backup", v, n, None)}

RestoreCommand(v, n) ==
    {Call("backup_restore", v, n, a) :
        a \in [archive : archives, storage : Storages, force : BOOLEAN]}

\* The commands with --dry-run.
Previewed ==
    {"vm_stop", "vm_shutdown", "vm_snapshot_delete", "vm_snapshot_rollback",
     "vm_reconfigure", "vm_delete", "vm_migrate", "vm_resize_disk", "vm_move_disk",
     "ct_stop", "backup_restore"}

\* The commands that ask twice before their call, beside undo apply.
Destructive ==
    {"vm_stop", "vm_snapshot_delete", "vm_snapshot_rollback", "vm_delete", "ct_stop",
     "backup_restore"}

Asks(c) == c.undo # 0 \/ c.op.tool \in Destructive

Enter(c) ==
    /\ c.dry => c.op.tool \in Previewed \/ c.undo # 0
    /\ command' = c
    /\ stage' = IF c.dry THEN "preview" ELSE IF Asks(c) THEN "asking" ELSE "reading"
    /\ UNCHANGED <<vars, terminal, yeses, seen, before, exit>>

EnterCommand(v, n) ==
    /\ terminal /\ stage = "prompt"
    /\ \E op \in PowerCommands(v, n) \cup SnapshotCommands(v, n) \cup ReconfigureCommand(v, n)
                   \cup CloneCommand(v, n) \cup DeleteCommand(v, n) \cup MigrateCommand(v, n)
                   \cup ResizeCommand(v, n) \cup MoveCommand(v, n) \cup ContainerCommands(v, n)
                   \cup BackupCommand(v, n) \cup RestoreCommand(v, n),
          dry \in BOOLEAN :
            Enter([op |-> op, dry |-> dry, undo |-> 0])

\* undo apply: the inverse the token holds.
EnterUndo(i) ==
    /\ terminal /\ stage = "prompt"
    /\ \E dry \in BOOLEAN : Enter([op |-> tokens[i].call, dry |-> dry, undo |-> i])

-----------------------------------------------------------------------------
(* Preview and confirmation                                                *)

Exit(code) == exit' = code /\ stage' = "done"

Spent(c) == c.undo # 0 /\ tokens[c.undo].spent

\* Faulty: the preview of a restore leaves out the guard of the restore.
UnguardedPreviewRefuses(c) ==
    \/ Spent(c)
    \/ c.undo = 0 /\ c.op.tool = "vm_reconfigure" /\ ~Guards(guests, c.op)

\* preview_restore, preview_reconfigure and preview_move_disk read the guests
\* as the call would; every other preview is put together from its arguments.
PreviewRefuses(c) ==
    LET op == c.op IN
    \/ Spent(c)
    \/ /\ c.undo = 0
       /\ \/ op.tool = "backup_restore" /\ RestoreNode(op) = None
          \/ op.tool = "backup_restore" /\ Overwrites(guests, op) /\ ~op.arg.force
          \/ op.tool = "vm_reconfigure" /\ op.arg.cores = None /\ op.arg.memory = None
          \/ op.tool \in {"vm_reconfigure", "vm_move_disk"} /\ ~Found(guests, op)

\* dry_run_preview: the error, or the banner.
Preview ==
    /\ stage = "preview"
    /\ Exit(IF PreviewRefuses(command) THEN 1 ELSE 0)
    /\ UNCHANGED <<vars, terminal, command, yeses, seen, before>>

\* Faulty: one confirmation is enough.
ConfirmOnce ==
    /\ stage = "asking"
    /\ yeses' = yeses + 1
    /\ stage' = "reading"
    /\ UNCHANGED <<vars, terminal, command, seen, before, exit>>

\* double_confirm
Confirm ==
    /\ stage = "asking"
    /\ yeses' = yeses + 1
    /\ stage' = IF yeses' = 2 THEN "reading" ELSE "asking"
    /\ UNCHANGED <<vars, terminal, command, seen, before, exit>>

\* typer.confirm(abort=True)
Decline ==
    /\ stage = "asking"
    /\ Exit(1)
    /\ UNCHANGED <<vars, terminal, command, yeses, seen, before>>

-----------------------------------------------------------------------------
(* The governed call                                                       *)

\* checked: an error ends the command with 1.  The error of an inverse is
\* inside the result of undo apply, which is printed, and the command succeeds.
Failure == IF command.undo # 0 /\ ~Spent(command) THEN 0 ELSE 1

\* Where the guest is, what its prior state is, whether the vmid is taken.
Read ==
    /\ stage = "reading"
    /\ IF Guards(guests, command.op) /\ ~Spent(command)
       THEN seen' = guests /\ stage' = "writing" /\ UNCHANGED exit
       ELSE Exit(Failure) /\ UNCHANGED seen
    /\ UNCHANGED <<vars, terminal, command, yeses, before>>

\* The token of the call, and the mark on the token that it undoes.
Recording(op, undone) ==
    LET inverse == Inverse(seen, op)
        marked  == IF undone = 0 THEN tokens ELSE Spend(undone)
    IN IF inverse = None THEN marked
       ELSE Append(marked, [call |-> inverse, spent |-> FALSE, serial |-> serial + 1])

\* Faulty: restore asks the node to overwrite, whatever the caller said.
RequestForced ==
    IF command.op.tool = "backup_restore"
    THEN [command.op EXCEPT !.arg.force = TRUE]
    ELSE command.op

\* What is sent.
Request == command.op

Write ==
    LET op == command.op IN
    /\ stage = "writing"
    /\ NodeTakes(guests, Request, Host(seen, op))
    /\ before' = guests
    /\ guests' = Effect(guests, op, serial + 1)
    /\ archives' = Archived(guests, op)
    /\ serial' = IF Makes(op) THEN serial + 1 ELSE serial
    /\ tokens' = Recording(op, command.undo)
    /\ trail' = <<>>
    /\ Exit(0)
    /\ UNCHANGED <<default, reuse, steps, terminal, command, yeses, seen>>

WriteRefused ==
    /\ stage = "writing"
    /\ ~NodeTakes(guests, Request, Host(seen, command.op))
    /\ Exit(IF command.undo # 0 THEN 0 ELSE 1)
    /\ UNCHANGED <<vars, terminal, command, yeses, seen, before>>

-----------------------------------------------------------------------------
\* The agent, by itself; or beside a command: before it, and between what it
\* read and what it writes.  Until it has read, only its arguments count.
Agent ==
    /\ terminal => \/ stage = "prompt" /\ steps < MaxSetup
                   \/ stage = "writing" /\ steps < MaxRivals
    /\ Next
    /\ UNCHANGED commandVars

CommandNext ==
    \/ Agent
    \/ \E v \in Vmids, n \in Nodes \cup {None} : EnterCommand(v, n)
    \/ \E i \in DOMAIN tokens : EnterUndo(i)
    \/ Preview \/ Confirm \/ Decline \/ Read \/ Write \/ WriteRefused

CommandSpec == CommandInit /\ [][CommandNext]_allVars

-----------------------------------------------------------------------------
(* Properties                                                              *)

\* A guest or a snapshot of g is not in h.
Loses(g, h) ==
    \E v \in Vmids : g[v] # None /\
        \/ h[v] = None
        \/ h[v].serial # g[v].serial
        \/ g[v].snap # None /\ h[v].snap # g[v].snap

\* No command removes or overwrites a guest or a snapshot that its operator
\* was not asked about twice: deletion, an overwriting restore, and an undo
\* that deletes (double_confirm), even when the agent's calls bring the guest
\* or the snapshot about while the command is under way; a clone or a restore
\* without --force, which no one was warned of, never gets there.
NoLossUnasked ==
    [][stage = "writing" /\ stage' = "done" /\ Loses(guests, guests') =>
          yeses = 2]_allVars

\* What the call read has changed before its write, and the node does not
\* notice: the values of a reconfiguration, the storage of a disk, and, with
\* force, whether the vmid of a restore is free.
Overtaken(op) ==
    LET v == op.vmid IN
    \/ op.tool = "vm_reconfigure" /\ (\/ seen[v].cores # before[v].cores
                                      \/ seen[v].memory # before[v].memory)
    \/ op.tool = "vm_move_disk" /\ seen[v].disk # before[v].disk
    \/ op.tool = "backup_restore" /\ op.arg.force /\ Overwrites(before, op)

\* The token of a confirmed command undoes the command, though it is made of
\* what the call read and another client may have written since: the node
\* refuses the write, or the value read still holds, except where Overtaken
\* says (ops/vm_lifecycle.py:210, ops/disk.py:102, ops/backup.py:132) and for
\* a stop that stopped nothing.
RacedTokensInvert ==
    LET op == command.op
        inverse == tokens[Len(tokens)].call
    IN /\ before # None /\ Inverse(seen, op) # None
       /\ Configured /\ ~Idle(before, op) /\ ~Overtaken(op)
       => Accepts(guests, inverse) /\ Effect(guests, inverse, serial + 1) = before

\* A preview that reads the guests exits as the call's own guards would have
\* it: what it lets pass, the call goes on to send, and what it refuses, the
\* call refuses (preview_restore: "Runs the SAME existing-VM guard").
PreviewsRefuseAlike ==
    stage = "done" /\ command.dry /\ command.undo = 0
    /\ command.op.tool \in {"vm_reconfigure", "vm_move_disk", "backup_restore"}
    => (exit = 1 <=> ~Guards(guests, command.op))
=============================================================================

--------------------------- MODULE CommandsProofs ---------------------------
(***************************************************************************)
(* Proofs about Commands: the invariant of GuestOpsProofs holds beside a   *)
(* command too, and with it what the command promises its operator, for    *)
(* any ids, nodes, storages, sizes and first guests, and any number of     *)
(* steps of the agent.                                                     *)
(***************************************************************************)
EXTENDS Commands, GuestOpsProofs

Stages == {"prompt", "preview", "asking", "reading", "writing", "done"}

\* The command entered is a call with arguments of its tool.
Entered ==
    stage # "prompt" =>
        /\ terminal /\ WellFormed(command.op, archives)
        /\ command.dry \in BOOLEAN /\ command.undo \in 0..Len(tokens)

\* A preview goes no further than its stage.
Parted ==
    /\ stage = "preview" => command.dry
    /\ stage \in {"asking", "reading", "writing"} => ~command.dry

\* A command that asks has two confirmations when it reads.
Asked ==
    /\ stage = "prompt" => yeses = 0
    /\ stage = "asking" => yeses \in {0, 1}
    /\ stage \in {"reading", "writing"} /\ Asks(command) => yeses = 2

\* What is about to be written was allowed by what was read.
Sending == stage = "writing" => seen \in Inventories /\ Guards(seen, command.op)

CInv ==
    /\ IInv
    /\ stage \in Stages /\ (terminal => reuse)
    /\ Entered /\ Parted /\ Asked /\ Sending
    /\ stage # "done" => before = None
    /\ RacedTokensInvert /\ PreviewsRefuseAlike

-----------------------------------------------------------------------------
(* Entering a command                                                      *)

LEMMA EntryFormed ==
    ASSUME NEW v \in Vmids, NEW n \in Nodes \cup {None},
           NEW op \in PowerCommands(v, n) \cup SnapshotCommands(v, n) \cup ReconfigureCommand(v, n)
                   \cup CloneCommand(v, n) \cup DeleteCommand(v, n) \cup MigrateCommand(v, n)
                   \cup ResizeCommand(v, n) \cup MoveCommand(v, n) \cup ContainerCommands(v, n)
                   \cup BackupCommand(v, n) \cup RestoreCommand(v, n)
    PROVE  WellFormed(op, archives)
<1>1. ASSUME NEW t \in {"vm_start", "vm_stop", "vm_shutdown", "vm_reboot", "vm_snapshot_create",
                        "vm_snapshot_delete", "vm_snapshot_rollback", "vm_delete", "ct_start",
                        "ct_stop", "vm_backup"}
      PROVE  WellFormed(Call(t, v, n, None), archives)
  BY <1>1, PlainCall DEF Tools
<1>2. op \in PowerCommands(v, n) \cup SnapshotCommands(v, n) \cup DeleteCommand(v, n)
             \cup ContainerCommands(v, n) \cup BackupCommand(v, n) => WellFormed(op, archives)
  BY <1>1 DEF PowerCommands, SnapshotCommands, DeleteCommand, ContainerCommands, BackupCommand
<1>3. ASSUME op \in ReconfigureCommand(v, n)
      PROVE  WellFormed(op, archives)
  <2>1. PICK r \in Changes \cup {[cores |-> None, memory |-> None]} :
           op = Call("vm_reconfigure", v, n, r)
    BY <1>3 DEF ReconfigureCommand
  <2>2. r.cores \in Configs /\ r.memory \in Configs
    BY GuestAssumption DEF Configs
  <2>3. QED
    BY <2>1, <2>2, PlainCall DEF Tools
<1>4. op \in CloneCommand(v, n) => WellFormed(op, archives)
  BY PlainCall DEF CloneCommand, Tools
<1>5. op \in MigrateCommand(v, n) => WellFormed(op, archives)
  BY PlainCall DEF MigrateCommand, Tools
<1>6. op \in MoveCommand(v, n) => WellFormed(op, archives)
  BY PlainCall DEF MoveCommand, Tools
<1>7. ASSUME op \in ResizeCommand(v, n)
      PROVE  WellFormed(op, archives)
  <2>1. PICK a \in [size : Sizes, increment : BOOLEAN] : op = Call("vm_resize_disk", v, n, a)
    BY <1>7 DEF ResizeCommand
  <2>2. a.size \in Sizes
    OBVIOUS
  <2>3. QED
    BY <2>1, <2>2, PlainCall DEF Tools
<1>8. ASSUME op \in RestoreCommand(v, n)
      PROVE  WellFormed(op, archives)
  <2>1. PICK a \in [archive : archives, storage : Storages, force : BOOLEAN] :
           op = Call("backup_restore", v, n, a)
    BY <1>8 DEF RestoreCommand
  <2>2. a.archive \in archives /\ a.storage \in Storages
    OBVIOUS
  <2>3. QED
    BY <2>1, <2>2, PlainCall DEF Tools
<1>9. QED
  BY <1>2, <1>3, <1>4, <1>5, <1>6, <1>7, <1>8

\* A step of the command that leaves the guests and their tokens alone.
LEMMA QuietInv ==
    ASSUME CInv, UNCHANGED <<vars, terminal>>, stage' \in Stages, Entered', Parted', Asked',
           Sending', stage' # "done" => before' = None,
           RacedTokensInvert', PreviewsRefuseAlike'
    PROVE  CInv'
<1>1. IInv'
  BY StutterInv DEF CInv, vars
<1>2. (terminal => reuse)'
  BY DEF CInv, vars
<1>3. QED
  BY <1>1, <1>2 DEF CInv

\* Before its end a command has promised nothing yet.
LEMMA NotDone ==
    ASSUME stage' # "done", before' = None
    PROVE  RacedTokensInvert' /\ PreviewsRefuseAlike'
BY DEF RacedTokensInvert, PreviewsRefuseAlike

LEMMA EnterInv ==
    ASSUME CInv, stage = "prompt", terminal, NEW c, Enter(c), WellFormed(c.op, archives),
           c.dry \in BOOLEAN, c.undo \in 0..Len(tokens)
    PROVE  CInv'
<1>1. /\ command' = c /\ UNCHANGED <<vars, terminal, yeses, seen, before, exit>>
      /\ stage' = IF c.dry THEN "preview" ELSE IF Asks(c) THEN "asking" ELSE "reading"
  BY DEF Enter
<1>2. yeses = 0 /\ before = None
  BY DEF CInv, Asked
<1>3. stage' \in Stages /\ stage' \notin {"done", "writing", "prompt"} /\ before' = None
  BY <1>1, <1>2 DEF Stages
<1>4. Entered'
  BY <1>1 DEF Entered, vars, WellFormed
<1>5. Parted'
  BY <1>1 DEF Parted
<1>6. Asked'
  BY <1>1, <1>2 DEF Asked, Asks
<1>7. Sending'
  BY <1>3 DEF Sending
<1>8. QED
  BY <1>1, <1>3, <1>4, <1>5, <1>6, <1>7, NotDone, QuietInv

LEMMA EnterCommandInv ==
    ASSUME CInv, NEW v \in Vmids, NEW n \in Nodes \cup {None}, EnterCommand(v, n)
    PROVE  CInv'
<1>1. PICK op \in PowerCommands(v, n) \cup SnapshotCommands(v, n) \cup ReconfigureCommand(v, n)
                   \cup CloneCommand(v, n) \cup DeleteCommand(v, n) \cup MigrateCommand(v, n)
                   \cup ResizeCommand(v, n) \cup MoveCommand(v, n) \cup ContainerCommands(v, n)
                   \cup BackupCommand(v, n) \cup RestoreCommand(v, n),
           dry \in BOOLEAN : Enter([op |-> op, dry |-> dry, undo |-> 0])
  BY DEF EnterCommand
<1>2. WellFormed(op, archives)
  BY EntryFormed
<1> DEFINE c == [op |-> op, dry |-> dry, undo |-> 0]
<1>3. c.op = op /\ c.dry = dry /\ c.undo = 0
  OBVIOUS
<1>4. 0 \in 0..Len(tokens)
  BY DEF CInv, IInv, Types
<1>5. Enter(c)
  BY <1>1
<1> HIDE DEF c
<1>6. QED
  BY <1>2, <1>3, <1>4, <1>5, EnterInv DEF EnterCommand

LEMMA EnterUndoInv ==
    ASSUME CInv, NEW i \in DOMAIN tokens, EnterUndo(i)
    PROVE  CInv'
<1>1. PICK dry \in BOOLEAN : Enter([op |-> tokens[i].call, dry |-> dry, undo |-> i])
  BY DEF EnterUndo
<1> DEFINE c == [op |-> tokens[i].call, dry |-> dry, undo |-> i]
<1>2. c.op = tokens[i].call /\ c.dry = dry /\ c.undo = i
  OBVIOUS
<1>3. tokens \in Seq(Tokens) /\ i \in 1..Len(tokens) /\ i \in 0..Len(tokens)
  BY DEF CInv, IInv, Types
<1>4. WellFormed(tokens[i].call, archives)
  BY <1>3, MoreArchives DEF CInv, IInv, TokensFormed
<1>5. Enter(c)
  BY <1>1
<1> HIDE DEF c
<1>6. QED
  BY <1>2, <1>3, <1>4, <1>5, EnterInv DEF EnterUndo

-----------------------------------------------------------------------------
(* Preview, confirmation and read                                          *)

\* The guards of the call are those its preview applies.
LEMMA SameGuards ==
    ASSUME NEW c, c.undo = 0,
           c.op.tool \in {"vm_reconfigure", "vm_move_disk", "backup_restore"}
    PROVE  PreviewRefuses(c) <=> ~Guards(guests, c.op)
BY DEF PreviewRefuses, Guards, Spent

LEMMA PreviewInv ==
    ASSUME CInv, Preview
    PROVE  CInv'
<1>1. /\ stage = "preview" /\ stage' = "done"
      /\ exit' = IF PreviewRefuses(command) THEN 1 ELSE 0
      /\ UNCHANGED <<vars, terminal, command, yeses, seen, before>>
  BY DEF Preview, Exit
<1>2. before = None
  BY <1>1 DEF CInv
<1>3. stage' \in Stages /\ Entered' /\ Parted' /\ Asked' /\ Sending'
  BY <1>1 DEF CInv, Stages, Entered, Parted, Asked, Sending, WellFormed, vars
<1>4. RacedTokensInvert'
  BY <1>1, <1>2 DEF RacedTokensInvert
<1>5. PreviewsRefuseAlike'
  <2>1. ASSUME command.undo = 0,
               command.op.tool \in {"vm_reconfigure", "vm_move_disk", "backup_restore"}
        PROVE  exit' = 1 <=> ~Guards(guests, command.op)
    BY <1>1, <2>1, SameGuards
  <2>2. Guards(guests, command.op)' <=> Guards(guests, command.op)
    BY <1>1 DEF Guards, vars, RestoreNode, Overwrites, At, Found, Host, Kind, RejectsShrink
  <2>3. QED
    BY <1>1, <2>1, <2>2 DEF PreviewsRefuseAlike
<1>6. QED
  BY <1>1, <1>3, <1>4, <1>5, QuietInv

LEMMA ConfirmInv ==
    ASSUME CInv, Confirm
    PROVE  CInv'
<1>1. /\ stage = "asking" /\ yeses' = yeses + 1
      /\ stage' = IF yeses' = 2 THEN "reading" ELSE "asking"
      /\ UNCHANGED <<vars, terminal, command, seen, before, exit>>
  BY DEF Confirm
<1>2. yeses \in {0, 1} /\ before = None
  BY <1>1 DEF CInv, Asked
<1>3. stage' \in Stages /\ stage' \notin {"done", "writing", "prompt", "preview"} /\ before' = None
  BY <1>1, <1>2 DEF Stages
<1>4. Entered' /\ Parted' /\ Sending'
  BY <1>1, <1>3 DEF CInv, Entered, Parted, Sending, WellFormed, vars
<1>5. Asked'
  BY <1>1, <1>2 DEF Asked
<1>6. QED
  BY <1>1, <1>3, <1>4, <1>5, NotDone, QuietInv

\* A command that ends with nothing written.
LEMMA EndInv ==
    ASSUME CInv, stage \in {"asking", "reading", "writing"}, stage' = "done",
           UNCHANGED <<vars, terminal, command, yeses, seen, before>>
    PROVE  CInv'
<1>1. before = None /\ ~command.dry
  BY DEF CInv, Parted
<1>2. stage' \in Stages /\ Entered' /\ Parted' /\ Asked' /\ Sending'
  BY DEF CInv, Stages, Entered, Parted, Asked, Sending, WellFormed, vars
<1>3. RacedTokensInvert' /\ PreviewsRefuseAlike'
  BY <1>1 DEF RacedTokensInvert, PreviewsRefuseAlike
<1>4. QED
  BY <1>2, <1>3, QuietInv

LEMMA GuardsKept ==
    ASSUME NEW g, NEW op, default' = default
    PROVE  Guards(g, op)' <=> Guards(g, op)
BY DEF Guards, RestoreNode, Overwrites, At, Found, Host, Kind, RejectsShrink

LEMMA CallKept ==
    ASSUME NEW g, NEW op, NEW s, default' = default
    PROVE  /\ Accepts(g, op)' <=> Accepts(g, op)
           /\ Effect(g, op, s)' = Effect(g, op, s)
           /\ Overwrites(g, op)' <=> Overwrites(g, op)
BY DEF Accepts, Guards, NodeTakes, Effect, Host, Found, RestoreNode, Overwrites,
       RejectsShrink, At, Kind

LEMMA ReadInv ==
    ASSUME CInv, Read
    PROVE  CInv'
<1>1. /\ stage = "reading" /\ UNCHANGED <<vars, terminal, command, yeses, before>>
      /\ \/ Guards(guests, command.op) /\ seen' = guests /\ stage' = "writing"
         \/ stage' = "done" /\ seen' = seen
  BY DEF Read, Exit
<1>2. CASE stage' = "done" /\ seen' = seen
  BY <1>1, <1>2, EndInv
<1>3. CASE Guards(guests, command.op) /\ seen' = guests /\ stage' = "writing"
  <2>1. before' = None /\ guests \in Inventories
    BY <1>1 DEF CInv, IInv, Types
  <2>2. stage' \in Stages /\ Entered' /\ Parted' /\ Asked'
    BY <1>1, <1>3 DEF CInv, Stages, Entered, Parted, Asked, WellFormed, vars, Asks
  <2>3. default' = default /\ command' = command
    BY <1>1 DEF vars
  <2>4. Sending'
    BY <1>3, <2>1, <2>3, GuardsKept DEF Sending, Inventories
  <2>5. QED
    BY <1>1, <1>3, <2>1, <2>2, <2>4, NotDone, QuietInv
<1>4. QED
  BY <1>1, <1>2, <1>3

-----------------------------------------------------------------------------
(* The agent beside the command                                            *)

\* A step of the agent removes no archive and no token.
LEMMA AgentGrows ==
    ASSUME IInv, Next
    PROVE  /\ archives \subseteq archives' /\ Len(tokens) <= Len(tokens')
           /\ default' = default /\ reuse' = reuse
<1>1. tokens \in Seq(Tokens) /\ Len(tokens) \in Nat
  BY DEF IInv, Types
<1>2. ASSUME NEW op, Perform(op)
      PROVE  archives \subseteq archives' /\ default' = default /\ reuse' = reuse
  BY <1>2 DEF Perform, Archived
<1>3. ASSUME NEW op, Operate(op)
      PROVE  Len(tokens) <= Len(tokens')
  BY <1>1, <1>3 DEF Operate
<1>4. ASSUME NEW i \in Recorded, Undo(i)
      PROVE  Len(tokens) <= Len(tokens')
  <2>1. i \in 1..Len(tokens)
    BY <1>1 DEF Recorded
  <2>2. Spend(i) \in Seq(Tokens) /\ Len(Spend(i)) = Len(tokens)
    BY <1>1, <2>1, SpendFacts
  <2>3. tokens' = Spend(i) \/ \E x : tokens' = Append(Spend(i), x)
    BY <1>4 DEF Undo
  <2>4. QED
    BY <1>1, <2>2, <2>3
<1>5. CASE Called
  BY <1>2, <1>3, <1>5 DEF Called, Operate
<1>6. CASE \E i \in Recorded : Undo(i)
  BY <1>2, <1>4, <1>6 DEF Undo
<1>7. QED
  BY <1>5, <1>6, NextCases

LEMMA AgentInv ==
    ASSUME CInv, Agent
    PROVE  CInv'
<1>1. /\ Next /\ UNCHANGED <<terminal, command, stage, yeses, seen, before, exit>>
      /\ terminal => stage \in {"prompt", "writing"}
  BY DEF Agent, commandVars
<1>2. /\ IInv /\ stage \in Stages /\ (terminal => reuse)
      /\ Entered /\ Parted /\ Asked /\ Sending
      /\ stage # "done" => before = None
  BY DEF CInv
<1>3. stage # "done" /\ before = None
  BY <1>1, <1>2 DEF Entered
<1>4. IInv' /\ default' = default /\ reuse' = reuse
  BY <1>1, <1>2, NextInv, AgentGrows
<1>5. archives \subseteq archives' /\ 0..Len(tokens) \subseteq 0..Len(tokens')
  <2>1. archives \subseteq archives' /\ Len(tokens) <= Len(tokens')
    BY <1>1, <1>2, AgentGrows
  <2>2. Len(tokens) \in Nat /\ Len(tokens') \in Nat
    BY <1>2, <1>4 DEF IInv, Types
  <2>3. QED
    BY <2>1, <2>2
<1>6. Entered'
  BY <1>1, <1>2, <1>5 DEF Entered, WellFormed
<1>7. Parted' /\ Asked'
  BY <1>1, <1>2 DEF Parted, Asked, Asks
<1>8. Sending'
  BY <1>1, <1>2, <1>4 DEF Sending, Inventories, Guards, RestoreNode, Overwrites, At, Found, Host,
                          Kind, RejectsShrink
<1>9. stage' # "done" /\ before' = None
  BY <1>1, <1>3
<1>10. RacedTokensInvert' /\ PreviewsRefuseAlike'
  BY <1>9, NotDone
<1>11. QED
  BY <1>1, <1>2, <1>4, <1>6, <1>7, <1>8, <1>9, <1>10 DEF CInv

-----------------------------------------------------------------------------
(* The write                                                               *)

\* The tokens after a write: the one undone is marked, and the inverse of the
\* call, made of what it read, is the last.
LEMMA RecordingFacts ==
    ASSUME tokens \in Seq(Tokens), TokensFormed, NEW op, NEW undone \in 0..Len(tokens),
           serial \in Nat, seen \in Inventories, WellFormed(op, archives),
           default \in Nodes \cup {None}, Guards(seen, op)
    PROVE  /\ Recording(op, undone) \in Seq(Tokens)
           /\ Len(tokens) <= Len(Recording(op, undone))
           /\ \A i \in 1..Len(Recording(op, undone)) :
                 WellFormed(Recording(op, undone)[i].call, {})
           /\ Inverse(seen, op) # None =>
                 Recording(op, undone)[Len(Recording(op, undone))].call = Inverse(seen, op)
<1> DEFINE marked == IF undone = 0 THEN tokens ELSE Spend(undone)
           x == [call |-> Inverse(seen, op), spent |-> FALSE, serial |-> serial + 1]
           all == Recording(op, undone)
<1>1. Len(tokens) \in Nat /\ \A i \in 1..Len(tokens) : WellFormed(tokens[i].call, {})
  BY DEF TokensFormed
<1>2. /\ marked \in Seq(Tokens) /\ Len(marked) = Len(tokens)
      /\ \A i \in 1..Len(tokens) : marked[i].call = tokens[i].call
  <2>1. CASE undone = 0
    BY <2>1
  <2>2. CASE undone # 0
    <3>1. undone \in 1..Len(tokens)
      BY <1>1, <2>2
    <3>2. marked = Spend(undone)
      BY <2>2
    <3>3. /\ Spend(undone) \in Seq(Tokens) /\ Len(Spend(undone)) = Len(tokens)
          /\ \A i \in 1..Len(tokens) : Spend(undone)[i].call = tokens[i].call
      BY <3>1, SpendFacts
    <3>4. QED
      BY <3>2, <3>3
  <2>3. QED
    BY <2>1, <2>2
<1>3. all = IF Inverse(seen, op) = None THEN marked ELSE Append(marked, x)
  BY DEF Recording
<1> HIDE DEF marked, all
<1>4. CASE Inverse(seen, op) = None
  <2>1. all = marked
    BY <1>3, <1>4
  <2>2. QED
    BY <1>1, <1>2, <1>4, <2>1 DEF all
<1>5. CASE Inverse(seen, op) # None
  <2>1. /\ Inverse(seen, op) \in TokenCalls /\ WellFormed(Inverse(seen, op), {})
    BY <1>5, InverseFormed
  <2>2. x \in Tokens /\ x.call = Inverse(seen, op)
    BY <2>1 DEF Tokens
  <2> HIDE DEF x
  <2>3. all = Append(marked, x)
    BY <1>3, <1>5
  <2>4. /\ all \in Seq(Tokens) /\ Len(all) = Len(tokens) + 1
        /\ \A i \in 1..Len(tokens) : all[i] = marked[i]
        /\ all[Len(tokens) + 1] = x
    BY <1>2, <2>2, <2>3, AppendFacts
  <2>5. \A i \in 1..(Len(tokens) + 1) : i \in 1..Len(tokens) \/ i = Len(tokens) + 1
    BY <1>1
  <2>6. \A i \in 1..Len(all) : WellFormed(all[i].call, {})
    BY <1>1, <1>2, <2>1, <2>2, <2>4, <2>5
  <2>7. QED
    BY <1>1, <2>2, <2>4, <2>6 DEF all
<1>6. QED
  BY <1>4, <1>5

LEMMA WriteFacts ==
    ASSUME CInv, Write
    PROVE  LET op == command.op
           IN /\ WellFormed(op, archives) /\ Guards(seen, op)
              /\ NodeTakes(guests, op, Host(seen, op)) /\ serial + 1 \in Nat
              /\ op.tool = "backup_restore" => RestoreNode(op) \in Nodes
              /\ guests' = Effect(guests, op, serial + 1) /\ archives' = Archived(guests, op)
              /\ tokens' = Recording(op, command.undo) /\ trail' = <<>>
              /\ before' = guests /\ stage' = "done"
              /\ serial' = IF Makes(op) THEN serial + 1 ELSE serial
              /\ UNCHANGED <<default, reuse, steps, terminal, command, yeses, seen>>
<1>1. stage = "writing"
  BY DEF Write
<1>2. WellFormed(command.op, archives) /\ Guards(seen, command.op)
  BY <1>1 DEF CInv, Entered, Sending
<1>3. serial + 1 \in Nat /\ default \in Nodes \cup {None}
  BY DEF CInv, IInv, Types
<1>4. command.op.tool = "backup_restore" => RestoreNode(command.op) \in Nodes
  BY <1>2, <1>3, RestoreNodeIsNode
<1>5. QED
  BY <1>2, <1>3, <1>4 DEF Write, Request, Exit

LEMMA InverseKept ==
    ASSUME NEW g, NEW op, default' = default
    PROVE  Inverse(g, op)' = Inverse(g, op)
BY DEF Inverse, StartInverse, StopInverse, ShutdownInverse, StartCtInverse, StopCtInverse,
       SnapshotInverse, ReconfigureInverse, CloneInverse, MigrateInverse, MoveInverse,
       RestoreInverse, Overwrites, RestoreNode, At, Call

\* The inverse recorded undoes what was written.
LEMMA WriteInverts ==
    ASSUME CInv, Write
    PROVE  RacedTokensInvert'
<1> DEFINE op == command.op
           inv == tokens'[Len(tokens')].call
<1>1. /\ stage = "writing" /\ seen \in Inventories /\ command.undo \in 0..Len(tokens)
  BY DEF Write, CInv, Sending, Entered
<1>2. /\ guests \in Inventories /\ archives \in SUBSET Archives /\ default \in Nodes \cup {None}
      /\ tokens \in Seq(Tokens) /\ TokensFormed /\ serial \in Nat
      /\ Configured => Named(guests, archives)
  BY DEF CInv, IInv, Types, TrailRestores
<1>3. /\ WellFormed(op, archives) /\ Guards(seen, op) /\ NodeTakes(guests, op, Host(seen, op))
      /\ serial + 1 \in Nat /\ guests' = Effect(guests, op, serial + 1)
      /\ tokens' = Recording(op, command.undo) /\ before' = guests
      /\ serial' = IF Makes(op) THEN serial + 1 ELSE serial
      /\ UNCHANGED <<default, command, seen>>
  BY WriteFacts
<1>4. Inverse(seen, op) # None => inv = Inverse(seen, op)
  BY <1>1, <1>2, <1>3, RecordingFacts
<1>5. ~Overtaken(command.op)' => Unraced(seen, guests, op)
  BY <1>3 DEF Overtaken, Unraced, Overwrites, RestoreNode, At
<1>6. ASSUME Configured, ~Idle(guests, op), Unraced(seen, guests, op), Inverse(seen, op) # None
      PROVE  Inverts(inv, guests', guests)
  <2>1. Named(guests, archives)
    BY <1>2, <1>6
  <2> HIDE DEF op, inv
  <2>2. Inverts(Inverse(seen, op), Effect(guests, op, serial + 1), guests)
    BY <1>1, <1>2, <1>3, <1>6, <2>1, InverseInverts
  <2>3. QED
    BY <1>3, <1>4, <1>6, <2>2
<1>7. /\ Configured' <=> Configured
      /\ Inverse(seen, command.op)' = Inverse(seen, op)
      /\ Idle(before, command.op)' <=> Idle(guests, op)
  <2>1. Configured' <=> Configured
    BY DEF Configured, Names
  <2>2. Inverse(seen, command.op)' = Inverse(seen, op)
    BY <1>3, InverseKept
  <2>3. Idle(before, command.op)' <=> Idle(guests, op)
    BY <1>3 DEF Idle
  <2>4. QED
    BY <2>1, <2>2, <2>3
<1>8. Inverts(inv, guests', guests) => Inverts(tokens[Len(tokens)].call, guests, before)'
  BY <1>3, InvertsKept
<1>9. serial' + 1 \in Nat
  BY <1>2, <1>3
<1>10. Inverts(tokens[Len(tokens)].call, guests, before)' =>
          /\ Accepts(guests, tokens[Len(tokens)].call)'
          /\ (Effect(guests, tokens[Len(tokens)].call, serial + 1) = before)'
  BY <1>9 DEF Inverts
<1>11. QED
  BY <1>5, <1>6, <1>7, <1>8, <1>10 DEF RacedTokensInvert

LEMMA WriteInv ==
    ASSUME CInv, Write
    PROVE  CInv'
<1> DEFINE op == command.op
<1>1. /\ stage = "writing" /\ seen \in Inventories /\ command.undo \in 0..Len(tokens)
      /\ terminal /\ reuse /\ ~command.dry /\ command.dry \in BOOLEAN
  BY DEF Write, CInv, Sending, Entered, Parted
<1>2. /\ guests \in Inventories /\ archives \in SUBSET Archives /\ default \in Nodes \cup {None}
      /\ tokens \in Seq(Tokens) /\ TokensFormed /\ serial \in Nat /\ reuse \in BOOLEAN
      /\ Configured => Named(guests, archives)
  BY DEF CInv, IInv, Types, TrailRestores
<1>3. /\ WellFormed(op, archives) /\ Guards(seen, op) /\ NodeTakes(guests, op, Host(seen, op))
      /\ op.tool = "backup_restore" => RestoreNode(op) \in Nodes
      /\ serial + 1 \in Nat /\ guests' = Effect(guests, op, serial + 1)
      /\ archives' = Archived(guests, op)
      /\ tokens' = Recording(op, command.undo) /\ trail' = <<>>
      /\ stage' = "done"
      /\ serial' = IF Makes(op) THEN serial + 1 ELSE serial
      /\ UNCHANGED <<default, reuse, steps, terminal, command, yeses, seen>>
  BY WriteFacts
<1>4. /\ tokens' \in Seq(Tokens) /\ Len(tokens) <= Len(tokens')
      /\ \A i \in 1..Len(tokens') : WellFormed(tokens'[i].call, {})
  BY <1>1, <1>2, <1>3, RecordingFacts
<1>5. /\ guests' \in Inventories /\ archives' \in SUBSET Archives
      /\ Named(guests, archives) => Named(guests', archives')
  BY <1>2, <1>3, EffectKept
<1>6. archives \subseteq archives'
  BY <1>3 DEF Archived
<1>7. IInv'
  <2>1. /\ trail' \in Seq(Entries) /\ Ordered(tokens', trail')
        /\ Restorable(tokens', trail', guests')
    BY <1>3, EmptyTrail
  <2>2. Types'
    BY <1>2, <1>3, <1>4, <1>5, <2>1 DEF Types
  <2>3. TokensFormed'
    BY <1>4 DEF TokensFormed, WellFormed
  <2>4. QED
    BY <1>1, <1>2, <1>3, <1>5, <2>1, <2>2, <2>3, StepInv
<1>8. Entered'
  <2>1. command.undo \in 0..Len(tokens')
    <3>1. Len(tokens) \in Nat /\ Len(tokens') \in Nat
      BY <1>2, <1>4
    <3>2. QED
      BY <1>1, <1>4, <3>1
  <2>2. QED
    BY <1>1, <1>3, <1>6, <2>1 DEF Entered, WellFormed
<1>9. Parted' /\ Asked' /\ Sending' /\ stage' \in Stages
  BY <1>3 DEF Parted, Asked, Sending, Stages
<1>10. PreviewsRefuseAlike'
  BY <1>1, <1>3 DEF PreviewsRefuseAlike
<1>11. RacedTokensInvert'
  BY WriteInverts
<1>12. (terminal => reuse)' /\ (stage' # "done" => before' = None)
  BY <1>1, <1>3
<1>13. QED
  BY <1>7, <1>8, <1>9, <1>10, <1>11, <1>12 DEF CInv

-----------------------------------------------------------------------------
(* The theorems                                                            *)

LEMMA CommandInitInv ==
    ASSUME CommandInit
    PROVE  CInv
<1>1. /\ Init /\ stage = "prompt" /\ before = None /\ yeses = 0 /\ (terminal => reuse)
  BY DEF CommandInit
<1>2. IInv
  BY <1>1, InitInv
<1>3. QED
  BY <1>1, <1>2 DEF CInv, Stages, Entered, Parted, Asked, Sending, RacedTokensInvert,
                    PreviewsRefuseAlike

LEMMA CommandStutter ==
    ASSUME CInv, UNCHANGED allVars
    PROVE  CInv'
<1>1. UNCHANGED <<vars, terminal, command, stage, yeses, seen, before, exit>>
  BY DEF allVars, commandVars
<1>2. /\ stage' \in Stages /\ Entered' /\ Parted' /\ Asked'
      /\ (stage' # "done" => before' = None)
  BY <1>1 DEF CInv, Entered, Parted, Asked, Asks, WellFormed, vars
<1>3. default' = default
  BY <1>1 DEF vars
<1>4. Sending'
  BY <1>1, <1>3, GuardsKept DEF CInv, Sending, Inventories
<1>5. RacedTokensInvert'
  BY <1>1, <1>3, CallKept, InverseKept
     DEF CInv, RacedTokensInvert, vars, Configured, Names, Idle, Overtaken
<1>6. PreviewsRefuseAlike'
  BY <1>1, <1>3, GuardsKept DEF CInv, PreviewsRefuseAlike, vars
<1>7. QED
  BY <1>1, <1>2, <1>4, <1>5, <1>6, QuietInv

LEMMA CommandNextInv ==
    ASSUME CInv, CommandNext
    PROVE  CInv'
<1>1. CASE Agent
  BY <1>1, AgentInv
<1>2. CASE \E v \in Vmids, n \in Nodes \cup {None} : EnterCommand(v, n)
  BY <1>2, EnterCommandInv
<1>3. CASE \E i \in DOMAIN tokens : EnterUndo(i)
  BY <1>3, EnterUndoInv
<1>4. CASE Preview
  BY <1>4, PreviewInv
<1>5. CASE Confirm
  BY <1>5, ConfirmInv
<1>6. CASE Decline
  BY <1>6, EndInv DEF Decline, Exit
<1>7. CASE Read
  BY <1>7, ReadInv
<1>8. CASE Write
  BY <1>8, WriteInv
<1>9. CASE WriteRefused
  BY <1>9, EndInv DEF WriteRefused, Exit
<1>10. QED
  BY <1>1, <1>2, <1>3, <1>4, <1>5, <1>6, <1>7, <1>8, <1>9 DEF CommandNext

\* The inductive invariant holds of a command and the agent beside it.
THEOREM CommandInvariance == CommandSpec => []CInv
<1>1. CommandInit => CInv
  BY CommandInitInv
<1>2. CInv /\ [CommandNext]_allVars => CInv'
  BY CommandNextInv, CommandStutter
<1>3. QED
  BY <1>1, <1>2, PTL DEF CommandSpec

\* With a command beside the agent, guests, archives, tokens and the trail keep
\* their types.
THEOREM CommandsKeepTypes == CommandSpec => []TypeOK
<1>1. CInv => TypeOK
  BY TypeOf DEF CInv
<1>2. QED
  BY <1>1, CommandInvariance, PTL

\* Every inverse on the trail undoes its call, with a command beside the agent.
THEOREM CommandsRestore == CommandSpec => []UndoRestores
<1>1. CInv => UndoRestores
  BY RestoringOf DEF CInv
<1>2. QED
  BY <1>1, CommandInvariance, PTL

\* The same of the tokens that delete, for the agent by itself: commands delete
\* and overwrite machines, and UndoRemovesOwnWork claims nothing of them.
THEOREM CommandsOwnWork == CommandSpec => []UndoRemovesOwnWork
<1>1. CInv => UndoRemovesOwnWork
  BY OwnWorkOf DEF CInv
<1>2. QED
  BY <1>1, CommandInvariance, PTL

\* The token of a command undoes what it wrote, whatever the agent wrote
\* between the command's reads and its write, except where Overtaken says.
THEOREM RacedTokens == CommandSpec => []RacedTokensInvert
<1>1. CInv => RacedTokensInvert
  BY DEF CInv
<1>2. QED
  BY <1>1, CommandInvariance, PTL

\* A preview that reads the guests refuses what the call's own guards refuse.
THEOREM PreviewsAlike == CommandSpec => []PreviewsRefuseAlike
<1>1. CInv => PreviewsRefuseAlike
  BY DEF CInv
<1>2. QED
  BY <1>1, CommandInvariance, PTL

LEMMA WriteLoses ==
    ASSUME CInv, Write, Loses(guests, guests')
    PROVE  yeses = 2
<1> DEFINE op == command.op
<1> SUFFICES ASSUME ~Asks(command) PROVE FALSE
  BY DEF Write, CInv, Asked
<1>1. op.tool \notin {"vm_delete", "backup_restore", "vm_snapshot_delete"}
  BY DEF Asks, Destructive
<1>2. guests \in Inventories /\ archives \in SUBSET Archives
  BY DEF CInv, IInv, Types
<1>3. /\ WellFormed(op, archives) /\ NodeTakes(guests, op, Host(seen, op)) /\ serial + 1 \in Nat
      /\ guests' = Effect(guests, op, serial + 1)
  BY WriteFacts
<1> HIDE DEF op
<1>4. /\ Target(op) \in Vmids
      /\ \E m \in {None} \cup Machines :
            /\ Changed(guests, op, archives, serial + 1, m)
            /\ guests' = [guests EXCEPT ![Target(op)] = m]
  BY <1>1, <1>2, <1>3, EffectShape
<1>5. PICK m \in {None} \cup Machines :
         /\ Changed(guests, op, archives, serial + 1, m)
         /\ guests' = [guests EXCEPT ![Target(op)] = m]
  BY <1>4
<1>6. guests'[Target(op)] = m /\ \A v \in Vmids : v # Target(op) => guests'[v] = guests[v]
  BY <1>2, <1>4, <1>5 DEF Inventories
<1>7. op.tool = "vm_clone" => guests[Target(op)] = None
  BY <1>3, TakesCases DEF Target
<1>8. op.tool # "vm_clone" =>
         /\ Target(op) = op.vmid /\ m # None /\ m.serial = guests[op.vmid].serial
         /\ guests[op.vmid].snap # None => m.snap = guests[op.vmid].snap
  BY <1>1, <1>5 DEF Changed, Target
<1>9. QED
  BY <1>6, <1>7, <1>8 DEF Loses

\* No command removes or overwrites a guest or a snapshot without two
\* confirmations, whatever the agent does while the command is under way.
THEOREM Loss == CommandSpec => NoLossUnasked
<1>1. CInv /\ [CommandNext]_allVars =>
         [stage = "writing" /\ stage' = "done" /\ Loses(guests, guests') => yeses = 2]_allVars
  <2> SUFFICES ASSUME CInv, CommandNext, stage = "writing", stage' = "done", Loses(guests, guests')
               PROVE  yeses = 2
    OBVIOUS
  <2>1. CASE Write
    BY <2>1, WriteLoses
  <2>2. CASE guests' = guests
    BY <2>2 DEF Loses
  <2>3. Write \/ guests' = guests
    BY DEF CommandNext, Agent, commandVars, EnterCommand, EnterUndo, Preview, Confirm, Decline,
           Read, WriteRefused, vars
  <2>4. QED
    BY <2>1, <2>2, <2>3
<1>2. QED
  BY <1>1, CommandInvariance, PTL DEF CommandSpec, NoLossUnasked
=============================================================================

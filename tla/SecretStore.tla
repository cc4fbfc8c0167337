----------------------------- MODULE SecretStore -----------------------------
(***************************************************************************)
(* The encrypted store of target secrets (secretstore.py), the commands    *)
(* that write it (cli/secret.py, cli/init.py), each a process of its own,  *)
(* the list of targets that the set-up wizard keeps beside it in           *)
(* config.yaml, and a server that resolves secrets from it (config.py).    *)
(*                                                                         *)
(* A writer unlocks the store, and then re-encrypts its own copy of the    *)
(* whole map: it truncates one fixed temporary file, writes it, and renames *)
(* it over secrets.enc.  No lock keeps two writers apart: overlap says     *)
(* whether they may run together.  Any process may die between two steps.  *)
(*                                                                         *)
(* A file's contents are torn from the truncation to the end of the        *)
(* writing.  A writer goes on writing to the file it opened when another   *)
(* writer has renamed that file to secrets.enc, or replaced it since.      *)
(* Encryption is what it does: a blob opens with its password only.  Salts *)
(* are left out.  config.yaml is rewritten in place; empty, as its         *)
(* truncation leaves it, it reads as a list without targets.               *)
(*                                                                         *)
(* Names and variables: config.py derives a target's variable from its     *)
(* name, upper case and '-' to '_'; the migration derives a name from a    *)
(* variable, lower case and '_' to '-'.  Two names may share a variable,   *)
(* and a name need not come back.                                          *)
(***************************************************************************)
EXTENDS Naturals, Sequences, FiniteSets

CONSTANTS Writers,
          Passwords,
          Names,        \* targets
          Values,       \* secrets
          EnvKeys,      \* variables of the form PROXMOX_..._SECRET
          EnvKey,       \* EnvKey[n]: the variable config.py asks for target n
          ImportName,   \* ImportName[k]: the name the migration stores k under
          Lines,        \* the lines of the plaintext .env that set a variable
          Environment,  \* the variables in the server's environment
          FirstMaps,    \* what may be stored before the behaviour begins
          MaxCommands,  \* writing commands in a behaviour
          None

ASSUME SecretAssumption ==
    /\ None \notin Names \cup Values \cup Passwords
    /\ IsFiniteSet(Writers)
    /\ EnvKey \in [Names -> EnvKeys]
    /\ ImportName \in [EnvKeys -> Names]
    /\ Lines \in Seq([key : EnvKeys, value : Values, read : BOOLEAN])
    /\ Environment \subseteq EnvKeys
    /\ MaxCommands \in Nat

VARIABLES overlap,   \* writers may run at the same time
          live,      \* the contents of secrets.enc, or None
          tmp,       \* the contents of secrets.enc.tmp, or None
          config,    \* the targets listed in config.yaml
          dotenv,    \* where the plaintext is: ".env" or ".env.migrated"
          commands,  \* writing commands so far
          writer,    \* writer[w]: its step, command, unlocked copy and file
          cache,     \* the server's _cached map, or None
          key,       \* the server's master password, or None
          answer,    \* the server's last answer
          held       \* history: names in the store ever since the server started

files == <<live, tmp, dotenv, config>>
server == <<cache, key, answer, held>>
vars == <<overlap, files, commands, writer, server>>

Maps  == [Names -> Values \cup {None}]
Empty == [n \in Names |-> None]

\* Contents of a file: torn, or a map under a password.
Torn == [password |-> None, map |-> Empty]
Blobs == [password : Passwords, map : Maps]

\* No contents of a file are its absence.
ASSUME ContentsAssumption ==
    /\ None \notin Maps \cup Blobs \cup {Torn}
    /\ FirstMaps \subseteq Maps

\* One target typed into the wizard.
Targets == [kind : {"init"}, name : Names, value : Values]

Commands ==
    [kind : {"set"}, name : Names, value : Values]
    \cup [kind : {"rm"}, name : Names]
    \cup [kind : {"rotate"}, password : Passwords]
    \cup [kind : {"migrate"}]
    \cup Targets

Idle == [step |-> "idle"]

\* No secret; of an answer from a variable: for which name, and whether the
\* store was there to be read.
NoAnswer == [source |-> "none", name |-> None, read |-> TRUE]

\* What a command or the server decrypts; a store that does not exist is empty.
Unlocked == IF live = None THEN Empty ELSE live.map

Stored == {n \in Names : Unlocked[n] # None}

\* No store yet, or one that was made earlier, with its targets listed.
Init ==
    /\ overlap \in BOOLEAN
    /\ live \in [password : Passwords, map : FirstMaps] \cup {None}
    /\ tmp = None
    /\ dotenv = ".env"
    /\ config = Stored
    /\ commands = 0
    /\ writer = [w \in Writers |-> Idle]
    /\ cache = None
    /\ key \in Passwords \cup {None}
    /\ answer = NoAnswer
    /\ held = Stored

-----------------------------------------------------------------------------
(* Writers                                                                 *)

\* SecretStore.unlock: a store that does not exist opens, empty, with any password.
Opens(password) == live # None => live.password = password

\* The lines the migration reads: one that says "export" first, or a key with
\* other ends, is skipped, and set aside with the rest.
ReadLines == {i \in DOMAIN Lines : Lines[i].read}

Imports(i) == ImportName[Lines[i].key]

\* The lines of .env a command has still to import.
Todo(command) == IF command.kind = "migrate" THEN ReadLines ELSE {}

\* A command unlocks the store; one it cannot open ends with an error.  A
\* name that is not stored cannot be deleted; no .env, or one without a line
\* that is read, means no import.
Unlock(w, command, password) ==
    /\ writer[w] = Idle
    /\ commands < MaxCommands
    /\ overlap \/ \A x \in Writers : writer[x] = Idle
    /\ Opens(password)
    /\ command.kind = "rm" => Unlocked[command.name] # None
    /\ command.kind = "migrate" => dotenv = ".env" /\ ReadLines # {}
    /\ writer' = [writer EXCEPT ![w] =
                     [step |-> "persist", command |-> command, password |-> password,
                      map |-> Unlocked, todo |-> Todo(command), file |-> "gone",
                      list |-> IF command.kind = "init" THEN config ELSE {}]]
    /\ commands' = commands + 1
    /\ UNCHANGED <<overlap, files, server>>

\* The map and the password a command leaves: one line of .env at a time.
Result(command, password, map, i) ==
    CASE command.kind \in {"set", "init"} ->
             [password |-> password, map |-> [map EXCEPT ![command.name] = command.value]]
      [] command.kind = "rm" ->
             [password |-> password, map |-> [map EXCEPT ![command.name] = None]]
      [] command.kind = "rotate" ->
             [password |-> command.password, map |-> map]
      [] command.kind = "migrate" ->
             [password |-> password, map |-> [map EXCEPT ![Imports(i)] = Lines[i].value]]

\* A writer starts to persist its map, with the next line of .env imported.
Persist(w, file) ==
    /\ writer[w].step = "persist"
    /\ \E i \in writer[w].todo \cup {0} :
          /\ i = 0 <=> writer[w].todo = {}
          /\ \A j \in writer[w].todo : i <= j
          /\ writer' = [writer EXCEPT
                 ![w].step = "write", ![w].file = file, ![w].todo = @ \ {i},
                 ![w].map = Result(writer[w].command, writer[w].password, @, i).map]
    /\ UNCHANGED <<overlap, dotenv, config, commands, server>>

\* Faulty: the live file is rewritten in place.
TruncateLive(w) == Persist(w, "live") /\ live' = Torn /\ tmp' = Torn

\* _persist opens secrets.enc.tmp, which truncates it or makes it.
Truncate(w) == Persist(w, "tmp") /\ tmp' = Torn /\ UNCHANGED live

\* What the writer has encrypted.
Blob(w) ==
    [password |-> IF writer[w].command.kind = "rotate"
                  THEN writer[w].command.password
                  ELSE writer[w].password,
     map |-> writer[w].map]

\* The names held that new contents of secrets.enc do not remove.
Kept(contents) ==
    IF contents \in {None, Torn} THEN held ELSE {n \in held : contents.map[n] # None}

Write(w) ==
    /\ writer[w].step = "write"
    /\ tmp' = IF writer[w].file = "tmp" THEN Blob(w) ELSE tmp
    /\ live' = IF writer[w].file = "live" THEN Blob(w) ELSE live
    /\ held' = Kept(live')
    /\ writer' = [writer EXCEPT ![w].step = "rename"]
    /\ UNCHANGED <<overlap, dotenv, config, commands, cache, key, answer>>

\* Where an open file is after secrets.enc.tmp was renamed over secrets.enc.
Moved(file) == CASE file = "tmp" -> "live" [] OTHER -> "gone"

\* Faulty: .env is set aside once its first line is imported.
NextStepEarly(w) ==
    CASE writer[w].command.kind = "init" -> "list"
      [] writer[w].command.kind = "migrate" -> "move"
      [] OTHER -> "done"

\* After a rename: the next line of .env, the list of targets, or the end.
NextStep(w) ==
    CASE writer[w].command.kind = "init" -> "list"
      [] writer[w].command.kind = "migrate" ->
             IF writer[w].todo = {} THEN "move" ELSE "persist"
      [] OTHER -> "done"

\* Faulty: the writer goes on with the file it has renamed.
AfterWithOpenFile(w) ==
    IF NextStep(w) = "done" THEN Idle ELSE [writer[w] EXCEPT !.step = NextStep(w)]

After(w) ==
    IF NextStep(w) = "done" THEN Idle
    ELSE [writer[w] EXCEPT !.step = NextStep(w), !.file = "gone"]

\* tmp.replace(secrets.enc); where another writer has renamed it, this fails.
Rename(w) ==
    /\ writer[w].step = "rename"
    /\ IF tmp # None
       THEN /\ live' = tmp
            /\ tmp' = None
            /\ writer' = [x \in Writers |->
                   IF x = w THEN After(w)
                   ELSE IF writer[x] = Idle THEN Idle
                   ELSE [writer[x] EXCEPT !.file = Moved(@)]]
            /\ held' = Kept(tmp)
       ELSE /\ writer' = [writer EXCEPT ![w] = Idle]
            /\ UNCHANGED <<live, tmp, held>>
    /\ UNCHANGED <<overlap, dotenv, config, commands, cache, key, answer>>

\* The plaintext is set aside once every line that is read is imported.
MoveAside(w) ==
    /\ writer[w].step = "move"
    /\ dotenv' = ".env.migrated"
    /\ writer' = [writer EXCEPT ![w] = Idle]
    /\ UNCHANGED <<overlap, live, tmp, config, commands, server>>

\* Faulty: the list is written while the secret is still to be stored.
ListsEarly(w) == writer[w].command.kind = "init" /\ writer[w].step \in {"persist", "list"}

\* The wizard has stored the secret of a target it has still to list.
Lists(w) == writer[w].step = "list"

\* _write_targets opens config.yaml, which truncates it or makes it.
TruncateConfig(w) ==
    /\ Lists(w)
    /\ config' = {}
    /\ writer' = [writer EXCEPT ![w].step = "listing"]
    /\ UNCHANGED <<overlap, live, tmp, dotenv, commands, server>>

\* A name that is listed already is listed once, with its new entry.
WriteConfig(w) ==
    /\ writer[w].step = "listing"
    /\ config' = writer[w].list \cup {writer[w].command.name}
    /\ writer' = [writer EXCEPT ![w].step = "again", ![w].list = config']
    /\ UNCHANGED <<overlap, live, tmp, dotenv, commands, server>>

\* Another target, typed into the same wizard with the copies it has.
Again(w, command) ==
    /\ writer[w].step = "again"
    /\ commands < MaxCommands
    /\ writer' = [writer EXCEPT ![w].step = "persist", ![w].command = command]
    /\ commands' = commands + 1
    /\ UNCHANGED <<overlap, files, server>>

\* A process dies, or a wizard that asks for another target is told to stop.
Crash(w) ==
    /\ writer[w] # Idle
    /\ writer' = [writer EXCEPT ![w] = Idle]
    /\ UNCHANGED <<overlap, files, commands, server>>

-----------------------------------------------------------------------------
(* The server                                                              *)

\* An error says that there is no secret, or why it cannot be had.
Fail == answer' = NoAnswer

\* The plaintext variable, or an error.
FallBack(n, read) ==
    IF EnvKey[n] \in Environment
    THEN answer' = [source |-> "env", name |-> n, read |-> read]
    ELSE Fail

FromMap(n, map) ==
    IF map[n] # None THEN answer' = [NoAnswer EXCEPT !.source = "store"]
                     ELSE FallBack(n, TRUE)

\* Faulty: a wrong password is taken for a missing secret.
RefuseToOpenSilently(n) == FallBack(n, TRUE)

\* A missing or wrong password is an error of its own; it never falls back.
RefuseToOpen(n) == Fail

\* SecretStore.unlock by a server without a copy.  A torn file cannot be read;
\* nor, at any time, may one without permission or of another version: it counts
\* as one without the secret.
UnlockFor(n) ==
    \/ key = None /\ RefuseToOpen(n) /\ UNCHANGED cache
    \/ key # None /\ FallBack(n, FALSE) /\ UNCHANGED cache
    \/ /\ key # None /\ live # Torn
       /\ IF Opens(key) THEN cache' = Unlocked /\ FromMap(n, Unlocked)
                        ELSE RefuseToOpen(n) /\ UNCHANGED cache

\* _resolve_secret: the store first, unlocked once per process, then the
\* variable.
Resolve(n) ==
    /\ IF live = None THEN FallBack(n, TRUE) /\ UNCHANGED cache
       ELSE IF cache # None THEN FromMap(n, cache) /\ UNCHANGED cache
       ELSE UnlockFor(n)
    /\ UNCHANGED <<overlap, files, commands, writer, key, held>>

RestartServer ==
    /\ cache' = None
    /\ key' \in Passwords \cup {None}
    /\ held' = Stored
    /\ answer' = NoAnswer
    /\ UNCHANGED <<overlap, files, commands, writer>>

-----------------------------------------------------------------------------
Next ==
    \/ \E w \in Writers :
          \/ \E command \in Commands, password \in Passwords : Unlock(w, command, password)
          \/ writer[w] # Idle /\ (Truncate(w) \/ Write(w) \/ Rename(w) \/ MoveAside(w))
          \/ writer[w] # Idle /\ (TruncateConfig(w) \/ WriteConfig(w) \/ Crash(w))
          \/ writer[w] # Idle /\ \E target \in Targets : Again(w, target)
    \/ \E n \in Names : Resolve(n)
    \/ RestartServer

Spec == Init /\ [][Next]_vars

-----------------------------------------------------------------------------
(* Properties                                                              *)

\* The files, and which file a writer has open.
TypeOK ==
    /\ live \in Blobs \cup {Torn, None}
    /\ tmp \in Blobs \cup {Torn, None}
    /\ dotenv \in {".env", ".env.migrated"}
    /\ config \subseteq Names
    /\ cache \in Maps \cup {None}
    /\ \A w \in Writers :
          \/ writer[w] = Idle
          \/ writer[w].step \in {"persist", "move", "list", "listing", "again"}
             /\ writer[w].file = "gone"
          \/ writer[w].step \in {"write", "rename"} /\ writer[w].file \in {"tmp", "live", "gone"}

\* What a reader of the live file sees.
Visible == IF live = None THEN Torn ELSE live

\* One whole command, or one line of a migration, applied to what was there.
WholeChange ==
    ~overlap /\ Visible' # Visible =>
        \E w \in Writers, i \in ReadLines \cup {0} :
            /\ writer[w].step = "rename"
            /\ Opens(writer[w].password)
            /\ writer[w].command.kind = "migrate" => i \in ReadLines
            /\ Visible' = Result(writer[w].command, writer[w].password, Visible.map, i)

\* One writer at a time, dying at any step: every change a reader can see is
\* one whole command, or one line of a migration, applied to what was there
\* just before.  No step and no crash leaves secrets.enc torn, loses another
\* secret, or strands it between two passwords.
ChangesAreWhole == [][WholeChange]_vars

\* The line whose value a migration leaves in the store for its name.
LastOfName(i) == i \in ReadLines /\ \A j \in ReadLines : j > i => Imports(j) # Imports(i)

WholeMigration ==
    ~overlap /\ dotenv' # dotenv =>
        \A i \in ReadLines : LastOfName(i) => Visible.map[Imports(i)] = Lines[i].value

\* One writer at a time: the plaintext is set aside only when every line of it
\* that the migration reads is in the store, under the name it derives, or has
\* been overwritten by a later line for that name; so a migration that died half
\* way is one that runs again.  Lines it does not read are set aside as well.
MigrationIsWhole == [][WholeMigration]_vars

ListedSecret ==
    ~overlap =>
        \A w \in Writers : writer[w] # Idle /\ config' # config /\ config' # {} =>
            Visible.map[writer[w].command.name] = writer[w].command.value

\* One writer at a time, the wizard dying at any step: when config.yaml comes to
\* list the target just typed, the store holds the secret typed with it, so that
\* this target is not listed without a secret, or with an older one.
ListedHaveSecrets == [][ListedSecret]_vars

StoreFirst ==
    \A n \in held :
        answer'.source = "env" /\ answer'.name = n /\ answer' # answer =>
            ~answer'.read /\ cache = None

\* The server answers with the plaintext variable for a name that has been in
\* the store ever since the server started only if it has no copy of the store
\* and cannot read the file: whatever password it was started with, or none,
\* whatever any number of overlapping writers do, and however old its copy is.
StoreComesFirst == [][StoreFirst]_vars
=============================================================================

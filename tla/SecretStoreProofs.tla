-------------------------- MODULE SecretStoreProofs --------------------------
(***************************************************************************)
(* Proofs about SecretStore, for any number of writers, targets, secrets   *)
(* and passwords, any .env and any number of commands.                     *)
(***************************************************************************)
EXTENDS SecretStore, TLAPS

Steps == {"persist", "write", "rename", "move", "list", "listing", "again"}

\* A writer at work.
Records ==
    [step : Steps, command : Commands, password : Passwords, map : Maps,
     todo : SUBSET ReadLines, file : {"tmp", "live", "gone"}, list : SUBSET Names]

Types ==
    /\ overlap \in BOOLEAN
    /\ live \in Blobs \cup {Torn, None}
    /\ tmp \in Blobs \cup {Torn, None}
    /\ config \in SUBSET Names
    /\ dotenv \in {".env", ".env.migrated"}
    /\ writer \in [Writers -> {Idle} \cup Records]
    /\ cache \in Maps \cup {None}
    /\ key \in Passwords \cup {None}
    /\ held \in SUBSET Names

\* Which commands get to which step, and with which file open.
StepInv(w) ==
    /\ writer[w].step \in {"list", "listing", "again"} => writer[w].command.kind = "init"
    /\ writer[w].step = "move" => writer[w].command.kind = "migrate" /\ writer[w].todo = {}
    /\ writer[w].step = "persist" =>
          (writer[w].command.kind = "migrate" <=> writer[w].todo # {})
    /\ writer[w].todo # {} => writer[w].command.kind = "migrate"
    /\ writer[w].file # "gone" => writer[w].step \in {"write", "rename"}

\* Only one writer is at work.
Alone == \A v, w \in Writers : writer[v] # Idle /\ writer[w] # Idle => v = w

\* The map of a writer that has stored nothing since it last read or stored.
Fresh(w) == Opens(writer[w].password) /\ writer[w].map = Visible.map

\* What a writer is about to put in place of the store.
Prepared(w) ==
    /\ Opens(writer[w].password)
    /\ \E i \in ReadLines \cup {0} :
          /\ writer[w].command.kind = "migrate" => i \in ReadLines
          /\ Blob(w) = Result(writer[w].command, writer[w].password, Visible.map, i)

\* Of the lines passed so far, the last of each name has set its secret.
Imported(map, passed) ==
    \A i \in passed :
        (\A j \in passed : j > i => Imports(j) # Imports(i)) => map[Imports(i)] = Lines[i].value

\* The lines are passed in the order of the file.
InOrder(passed, todo) == \A i \in passed, j \in todo : i < j

\* A writer that is alone, and what it knows of the store.
SoloInv(w) ==
    /\ writer[w].file # "live"
    /\ writer[w].step \in {"write", "rename"} => writer[w].file = "tmp" /\ Prepared(w)
    /\ writer[w].step = "rename" => tmp = Blob(w)
    /\ writer[w].step \notin {"write", "rename"} => Fresh(w)
    /\ writer[w].command.kind = "migrate" =>
          /\ Imported(writer[w].map, ReadLines \ writer[w].todo)
          /\ InOrder(ReadLines \ writer[w].todo, writer[w].todo)
    /\ writer[w].step \in {"write", "rename", "list", "listing"} /\ writer[w].command.kind = "init" =>
          writer[w].map[writer[w].command.name] = writer[w].command.value

\* What the server may rely on.
ServerInv ==
    /\ live # Torn => \A n \in held : Unlocked[n] # None
    /\ cache # None => \A n \in held : cache[n] # None

IInv ==
    /\ Types
    /\ \A w \in Writers : writer[w] # Idle => StepInv(w)
    /\ ServerInv
    /\ ~overlap =>
          /\ Alone
          /\ \A w \in Writers : writer[w] # Idle => SoloInv(w)
          /\ live # Torn

-----------------------------------------------------------------------------
LEMMA CommandFacts ==
    ASSUME NEW c \in Commands
    PROVE  /\ c.kind \in {"set", "rm", "rotate", "migrate", "init"}
           /\ c.kind \in {"set", "init"} => c.name \in Names /\ c.value \in Values
           /\ c.kind = "rm" => c.name \in Names
           /\ c.kind = "rotate" => c.password \in Passwords
           /\ c.kind = "init" => c \in Targets
BY DEF Commands, Targets

LEMMA TargetFacts ==
    ASSUME NEW c \in Targets
    PROVE  c \in Commands /\ c.kind = "init" /\ c.name \in Names /\ c.value \in Values
BY DEF Commands, Targets

LEMMA RecordFacts ==
    ASSUME NEW r \in Records
    PROVE  /\ r # Idle
           /\ r.step \in Steps /\ r.command \in Commands /\ r.password \in Passwords
           /\ r.map \in Maps /\ r.todo \in SUBSET ReadLines
           /\ r.file \in {"tmp", "live", "gone"} /\ r.list \in SUBSET Names
           /\ DOMAIN r = {"step", "command", "password", "map", "todo", "file", "list"}
<1>1. r.step # "idle"
  BY DEF Records, Steps
<1>2. QED
  BY <1>1 DEF Records, Idle

\* None is the absence of a file or of a copy.
LEMMA Absence ==
    /\ None \notin Maps /\ None \notin Blobs /\ None # Torn
    /\ None \notin Names /\ None \notin Values /\ None \notin Passwords
    /\ Torn \notin Blobs /\ Empty \in Maps /\ Torn.map = Empty
    /\ \A b \in Blobs : b.password \in Passwords /\ b.map \in Maps
    /\ \A n \in Names : Empty[n] = None
BY SecretAssumption, ContentsAssumption DEF Torn, Blobs, Maps, Empty

LEMMA LineFacts ==
    /\ ReadLines \subseteq Nat \ {0}
    /\ \A i \in ReadLines : Imports(i) \in Names /\ Lines[i].value \in Values
<1> DEFINE Line == [key : EnvKeys, value : Values, read : BOOLEAN]
<1>1. Lines \in Seq(Line)
  BY SecretAssumption
<1> HIDE DEF Line
<1>2. /\ DOMAIN Lines = 1 .. Len(Lines) /\ Len(Lines) \in Nat
      /\ \A i \in DOMAIN Lines : Lines[i] \in Line
  BY <1>1
<1>3. ReadLines \subseteq DOMAIN Lines
  BY DEF ReadLines
<1>4. ASSUME NEW i \in ReadLines PROVE Imports(i) \in Names /\ Lines[i].value \in Values
  BY SecretAssumption, <1>2, <1>3 DEF Imports, Line
<1>5. QED
  BY <1>2, <1>3, <1>4

\* A command leaves a whole map under a password.
LEMMA ResultType ==
    ASSUME NEW c \in Commands, NEW password \in Passwords, NEW map \in Maps,
           NEW i, c.kind = "migrate" => i \in ReadLines
    PROVE  Result(c, password, map, i) \in Blobs
BY CommandFacts, LineFacts, SecretAssumption DEF Result, Blobs, Maps

LEMMA ResultShape ==
    ASSUME NEW c \in Commands, NEW password \in Passwords, NEW map \in Maps,
           NEW i, c.kind = "migrate" => i \in ReadLines
    PROVE  Result(c, password, map, i) =
               [password |-> IF c.kind = "rotate" THEN c.password ELSE password,
                map |-> Result(c, password, map, i).map]
BY CommandFacts DEF Result

LEMMA BlobType == ASSUME Types, NEW w \in Writers, writer[w] # Idle PROVE Blob(w) \in Blobs
<1>1. writer[w] \in Records
  BY DEF Types
<1>2. writer[w].command \in Commands /\ writer[w].map \in Maps /\ writer[w].password \in Passwords
  BY <1>1, RecordFacts
<1>3. QED
  BY <1>2, CommandFacts DEF Blob, Blobs

\* A step after which secrets.enc, the copy and the names held are the same.
LEMMA ServerSame ==
    ASSUME IInv, UNCHANGED <<live, cache, held, overlap>>
    PROVE  ServerInv' /\ (~overlap => live' # Torn)
BY DEF IInv, ServerInv, Unlocked

\* A step that gives secrets.enc new contents.
LEMMA ServerAfter ==
    ASSUME IInv, NEW contents \in Blobs \cup {Torn}, live' = contents, held' = Kept(contents),
           cache' = cache
    PROVE  ServerInv'
<1>1. contents # None /\ live' # None
  BY Absence
<1>2. held' \subseteq held
  BY DEF Kept
<1>3. CASE contents = Torn
  BY <1>2, <1>3 DEF IInv, ServerInv
<1>4. CASE contents # Torn
  BY <1>1, <1>2, <1>4 DEF IInv, ServerInv, Kept, Unlocked
<1>5. QED
  BY <1>3, <1>4

\* A step that changes one writer keeps the invariant if it does for that one.
LEMMA StepOfOne ==
    ASSUME IInv, NEW w \in Writers,
           writer[w] # Idle \/ overlap \/ \A x \in Writers : writer[x] = Idle,
           NEW r \in {Idle} \cup Records, writer' = [writer EXCEPT ![w] = r], overlap' = overlap,
           Types',
           r # Idle => StepInv(w)',
           ~overlap /\ r # Idle => SoloInv(w)',
           ServerInv', ~overlap => live' # Torn
    PROVE  IInv'
<1>1. writer'[w] = r /\ \A x \in Writers \ {w} : writer'[x] = writer[x]
  BY DEF IInv, Types
<1>2. \A x \in Writers : writer'[x] # Idle => StepInv(x)'
  <2> SUFFICES ASSUME NEW x \in Writers, writer'[x] # Idle PROVE StepInv(x)'
    OBVIOUS
  <2>1. CASE x = w
    BY <1>1, <2>1
  <2>2. CASE x # w
    BY <1>1, <2>2 DEF IInv, StepInv
  <2>3. QED
    BY <2>1, <2>2
<1>3. ASSUME ~overlap PROVE \A x \in Writers \ {w} : writer'[x] = Idle
  BY <1>1, <1>3 DEF IInv, Alone
<1>4. ASSUME ~overlap PROVE Alone' /\ \A x \in Writers : writer'[x] # Idle => SoloInv(x)'
  BY <1>1, <1>3, <1>4 DEF Alone
<1>5. QED
  BY <1>2, <1>4 DEF IInv

LEMMA InitInv == Init => IInv
<1> SUFFICES ASSUME Init PROVE IInv
  OBVIOUS
<1>1. live \in Blobs \cup {None}
  BY ContentsAssumption DEF Init, Blobs
<1>2. Types
  BY <1>1 DEF Init, Types, Stored
<1>3. \A w \in Writers : writer[w] = Idle
  BY DEF Init
<1>4. ServerInv
  BY DEF Init, ServerInv, Stored
<1>5. live # Torn
  BY <1>1, Absence
<1>6. QED
  BY <1>2, <1>3, <1>4, <1>5 DEF IInv, Alone

LEMMA VisibleIsUnlocked == ASSUME IInv, ~overlap PROVE Visible.map = Unlocked
BY Absence DEF Visible, Unlocked

LEMMA UnlockedType == ASSUME Types, live # Torn PROVE Unlocked \in Maps
BY Absence DEF Types, Unlocked

LEMMA UnlockInv ==
    ASSUME IInv, NEW w \in Writers, NEW command \in Commands, NEW password \in Passwords,
           Unlock(w, command, password)
    PROVE  IInv'
<1> DEFINE r == [step |-> "persist", command |-> command, password |-> password,
                 map |-> Unlocked, todo |-> Todo(command), file |-> "gone",
                 list |-> IF command.kind = "init" THEN config ELSE {}]
<1>1. Unlocked \in Maps
  <2>1. live # Torn
    BY Absence DEF Unlock, Opens, Torn
  <2>2. QED
    BY <2>1, UnlockedType DEF IInv
<1>2. r \in Records
  <2>1. Todo(command) \in SUBSET ReadLines
    BY DEF Todo
  <2>2. config \in SUBSET Names
    BY DEF IInv, Types
  <2>3. QED
    BY <1>1, <2>1, <2>2 DEF Records, Steps
<1>3. writer' = [writer EXCEPT ![w] = r]
  BY DEF Unlock
<1>4. UNCHANGED <<overlap, live, tmp, dotenv, config, cache, key, answer, held>>
  BY DEF Unlock, files, server
<1> HIDE DEF r
<1>5. Types' /\ writer'[w] = r
  BY <1>2, <1>3, <1>4 DEF IInv, Types
<1>6. StepInv(w)'
  BY <1>5, CommandFacts DEF StepInv, Unlock, Todo, r
<1>7. ASSUME ~overlap PROVE SoloInv(w)'
  <2>1. Opens(password)' /\ Visible'.map = Unlocked
    BY <1>4, <1>7, VisibleIsUnlocked DEF Unlock, Opens, Visible
  <2>2. Fresh(w)'
    BY <1>5, <2>1 DEF Fresh, r
  <2>3. QED
    BY <1>5, <2>2, <1>1 DEF SoloInv, r, Todo, Imported, InOrder
<1>8. ServerInv' /\ (~overlap => live' # Torn)
  BY <1>4, ServerSame
<1>9. writer[w] # Idle \/ overlap \/ \A x \in Writers : writer[x] = Idle
  BY DEF Unlock
<1>10. QED
  BY <1>2, <1>3, <1>4, <1>5, <1>6, <1>7, <1>8, <1>9, StepOfOne

\* What the invariant says of a writer at work.
LEMMA AtWork ==
    ASSUME IInv, NEW w \in Writers, writer[w] # Idle
    PROVE  /\ writer[w] \in Records
           /\ StepInv(w)
           /\ ~overlap => SoloInv(w)
BY DEF IInv, Types

LEMMA TruncateInv ==
    ASSUME IInv, NEW w \in Writers, writer[w] # Idle, Truncate(w) PROVE IInv'
<1>1. PICK i \in writer[w].todo \cup {0} :
          /\ i = 0 <=> writer[w].todo = {}
          /\ \A j \in writer[w].todo : i <= j
          /\ writer' = [writer EXCEPT
                 ![w].step = "write", ![w].file = "tmp", ![w].todo = @ \ {i},
                 ![w].map = Result(writer[w].command, writer[w].password, @, i).map]
  BY DEF Truncate, Persist
<1> DEFINE old == writer[w]
           new == Result(old.command, old.password, old.map, i)
           r == [old EXCEPT !.step = "write", !.file = "tmp", !.todo = old.todo \ {i},
                            !.map = new.map]
<1>2. old \in Records /\ StepInv(w) /\ (~overlap => SoloInv(w)) /\ old.step = "persist"
  BY AtWork DEF Truncate, Persist
<1>3. old.command.kind = "migrate" => i \in old.todo /\ i \in ReadLines
  BY <1>1, <1>2, RecordFacts DEF StepInv
<1>4. new \in Blobs /\ new.map \in Maps
  BY <1>2, <1>3, RecordFacts, ResultType, Absence
<1>5. r \in Records
  BY <1>2, <1>4 DEF Records, Steps
<1>6. writer' = [writer EXCEPT ![w] = r]
  BY <1>1, <1>2 DEF IInv, Types
<1>7. UNCHANGED <<overlap, live, dotenv, config, cache, key, answer, held>> /\ tmp' = Torn
  BY DEF Truncate, Persist, server
<1>8. Types' /\ writer'[w] = r
  BY <1>5, <1>6, <1>7 DEF IInv, Types
<1>9. /\ r.step = "write" /\ r.file = "tmp" /\ r.todo = old.todo \ {i} /\ r.map = new.map
      /\ r.command = old.command /\ r.password = old.password /\ r.list = old.list
  BY <1>2 DEF Records
<1> HIDE DEF r, new
<1>10. StepInv(w)'
  BY <1>2, <1>8, <1>9 DEF StepInv
<1>11. ASSUME ~overlap PROVE SoloInv(w)'
  <2>1. Fresh(w)
    BY <1>2, <1>11 DEF SoloInv
  <2>2. Opens(writer[w].password)' /\ Visible' = Visible
    BY <1>7, <1>8, <1>9, <2>1 DEF Fresh, Opens, Visible
  <2>3. Blob(w)' = new
    BY <1>2, <1>3, <1>8, <1>9, ResultShape, RecordFacts DEF Blob, new
  <2>4. new = Result(writer[w].command, writer[w].password, Visible.map, i)'
    BY <1>8, <1>9, <2>1, <2>2 DEF Fresh, new
  <2>5. i \in ReadLines \cup {0}
    BY <1>2, RecordFacts
  <2>6. Prepared(w)'
    BY <1>3, <1>8, <1>9, <2>2, <2>3, <2>4, <2>5 DEF Prepared
  <2>7. ASSUME r.command.kind = "migrate"
        PROVE  Imported(r.map, ReadLines \ r.todo) /\ InOrder(ReadLines \ r.todo, r.todo)
    <3> DEFINE passed == ReadLines \ old.todo
    <3>1. /\ Imported(old.map, passed) /\ InOrder(passed, old.todo)
          /\ i \in old.todo /\ i \in ReadLines /\ ReadLines \ r.todo = passed \cup {i}
      BY <1>2, <1>3, <1>9, <1>11, <2>7 DEF SoloInv
    <3>2. r.map = [old.map EXCEPT ![Imports(i)] = Lines[i].value] /\ old.map \in Maps
      BY <1>2, <1>9, <2>7, RecordFacts DEF new, Result
    <3>3. passed \subseteq Nat /\ i \in Nat /\ old.todo \subseteq Nat
      BY <1>2, <3>1, RecordFacts, LineFacts
    <3> HIDE DEF passed
    <3>4. InOrder(passed \cup {i}, r.todo)
      BY <1>1, <1>9, <3>1, <3>3 DEF InOrder
    <3>5. Imported(r.map, passed \cup {i})
      <4> SUFFICES ASSUME NEW k \in passed \cup {i},
                          \A j \in passed \cup {i} : j > k => Imports(j) # Imports(k)
                   PROVE  r.map[Imports(k)] = Lines[k].value
        BY DEF Imported
      <4>1. Imports(i) \in Names
        BY <3>1, LineFacts
      <4>2. CASE k = i
        BY <3>2, <4>1, <4>2 DEF Maps
      <4>3. CASE k # i
        <5>1. k \in passed /\ i > k
          BY <3>1, <3>3, <4>3 DEF InOrder
        <5>2. Imports(i) # Imports(k)
          BY <5>1
        <5>3. old.map[Imports(k)] = Lines[k].value
          BY <3>1, <5>1 DEF Imported
        <5>4. QED
          BY <3>2, <5>2, <5>3 DEF Maps
      <4>4. QED
        BY <4>2, <4>3
    <3>6. QED
      BY <3>1, <3>4, <3>5
  <2>8. r.command.kind = "init" => r.map[r.command.name] = r.command.value
    <3> SUFFICES ASSUME r.command.kind = "init"
                 PROVE  r.map[r.command.name] = r.command.value
      OBVIOUS
    <3>1. new.map = [old.map EXCEPT ![old.command.name] = old.command.value]
      BY <1>9 DEF new, Result
    <3>2. old.map \in Maps /\ old.command.name \in Names
      BY <1>2, <1>9, RecordFacts, CommandFacts
    <3>3. QED
      BY <1>9, <3>1, <3>2 DEF Maps
  <2>9. QED
    BY <1>8, <1>9, <2>6, <2>7, <2>8 DEF SoloInv
<1>12. ServerInv' /\ (~overlap => live' # Torn)
  BY <1>7, ServerSame
<1>13. QED
  BY <1>5, <1>6, <1>7, <1>8, <1>10, <1>11, <1>12, StepOfOne

LEMMA WriteInv ==
    ASSUME IInv, NEW w \in Writers, writer[w] # Idle, Write(w) PROVE IInv'
<1> DEFINE old == writer[w]
           r == [old EXCEPT !.step = "rename"]
<1>1. old \in Records /\ StepInv(w) /\ (~overlap => SoloInv(w)) /\ old.step = "write"
  BY AtWork DEF Write
<1>2. /\ r \in Records
      /\ r.step = "rename" /\ r.file = old.file /\ r.todo = old.todo /\ r.map = old.map
      /\ r.command = old.command /\ r.password = old.password
  BY <1>1 DEF Records, Steps
<1>3. writer' = [writer EXCEPT ![w] = r]
  BY DEF Write
<1>4. /\ UNCHANGED <<overlap, dotenv, config, cache, key, answer>>
      /\ tmp' \in {tmp, Blob(w)} /\ live' \in {live, Blob(w)} /\ held' = Kept(live')
      /\ old.file = "tmp" => tmp' = Blob(w) /\ live' = live
  BY DEF Write
<1> HIDE DEF r
<1>5. Types' /\ writer'[w] = r
  <2>1. Blob(w) \in Blobs
    BY BlobType DEF IInv
  <2>2. QED
    BY <1>2, <1>3, <1>4, <2>1 DEF IInv, Types, Kept
<1>6. StepInv(w)'
  BY <1>1, <1>2, <1>5 DEF StepInv
<1>7. ServerInv'
  <2>1. Blob(w) \in Blobs
    BY BlobType DEF IInv
  <2>2. CASE live' = None
    BY <1>4, <2>1, <2>2, Absence, ServerSame DEF Kept, IInv, ServerInv, Unlocked
  <2>3. CASE live' # None
    BY <1>4, <2>1, <2>3, ServerAfter DEF IInv, Types
  <2>4. QED
    BY <2>2, <2>3
<1>8. ASSUME ~overlap PROVE SoloInv(w)' /\ live' # Torn
  <2>1. old.file = "tmp" /\ tmp' = Blob(w) /\ live' = live /\ Visible' = Visible
    BY <1>1, <1>4, <1>8 DEF SoloInv, Visible
  <2>2. Blob(w)' = Blob(w)
    BY <1>2, <1>5 DEF Blob
  <2>3. Prepared(w)'
    BY <1>1, <1>2, <1>5, <1>8, <2>1, <2>2 DEF SoloInv, Prepared, Opens
  <2>4. SoloInv(w)'
    BY <1>1, <1>2, <1>5, <1>8, <2>1, <2>2, <2>3 DEF SoloInv
  <2>5. QED
    BY <1>8, <2>1, <2>4 DEF IInv
<1>9. QED
  BY <1>2, <1>3, <1>4, <1>5, <1>6, <1>7, <1>8, StepOfOne

\* What a writer becomes by its rename.
LEMMA AfterFacts ==
    ASSUME Types, NEW w \in Writers, writer[w] # Idle, writer[w].step = "rename"
    PROVE  \/ After(w) = Idle
           \/ /\ After(w) \in Records
              /\ After(w).step = NextStep(w) /\ After(w).step \in {"list", "move", "persist"}
              /\ After(w).file = "gone" /\ After(w).todo = writer[w].todo
              /\ After(w).map = writer[w].map /\ After(w).command = writer[w].command
              /\ After(w).password = writer[w].password
<1>1. writer[w] \in Records /\ NextStep(w) \in {"list", "move", "persist", "done"}
  BY DEF Types, NextStep
<1>2. CASE NextStep(w) = "done"
  BY <1>2 DEF After
<1>3. CASE NextStep(w) # "done"
  <2>1. After(w) = [writer[w] EXCEPT !.step = NextStep(w), !.file = "gone"]
    BY <1>3 DEF After
  <2>2. NextStep(w) \in {"list", "move", "persist"}
    BY <1>1, <1>3
  <2> HIDE DEF NextStep
  <2>3. QED
    BY <1>1, <2>1, <2>2 DEF Records, Steps
<1>4. QED
  BY <1>2, <1>3

LEMMA RenameFails ==
    ASSUME IInv, NEW w \in Writers, writer[w] # Idle, Rename(w), tmp = None PROVE IInv'
<1>1. /\ writer' = [writer EXCEPT ![w] = Idle]
      /\ UNCHANGED <<overlap, live, tmp, dotenv, config, cache, key, held>>
  BY DEF Rename
<1>2. Types'
  BY <1>1 DEF IInv, Types
<1>3. ServerInv' /\ (~overlap => live' # Torn)
  BY <1>1, ServerSame
<1>4. QED
  BY <1>1, <1>2, <1>3, StepOfOne

LEMMA RenameInv ==
    ASSUME IInv, NEW w \in Writers, writer[w] # Idle, Rename(w), tmp # None PROVE IInv'
<1> DEFINE old == writer[w]
           moved(x) == [writer[x] EXCEPT !.file = Moved(@)]
<1>1. /\ live' = tmp /\ tmp' = None
      /\ writer' = [x \in Writers |-> IF x = w THEN After(w)
                                      ELSE IF writer[x] = Idle THEN Idle ELSE moved(x)]
      /\ held' = Kept(tmp)
      /\ UNCHANGED <<overlap, dotenv, config, cache, key>>
  BY DEF Rename
<1>2. old \in Records /\ StepInv(w) /\ (~overlap => SoloInv(w)) /\ old.step = "rename"
  BY AtWork DEF Rename
<1>3. \A x \in Writers : writer[x] # Idle =>
          /\ moved(x) \in Records
          /\ moved(x).step = writer[x].step /\ moved(x).command = writer[x].command
          /\ moved(x).todo = writer[x].todo
          /\ moved(x).file \in {"live", "gone"}
          /\ moved(x).file = "live" => writer[x].file = "tmp"
  <2> SUFFICES ASSUME NEW x \in Writers, writer[x] # Idle
               PROVE  /\ moved(x) \in Records
                      /\ moved(x).step = writer[x].step /\ moved(x).command = writer[x].command
                      /\ moved(x).todo = writer[x].todo
                      /\ moved(x).file \in {"live", "gone"}
                      /\ moved(x).file = "live" => writer[x].file = "tmp"
    OBVIOUS
  <2>1. writer[x] \in Records
    BY DEF IInv, Types
  <2>2. /\ Moved(writer[x].file) \in {"live", "gone"}
        /\ Moved(writer[x].file) = "live" => writer[x].file = "tmp"
    BY DEF Moved
  <2>3. QED
    BY <2>1, <2>2 DEF Records
<1> HIDE DEF moved
<1>4. writer'[w] = After(w)
      /\ \A x \in Writers \ {w} : writer'[x] = IF writer[x] = Idle THEN Idle ELSE moved(x)
  BY <1>1
<1>5. \/ After(w) = Idle
      \/ /\ After(w) \in Records
         /\ After(w).step = NextStep(w) /\ After(w).step \in {"list", "move", "persist"}
         /\ After(w).file = "gone" /\ After(w).todo = old.todo
         /\ After(w).map = old.map /\ After(w).command = old.command
         /\ After(w).password = old.password
  BY <1>2, AfterFacts DEF IInv
<1>6. Types'
  <2>1. writer' \in [Writers -> {Idle} \cup Records]
    BY <1>1, <1>3, <1>5
  <2>2. QED
    BY <1>1, <2>1 DEF IInv, Types, Kept
<1>7. \A x \in Writers : writer'[x] # Idle => StepInv(x)'
  <2> SUFFICES ASSUME NEW x \in Writers, writer'[x] # Idle PROVE StepInv(x)'
    OBVIOUS
  <2>1. CASE x = w
    BY <1>2, <1>4, <1>5, <2>1 DEF StepInv, NextStep
  <2>2. CASE x # w
    <3>1. writer[x] # Idle /\ writer'[x] = moved(x) /\ StepInv(x)
      BY <1>4, <2>2 DEF IInv
    <3>2. QED
      BY <1>3, <3>1 DEF StepInv
  <2>3. QED
    BY <2>1, <2>2
<1>8. ASSUME ~overlap
      PROVE  Alone' /\ (\A x \in Writers : writer'[x] # Idle => SoloInv(x)') /\ live' # Torn
  <2>1. \A x \in Writers \ {w} : writer'[x] = Idle
    BY <1>4, <1>8 DEF IInv, Alone
  <2>2. tmp = Blob(w) /\ tmp \in Blobs /\ Prepared(w) /\ Visible' = tmp
    BY <1>1, <1>2, <1>8, BlobType, Absence DEF SoloInv, IInv, Visible
  <2>3. ASSUME After(w) # Idle PROVE SoloInv(w)'
    <3>1. old.command.kind \in {"init", "migrate"}
      BY <2>3 DEF NextStep, After
    <3>2. tmp.password = old.password /\ tmp.map = old.map
      BY <2>2, <3>1 DEF Blob
    <3>3. Fresh(w)'
      BY <1>1, <1>4, <1>5, <2>2, <2>3, <3>2 DEF Fresh, Opens
    <3>4. QED
      BY <1>2, <1>4, <1>5, <1>8, <2>3, <3>3 DEF SoloInv
  <2>4. live' # Torn
    BY <1>1, <2>2, Absence
  <2>5. QED
    BY <1>4, <2>1, <2>3, <2>4 DEF Alone
<1>9. ServerInv'
  BY <1>1, ServerAfter DEF IInv, Types
<1>10. QED
  BY <1>1, <1>6, <1>7, <1>8, <1>9 DEF IInv

LEMMA MoveAsideInv ==
    ASSUME IInv, NEW w \in Writers, writer[w] # Idle, MoveAside(w) PROVE IInv'
<1>1. /\ writer' = [writer EXCEPT ![w] = Idle] /\ dotenv' = ".env.migrated"
      /\ UNCHANGED <<overlap, live, tmp, config, cache, key, held>>
  BY DEF MoveAside, server
<1>2. Types'
  BY <1>1 DEF IInv, Types
<1>3. ServerInv' /\ (~overlap => live' # Torn)
  BY <1>1, ServerSame
<1>4. QED
  BY <1>1, <1>2, <1>3, StepOfOne

LEMMA CrashInv ==
    ASSUME IInv, NEW w \in Writers, Crash(w) PROVE IInv'
<1>1. /\ writer' = [writer EXCEPT ![w] = Idle] /\ writer[w] # Idle
      /\ UNCHANGED <<overlap, live, tmp, dotenv, config, cache, key, held>>
  BY DEF Crash, files, server
<1>2. Types'
  BY <1>1 DEF IInv, Types
<1>3. ServerInv' /\ (~overlap => live' # Torn)
  BY <1>1, ServerSame
<1>4. QED
  BY <1>1, <1>2, <1>3, StepOfOne

\* A step of the wizard that leaves the store and what it knows of it alone.
LEMMA WizardStep ==
    ASSUME IInv, NEW w \in Writers, writer[w] # Idle, writer[w].step \in {"list", "listing", "again"},
           NEW r \in Records, writer' = [writer EXCEPT ![w] = r],
           r.step \in {"listing", "again", "persist"},
           r.command.kind = "init",
           r.file = writer[w].file /\ r.map = writer[w].map /\ r.password = writer[w].password,
           r.todo = writer[w].todo,
           r.step = "listing" => r.command = writer[w].command /\ writer[w].step = "list",
           UNCHANGED <<overlap, live, tmp, dotenv, cache, key, held>>, config' \in SUBSET Names
    PROVE  IInv'
<1>1. StepInv(w) /\ (~overlap => SoloInv(w))
  BY AtWork
<1>2. Types' /\ writer'[w] = r
  BY DEF IInv, Types
<1>3. StepInv(w)'
  BY <1>1, <1>2 DEF StepInv
<1>4. ASSUME ~overlap PROVE SoloInv(w)'
  <2>1. Fresh(w)'
    BY <1>1, <1>2, <1>4 DEF SoloInv, Fresh, Opens, Visible
  <2>2. QED
    BY <1>1, <1>2, <1>4, <2>1 DEF SoloInv
<1>5. ServerInv' /\ (~overlap => live' # Torn)
  BY ServerSame
<1>6. QED
  BY <1>2, <1>3, <1>4, <1>5, StepOfOne

LEMMA TruncateConfigInv ==
    ASSUME IInv, NEW w \in Writers, writer[w] # Idle, TruncateConfig(w) PROVE IInv'
<1> DEFINE r == [writer[w] EXCEPT !.step = "listing"]
<1>1. writer[w] \in Records /\ StepInv(w) /\ writer[w].step = "list"
  BY AtWork DEF TruncateConfig, Lists
<1>2. /\ r \in Records /\ r.step = "listing" /\ r.file = writer[w].file /\ r.map = writer[w].map
      /\ r.password = writer[w].password /\ r.todo = writer[w].todo
      /\ r.command = writer[w].command
  BY <1>1 DEF Records, Steps
<1>3. writer' = [writer EXCEPT ![w] = r]
      /\ UNCHANGED <<overlap, live, tmp, dotenv, cache, key, held>> /\ config' = {}
  BY DEF TruncateConfig, server
<1> HIDE DEF r
<1>4. QED
  BY <1>1, <1>2, <1>3, WizardStep DEF StepInv

LEMMA WriteConfigInv ==
    ASSUME IInv, NEW w \in Writers, writer[w] # Idle, WriteConfig(w) PROVE IInv'
<1> DEFINE r == [writer[w] EXCEPT !.step = "again", !.list = config']
<1>1. writer[w] \in Records /\ StepInv(w) /\ writer[w].step = "listing"
  BY AtWork DEF WriteConfig
<1>2. config' \in SUBSET Names
  BY <1>1, RecordFacts, CommandFacts DEF WriteConfig, StepInv
<1>3. /\ r \in Records /\ r.step = "again" /\ r.file = writer[w].file /\ r.map = writer[w].map
      /\ r.password = writer[w].password /\ r.todo = writer[w].todo
      /\ r.command = writer[w].command
  BY <1>1, <1>2 DEF Records, Steps
<1>4. writer' = [writer EXCEPT ![w] = r]
      /\ UNCHANGED <<overlap, live, tmp, dotenv, cache, key, held>>
  BY DEF WriteConfig, server
<1> HIDE DEF r
<1>5. QED
  BY <1>1, <1>2, <1>3, <1>4, WizardStep DEF StepInv

LEMMA AgainInv ==
    ASSUME IInv, NEW w \in Writers, writer[w] # Idle, NEW command \in Targets, Again(w, command)
    PROVE  IInv'
<1> DEFINE r == [writer[w] EXCEPT !.step = "persist", !.command = command]
<1>1. writer[w] \in Records /\ writer[w].step = "again"
  BY AtWork DEF Again
<1>2. /\ r \in Records /\ r.step = "persist" /\ r.file = writer[w].file /\ r.map = writer[w].map
      /\ r.password = writer[w].password /\ r.todo = writer[w].todo
      /\ r.command.kind = "init"
  BY <1>1, TargetFacts DEF Records, Steps
<1>3. writer' = [writer EXCEPT ![w] = r]
      /\ UNCHANGED <<overlap, live, tmp, dotenv, config, cache, key, held>>
  BY DEF Again, files, server
<1> HIDE DEF r
<1>4. config' \in SUBSET Names
  BY <1>3 DEF IInv, Types
<1>5. QED
  BY <1>1, <1>2, <1>3, <1>4, WizardStep

\* A step of the server alone.
LEMMA ServerStep ==
    ASSUME IInv, UNCHANGED <<overlap, files, writer>>, Types', ServerInv'
    PROVE  IInv'
<1>1. \A w \in Writers : StepInv(w)' = StepInv(w) /\ SoloInv(w)' = SoloInv(w)
  BY DEF StepInv, SoloInv, Prepared, Fresh, Blob, Opens, Visible, Imported, InOrder, files
<1>2. Alone' = Alone
  BY DEF Alone
<1>3. QED
  BY <1>1, <1>2 DEF IInv, files

LEMMA ResolveInv == ASSUME IInv, NEW n \in Names, Resolve(n) PROVE IInv'
<1>1. /\ UNCHANGED <<overlap, files, writer, key, held>>
      /\ cache' = cache \/ (cache' = Unlocked /\ live # Torn)
  BY DEF Resolve, UnlockFor
<1>2. Types'
  BY <1>1, UnlockedType DEF IInv, Types, files
<1>3. ServerInv'
  BY <1>1 DEF IInv, ServerInv, Unlocked, files
<1>4. QED
  BY <1>1, <1>2, <1>3, ServerStep

LEMMA RestartServerInv == ASSUME IInv, RestartServer PROVE IInv'
<1>1. /\ UNCHANGED <<overlap, files, writer>>
      /\ cache' = None /\ key' \in Passwords \cup {None} /\ held' = Stored
  BY DEF RestartServer
<1>2. Types'
  BY <1>1 DEF IInv, Types, Stored, files
<1>3. ServerInv'
  BY <1>1 DEF ServerInv, Unlocked, Stored, files
<1>4. QED
  BY <1>1, <1>2, <1>3, ServerStep

LEMMA StutterInv == ASSUME IInv, UNCHANGED vars PROVE IInv'
<1>1. UNCHANGED <<overlap, files, writer, cache, key, held>>
  BY DEF vars, server
<1>2. Types' /\ ServerInv'
  BY <1>1 DEF IInv, Types, ServerInv, Unlocked, files
<1>3. QED
  BY <1>1, <1>2, ServerStep

-----------------------------------------------------------------------------
LEMMA NextInv == IInv /\ [Next]_vars => IInv'
<1> SUFFICES ASSUME IInv, [Next]_vars PROVE IInv'
  OBVIOUS
<1>1. ASSUME NEW w \in Writers, NEW command \in Commands, NEW password \in Passwords,
             Unlock(w, command, password)
      PROVE  IInv'
  BY <1>1, UnlockInv
<1>2. ASSUME NEW w \in Writers, writer[w] # Idle, Truncate(w) \/ Write(w) \/ MoveAside(w)
      PROVE  IInv'
  BY <1>2, TruncateInv, WriteInv, MoveAsideInv
<1>3. ASSUME NEW w \in Writers, writer[w] # Idle, Rename(w)
      PROVE  IInv'
  BY <1>3, RenameInv, RenameFails
<1>4. ASSUME NEW w \in Writers, writer[w] # Idle,
             TruncateConfig(w) \/ WriteConfig(w) \/ Crash(w)
      PROVE  IInv'
  BY <1>4, TruncateConfigInv, WriteConfigInv, CrashInv
<1>5. ASSUME NEW w \in Writers, writer[w] # Idle, NEW target \in Targets, Again(w, target)
      PROVE  IInv'
  BY <1>5, AgainInv
<1>6. ASSUME NEW n \in Names, Resolve(n) PROVE IInv'
  BY <1>6, ResolveInv
<1>7. CASE RestartServer
  BY <1>7, RestartServerInv
<1>8. CASE UNCHANGED vars
  BY <1>8, StutterInv
<1>9. QED
  BY <1>1, <1>2, <1>3, <1>4, <1>5, <1>6, <1>7, <1>8 DEF Next

\* Where writers are, which files they hold open, and what a writer that is
\* alone and the server know of the store.
THEOREM Invariance == Spec => []IInv
BY InitInv, NextInv, PTL DEF Spec

\* The files of the store and the one each writer holds open.
THEOREM TypeCorrect == Spec => []TypeOK
<1>1. IInv => TypeOK
  <2> SUFFICES ASSUME IInv PROVE TypeOK
    OBVIOUS
  <2>1. ASSUME NEW w \in Writers, writer[w] # Idle
        PROVE  \/ writer[w].step \in {"persist", "move", "list", "listing", "again"}
                  /\ writer[w].file = "gone"
               \/ writer[w].step \in {"write", "rename"} /\ writer[w].file \in {"tmp", "live", "gone"}
    BY <2>1, AtWork, RecordFacts DEF StepInv, Steps
  <2>2. QED
    BY <2>1 DEF IInv, Types, TypeOK
<1>2. QED
  BY <1>1, Invariance, PTL

\* _persist and replace: whoever dies and wherever, secrets.enc goes from one
\* whole command to the next.
THEOREM ChangesWhole == Spec => ChangesAreWhole
<1>1. ASSUME IInv, [Next]_vars, ~overlap, live' # live
      PROVE  \E w \in Writers : writer[w] # Idle /\ Rename(w) /\ tmp # None
  <2>1. ASSUME NEW w \in Writers, writer[w] # Idle, Write(w) PROVE live' = live
    BY <1>1, <2>1, AtWork DEF SoloInv, Write
  <2>2. QED
    BY <1>1, <2>1
       DEF Next, Unlock, Truncate, Rename, MoveAside, TruncateConfig, WriteConfig, Crash,
           Again, Resolve, RestartServer, vars, files
<1>2. ASSUME IInv, [Next]_vars PROVE [WholeChange]_vars
  <2> SUFFICES ASSUME ~overlap, Visible' # Visible PROVE WholeChange
    BY DEF WholeChange
  <2>1. PICK w \in Writers : writer[w] # Idle /\ Rename(w) /\ tmp # None
    BY <1>1, <1>2 DEF Visible
  <2>2. writer[w].step = "rename" /\ live' = tmp /\ SoloInv(w)
    BY <1>2, <2>1, AtWork DEF Rename
  <2>3. Prepared(w) /\ Visible' = Blob(w)
    BY <2>1, <2>2 DEF SoloInv, Visible
  <2>4. QED
    BY <2>2, <2>3 DEF Prepared, WholeChange
<1>3. QED
  BY <1>2, Invariance, PTL DEF Spec, ChangesAreWhole

\* migrate_legacy_env: .env is set aside when the last of the lines it reads for
\* each name is in the store.
THEOREM MigrationWhole == Spec => MigrationIsWhole
<1>1. ASSUME IInv, [Next]_vars PROVE [WholeMigration]_vars
  <2> SUFFICES ASSUME ~overlap, dotenv' # dotenv, NEW i \in ReadLines, LastOfName(i)
               PROVE  Visible.map[Imports(i)] = Lines[i].value
    BY DEF WholeMigration
  <2>1. PICK w \in Writers : writer[w] # Idle /\ MoveAside(w)
    BY <1>1
       DEF Next, Unlock, Truncate, Persist, Write, Rename, TruncateConfig, WriteConfig, Crash,
           Again, Resolve, RestartServer, vars, files
  <2>2. writer[w].step = "move" /\ StepInv(w) /\ SoloInv(w)
    BY <1>1, <2>1, AtWork DEF MoveAside
  <2>3. Imported(writer[w].map, ReadLines) /\ writer[w].map = Visible.map
    BY <2>2 DEF StepInv, SoloInv, Fresh
  <2>4. QED
    BY <2>3 DEF Imported, LastOfName
<1>2. QED
  BY <1>1, Invariance, PTL DEF Spec, MigrationIsWhole

\* The wizard lists a target when the secret typed with it is the stored one.
THEOREM ListedSecrets == Spec => ListedHaveSecrets
<1>1. ASSUME IInv, [Next]_vars PROVE [ListedSecret]_vars
  <2> SUFFICES ASSUME ~overlap, NEW x \in Writers, writer[x] # Idle, config' # config, config' # {}
               PROVE  Visible.map[writer[x].command.name] = writer[x].command.value
    BY DEF ListedSecret
  <2>1. PICK w \in Writers : writer[w] # Idle /\ WriteConfig(w)
    BY <1>1
       DEF Next, Unlock, Truncate, Persist, Write, Rename, MoveAside, TruncateConfig, Crash,
           Again, Resolve, RestartServer, vars, files
  <2>2. x = w
    BY <1>1, <2>1 DEF IInv, Alone
  <2>3. writer[w].step = "listing" /\ StepInv(w) /\ SoloInv(w)
    BY <1>1, <2>1, AtWork DEF WriteConfig
  <2>4. QED
    BY <2>2, <2>3 DEF StepInv, SoloInv, Fresh
<1>2. QED
  BY <1>1, Invariance, PTL DEF Spec, ListedHaveSecrets

\* _resolve_secret: for a name the store has had since the server started, the
\* environment speaks only where the store cannot be read and no copy is there.
THEOREM StoreAnswersFirst == Spec => StoreComesFirst
<1>1. ASSUME IInv, [Next]_vars PROVE [StoreFirst]_vars
  <2> SUFFICES ASSUME NEW n \in held, answer'.source = "env", answer'.name = n,
                      answer' # answer
               PROVE  ~answer'.read /\ cache = None
    BY DEF StoreFirst
  <2>1. ServerInv /\ n \in Names
    BY <1>1 DEF IInv, Types
  <2>2. NoAnswer.source # "env"
    BY DEF NoAnswer
  <2>3. CASE RestartServer
    BY <2>2, <2>3 DEF RestartServer
  <2>4. ASSUME NEW m \in Names, Resolve(m) PROVE ~answer'.read /\ cache = None
    <3>1. m = n
      BY <2>2, <2>4
         DEF Resolve, UnlockFor, FallBack, FromMap, RefuseToOpen, Fail, NoAnswer
    <3>2. live # None
      BY <2>1, Absence DEF ServerInv, Unlocked
    <3>3. cache # None => cache[n] # None
      BY <2>1 DEF ServerInv
    <3>4. live # Torn => Unlocked[n] # None
      BY <2>1 DEF ServerInv
    <3>5. QED
      BY <2>2, <2>4, <3>1, <3>2, <3>3, <3>4
         DEF Resolve, UnlockFor, FallBack, FromMap, RefuseToOpen, Fail, NoAnswer
  <2>5. QED
    BY <1>1, <2>3, <2>4
       DEF Next, Unlock, Truncate, Persist, Write, Rename, MoveAside, TruncateConfig, WriteConfig,
           Crash, Again, vars, server
<1>2. QED
  BY <1>1, Invariance, PTL DEF Spec, StoreComesFirst
=============================================================================

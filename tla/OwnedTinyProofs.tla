--------------------------- MODULE OwnedTinyProofs ---------------------------
(***************************************************************************)
(* The safety of the receipt for every number of batches, faults and       *)
(* metadata reads, wherever a command is stopped and whenever the machine  *)
(* loses power, provided that nothing strikes inside _restore_exchange     *)
(* (the run restore shows that this is needed).                            *)
(*                                                                         *)
(* The argument is about the names a power loss may bring back: Names is   *)
(* the set of receipts under the fixed name, one for each directory that   *)
(* the disk may hold.  Each of them is whole (FilesSound) and fits what the*)
(* provider has (CloudSound), and Phase says what the command that holds   *)
(* the lock has made sure of at the point where it stands.                 *)
(***************************************************************************)
EXTENDS OwnedTiny, FiniteSetTheorems, TLAPS

Names == {d.receipt : d \in onDisk}
Synced == onDisk = {dir}

Opening == {"idle", "tree", "syncTree", "key", "syncKey"}
Changing == {"prepare", "syncTemp", "install", "exchange", "displaced", "syncReceipt", "restore"}
Removing == {"quarantine", "quarantined", "wipe", "syncWipe", "unlink"}
Points == Opening \union Changing \union Removing \union {"load", "write", "done", "delete", "verify"}

Command ==
  { a \in [ pc : Points, prior : Files \union {None}, goal : Files, sent : SUBSET Batch,
            confirmed : SUBSET Batch, polls : Nat, credential : BOOLEAN ] :
      a.confirmed \subseteq a.sent }

Typed ==
  /\ dir \in Directories /\ onDisk \in SUBSET Directories /\ dir \in onDisk
  /\ data \in [Files -> Content] /\ mayRead \in [Files -> SUBSET Content]
  /\ lock \in Commands \union {None}
  /\ cmd \in [Commands -> Command]
  /\ remote \in SUBSET Batch /\ wire \in SUBSET Batch /\ deleting \in BOOLEAN
  /\ \A c \in Commands : cmd[c].pc # "idle" <=> lock = c

\* The moves a command makes from the receipt it has found.
Moves(c) ==
  IF c = "ingest"
  THEN {<<None, "intent">>, <<"intent", "created">>, <<"created", "ready">>}
  ELSE {<<"intent", "cleanup_requested">>, <<"created", "cleanup_requested">>,
        <<"ready", "cleanup_requested">>, <<"cleanup_requested", "not_found_verified">>}

\* A receipt that any power loss may bring back is complete and authentic.
FilesSound ==
  /\ \A i \in Files : data[i] \in mayRead[i]
  /\ \A d \in onDisk : d.receipt # None => d.tree /\ d.key /\ mayRead[d.receipt] = {d.receipt}

\* No receipt that may come back contradicts what the provider has.
CloudSound ==
  /\ deleting => remote # {} /\ Names = {"cleanup_requested"}
  /\ "ready" \in Names => remote = Batch /\ ~deleting
  /\ None \in Names => Restoring \/ (remote = {} /\ wire = {})
  /\ "not_found_verified" \in Names => remote = {} /\ wire = {}
  /\ wire # {} => lock = "ingest"
  /\ wire \subseteq Outstanding("ingest")

\* A command that replaces the receipt: prior is what may still be found, goal
\* is true already.
Change(c, a) ==
  /\ <<a.prior, a.goal>> \in Moves(c)
  /\ a.prior \in Names
  /\ a.goal = "ready" => remote = Batch /\ ~deleting
  /\ a.goal = "not_found_verified" => remote = {}
  /\ a.pc = "prepare" => Synced /\ dir.receipt = a.prior
  /\ a.pc \in {"syncTemp", "install", "exchange"} => Names = {a.prior} /\ dir.temp = a.goal
  /\ a.pc = "syncTemp" => data[a.goal] = a.goal
  /\ a.pc \in {"install", "exchange"} => mayRead[a.goal] = {a.goal}
  /\ a.pc = "install" => a.prior = None
  /\ a.pc \in {"exchange", "displaced", "restore"} => a.prior # None
  /\ a.pc \in {"displaced", "syncReceipt"} => dir.receipt = a.goal /\ Names = {a.prior, a.goal}
  /\ a.pc \in {"displaced", "restore"} => dir.temp = a.prior
  /\ a.pc = "restore" => dir.receipt = None

\* A command that removes the receipt of a namespace that is gone.
Removal(c, a) ==
  /\ c = "cleanup"
  /\ a.pc = "quarantine" => Synced /\ dir.receipt = "not_found_verified"
  /\ a.pc \in {"quarantined", "wipe", "syncWipe"} => dir.temp = "not_found_verified"
  /\ a.pc \in {"quarantined", "wipe", "syncWipe", "unlink"} => dir.receipt = None
  /\ a.pc = "quarantined" => Names = {None, "not_found_verified"}
  /\ a.pc \in {"wipe", "syncWipe", "unlink"} => Synced

Phase(c, a) ==
  /\ a.pc \in {"syncTree", "key", "syncKey"} => dir.tree
  /\ a.pc = "key" => Synced
  /\ a.pc = "syncKey" => dir.key
  /\ a.pc \notin Opening => dir.tree /\ dir.key
  /\ a.pc \in {"load", "write", "done", "delete", "verify"} => Synced
  /\ a.pc \in Changing => Change(c, a)
  /\ a.pc \in Removing => Removal(c, a)
  /\ a.pc \in {"write", "done"} => c = "ingest"
  /\ a.pc = "write" => a.prior = dir.receipt /\ a.prior \in {"intent", "created", "ready"}
  /\ a.pc \in {"delete", "verify"} =>
       c = "cleanup" /\ a.prior = dir.receipt /\ a.prior = "cleanup_requested"

Sound ==
  /\ Typed /\ FilesSound /\ CloudSound
  /\ \A c \in Commands : Phase(c, cmd[c])

-----------------------------------------------------------------------------
(* What the operations do to the names that may come back.                 *)

LEMMA RenamedNames == ASSUME NEW d, Rename(d) PROVE Names' = Names \union {d.receipt}
BY DEF Rename, Names

LEMMA FlushedNames == ASSUME NEW d, onDisk' = {d} PROVE Names' = {d.receipt}
BY DEF Names

LEMMA CurrentNames == ASSUME Typed PROVE dir.receipt \in Names /\ (Synced => Names = {dir.receipt})
BY DEF Typed, Names, Synced

\* What is read from a sound receipt.
LEMMA ReceiptIsItsName ==
  ASSUME Typed, FilesSound, dir.receipt # None
  PROVE  Receipt = dir.receipt /\ dir.receipt \in Files
BY DEF Typed, FilesSound, Receipt, Directories

\* Only one command is at work.
LEMMA HolderIsAlone ==
  ASSUME Typed, NEW c \in Commands, cmd[c].pc # "idle"
  PROVE  /\ lock = c /\ lock # None
         /\ \A o \in Commands \ {c} : cmd[o].pc = "idle"
         /\ Restoring <=> cmd[c].pc = "restore"
BY OwnedAssumption DEF Typed, Commands, Restoring, At

LEMMA UpdatedCommands ==
  ASSUME Typed, NEW c \in Commands, NEW a \in Command, Update(c, a)
  PROVE  /\ cmd' \in [Commands -> Command] /\ cmd'[c] = a
         /\ \A o \in Commands \ {c} : cmd'[o] = cmd[o]
BY DEF Typed, Update

\* A command that waits for the lock has promised nothing.
LEMMA IdlePromisesNothing ==
  ASSUME NEW c, NEW a, a.pc = "idle"
  PROVE  Phase(c, a)
BY DEF Phase, Opening, Changing, Removing

-----------------------------------------------------------------------------
(* One command moves, or the commands end.                                 *)

LEMMA HolderMoves ==
  ASSUME Sound, NEW c \in Commands, cmd[c].pc # "idle", NEW a \in Command, a.pc # "idle",
         Update(c, a), lock' = lock,
         dir' \in Directories, onDisk' \in SUBSET Directories, dir' \in onDisk',
         data' \in [Files -> Content], mayRead' \in [Files -> SUBSET Content],
         remote' \in SUBSET Batch, wire' \in SUBSET Batch, deleting' \in BOOLEAN,
         FilesSound', CloudSound', Phase(c, cmd[c])'
  PROVE  Sound'
<1>1. /\ cmd' \in [Commands -> Command] /\ cmd'[c] = a
      /\ \A o \in Commands \ {c} : cmd'[o] = cmd[o]
  BY UpdatedCommands DEF Sound
<1>2. lock = c /\ \A o \in Commands \ {c} : cmd[o].pc = "idle"
  BY HolderIsAlone DEF Sound
<1>3. Typed'
  BY <1>1, <1>2 DEF Sound, Typed
<1>4. ASSUME NEW o \in Commands \ {c} PROVE Phase(o, cmd[o])'
  BY <1>1, <1>2 DEF Phase, Opening, Changing, Removing
<1>5. QED
  BY <1>3, <1>4 DEF Sound

\* What the cloud has does not change, and nothing but known names is found.
LEMMA CloudStays ==
  ASSUME Sound, NEW c \in Commands, cmd[c].pc # "idle", UNCHANGED <<cloud, lock>>,
         Outstanding("ingest")' = Outstanding("ingest"),
         Names' \subseteq Names, Names' # {}, cmd[c].pc # "restore"
  PROVE  CloudSound'
<1>1. ~Restoring
  BY HolderIsAlone DEF Sound
<1>2. QED
  BY <1>1 DEF Sound, CloudSound, cloud

\* Every command has ended: the names that remain were there before.
LEMMA AllEnd ==
  ASSUME Sound, cmd' \in [Commands -> Command], \A c \in Commands : cmd'[c].pc = "idle",
         lock' = None, wire' = {}, deleting' = deleting,
         \E landed \in SUBSET wire : remote' = remote \union landed,
         dir' \in Directories, onDisk' \in SUBSET Directories, dir' \in onDisk',
         data' \in [Files -> Content], mayRead' \in [Files -> SUBSET Content],
         Names' \subseteq Names, None \in Names' => ~Restoring, FilesSound'
  PROVE  Sound'
<1>1. Typed'
  BY OwnedAssumption DEF Sound, Typed, Commands
<1>2. CloudSound'
  <2>1. Names' # {}
    BY DEF Names
  <2>2. QED
    BY <2>1 DEF Sound, Typed, CloudSound
<1>3. QED
  BY <1>1, <1>2 DEF Sound, Phase, Opening, Changing, Removing

LEMMA IdleIsTyped == Idle \in Command /\ Idle.pc = "idle"
BY DEF Idle, Command, Points, Opening, Files, OwnedTinyState

\* A command ends, and the files stay as they are or are those of before.
LEMMA CommandEnds ==
  ASSUME Sound, NEW c \in Commands, cmd[c].pc # "idle", Ends(c),
         dir' \in Directories, onDisk' \in SUBSET Directories, dir' \in onDisk',
         data' \in [Files -> Content], mayRead' \in [Files -> SUBSET Content],
         Names' \subseteq Names, None \in Names' => cmd[c].pc # "restore", FilesSound'
  PROVE  Sound'
<1>1. /\ lock = c /\ \A o \in Commands \ {c} : cmd[o].pc = "idle"
      /\ Restoring <=> cmd[c].pc = "restore"
  BY HolderIsAlone DEF Sound
<1>2. cmd' \in [Commands -> Command] /\ \A o \in Commands : cmd'[o].pc = "idle"
  BY <1>1, IdleIsTyped, UpdatedCommands DEF Sound, Ends
<1>3. lock' = None /\ wire' = {} /\ deleting' = deleting
      /\ \E landed \in SUBSET wire : remote' = remote \union landed
  BY <1>1 DEF Ends
<1>4. QED
  BY <1>1, <1>2, <1>3, AllEnd

-----------------------------------------------------------------------------
(* The steps of a command that holds the lock.                             *)

\* Files and cloud stay: the command goes on with what it has found.
LEMMA OnlyCommandMoves ==
  ASSUME Sound, NEW c \in Commands, cmd[c].pc \notin {"idle", "restore"},
         NEW a \in Command, a.pc # "idle", Update(c, a),
         a.sent = cmd[c].sent, a.confirmed = cmd[c].confirmed,
         UNCHANGED <<files, lock, cloud>>, Phase(c, cmd[c])'
  PROVE  Sound'
<1>1. /\ Outstanding("ingest")' = Outstanding("ingest")
      /\ "ingest" \in Commands
  BY UpdatedCommands DEF Sound, Outstanding, Commands
<1>2. Names' = Names /\ Names # {} /\ FilesSound'
  BY CurrentNames DEF Sound, Names, FilesSound, files
<1>3. CloudSound'
  BY <1>1, <1>2, CloudStays
<1>4. QED
  BY <1>2, <1>3, HolderMoves DEF Sound, Typed, files, cloud

\* The disk catches up with the directory: fewer names may come back.
LEMMA FlushIsSound ==
  ASSUME Sound, NEW c \in Commands, cmd[c].pc \notin {"idle", "restore"},
         NEW a \in Command, a.pc # "idle", Update(c, a),
         a.sent = cmd[c].sent, a.confirmed = cmd[c].confirmed,
         SyncDirectory, UNCHANGED <<dir, data, mayRead, lock, cloud>>, Phase(c, cmd[c])'
  PROVE  Sound'
<1>1. Outstanding("ingest")' = Outstanding("ingest")
  BY UpdatedCommands DEF Sound, Outstanding, Commands
<1>2. Names' = {dir.receipt} /\ dir.receipt \in Names /\ FilesSound'
  BY FlushedNames, CurrentNames DEF Sound, Typed, SyncDirectory, FilesSound
<1>3. CloudSound'
  BY <1>1, <1>2, CloudStays
<1>4. QED
  BY <1>2, <1>3, HolderMoves DEF Sound, Typed, SyncDirectory, cloud

LEMMA LockIsSound ==
  ASSUME Sound, NEW c \in Commands, NEW credential \in BOOLEAN, Lock(c, credential)
  PROVE  Sound'
<1> DEFINE a == [Idle EXCEPT !.pc = "tree", !.credential = credential]
<1>1. a \in Command /\ a.pc = "tree" /\ a.sent = {} /\ a.confirmed = {}
  BY IdleIsTyped DEF Idle, Command, Points, Opening
<1>2. \A o \in Commands : cmd[o].pc = "idle"
  BY OwnedAssumption DEF Lock, Sound, Typed, Commands
<1>3. /\ cmd' \in [Commands -> Command] /\ cmd'[c].pc = "tree"
      /\ \A o \in Commands \ {c} : cmd'[o].pc = "idle"
  BY <1>1, <1>2, UpdatedCommands DEF Sound, Lock
<1>4. Typed' /\ lock' = c /\ lock = None
  BY <1>3, OwnedAssumption DEF Lock, Sound, Typed, files, cloud, Commands
<1>5. FilesSound' /\ Names' = Names
  BY DEF Lock, Sound, FilesSound, Names, files
<1>6. CloudSound'
  <2>1. ~Restoring /\ wire = {}
    BY <1>2, <1>4, OwnedAssumption DEF Restoring, At, Sound, CloudSound
  <2>2. QED
    BY <1>5, <2>1 DEF Lock, Sound, CloudSound, cloud
<1>7. \A o \in Commands : Phase(o, cmd[o])'
  BY <1>3 DEF Phase, Opening, Changing, Removing
<1>8. QED
  BY <1>4, <1>5, <1>6, <1>7 DEF Sound

\* A command that moves on keeps what else it knows.
LEMMA GoneOn ==
  ASSUME Typed, NEW c \in Commands, NEW pc \in Points, Goto(c, pc)
  PROVE  /\ [cmd[c] EXCEPT !.pc = pc] \in Command
         /\ cmd'[c] = [cmd[c] EXCEPT !.pc = pc]
         /\ cmd'[c].pc = pc /\ cmd'[c].prior = cmd[c].prior /\ cmd'[c].goal = cmd[c].goal
         /\ cmd'[c].sent = cmd[c].sent /\ cmd'[c].confirmed = cmd[c].confirmed
<1>1. cmd[c] \in Command
  BY DEF Typed
<1>2. /\ [cmd[c] EXCEPT !.pc = pc] \in Command
      /\ [cmd[c] EXCEPT !.pc = pc].pc = pc
  BY <1>1 DEF Command
<1>3. QED
  BY <1>1, <1>2, UpdatedCommands DEF Goto, Command

\* A command that gives up ends.
LEMMA ExitIsSound ==
  ASSUME Sound, NEW c \in Commands, cmd[c].pc \notin {"idle", "restore"}, Exit(c)
  PROVE  Sound'
<1>1. Names' = Names /\ FilesSound'
  BY DEF Sound, Names, FilesSound, files, Exit
<1>2. QED
  BY <1>1, CommandEnds DEF Sound, Typed, files, Exit

\* A directory with another name in it, and the same receipt.
LEMMA NewEntryIsSound ==
  ASSUME Sound, NEW c \in Commands, cmd[c].pc \notin {"idle", "restore"},
         NEW pc \in Points \ {"idle", "restore"}, Goto(c, pc), NEW d \in Directories, Rename(d),
         d.receipt = dir.receipt, dir.receipt # None => d.tree /\ d.key,
         UNCHANGED <<data, mayRead, lock, cloud>>, Phase(c, cmd[c])'
  PROVE  Sound'
<1>1. Outstanding("ingest")' = Outstanding("ingest")
  BY GoneOn, UpdatedCommands DEF Sound, Outstanding, Commands, Goto
<1>2. Names' = Names /\ Names # {}
  BY RenamedNames, CurrentNames DEF Sound
<1>3. FilesSound'
  BY DEF Sound, Typed, FilesSound, Rename
<1>4. CloudSound'
  BY <1>1, <1>2, CloudStays
<1>5. QED
  BY <1>3, <1>4, GoneOn, HolderMoves DEF Sound, Typed, Rename, cloud, Goto

LEMMA OpenTreeIsSound ==
  ASSUME Sound, NEW c \in Commands, OpenTree(c)
  PROVE  Sound'
<1>0. cmd[c].pc = "tree" /\ cmd[c] \in Command /\ "syncTree" \in Points
  BY DEF OpenTree, At, Sound, Typed, Points, Opening
<1>1. CASE dir.tree /\ Goto(c, "syncTree") /\ UNCHANGED <<files, lock, cloud, faults>>
  <2>1. cmd'[c].pc = "syncTree" /\ dir'.tree
    BY <1>0, <1>1, GoneOn DEF Sound, files
  <2>2. Phase(c, cmd[c])'
    BY <2>1 DEF Phase, Opening, Changing, Removing
  <2>3. QED
    BY <1>0, <1>1, <2>2, GoneOn, OnlyCommandMoves DEF Sound, Goto
<1>2. CASE /\ ~dir.tree /\ Rename([dir EXCEPT !.tree = TRUE]) /\ Goto(c, "syncTree")
           /\ UNCHANGED <<data, mayRead, lock, cloud, faults>>
  <2>1. /\ [dir EXCEPT !.tree = TRUE] \in Directories
        /\ [dir EXCEPT !.tree = TRUE].receipt = dir.receipt
        /\ [dir EXCEPT !.tree = TRUE].tree
        /\ dir.receipt = None
    BY <1>2 DEF Sound, Typed, FilesSound, Directories
  <2>2. cmd'[c].pc = "syncTree" /\ dir'.tree
    BY <1>0, <1>2, <2>1, GoneOn DEF Sound, Rename
  <2>3. Phase(c, cmd[c])'
    BY <2>2 DEF Phase, Opening, Changing, Removing
  <2>4. QED
    BY <1>0, <1>2, <2>1, <2>3, NewEntryIsSound
<1>3. CASE Exit(c)
  BY <1>0, <1>3, ExitIsSound
<1>4. QED
  BY <1>1, <1>2, <1>3 DEF OpenTree

LEMMA OpenKeyIsSound ==
  ASSUME Sound, NEW c \in Commands, OpenKey(c)
  PROVE  Sound'
<1>0. /\ cmd[c].pc = "key" /\ dir.tree /\ Synced
      /\ "load" \in Points /\ "syncKey" \in Points
  BY DEF OpenKey, At, Sound, Phase, Points, Opening
<1>1. CASE dir.key /\ Goto(c, "load") /\ UNCHANGED <<files, lock, cloud, faults>>
  <2>1. cmd'[c].pc = "load" /\ dir'.tree /\ dir'.key /\ Synced'
    BY <1>0, <1>1, GoneOn DEF Sound, files, Synced
  <2>2. Phase(c, cmd[c])'
    BY <2>1 DEF Phase, Opening, Changing, Removing
  <2>3. QED
    BY <1>0, <1>1, <2>2, GoneOn, OnlyCommandMoves DEF Sound, Goto
<1>2. CASE /\ ~dir.key /\ Rename([dir EXCEPT !.key = TRUE]) /\ Goto(c, "syncKey")
           /\ UNCHANGED <<data, mayRead, lock, cloud, faults>>
  <2>1. /\ [dir EXCEPT !.key = TRUE] \in Directories
        /\ [dir EXCEPT !.key = TRUE].receipt = dir.receipt
        /\ [dir EXCEPT !.key = TRUE].tree /\ [dir EXCEPT !.key = TRUE].key
        /\ dir.receipt = None
    BY <1>0, <1>2 DEF Sound, Typed, FilesSound, Directories
  <2>2. cmd'[c].pc = "syncKey" /\ dir'.tree /\ dir'.key
    BY <1>0, <1>2, <2>1, GoneOn DEF Sound, Rename
  <2>3. Phase(c, cmd[c])'
    BY <2>2 DEF Phase, Opening, Changing, Removing
  <2>4. QED
    BY <1>0, <1>2, <2>1, <2>3, NewEntryIsSound
<1>3. CASE Exit(c)
  BY <1>0, <1>3, ExitIsSound
<1>4. QED
  BY <1>1, <1>2, <1>3 DEF OpenKey

LEMMA SyncsAreSound ==
  ASSUME Sound, NEW c \in Commands, SyncTree(c) \/ SyncKey(c)
  PROVE  Sound'
<1>1. PICK pc \in {"key", "load"} :
        /\ (cmd[c].pc = "syncTree" /\ pc = "key") \/ (cmd[c].pc = "syncKey" /\ pc = "load")
        /\ Goto(c, pc) /\ SyncDirectory /\ UNCHANGED <<dir, data, mayRead, lock, cloud>>
  BY DEF SyncTree, SyncKey, At
<1>2. pc \in Points
  BY <1>1 DEF Points, Opening
<1>3. cmd'[c].pc = pc /\ dir' = dir /\ Synced' /\ dir.tree /\ (pc = "load" => dir.key)
  BY <1>1, <1>2, GoneOn DEF Sound, Phase, SyncDirectory, Synced
<1>4. Phase(c, cmd[c])'
  BY <1>3 DEF Phase, Opening, Changing, Removing
<1>5. QED
  BY <1>1, <1>2, <1>4, GoneOn, FlushIsSound DEF Sound, Goto

\* What the command found decides how it goes on.
LEMMA TowardFound ==
  ASSUME Typed, NEW c \in Commands, NEW goal \in Files, Toward(c, goal)
  PROVE  \E a \in Command :
           /\ Update(c, a) /\ cmd'[c] = a
           /\ a.pc = "prepare" /\ a.prior = dir.receipt /\ a.goal = goal
           /\ a.sent = cmd[c].sent /\ a.confirmed = cmd[c].confirmed
<1> DEFINE a == [cmd[c] EXCEPT !.pc = "prepare", !.goal = goal, !.prior = dir.receipt]
<1>1. cmd[c] \in Command /\ dir.receipt \in Files \union {None}
  BY DEF Typed, Directories
<1>2. /\ a \in Command /\ a.pc = "prepare" /\ a.prior = dir.receipt /\ a.goal = goal
      /\ a.sent = cmd[c].sent /\ a.confirmed = cmd[c].confirmed
  BY <1>1 DEF Command, Points, Changing
<1>3. Update(c, a)
  BY DEF Toward
<1>4. cmd'[c] = a
  BY <1>2, <1>3, UpdatedCommands
<1>5. QED
  BY <1>2, <1>3, <1>4

LEMMA WithFound ==
  ASSUME Typed, NEW c \in Commands, NEW pc \in Points, With(c, pc)
  PROVE  \E a \in Command :
           /\ Update(c, a) /\ cmd'[c] = a
           /\ a.pc = pc /\ a.prior = dir.receipt /\ a.goal = cmd[c].goal
           /\ a.sent = cmd[c].sent /\ a.confirmed = cmd[c].confirmed
<1> DEFINE a == [cmd[c] EXCEPT !.pc = pc, !.prior = dir.receipt]
<1>1. cmd[c] \in Command /\ dir.receipt \in Files \union {None}
  BY DEF Typed, Directories
<1>2. /\ a \in Command /\ a.pc = pc /\ a.prior = dir.receipt /\ a.goal = cmd[c].goal
      /\ a.sent = cmd[c].sent /\ a.confirmed = cmd[c].confirmed
  BY <1>1 DEF Command
<1>3. Update(c, a)
  BY DEF With
<1>4. cmd'[c] = a
  BY <1>2, <1>3, UpdatedCommands
<1>5. QED
  BY <1>2, <1>3, <1>4

\* A receipt that is found at load is the only one that may come back.
LEMMA FoundAtLoad ==
  ASSUME Sound, NEW c \in Commands, cmd[c].pc \in {"load", "write", "done", "delete", "verify"}
  PROVE  /\ dir.tree /\ dir.key /\ Synced /\ Names = {dir.receipt} /\ dir.receipt \in Files \union {None}
         /\ IF dir.receipt = None THEN Receipt = "absent" ELSE Receipt = dir.receipt
<1>1. dir.tree /\ dir.key /\ Synced
  BY DEF Sound, Phase, Opening
<1>2. QED
  BY <1>1, CurrentNames, ReceiptIsItsName DEF Sound, Typed, Directories, Receipt

\* A command that has read the receipt sets out to change it.
LEMMA TowardIsSound ==
  ASSUME Sound, NEW c \in Commands, cmd[c].pc \in {"load", "write", "done", "delete", "verify"},
         NEW goal \in Files, Toward(c, goal), UNCHANGED <<files, lock, cloud>>,
         <<dir.receipt, goal>> \in Moves(c),
         goal = "ready" => remote = Batch /\ ~deleting,
         goal = "not_found_verified" => remote = {}
  PROVE  Sound'
<1>2. PICK a \in Command :
        /\ Update(c, a) /\ cmd'[c] = a
        /\ a.pc = "prepare" /\ a.prior = dir.receipt /\ a.goal = goal
        /\ a.sent = cmd[c].sent /\ a.confirmed = cmd[c].confirmed
  BY TowardFound DEF Sound
<1>3. dir.tree /\ dir.key /\ Synced /\ Names = {dir.receipt}
  BY FoundAtLoad
<1>4. dir' = dir /\ Synced' /\ Names' = Names /\ remote' = remote /\ deleting' = deleting
  BY <1>3 DEF Synced, Names, files, cloud
<1>5. Phase(c, cmd[c])'
  <2>1. Change(c, cmd[c])'
    BY <1>2, <1>3, <1>4 DEF Change, Moves
  <2>2. QED
    BY <1>2, <1>3, <1>4, <2>1 DEF Phase, Opening, Changing, Removing
<1>6. QED
  BY <1>2, <1>5, OnlyCommandMoves

LEMMA LoadForIngestionIsSound ==
  ASSUME Sound, LoadForIngestion
  PROVE  Sound'
<1>0. "ingest" \in Commands /\ cmd["ingest"].pc = "load" /\ "write" \in Points /\ "intent" \in Files
  BY DEF LoadForIngestion, At, Commands, Points, Files, OwnedTinyState
<1>1. /\ dir.tree /\ dir.key /\ Synced /\ Names = {dir.receipt}
      /\ IF dir.receipt = None THEN Receipt = "absent" ELSE Receipt = dir.receipt
  BY <1>0, FoundAtLoad
<1>2. CASE Receipt = "absent" /\ Toward("ingest", "intent") /\ UNCHANGED <<files, lock, cloud, faults>>
  <2>1. dir.receipt = None
    BY <1>0, <1>1, <1>2, FoundAtLoad DEF Files, OwnedTinyState
  <2>2. QED
    BY <1>0, <1>2, <2>1, TowardIsSound DEF Moves
<1>3. CASE Receipt \in {"intent", "created", "ready"} /\ With("ingest", "write")
           /\ UNCHANGED <<files, lock, cloud, faults>>
  <2>3. PICK a \in Command :
          /\ Update("ingest", a) /\ cmd'["ingest"] = a
          /\ a.pc = "write" /\ a.prior = dir.receipt
          /\ a.sent = cmd["ingest"].sent /\ a.confirmed = cmd["ingest"].confirmed
    BY <1>0, <1>3, WithFound DEF Sound
  <2>4. dir.receipt \in {"intent", "created", "ready"}
    BY <1>1, <1>3
  <2>5. Phase("ingest", cmd["ingest"])'
    BY <1>1, <1>3, <2>3, <2>4 DEF Phase, Opening, Changing, Removing, files, Synced
  <2>6. QED
    BY <1>0, <1>3, <2>3, <2>5, OnlyCommandMoves
<1>4. CASE Exit("ingest")
  BY <1>0, <1>4, ExitIsSound
<1>5. QED
  BY <1>2, <1>3, <1>4 DEF LoadForIngestion

LEMMA LoadForCleanupIsSound ==
  ASSUME Sound, LoadForCleanup
  PROVE  Sound'
<1>0. /\ "cleanup" \in Commands /\ cmd["cleanup"].pc = "load"
      /\ "quarantine" \in Points /\ "delete" \in Points /\ "cleanup_requested" \in Files
  BY DEF LoadForCleanup, At, Commands, Points, Removing, Files, OwnedTinyState
<1>1. /\ dir.tree /\ dir.key /\ Synced /\ Names = {dir.receipt}
      /\ IF dir.receipt = None THEN Receipt = "absent" ELSE Receipt = dir.receipt
  BY <1>0, FoundAtLoad
<1>2. CASE Receipt \in {"intent", "created", "ready"} /\ Toward("cleanup", "cleanup_requested")
           /\ UNCHANGED <<files, lock, cloud, faults>>
  <2>1. dir.receipt \in {"intent", "created", "ready"}
    BY <1>1, <1>2
  <2>2. QED
    BY <1>0, <1>2, <2>1, TowardIsSound DEF Moves
<1>3. ASSUME NEW pc \in {"quarantine", "delete"}, With("cleanup", pc),
             Receipt = IF pc = "quarantine" THEN "not_found_verified" ELSE "cleanup_requested",
             UNCHANGED <<files, lock, cloud, faults>>
      PROVE  Sound'
  <2>3. PICK a \in Command :
          /\ Update("cleanup", a) /\ cmd'["cleanup"] = a
          /\ a.pc = pc /\ a.prior = dir.receipt
          /\ a.sent = cmd["cleanup"].sent /\ a.confirmed = cmd["cleanup"].confirmed
    BY <1>0, <1>3, WithFound DEF Sound
  <2>4. dir.receipt = IF pc = "quarantine" THEN "not_found_verified" ELSE "cleanup_requested"
    BY <1>1, <1>3
  <2>5. Phase("cleanup", cmd["cleanup"])'
    BY <1>1, <1>3, <2>3, <2>4 DEF Phase, Opening, Changing, Removing, Removal, files, Synced
  <2>6. QED
    BY <1>0, <1>3, <2>3, <2>5, OnlyCommandMoves
<1>4. CASE Exit("cleanup")
  BY <1>0, <1>4, ExitIsSound
<1>5. QED
  BY <1>2, <1>3, <1>4 DEF LoadForCleanup

-----------------------------------------------------------------------------
(* A new receipt takes the place of the old one.                           *)

\* What holds of a command that replaces the receipt.
LEMMA ChangeHolds ==
  ASSUME Sound, NEW c \in Commands, cmd[c].pc \in Changing
  PROVE  /\ Change(c, cmd[c]) /\ dir.tree /\ dir.key
         /\ lock = c /\ lock # None /\ (Restoring <=> cmd[c].pc = "restore")
         /\ cmd[c].goal \in Files /\ cmd[c].prior \in Files \union {None}
         /\ cmd[c].goal # cmd[c].prior /\ cmd[c].goal # None
<1>1. cmd[c].pc \notin Opening
  BY DEF Changing, Opening
<1>2. Change(c, cmd[c]) /\ dir.tree /\ dir.key
  BY <1>1 DEF Sound, Phase
<1>3. cmd[c] \in Command
  BY DEF Sound, Typed
<1>4. cmd[c].goal # cmd[c].prior /\ cmd[c].goal # None
  BY <1>2, OwnedAssumption DEF Change, Moves, OwnedTinyState
<1>5. QED
  BY <1>1, <1>2, <1>3, <1>4, HolderIsAlone DEF Sound, Command, Opening

\* A command goes on and the cloud stays; the files may change.
LEMMA GoesOnSoundly ==
  ASSUME Sound, NEW c \in Commands, cmd[c].pc # "idle",
         NEW pc \in Points \ {"idle"}, Goto(c, pc), UNCHANGED <<lock, cloud>>,
         dir' \in Directories, onDisk' \in SUBSET Directories, dir' \in onDisk',
         data' \in [Files -> Content], mayRead' \in [Files -> SUBSET Content],
         FilesSound', CloudSound', Phase(c, cmd[c])'
  PROVE  Sound'
BY GoneOn, HolderMoves DEF Sound, Typed, cloud, Goto

\* Nothing on its way is forgotten when a command goes on.
LEMMA OutstandingStays ==
  ASSUME Typed, NEW c \in Commands, NEW pc \in Points, Goto(c, pc)
  PROVE  Outstanding("ingest")' = Outstanding("ingest")
BY GoneOn, UpdatedCommands DEF Outstanding, Commands, Goto

LEMMA PrepareIsSound ==
  ASSUME Sound, NEW c \in Commands, Prepare(c)
  PROVE  Sound'
<1> DEFINE new == cmd[c].goal
           d == [dir EXCEPT !.temp = new]
<1>1. /\ Rename(d) /\ data' = [data EXCEPT ![new] = new]
      /\ mayRead' = [mayRead EXCEPT ![new] = {"blank", new}]
      /\ Goto(c, "syncTemp") /\ UNCHANGED <<lock, cloud>> /\ cmd[c].pc = "prepare"
  BY DEF Prepare, At
<1>2. /\ "syncTemp" \in Points \ {"idle"} /\ "syncTemp" \in Changing
      /\ "prepare" \in Changing /\ "prepare" \notin {"idle", "restore"}
  BY DEF Points, Changing
<1>3. /\ Change(c, cmd[c]) /\ dir.tree /\ dir.key /\ new \in Files /\ new # cmd[c].prior
      /\ Synced /\ dir.receipt = cmd[c].prior /\ Names = {dir.receipt} /\ ~Restoring
  BY <1>1, <1>2, ChangeHolds, CurrentNames DEF Change, Sound
<1>4. /\ d \in Directories /\ d.receipt = dir.receipt /\ d.temp = new /\ d.tree /\ d.key
      /\ new \in Content /\ "blank" \in Content
  BY <1>3 DEF Sound, Typed, Directories, Content, Files
<1>5. /\ dir' = d /\ onDisk' = onDisk \union {d} /\ Names' = Names
  BY <1>1, <1>3, <1>4, RenamedNames DEF Rename
<1>6. /\ dir' \in Directories /\ onDisk' \in SUBSET Directories /\ dir' \in onDisk'
      /\ data' \in [Files -> Content] /\ mayRead' \in [Files -> SUBSET Content]
  BY <1>1, <1>4, <1>5 DEF Sound, Typed
<1>7. FilesSound'
  <2>1. \A i \in Files : data'[i] \in mayRead'[i]
    BY <1>1 DEF Sound, Typed, FilesSound
  <2>2. \A e \in onDisk' : e.receipt = dir.receipt
    BY <1>3, <1>4, <1>5 DEF Synced
  <2>3. dir.receipt # None => dir.receipt \in Files /\ mayRead'[dir.receipt] = mayRead[dir.receipt]
    BY <1>1, <1>3 DEF Sound, Typed, Directories
  <2>4. QED
    BY <1>3, <1>4, <1>5, <2>1, <2>2, <2>3 DEF Sound, Typed, FilesSound, Synced
<1>8. CloudSound'
  BY <1>1, <1>2, <1>3, <1>5, OutstandingStays, CloudStays DEF Sound
<1>9. Phase(c, cmd[c])'
  <2>1. /\ cmd'[c].pc = "syncTemp" /\ cmd'[c].prior = cmd[c].prior /\ cmd'[c].goal = cmd[c].goal
        /\ dir'.tree /\ dir'.key /\ dir'.temp = new /\ data'[new] = new
        /\ remote' = remote /\ deleting' = deleting
    BY <1>1, <1>2, <1>3, <1>4, <1>5, GoneOn DEF Sound, Typed, cloud
  <2>2. Change(c, cmd[c])'
    BY <1>3, <1>5, <2>1 DEF Change, Moves
  <2>3. QED
    BY <2>1, <2>2 DEF Phase, Opening, Changing, Removing
<1>10. QED
  BY <1>1, <1>2, <1>6, <1>7, <1>8, <1>9, GoesOnSoundly

LEMMA SyncTempIsSound ==
  ASSUME Sound, NEW c \in Commands, SyncTemp(c)
  PROVE  Sound'
<1>1. PICK pc \in {"install", "exchange"} :
        /\ cmd[c].pc = "syncTemp" /\ SyncFile(dir.temp)
        /\ pc = (IF cmd[c].prior = None THEN "install" ELSE "exchange")
        /\ Goto(c, pc) /\ UNCHANGED <<dir, onDisk, data, lock, cloud>>
  BY DEF SyncTemp, At
<1>2. /\ pc \in Points \ {"idle"} /\ pc \in Changing
      /\ "syncTemp" \in Changing /\ "syncTemp" \notin {"idle", "restore"}
  BY <1>1 DEF Points, Changing
<1>3. /\ Change(c, cmd[c]) /\ dir.tree /\ dir.key /\ cmd[c].goal \in Files /\ cmd[c].goal # cmd[c].prior
      /\ dir.temp = cmd[c].goal /\ data[cmd[c].goal] = cmd[c].goal /\ Names = {cmd[c].prior}
  BY <1>1, <1>2, ChangeHolds DEF Change
<1>4. /\ mayRead' = [mayRead EXCEPT ![cmd[c].goal] = {cmd[c].goal}]
      /\ mayRead' \in [Files -> SUBSET Content] /\ mayRead'[cmd[c].goal] = {cmd[c].goal}
  BY <1>1, <1>3 DEF SyncFile, Sound, Typed, Content, Files
<1>5. Names' = Names /\ Names # {}
  BY <1>1, CurrentNames DEF Names, Sound
<1>6. FilesSound'
  <2>1. \A i \in Files : data'[i] \in mayRead'[i]
    BY <1>1, <1>3, <1>4 DEF Sound, Typed, FilesSound
  <2>2. ASSUME NEW e \in onDisk', e.receipt # None
        PROVE  e.tree /\ e.key /\ mayRead'[e.receipt] = {e.receipt}
    <3>1. e \in onDisk /\ e.receipt = cmd[c].prior /\ e.receipt \in Files
      BY <1>1, <1>3, <2>2 DEF Names, Sound, Typed, Directories
    <3>2. mayRead'[e.receipt] = mayRead[e.receipt]
      BY <1>3, <1>4, <3>1 DEF Sound, Typed
    <3>3. QED
      BY <2>2, <3>1, <3>2 DEF Sound, FilesSound
  <2>3. QED
    BY <2>1, <2>2 DEF FilesSound
<1>7. CloudSound'
  BY <1>1, <1>2, <1>5, OutstandingStays, CloudStays DEF Sound
<1>8. Phase(c, cmd[c])'
  <2>1. /\ cmd'[c].pc = pc /\ cmd'[c].prior = cmd[c].prior /\ cmd'[c].goal = cmd[c].goal
        /\ dir' = dir /\ remote' = remote /\ deleting' = deleting
    BY <1>1, <1>2, GoneOn DEF Sound, cloud
  <2>2. Change(c, cmd[c])'
    BY <1>1, <1>3, <1>4, <1>5, <2>1 DEF Change, Moves
  <2>3. QED
    BY <1>1, <1>3, <2>1, <2>2 DEF Phase, Opening, Changing, Removing
<1>9. QED
  BY <1>1, <1>2, <1>4, <1>6, <1>7, <1>8, GoesOnSoundly DEF Sound, Typed

\* A directory enters the disk whose fixed name is whole.
LEMMA RenameKeepsFilesSound ==
  ASSUME Sound, NEW d \in Directories, Rename(d), UNCHANGED <<data, mayRead>>,
         d.receipt # None => d.tree /\ d.key /\ mayRead[d.receipt] = {d.receipt}
  PROVE  /\ FilesSound' /\ dir' = d /\ Names' = Names \union {d.receipt}
         /\ dir' \in Directories /\ onDisk' \in SUBSET Directories /\ dir' \in onDisk'
         /\ data' \in [Files -> Content] /\ mayRead' \in [Files -> SUBSET Content]
BY RenamedNames DEF Sound, Typed, FilesSound, Rename

\* A name that may come back is whole.
LEMMA NamesAreWhole ==
  ASSUME Sound, NEW n \in Names, n # None
  PROVE  n \in Files /\ mayRead[n] = {n}
BY DEF Sound, Typed, FilesSound, Names, Directories

LEMMA InstallIsSound ==
  ASSUME Sound, NEW c \in Commands, Install(c)
  PROVE  Sound'
<1> DEFINE d == [dir EXCEPT !.receipt = dir.temp, !.temp = None]
<1>1. /\ cmd[c].pc = "install" /\ Rename(d) /\ Goto(c, "syncReceipt")
      /\ UNCHANGED <<data, mayRead, lock, cloud>>
  BY DEF Install, At
<1>2. /\ "syncReceipt" \in Points \ {"idle"} /\ "syncReceipt" \in Changing /\ "install" \in Changing
  BY DEF Points, Changing
<1>3. /\ Change(c, cmd[c]) /\ dir.tree /\ dir.key /\ cmd[c].goal \in Files /\ ~Restoring
      /\ dir.temp = cmd[c].goal /\ mayRead[cmd[c].goal] = {cmd[c].goal}
      /\ Names = {None} /\ cmd[c].prior = None /\ cmd[c].goal # None
  BY <1>1, <1>2, ChangeHolds DEF Change
<1>4. cmd[c].goal = "intent"
  BY <1>3, OwnedAssumption DEF Change, Moves, OwnedTinyState
<1>5. d \in Directories /\ d.receipt = cmd[c].goal /\ d.tree /\ d.key
  BY <1>3 DEF Sound, Typed, Directories
<1>6. /\ FilesSound' /\ dir' = d /\ Names' = {None, "intent"}
      /\ dir' \in Directories /\ onDisk' \in SUBSET Directories /\ dir' \in onDisk'
      /\ data' \in [Files -> Content] /\ mayRead' \in [Files -> SUBSET Content]
  BY <1>1, <1>3, <1>4, <1>5, RenameKeepsFilesSound
<1>7. CloudSound'
  <2>1. remote = {} /\ wire = {} /\ ~deleting
    BY <1>3 DEF Sound, CloudSound
  <2>2. QED
    BY <1>1, <1>6, <2>1, OwnedAssumption DEF CloudSound, cloud, OwnedTinyState
<1>8. Phase(c, cmd[c])'
  <2>1. /\ cmd'[c].pc = "syncReceipt" /\ cmd'[c].prior = cmd[c].prior /\ cmd'[c].goal = cmd[c].goal
        /\ dir'.receipt = cmd[c].goal /\ dir'.tree /\ dir'.key
    BY <1>1, <1>2, <1>5, <1>6, GoneOn DEF Sound
  <2>2. Change(c, cmd[c])'
    BY <1>3, <1>4, <1>6, <2>1 DEF Change, Moves
  <2>3. QED
    BY <2>1, <2>2 DEF Phase, Opening, Changing, Removing
<1>9. QED
  BY <1>1, <1>2, <1>6, <1>7, <1>8, GoesOnSoundly

LEMMA ExchangeIsSound ==
  ASSUME Sound, NEW c \in Commands, Exchange(c)
  PROVE  Sound'
<1> DEFINE d == [dir EXCEPT !.receipt = dir.temp, !.temp = dir.receipt]
<1>1. /\ cmd[c].pc = "exchange" /\ Rename(d) /\ Goto(c, "displaced") /\ dir.receipt = cmd[c].prior
      /\ UNCHANGED <<data, mayRead, lock, cloud>>
  BY DEF Exchange, At, Authentic
<1>2. /\ "displaced" \in Points \ {"idle"} /\ "displaced" \in Changing /\ "exchange" \in Changing
  BY DEF Points, Changing
<1>3. /\ Change(c, cmd[c]) /\ dir.tree /\ dir.key /\ cmd[c].goal \in Files /\ ~Restoring
      /\ dir.temp = cmd[c].goal /\ mayRead[cmd[c].goal] = {cmd[c].goal}
      /\ Names = {cmd[c].prior} /\ cmd[c].prior # None /\ cmd[c].goal # None
      /\ cmd[c].prior # cmd[c].goal /\ lock = c
  BY <1>1, <1>2, ChangeHolds DEF Change
<1>4. d \in Directories /\ d.receipt = cmd[c].goal /\ d.temp = cmd[c].prior /\ d.tree /\ d.key
  BY <1>1, <1>3 DEF Sound, Typed, Directories
<1>5. /\ FilesSound' /\ dir' = d /\ Names' = {cmd[c].prior, cmd[c].goal}
      /\ dir' \in Directories /\ onDisk' \in SUBSET Directories /\ dir' \in onDisk'
      /\ data' \in [Files -> Content] /\ mayRead' \in [Files -> SUBSET Content]
  BY <1>1, <1>3, <1>4, RenameKeepsFilesSound
<1>6. CloudSound'
  <2>1. ~deleting
    BY <1>3 DEF Sound, CloudSound, Change, Moves
  <2>2. cmd[c].goal = "ready" => remote = Batch
    BY <1>3 DEF Change
  <2>3. cmd[c].goal = "not_found_verified" => remote = {} /\ wire = {}
    BY <1>3 DEF Change, Moves, Sound, CloudSound, Commands
  <2>4. wire' = wire /\ remote' = remote /\ deleting' = deleting /\ lock' = lock
        /\ Outstanding("ingest")' = Outstanding("ingest")
    BY <1>1, <1>2, OutstandingStays DEF Sound, cloud
  <2>5. QED
    BY <1>3, <1>5, <2>1, <2>2, <2>3, <2>4 DEF Sound, CloudSound
<1>7. Phase(c, cmd[c])'
  <2>1. /\ cmd'[c].pc = "displaced" /\ cmd'[c].prior = cmd[c].prior /\ cmd'[c].goal = cmd[c].goal
        /\ dir'.receipt = cmd[c].goal /\ dir'.temp = cmd[c].prior /\ dir'.tree /\ dir'.key
        /\ remote' = remote /\ deleting' = deleting
    BY <1>1, <1>2, <1>4, <1>5, GoneOn DEF Sound, cloud
  <2>2. Change(c, cmd[c])'
    BY <1>3, <1>5, <2>1 DEF Change, Moves
  <2>3. QED
    BY <2>1, <2>2 DEF Phase, Opening, Changing, Removing
<1>8. QED
  BY <1>1, <1>2, <1>5, <1>6, <1>7, GoesOnSoundly

LEMMA RemoveDisplacedIsSound ==
  ASSUME Sound, NEW c \in Commands, RemoveDisplaced(c)
  PROVE  Sound'
<1> DEFINE d == [dir EXCEPT !.temp = None]
<1>1. /\ cmd[c].pc = "displaced" /\ Rename(d) /\ Goto(c, "syncReceipt")
      /\ UNCHANGED <<data, mayRead, lock, cloud>>
  BY DEF RemoveDisplaced, At
<1>2. /\ "syncReceipt" \in Points \ {"idle", "restore"}
      /\ "displaced" \in Changing /\ "displaced" \notin {"idle", "restore"}
  BY DEF Points, Changing
<1>3. /\ Change(c, cmd[c]) /\ dir.tree /\ dir.key /\ dir.receipt = cmd[c].goal
      /\ Names = {cmd[c].prior, cmd[c].goal}
  BY <1>1, <1>2, ChangeHolds DEF Change
<1>4. /\ d \in Directories /\ d.receipt = dir.receipt /\ d.tree /\ d.key
      /\ dir' = d /\ Names' = Names
  BY <1>1, <1>3, RenamedNames DEF Sound, Typed, Directories, Rename
<1>5. Phase(c, cmd[c])'
  <2>1. /\ cmd'[c].pc = "syncReceipt" /\ cmd'[c].prior = cmd[c].prior /\ cmd'[c].goal = cmd[c].goal
        /\ dir'.receipt = cmd[c].goal /\ dir'.tree /\ dir'.key
        /\ remote' = remote /\ deleting' = deleting
    BY <1>1, <1>2, <1>3, <1>4, GoneOn DEF Sound, cloud
  <2>2. Change(c, cmd[c])'
    BY <1>3, <1>4, <2>1 DEF Change, Moves
  <2>3. QED
    BY <2>1, <2>2 DEF Phase, Opening, Changing, Removing
<1>6. QED
  BY <1>1, <1>2, <1>4, <1>5, NewEntryIsSound

LEMMA SyncReceiptIsSound ==
  ASSUME Sound, NEW c \in Commands, SyncReceipt(c)
  PROVE  Sound'
<1>1. /\ cmd[c].pc = "syncReceipt" /\ SyncDirectory /\ With(c, After(c))
      /\ UNCHANGED <<dir, data, mayRead, lock, cloud>>
  BY DEF SyncReceipt, At
<1>2. "syncReceipt" \in Changing /\ "syncReceipt" \notin {"idle", "restore"}
  BY DEF Changing
<1>3. /\ Change(c, cmd[c]) /\ dir.tree /\ dir.key /\ dir.receipt = cmd[c].goal
  BY <1>1, <1>2, ChangeHolds DEF Change
<1>4. /\ After(c) \in Points
      /\ \/ After(c) = "done" /\ c = "ingest"
         \/ After(c) = "write" /\ c = "ingest" /\ cmd[c].goal \in {"intent", "created"}
         \/ After(c) = "delete" /\ c = "cleanup" /\ cmd[c].goal = "cleanup_requested"
         \/ After(c) = "quarantine" /\ c = "cleanup" /\ cmd[c].goal = "not_found_verified"
  BY <1>3 DEF After, Change, Moves, Commands, Points, Removing
<1>5. PICK a \in Command :
        /\ Update(c, a) /\ cmd'[c] = a
        /\ a.pc = After(c) /\ a.prior = dir.receipt
        /\ a.sent = cmd[c].sent /\ a.confirmed = cmd[c].confirmed
  BY <1>1, <1>4, WithFound DEF Sound
<1>6. Synced' /\ dir' = dir
  BY <1>1 DEF Synced, SyncDirectory
<1>7. Phase(c, cmd[c])'
  BY <1>3, <1>4, <1>5, <1>6 DEF Phase, Opening, Changing, Removing, Removal
<1>8. QED
  BY <1>1, <1>2, <1>4, <1>5, <1>7, FlushIsSound

LEMMA RemovalFailsIsSound ==
  ASSUME Sound, NEW c \in Commands, RemovalFails(c)
  PROVE  Sound'
<1> DEFINE d == [dir EXCEPT !.receipt = None]
<1>1. /\ cmd[c].pc = "displaced" /\ Rename(d) /\ Goto(c, "restore")
      /\ UNCHANGED <<data, mayRead, lock, cloud>>
  BY DEF RemovalFails, At
<1>2. /\ "restore" \in Points \ {"idle"} /\ "restore" \in Changing /\ "displaced" \in Changing
  BY DEF Points, Changing
<1>3. /\ Change(c, cmd[c]) /\ dir.tree /\ dir.key /\ ~Restoring
      /\ dir.temp = cmd[c].prior /\ Names = {cmd[c].prior, cmd[c].goal} /\ cmd[c].prior # None
      /\ cmd[c].prior # cmd[c].goal
  BY <1>1, <1>2, ChangeHolds DEF Change
<1>4. d \in Directories /\ d.receipt = None /\ d.temp = cmd[c].prior /\ d.tree /\ d.key
  BY <1>3 DEF Sound, Typed, Directories
<1>5. /\ FilesSound' /\ dir' = d /\ Names' = Names \union {None}
      /\ dir' \in Directories /\ onDisk' \in SUBSET Directories /\ dir' \in onDisk'
      /\ data' \in [Files -> Content] /\ mayRead' \in [Files -> SUBSET Content]
  BY <1>1, <1>4, RenameKeepsFilesSound
<1>6. cmd'[c].pc = "restore" /\ cmd'[c].prior = cmd[c].prior /\ cmd'[c].goal = cmd[c].goal
  BY <1>1, <1>2, GoneOn DEF Sound
<1>7. CloudSound'
  <2>1. ~deleting
    BY <1>3 DEF Sound, CloudSound
  <2>2. wire' = wire /\ remote' = remote /\ deleting' = deleting /\ lock' = lock
        /\ Outstanding("ingest")' = Outstanding("ingest") /\ Restoring'
    BY <1>1, <1>2, <1>6, OutstandingStays DEF Sound, cloud, Restoring, At
  <2>3. QED
    BY <1>5, <2>1, <2>2, OwnedAssumption DEF Sound, CloudSound, OwnedTinyState
<1>8. Phase(c, cmd[c])'
  <2>1. Change(c, cmd[c])'
    BY <1>1, <1>3, <1>4, <1>5, <1>6 DEF Change, Moves, cloud
  <2>2. QED
    BY <1>4, <1>5, <1>6, <2>1 DEF Phase, Opening, Changing, Removing
<1>9. QED
  BY <1>1, <1>2, <1>5, <1>7, <1>8, GoesOnSoundly

LEMMA RestoreIsSound ==
  ASSUME Sound, NEW c \in Commands, Restore(c)
  PROVE  Sound'
<1> DEFINE d == [dir EXCEPT !.receipt = dir.temp, !.temp = None]
<1>1. /\ cmd[c].pc = "restore" /\ dir' = d /\ onDisk' = {d} /\ Ends(c)
      /\ UNCHANGED <<data, mayRead>>
  BY DEF Restore, At
<1>2. "restore" \in Changing /\ "restore" # "idle"
  BY DEF Changing
<1>3. /\ dir.tree /\ dir.key /\ dir.temp = cmd[c].prior /\ cmd[c].prior \in Names /\ cmd[c].prior # None
  BY <1>1, <1>2, ChangeHolds DEF Change
<1>4. mayRead[cmd[c].prior] = {cmd[c].prior} /\ cmd[c].prior \in Files
  BY <1>3, NamesAreWhole
<1>5. d \in Directories /\ d.receipt = cmd[c].prior /\ d.tree /\ d.key
  BY <1>3, <1>4 DEF Sound, Typed, Directories
<1>6. Names' = {cmd[c].prior}
  BY <1>1, <1>5, FlushedNames
<1>7. FilesSound'
  BY <1>1, <1>4, <1>5 DEF Sound, FilesSound
<1>8. QED
  BY <1>1, <1>2, <1>3, <1>5, <1>6, <1>7, CommandEnds DEF Sound, Typed

-----------------------------------------------------------------------------
(* The namespace is written.                                               *)

\* What holds of an ingestion that writes.
LEMMA WriterHolds ==
  ASSUME Sound, cmd["ingest"].pc = "write"
  PROVE  /\ "ingest" \in Commands /\ cmd["ingest"] \in Command
         /\ dir.tree /\ dir.key /\ Synced /\ Names = {dir.receipt}
         /\ Receipt = dir.receipt /\ cmd["ingest"].prior = dir.receipt
         /\ dir.receipt \in {"intent", "created", "ready"} /\ dir.receipt # None
         /\ lock = "ingest" /\ ~deleting /\ ~Restoring
<1>1. "ingest" \in Commands
  BY DEF Commands
<1>2. /\ cmd["ingest"].prior = dir.receipt /\ dir.receipt \in {"intent", "created", "ready"}
      /\ cmd["ingest"] \in Command
  BY <1>1 DEF Sound, Phase, Typed
<1>3. dir.receipt # None
  BY <1>2, OwnedAssumption DEF OwnedTinyState
<1>4. dir.tree /\ dir.key /\ Synced /\ Names = {dir.receipt} /\ Receipt = dir.receipt
  BY <1>1, <1>3, FoundAtLoad
<1>5. ~deleting
  BY <1>2, <1>4 DEF Sound, CloudSound
<1>6. QED
  BY <1>1, <1>2, <1>3, <1>4, <1>5, HolderIsAlone DEF Sound

LEMMA SendBatchIsSound ==
  ASSUME Sound, NEW b \in Batch, SendBatch(b)
  PROVE  Sound'
<1> DEFINE a == [cmd["ingest"] EXCEPT !.sent = @ \union {b}]
<1>1. /\ cmd["ingest"].pc = "write" /\ b \notin cmd["ingest"].sent /\ wire' = wire \union {b}
      /\ Update("ingest", a) /\ UNCHANGED <<files, lock, remote, deleting, faults>>
  BY DEF SendBatch
<1>2. /\ "ingest" \in Commands /\ cmd["ingest"] \in Command
      /\ dir.tree /\ dir.key /\ Synced /\ Names = {dir.receipt}
      /\ Receipt = dir.receipt /\ cmd["ingest"].prior = dir.receipt
      /\ dir.receipt \in {"intent", "created", "ready"} /\ dir.receipt # None
      /\ lock = "ingest" /\ ~deleting /\ ~Restoring
  BY <1>1, WriterHolds
<1>3. /\ a \in Command /\ a.pc = "write" /\ a.prior = cmd["ingest"].prior
      /\ a.sent = cmd["ingest"].sent \union {b} /\ a.confirmed = cmd["ingest"].confirmed
      /\ a.confirmed \subseteq cmd["ingest"].sent
  BY <1>1, <1>2 DEF Command
<1>4. cmd'["ingest"].pc = "write" /\ cmd'["ingest"].prior = cmd["ingest"].prior
      /\ cmd'["ingest"].sent = cmd["ingest"].sent \union {b}
      /\ cmd'["ingest"].confirmed = cmd["ingest"].confirmed
  BY <1>1, <1>2, <1>3, UpdatedCommands DEF Sound
<1>5. /\ Names' = Names /\ FilesSound' /\ Synced' /\ dir' = dir
      /\ remote' = remote /\ deleting' = deleting /\ lock' = lock
  BY <1>1, <1>2 DEF Sound, FilesSound, Names, Synced, files
<1>6. CloudSound'
  <2>1. wire' \subseteq Outstanding("ingest")'
    BY <1>1, <1>3, <1>4 DEF Sound, CloudSound, Outstanding
  <2>2. QED
    BY <1>2, <1>5, <2>1 DEF Sound, CloudSound
<1>7. Phase("ingest", cmd["ingest"])'
  BY <1>2, <1>4, <1>5 DEF Phase, Opening, Changing, Removing
<1>8. /\ dir' \in Directories /\ onDisk' \in SUBSET Directories /\ dir' \in onDisk'
      /\ data' \in [Files -> Content] /\ mayRead' \in [Files -> SUBSET Content]
      /\ remote' \in SUBSET Batch /\ deleting' \in BOOLEAN /\ wire' \in SUBSET Batch
      /\ cmd["ingest"].pc # "idle"
  BY <1>1, <1>5 DEF Sound, Typed, files
<1>9. a.pc # "idle"
  BY <1>3
<1>10. QED
  BY <1>1, <1>2, <1>3, <1>5, <1>6, <1>7, <1>8, <1>9, HolderMoves

LEMMA BatchConfirmedIsSound ==
  ASSUME Sound, NEW b \in Batch, BatchConfirmed(b)
  PROVE  Sound'
<1> DEFINE pc == IF Receipt = "intent" THEN "prepare" ELSE "write"
           goal == IF Receipt = "intent" THEN "created" ELSE cmd["ingest"].goal
           a == [cmd["ingest"] EXCEPT !.confirmed = @ \union {b}, !.pc = pc, !.goal = goal]
<1>1. /\ cmd["ingest"].pc = "write" /\ b \in Outstanding("ingest") \ wire
      /\ Update("ingest", a) /\ UNCHANGED <<files, lock, cloud, faults>>
  BY DEF BatchConfirmed
<1>2. /\ "ingest" \in Commands /\ cmd["ingest"] \in Command
      /\ dir.tree /\ dir.key /\ Synced /\ Names = {dir.receipt}
      /\ Receipt = dir.receipt /\ cmd["ingest"].prior = dir.receipt
      /\ dir.receipt \in {"intent", "created", "ready"} /\ dir.receipt # None
      /\ lock = "ingest" /\ ~deleting /\ ~Restoring
  BY <1>1, WriterHolds
<1>3. /\ a \in Command /\ a.pc = pc /\ a.prior = cmd["ingest"].prior /\ a.goal = goal
      /\ a.sent = cmd["ingest"].sent /\ a.confirmed = cmd["ingest"].confirmed \union {b}
      /\ a.pc # "idle"
  <2>1. pc \in Points \ {"idle"}
    BY DEF Points, Changing
  <2>2. goal \in Files
    BY <1>2 DEF Command, Files, OwnedTinyState
  <2>3. b \in cmd["ingest"].sent
    BY <1>1 DEF Outstanding
  <2>4. /\ a.pc = pc /\ a.prior = cmd["ingest"].prior /\ a.goal = goal
        /\ a.sent = cmd["ingest"].sent /\ a.confirmed = cmd["ingest"].confirmed \union {b}
    BY <1>2 DEF Command
  <2> HIDE DEF pc, goal
  <2>5. a \in Command
    BY <1>2, <2>1, <2>2, <2>3 DEF Command
  <2>6. QED
    BY <2>1, <2>4, <2>5
<1>4. /\ cmd'["ingest"].pc = pc /\ cmd'["ingest"].prior = cmd["ingest"].prior
      /\ cmd'["ingest"].goal = goal
      /\ cmd'["ingest"].sent = cmd["ingest"].sent
      /\ cmd'["ingest"].confirmed = cmd["ingest"].confirmed \union {b}
  BY <1>1, <1>2, <1>3, UpdatedCommands DEF Sound
<1>5. /\ Names' = Names /\ FilesSound' /\ Synced' /\ dir' = dir
      /\ remote' = remote /\ deleting' = deleting /\ lock' = lock /\ wire' = wire
  BY <1>1, <1>2 DEF Sound, FilesSound, Names, Synced, files, cloud
<1>6. CloudSound'
  <2>1. wire' \subseteq Outstanding("ingest")'
    BY <1>1, <1>4, <1>5 DEF Sound, CloudSound, Outstanding
  <2>2. QED
    BY <1>2, <1>5, <2>1 DEF Sound, CloudSound
<1>7. Phase("ingest", cmd["ingest"])'
  <2>1. CASE Receipt = "intent"
    <3>1. Change("ingest", cmd["ingest"])'
      BY <1>2, <1>4, <1>5, <2>1 DEF Change, Moves
    <3>2. QED
      BY <1>2, <1>4, <1>5, <2>1, <3>1 DEF Phase, Opening, Changing, Removing
  <2>2. CASE Receipt # "intent"
    BY <1>2, <1>4, <1>5, <2>2 DEF Phase, Opening, Changing, Removing
  <2>3. QED
    BY <2>1, <2>2
<1>8. /\ dir' \in Directories /\ onDisk' \in SUBSET Directories /\ dir' \in onDisk'
      /\ data' \in [Files -> Content] /\ mayRead' \in [Files -> SUBSET Content]
      /\ remote' \in SUBSET Batch /\ deleting' \in BOOLEAN /\ wire' \in SUBSET Batch
      /\ cmd["ingest"].pc # "idle"
  BY <1>1, <1>5 DEF Sound, Typed, files
<1>9. QED
  BY <1>1, <1>2, <1>3, <1>5, <1>6, <1>7, <1>8, HolderMoves

LEMMA ReportedIsSound ==
  ASSUME Sound, Reported
  PROVE  Sound'
<1>1. /\ cmd["ingest"].pc = "write" /\ remote = Batch /\ UNCHANGED <<files, lock, cloud, faults>>
      /\ IF Receipt = "created" THEN Toward("ingest", "ready") ELSE Goto("ingest", "done")
  BY DEF Reported
<1>2. /\ "ingest" \in Commands /\ dir.tree /\ dir.key /\ Synced /\ ~deleting
      /\ Receipt = dir.receipt
  BY <1>1, WriterHolds
<1>3. "ready" \in Files /\ "done" \in Points
  BY DEF Files, OwnedTinyState, Points
<1>4. CASE Receipt = "created"
  BY <1>1, <1>2, <1>3, <1>4, TowardIsSound DEF Moves
<1>5. CASE Receipt # "created"
  <2>1. cmd'["ingest"].pc = "done" /\ dir'.tree /\ dir'.key /\ Synced'
    BY <1>1, <1>2, <1>3, <1>5, GoneOn DEF Sound, Synced, files
  <2>2. Phase("ingest", cmd["ingest"])'
    BY <2>1 DEF Phase, Opening, Changing, Removing
  <2>3. QED
    BY <1>1, <1>2, <1>3, <1>5, <2>2, GoneOn, OnlyCommandMoves DEF Sound, Goto
<1>6. QED
  BY <1>4, <1>5

LEMMA DoneIsSound ==
  ASSUME Sound, Done
  PROVE  Sound'
BY ExitIsSound DEF Done, At, Commands

-----------------------------------------------------------------------------
(* The provider at work.                                                   *)

\* The cloud changes beside the commands and the files.
LEMMA CloudMoves ==
  ASSUME Sound, UNCHANGED <<files, lock, cmd>>,
         remote' \in SUBSET Batch, wire' \in SUBSET Batch, deleting' \in BOOLEAN, CloudSound',
         \A c \in Commands : cmd[c].pc \in Changing =>
           /\ cmd[c].goal = "ready" => remote' = Batch /\ ~deleting'
           /\ cmd[c].goal = "not_found_verified" => remote' = {}
  PROVE  Sound'
<1>1. Typed'
  BY DEF Sound, Typed, files
<1>2. FilesSound'
  BY DEF Sound, FilesSound, files
<1>3. ASSUME NEW c \in Commands PROVE Phase(c, cmd[c])'
  <2>1. Phase(c, cmd[c]) /\ UNCHANGED <<dir, onDisk, data, mayRead, cmd, Names, Synced>>
    BY DEF Sound, files, Names, Synced
  <2>2. cmd[c].pc \in Changing => Change(c, cmd[c])'
    BY <2>1 DEF Phase, Change
  <2>3. cmd[c].pc \in Removing => Removal(c, cmd[c])'
    BY <2>1 DEF Phase, Removal
  <2>4. QED
    BY <2>1, <2>2, <2>3 DEF Phase
<1>4. QED
  BY <1>1, <1>2, <1>3 DEF Sound

LEMMA BatchLandsIsSound ==
  ASSUME Sound, NEW b \in Batch, BatchLands(b)
  PROVE  Sound'
<1>1. /\ b \in wire /\ wire' = wire \ {b} /\ remote' = remote \union {b}
      /\ UNCHANGED <<files, lock, cmd, deleting>>
  BY DEF BatchLands
<1>2. lock = "ingest"
  BY <1>1 DEF Sound, CloudSound
<1>3. CloudSound'
  <2>1. /\ Names' = Names /\ Restoring' = Restoring /\ deleting' = deleting /\ lock' = lock
        /\ Outstanding("ingest")' = Outstanding("ingest")
    BY <1>1 DEF Names, files, Restoring, At, Outstanding
  <2>2. remote # {} => remote' # {}
    BY <1>1
  <2>3. remote = Batch => remote' = Batch
    BY <1>1
  <2>4. QED
    BY <1>1, <2>1, <2>2, <2>3 DEF Sound, CloudSound
<1>4. ASSUME NEW c \in Commands, cmd[c].pc \in Changing
      PROVE  /\ cmd[c].goal = "ready" => remote' = Batch /\ ~deleting'
             /\ cmd[c].goal = "not_found_verified" => remote' = {}
  <2>1. Change(c, cmd[c]) /\ lock = c
    BY <1>4, ChangeHolds
  <2>2. QED
    BY <1>1, <1>2, <2>1 DEF Change, Moves
<1>5. QED
  BY <1>1, <1>3, <1>4, CloudMoves DEF Sound, Typed

LEMMA ProviderDeletesIsSound ==
  ASSUME Sound, ProviderDeletes
  PROVE  Sound'
<1>1. deleting /\ deleting' = FALSE /\ remote' = {} /\ UNCHANGED <<files, lock, cmd, wire>>
  BY DEF ProviderDeletes
<1>2. Names = {"cleanup_requested"}
  BY <1>1 DEF Sound, CloudSound
<1>3. CloudSound'
  <2>1. /\ Names' = Names /\ wire' = wire /\ lock' = lock
        /\ Outstanding("ingest")' = Outstanding("ingest")
    BY <1>1 DEF Names, files, Outstanding
  <2>2. None # "cleanup_requested"
    BY OwnedAssumption DEF OwnedTinyState
  <2>3. QED
    BY <1>1, <1>2, <2>1, <2>2 DEF Sound, CloudSound
<1>4. ASSUME NEW c \in Commands, cmd[c].pc \in Changing
      PROVE  /\ cmd[c].goal = "ready" => remote' = Batch /\ ~deleting'
             /\ cmd[c].goal = "not_found_verified" => remote' = {}
  <2>1. Change(c, cmd[c])
    BY <1>4, ChangeHolds
  <2>2. QED
    BY <1>1, <2>1 DEF Change
<1>5. QED
  BY <1>1, <1>3, <1>4, CloudMoves DEF Sound, Typed

-----------------------------------------------------------------------------
(* The namespace and its receipt are removed.                              *)

LEMMA DeleteNamespaceIsSound ==
  ASSUME Sound, DeleteNamespace
  PROVE  Sound'
<1> DEFINE a == [cmd["cleanup"] EXCEPT !.pc = "verify", !.polls = 0]
<1>1. /\ cmd["cleanup"].pc = "delete" /\ deleting' = (deleting \/ remote # {})
      /\ Update("cleanup", a) /\ UNCHANGED <<files, lock, remote, wire>>
  BY DEF DeleteNamespace, At
<1>2. "cleanup" \in Commands /\ cmd["cleanup"] \in Command
  BY DEF Commands, Sound, Typed
<1>3. /\ dir.tree /\ dir.key /\ Synced /\ Names = {"cleanup_requested"}
      /\ dir.receipt = "cleanup_requested" /\ cmd["cleanup"].prior = dir.receipt
      /\ lock = "cleanup"
  <2>1. dir.tree /\ dir.key /\ Synced /\ Names = {dir.receipt}
    BY <1>1, <1>2, FoundAtLoad
  <2>2. cmd["cleanup"].prior = dir.receipt /\ dir.receipt = "cleanup_requested"
    BY <1>1, <1>2 DEF Sound, Phase
  <2>3. lock = "cleanup"
    BY <1>1, <1>2, HolderIsAlone DEF Sound
  <2>4. QED
    BY <2>1, <2>2, <2>3
<1>4. /\ a \in Command /\ a.pc = "verify" /\ a.pc # "idle" /\ a.prior = cmd["cleanup"].prior
  BY <1>2 DEF Command, Points
<1>5. /\ cmd'["cleanup"].pc = "verify" /\ cmd'["cleanup"].prior = cmd["cleanup"].prior
      /\ cmd'["ingest"] = cmd["ingest"]
  BY <1>1, <1>2, <1>4, UpdatedCommands DEF Sound, Commands
<1>6. /\ Names' = Names /\ FilesSound' /\ Synced' /\ dir' = dir
      /\ remote' = remote /\ lock' = lock /\ wire' = wire
  BY <1>1, <1>3 DEF Sound, FilesSound, Names, Synced, files
<1>7. CloudSound'
  <2>1. Outstanding("ingest")' = Outstanding("ingest") /\ wire = {}
    BY <1>3, <1>5 DEF Outstanding, Sound, CloudSound
  <2>2. None # "cleanup_requested"
    BY OwnedAssumption DEF OwnedTinyState
  <2>3. QED
    BY <1>1, <1>3, <1>6, <2>1, <2>2 DEF Sound, CloudSound
<1>8. Phase("cleanup", cmd["cleanup"])'
  BY <1>3, <1>5, <1>6 DEF Phase, Opening, Changing, Removing
<1>9. /\ dir' \in Directories /\ onDisk' \in SUBSET Directories /\ dir' \in onDisk'
      /\ data' \in [Files -> Content] /\ mayRead' \in [Files -> SUBSET Content]
      /\ remote' \in SUBSET Batch /\ deleting' \in BOOLEAN /\ wire' \in SUBSET Batch
      /\ cmd["cleanup"].pc # "idle"
  BY <1>1, <1>6 DEF Sound, Typed, files
<1>10. QED
  BY <1>1, <1>2, <1>4, <1>6, <1>7, <1>8, <1>9, HolderMoves

LEMMA VerifyNotFoundIsSound ==
  ASSUME Sound, VerifyNotFound
  PROVE  Sound'
<1> DEFINE a == [cmd["cleanup"] EXCEPT !.polls = @ + 1]
<1>1. "cleanup" \in Commands /\ cmd["cleanup"] \in Command /\ cmd["cleanup"].pc = "verify"
  BY DEF Commands, Sound, Typed, VerifyNotFound
<1>2. /\ dir.tree /\ dir.key /\ Synced
      /\ dir.receipt = "cleanup_requested" /\ cmd["cleanup"].prior = dir.receipt
  BY <1>1, FoundAtLoad DEF Sound, Phase
<1>3. CASE remote = {} /\ Toward("cleanup", "not_found_verified") /\ UNCHANGED <<files, lock, cloud, faults>>
  BY <1>1, <1>2, <1>3, TowardIsSound DEF Moves, Files, OwnedTinyState
<1>4. CASE Update("cleanup", a) /\ UNCHANGED <<files, lock, cloud, faults>>
  <2>1. /\ a \in Command /\ a.pc = "verify" /\ a.prior = cmd["cleanup"].prior
        /\ a.sent = cmd["cleanup"].sent /\ a.confirmed = cmd["cleanup"].confirmed
    BY <1>1 DEF Command
  <2>2. cmd'["cleanup"].pc = "verify" /\ cmd'["cleanup"].prior = cmd["cleanup"].prior
    BY <1>1, <1>4, <2>1, UpdatedCommands DEF Sound
  <2>3. dir' = dir /\ Synced'
    BY <1>2, <1>4 DEF files, Synced
  <2>4. Phase("cleanup", cmd["cleanup"])'
    BY <1>2, <2>2, <2>3 DEF Phase, Opening, Changing, Removing
  <2>5. a.pc # "idle"
    BY <2>1
  <2>6. QED
    BY <1>1, <1>4, <2>1, <2>4, <2>5, OnlyCommandMoves
<1>5. CASE Exit("cleanup")
  BY <1>1, <1>5, ExitIsSound
<1>6. QED
  BY <1>3, <1>4, <1>5 DEF VerifyNotFound

\* What holds of a command that removes the receipt.
LEMMA RemovalHolds ==
  ASSUME Sound, cmd["cleanup"].pc \in Removing
  PROVE  /\ "cleanup" \in Commands /\ Removal("cleanup", cmd["cleanup"])
         /\ dir.tree /\ dir.key /\ lock = "cleanup" /\ ~Restoring
         /\ cmd["cleanup"].pc \notin {"idle", "restore"} /\ cmd["cleanup"].pc \in Points
<1>1. /\ "cleanup" \in Commands /\ cmd["cleanup"].pc \notin Opening
      /\ cmd["cleanup"].pc \notin {"idle", "restore"} /\ cmd["cleanup"].pc \in Points
  BY DEF Commands, Removing, Opening, Points
<1>2. QED
  BY <1>1, HolderIsAlone DEF Sound, Phase

LEMMA QuarantineIsSound ==
  ASSUME Sound, Quarantine
  PROVE  Sound'
<1> DEFINE d == [dir EXCEPT !.receipt = None, !.temp = dir.receipt]
<1>1. /\ cmd["cleanup"].pc = "quarantine" /\ Rename(d) /\ Goto("cleanup", "quarantined")
      /\ UNCHANGED <<data, mayRead, lock, cloud>>
  BY DEF Quarantine, At
<1>2. "quarantine" \in Removing /\ "quarantined" \in Points \ {"idle"} /\ "quarantined" \in Removing
  BY DEF Removing, Points
<1>3. /\ "cleanup" \in Commands /\ dir.tree /\ dir.key /\ ~Restoring /\ cmd["cleanup"].pc # "idle"
      /\ dir.receipt = "not_found_verified" /\ Names = {"not_found_verified"}
  BY <1>1, <1>2, RemovalHolds, CurrentNames DEF Removal, Sound
<1>4. d \in Directories /\ d.receipt = None /\ d.temp = "not_found_verified" /\ d.tree /\ d.key
  BY <1>3 DEF Sound, Typed, Directories
<1>5. /\ FilesSound' /\ dir' = d /\ Names' = {None, "not_found_verified"}
      /\ dir' \in Directories /\ onDisk' \in SUBSET Directories /\ dir' \in onDisk'
      /\ data' \in [Files -> Content] /\ mayRead' \in [Files -> SUBSET Content]
  BY <1>1, <1>3, <1>4, RenameKeepsFilesSound
<1>6. CloudSound'
  <2>1. remote = {} /\ wire = {} /\ ~deleting
    BY <1>3 DEF Sound, CloudSound
  <2>2. QED
    BY <1>1, <1>5, <2>1, OwnedAssumption DEF CloudSound, cloud, OwnedTinyState
<1>7. Phase("cleanup", cmd["cleanup"])'
  <2>1. cmd'["cleanup"].pc = "quarantined"
    BY <1>1, <1>2, <1>3, GoneOn DEF Sound
  <2>2. QED
    BY <1>4, <1>5, <2>1 DEF Phase, Opening, Changing, Removing, Removal
<1>8. QED
  BY <1>1, <1>2, <1>3, <1>5, <1>6, <1>7, GoesOnSoundly

LEMMA SyncQuarantineIsSound ==
  ASSUME Sound, SyncQuarantine
  PROVE  Sound'
<1>1. /\ cmd["cleanup"].pc = "quarantined" /\ SyncDirectory /\ Goto("cleanup", "wipe")
      /\ UNCHANGED <<dir, data, mayRead, lock, cloud>>
  BY DEF SyncQuarantine, At
<1>2. "quarantined" \in Removing /\ "wipe" \in Points /\ "wipe" \in Removing
  BY DEF Removing, Points
<1>3. /\ "cleanup" \in Commands /\ dir.tree /\ dir.key
      /\ cmd["cleanup"].pc \notin {"idle", "restore"}
      /\ dir.receipt = None /\ dir.temp = "not_found_verified"
  BY <1>1, <1>2, RemovalHolds DEF Removal
<1>4. cmd'["cleanup"].pc = "wipe" /\ dir' = dir /\ Synced'
  BY <1>1, <1>2, <1>3, GoneOn DEF Sound, SyncDirectory, Synced
<1>5. Phase("cleanup", cmd["cleanup"])'
  BY <1>3, <1>4 DEF Phase, Opening, Changing, Removing, Removal
<1>6. QED
  BY <1>1, <1>2, <1>3, <1>5, GoneOn, FlushIsSound DEF Sound, Goto

LEMMA QuarantineFailsIsSound ==
  ASSUME Sound, QuarantineFails
  PROVE  Sound'
<1> DEFINE d == [dir EXCEPT !.receipt = dir.temp, !.temp = None]
<1>1. /\ cmd["cleanup"].pc = "quarantined" /\ dir' = d /\ onDisk' = {d} /\ Ends("cleanup")
      /\ UNCHANGED <<data, mayRead>>
  BY DEF QuarantineFails, At
<1>2. "quarantined" \in Removing
  BY DEF Removing
<1>3. /\ "cleanup" \in Commands /\ dir.tree /\ dir.key
      /\ cmd["cleanup"].pc # "idle" /\ cmd["cleanup"].pc # "restore"
      /\ dir.temp = "not_found_verified" /\ "not_found_verified" \in Names
  BY <1>1, <1>2, RemovalHolds DEF Removal
<1>4. /\ "not_found_verified" # None /\ "not_found_verified" \in Files
      /\ mayRead["not_found_verified"] = {"not_found_verified"}
  BY <1>3, OwnedAssumption, NamesAreWhole DEF OwnedTinyState, Files
<1>5. d \in Directories /\ d.receipt = "not_found_verified" /\ d.tree /\ d.key
  BY <1>3, <1>4 DEF Sound, Typed, Directories
<1>6. Names' = {"not_found_verified"}
  BY <1>1, <1>5, FlushedNames
<1>7. FilesSound'
  BY <1>1, <1>4, <1>5 DEF Sound, FilesSound
<1>8. QED
  BY <1>1, <1>3, <1>4, <1>5, <1>6, <1>7, CommandEnds DEF Sound, Typed

LEMMA WipeIsSound ==
  ASSUME Sound, Wipe
  PROVE  Sound'
<1>1. /\ cmd["cleanup"].pc = "wipe" /\ Write(dir.temp, "blank") /\ Goto("cleanup", "syncWipe")
      /\ UNCHANGED <<dir, onDisk, lock, cloud>>
  BY DEF Wipe, At
<1>2. "wipe" \in Removing /\ "syncWipe" \in Points \ {"idle"} /\ "syncWipe" \in Removing
  BY DEF Removing, Points
<1>3. /\ "cleanup" \in Commands /\ dir.tree /\ dir.key
      /\ cmd["cleanup"].pc \notin {"idle", "restore"}
      /\ dir.receipt = None /\ dir.temp = "not_found_verified" /\ Synced
  BY <1>1, <1>2, RemovalHolds DEF Removal
<1>4. "not_found_verified" \in Files /\ "blank" \in Content
  BY DEF Files, OwnedTinyState, Content
<1>5. data' \in [Files -> Content] /\ mayRead' \in [Files -> SUBSET Content]
  BY <1>1, <1>3, <1>4 DEF Write, Sound, Typed
<1>6. Names' = Names /\ Names # {} /\ dir' = dir /\ Synced'
  BY <1>1, <1>3, CurrentNames DEF Names, Synced, Sound
<1>7. FilesSound'
  <2>1. \A i \in Files : data'[i] \in mayRead'[i]
    BY <1>1, <1>3, <1>4 DEF Write, Sound, Typed, FilesSound
  <2>2. QED
    BY <1>3, <1>6, <2>1 DEF FilesSound, Synced
<1>8. CloudSound'
  BY <1>1, <1>2, <1>3, <1>6, OutstandingStays, CloudStays DEF Sound
<1>9. Phase("cleanup", cmd["cleanup"])'
  <2>1. cmd'["cleanup"].pc = "syncWipe"
    BY <1>1, <1>2, <1>3, GoneOn DEF Sound
  <2>2. QED
    BY <1>3, <1>6, <2>1 DEF Phase, Opening, Changing, Removing, Removal
<1>10. QED
  BY <1>1, <1>2, <1>3, <1>5, <1>7, <1>8, <1>9, GoesOnSoundly DEF Sound, Typed

LEMMA SyncWipeIsSound ==
  ASSUME Sound, SyncWipe
  PROVE  Sound'
<1>1. /\ cmd["cleanup"].pc = "syncWipe" /\ SyncFile(dir.temp) /\ SyncDirectory
      /\ Goto("cleanup", "unlink") /\ UNCHANGED <<dir, data, lock, cloud>>
  BY DEF SyncWipe, At
<1>2. "syncWipe" \in Removing /\ "unlink" \in Points \ {"idle"} /\ "unlink" \in Removing
  BY DEF Removing, Points
<1>3. /\ "cleanup" \in Commands /\ dir.tree /\ dir.key
      /\ cmd["cleanup"].pc \notin {"idle", "restore"}
      /\ dir.receipt = None /\ dir.temp = "not_found_verified" /\ Synced
  BY <1>1, <1>2, RemovalHolds DEF Removal
<1>4. "not_found_verified" \in Files
  BY DEF Files, OwnedTinyState
<1>5. mayRead' \in [Files -> SUBSET Content]
  BY <1>1, <1>3, <1>4 DEF SyncFile, Sound, Typed
<1>6. onDisk' = onDisk /\ Names' = Names /\ Names # {} /\ dir' = dir /\ Synced'
  BY <1>1, <1>3, CurrentNames DEF Names, Synced, Sound, SyncDirectory
<1>7. FilesSound'
  <2>1. \A i \in Files : data'[i] \in mayRead'[i]
    BY <1>1, <1>3, <1>4 DEF SyncFile, Sound, Typed, FilesSound
  <2>2. QED
    BY <1>3, <1>6, <2>1 DEF FilesSound, Synced
<1>8. CloudSound'
  BY <1>1, <1>2, <1>3, <1>6, OutstandingStays, CloudStays DEF Sound
<1>9. Phase("cleanup", cmd["cleanup"])'
  <2>1. cmd'["cleanup"].pc = "unlink"
    BY <1>1, <1>2, <1>3, GoneOn DEF Sound
  <2>2. QED
    BY <1>3, <1>6, <2>1 DEF Phase, Opening, Changing, Removing, Removal
<1>10. QED
  BY <1>1, <1>2, <1>3, <1>5, <1>6, <1>7, <1>8, <1>9, GoesOnSoundly DEF Sound, Typed

LEMMA UnlinkIsSound ==
  ASSUME Sound, Unlink
  PROVE  Sound'
<1> DEFINE d == [dir EXCEPT !.temp = None]
<1>1. /\ cmd["cleanup"].pc = "unlink" /\ dir' = d /\ onDisk' = {d} /\ Ends("cleanup")
      /\ UNCHANGED <<data, mayRead>>
  BY DEF Unlink, At
<1>2. "unlink" \in Removing
  BY DEF Removing
<1>3. /\ "cleanup" \in Commands /\ cmd["cleanup"].pc # "idle" /\ cmd["cleanup"].pc # "restore"
      /\ dir.receipt = None
  BY <1>1, <1>2, RemovalHolds DEF Removal
<1>4. d \in Directories /\ d.receipt = None /\ None \in Names
  BY <1>3, CurrentNames DEF Sound, Typed, Directories
<1>5. Names' = {None}
  BY <1>1, <1>4, FlushedNames
<1>6. FilesSound'
  BY <1>1, <1>4 DEF Sound, FilesSound
<1>7. QED
  BY <1>1, <1>3, <1>4, <1>5, <1>6, CommandEnds DEF Sound, Typed

-----------------------------------------------------------------------------
(* Stops and power losses.                                                 *)

LEMMA StopIsSound ==
  ASSUME Sound, ~StopsWhileRestoring, NEW c \in Commands, Stop(c)
  PROVE  Sound'
<1>1. /\ cmd[c].pc # "idle" /\ cmd[c].pc # "restore" /\ Ends(c) /\ UNCHANGED files
  BY DEF Stop, At
<1>2. Names' = Names /\ FilesSound'
  BY <1>1 DEF Sound, Names, FilesSound, files
<1>3. QED
  BY <1>1, <1>2, CommandEnds DEF Sound, Typed, files

LEMMA PowerLossIsSound ==
  ASSUME Sound, ~StopsWhileRestoring, PowerLoss
  PROVE  Sound'
<1>1. PICK d \in onDisk : dir' = d /\ onDisk' = {d}
  BY DEF PowerLoss
<1>2. /\ data' \in [Files -> Content] /\ \A i \in Files : data'[i] \in mayRead[i]
      /\ mayRead' = [i \in Files |-> {data'[i]}]
      /\ cmd' = [c \in Commands |-> Idle] /\ lock' = None /\ wire' = {} /\ deleting' = deleting
      /\ \E landed \in SUBSET wire : remote' = remote \union landed
      /\ ~Restoring
  BY DEF PowerLoss
<1>3. Names' = {d.receipt} /\ d.receipt \in Names /\ d \in Directories
  BY <1>1, FlushedNames DEF Names, Sound, Typed
<1>4. FilesSound'
  BY <1>1, <1>2, <1>3 DEF Sound, FilesSound, Directories
<1>5. cmd' \in [Commands -> Command] /\ \A c \in Commands : cmd'[c].pc = "idle"
  BY <1>2, IdleIsTyped
<1>6. mayRead' \in [Files -> SUBSET Content]
  BY <1>2
<1>7. QED
  BY <1>1, <1>2, <1>3, <1>4, <1>5, <1>6, AllEnd

-----------------------------------------------------------------------------
(* The theorems.                                                           *)

LEMMA SoundAtFirst == ASSUME Init PROVE Sound
<1>1. Idle \in Command /\ Idle.pc = "idle"
  BY IdleIsTyped
<1>2. /\ cmd \in [Commands -> Command] /\ \A c \in Commands : cmd[c].pc = "idle"
      /\ lock = None
  BY <1>1 DEF Init
<1>3. Typed
  <2>1. dir \in Directories /\ onDisk \in SUBSET Directories /\ dir \in onDisk
    BY DEF Init, Directories
  <2>2. data \in [Files -> Content] /\ mayRead \in [Files -> SUBSET Content]
    BY DEF Init, Content
  <2>3. \A c \in Commands : cmd[c].pc # "idle" <=> lock = c
    BY <1>2, OwnedAssumption DEF Commands
  <2>4. QED
    BY <1>2, <2>1, <2>2, <2>3 DEF Init, Typed
<1>4. FilesSound
  BY DEF Init, FilesSound
<1>5. CloudSound
  <2>1. Names = {None} /\ None \notin OwnedTinyState
    BY OwnedAssumption DEF Init, Names
  <2>2. QED
    BY <2>1 DEF Init, CloudSound, OwnedTinyState
<1>6. \A c \in Commands : Phase(c, cmd[c])
  BY <1>2, IdlePromisesNothing
<1>7. QED
  BY <1>3, <1>4, <1>5, <1>6 DEF Sound

LEMMA FileStepIsSound ==
  ASSUME Sound, NEW c \in Commands, FileStep(c)
  PROVE  Sound'
BY OpenTreeIsSound, OpenKeyIsSound, SyncsAreSound, PrepareIsSound, SyncTempIsSound,
   InstallIsSound, ExchangeIsSound, RemoveDisplacedIsSound, SyncReceiptIsSound, RestoreIsSound
   DEF FileStep

LEMMA SoundIsKept ==
  ASSUME Sound, ~StopsWhileRestoring, [Next]_ownedVars
  PROVE  Sound'
<1>1. CASE \E c \in Commands, credential \in BOOLEAN : Lock(c, credential)
  BY <1>1, LockIsSound
<1>2. CASE IngestStep
  BY <1>2, FileStepIsSound, LoadForIngestionIsSound, ReportedIsSound, DoneIsSound,
     SendBatchIsSound, BatchConfirmedIsSound DEF IngestStep, Commands
<1>3. CASE CleanupStep
  BY <1>3, FileStepIsSound, LoadForCleanupIsSound, DeleteNamespaceIsSound, VerifyNotFoundIsSound,
     QuarantineIsSound, SyncQuarantineIsSound, WipeIsSound, SyncWipeIsSound, UnlinkIsSound
     DEF CleanupStep, Commands
<1>4. CASE ProviderStep
  BY <1>4, BatchLandsIsSound, ProviderDeletesIsSound DEF ProviderStep
<1>5. CASE Failure
  BY <1>5, RemovalFailsIsSound, QuarantineFailsIsSound, StopIsSound, PowerLossIsSound DEF Failure
<1>6. CASE UNCHANGED ownedVars
  <2>1. UNCHANGED <<files, lock, cmd, cloud>>
    BY <1>6 DEF ownedVars, files, cloud
  <2>2. CloudSound'
    BY <2>1 DEF Sound, CloudSound, Names, Restoring, At, Outstanding, files, cloud
  <2>3. ASSUME NEW c \in Commands, cmd[c].pc \in Changing
        PROVE  /\ cmd[c].goal = "ready" => remote' = Batch /\ ~deleting'
               /\ cmd[c].goal = "not_found_verified" => remote' = {}
    BY <2>1, <2>3, ChangeHolds DEF Change, cloud
  <2>4. remote' \in SUBSET Batch /\ wire' \in SUBSET Batch /\ deleting' \in BOOLEAN
    BY <2>1 DEF Sound, Typed, cloud
  <2>5. QED
    BY <2>1, <2>2, <2>3, <2>4, CloudMoves
<1>7. QED
  BY <1>1, <1>2, <1>3, <1>4, <1>5, <1>6 DEF Next

\* What a power loss may leave under the fixed name.
LEMMA RecoverableNames ==
  ASSUME Sound
  PROVE  Recoverable = {IF n = None THEN "absent" ELSE n : n \in Names}
<1>1. ASSUME NEW d \in onDisk
      PROVE  Inspected(d) = {IF d.receipt = None THEN "absent" ELSE d.receipt}
  BY DEF Sound, FilesSound, Inspected
<1>2. QED
  BY <1>1 DEF Recoverable, Names

\* Sound is inductive as long as nothing strikes inside _restore_exchange.
THEOREM OwnedIsSound ==
  ASSUME ~StopsWhileRestoring
  PROVE  OwnedSpec => []Sound
<1>1. Init => Sound
  BY SoundAtFirst
<1>2. Sound /\ [Next]_ownedVars => Sound'
  BY SoundIsKept
<1>3. QED
  BY <1>1, <1>2, PTL DEF OwnedSpec

\* owned_tiny.py never orphans a namespace: whatever exists at the provider, or
\* is on its way there, is named by a receipt that survives a power loss.
THEOREM OwnedNamespaceIsOwned ==
  ASSUME ~StopsWhileRestoring
  PROVE  OwnedSpec => []NamespaceIsOwned
<1>1. ASSUME Sound PROVE NamespaceIsOwned
  <2>1. SUFFICES ASSUME remote # {} \/ wire # {}, ~Restoring, NEW n \in Names
                 PROVE  n # None /\ n \in {"intent", "created", "ready", "cleanup_requested"}
    BY <1>1, RecoverableNames DEF NamespaceIsOwned
  <2>2. n # None /\ n # "not_found_verified"
    BY <1>1, <2>1 DEF Sound, CloudSound
  <2>3. n \in OwnedTinyState
    BY <1>1, <2>2, NamesAreWhole DEF Files
  <2>4. QED
    BY <2>2, <2>3 DEF OwnedTinyState
<1>2. QED
  BY <1>1, OwnedIsSound, PTL

\* A receipt that may be found ready names a namespace with every batch in it,
\* which is not about to be deleted.
THEOREM OwnedReadyNamespaceIsWhole ==
  ASSUME ~StopsWhileRestoring
  PROVE  OwnedSpec => []ReadyNamespaceIsWhole
<1>1. ASSUME Sound PROVE ReadyNamespaceIsWhole
  <2>1. SUFFICES ASSUME "ready" \in Recoverable PROVE remote = Batch /\ ~deleting
    BY DEF ReadyNamespaceIsWhole
  <2>2. "ready" \in Names
    BY <1>1, <2>1, RecoverableNames
  <2>3. QED
    BY <1>1, <2>2 DEF Sound, CloudSound
<1>2. QED
  BY <1>1, OwnedIsSound, PTL

\* The fixed name never comes back with a wiped or half-written receipt.
THEOREM OwnedFixedReceiptIsWhole ==
  ASSUME ~StopsWhileRestoring
  PROVE  OwnedSpec => []FixedReceiptIsWhole
<1>1. ASSUME Sound PROVE FixedReceiptIsWhole
  <2>1. "blank" \notin OwnedTinyState
    BY DEF OwnedTinyState
  <2>2. \A n \in Names : n # None => n \in OwnedTinyState
    BY <1>1, NamesAreWhole DEF Files
  <2>3. QED
    BY <1>1, <2>1, <2>2, RecoverableNames DEF FixedReceiptIsWhole
<1>2. QED
  BY <1>1, OwnedIsSound, PTL

\* Only an ingestion that holds a live receipt puts a write on the wire.
LEMMA OnlyBatchesAreWritten ==
  ASSUME [Next]_ownedVars, \A b \in Batch : ~SendBatch(b)
  PROVE  wire' \subseteq wire
<1>1. ASSUME NEW c \in Commands, FileStep(c) PROVE wire' \subseteq wire
  BY <1>1 DEF FileStep, OpenTree, SyncTree, OpenKey, SyncKey, Prepare, SyncTemp, Install,
     Exchange, RemoveDisplaced, SyncReceipt, Restore, Exit, Ends, cloud
<1>2. CASE \E c \in Commands, credential \in BOOLEAN : Lock(c, credential)
  BY <1>2 DEF Lock, cloud
<1>3. CASE IngestStep
  BY <1>1, <1>3 DEF IngestStep, Commands, LoadForIngestion, Reported, Done, BatchConfirmed,
     Exit, Ends, cloud
<1>4. CASE CleanupStep
  BY <1>1, <1>4 DEF CleanupStep, Commands, LoadForCleanup, DeleteNamespace, VerifyNotFound,
     Quarantine, SyncQuarantine, Wipe, SyncWipe, Unlink, Exit, Ends, cloud
<1>5. CASE ProviderStep
  BY <1>5 DEF ProviderStep, ProviderDeletes, BatchLands
<1>6. CASE Failure
  BY <1>6 DEF Failure, RemovalFails, Stop, QuarantineFails, PowerLoss, Ends, cloud
<1>7. CASE UNCHANGED ownedVars
  BY <1>7 DEF ownedVars
<1>8. QED
  BY <1>2, <1>3, <1>4, <1>5, <1>6, <1>7 DEF Next

\* Once a cleanup may have been recorded, nothing more is written under the
\* name that it is about to delete.
THEOREM OwnedNoWriteAfterCleanup ==
  ASSUME ~StopsWhileRestoring
  PROVE  OwnedSpec => NoWriteAfterCleanup
<1> DEFINE Live == Recoverable \intersect {"cleanup_requested", "not_found_verified", "absent"} = {}
<1>1. ASSUME Sound, [Next]_ownedVars PROVE wire' \subseteq wire \/ Live
  <2>1. CASE \E b \in Batch : SendBatch(b)
    <3>1. cmd["ingest"].pc = "write"
      BY <2>1 DEF SendBatch
    <3>2. /\ Names = {dir.receipt} /\ dir.receipt # None
          /\ dir.receipt \in {"intent", "created", "ready"}
      BY <1>1, <3>1, WriterHolds
    <3>3. Recoverable = {dir.receipt}
      BY <1>1, <3>2, RecoverableNames
    <3>4. QED
      BY <3>2, <3>3
  <2>2. CASE \A b \in Batch : ~SendBatch(b)
    BY <1>1, <2>2, OnlyBatchesAreWritten
  <2>3. QED
    BY <2>1, <2>2
<1>2. Sound /\ [Next]_ownedVars => [wire' \subseteq wire \/ Live]_ownedVars
  BY <1>1
<1>3. QED
  BY <1>2, OwnedIsSound, PTL DEF OwnedSpec, NoWriteAfterCleanup

=============================================================================

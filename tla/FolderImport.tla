---------------------------- MODULE FolderImport ----------------------------
(***************************************************************************)
(* The command import_folder: one event per subfolder, created and then    *)
(* filled, folder after folder.  It is one more importer of EventImport,   *)
(* next to the API's, and ends with the first exception.                   *)
(*                                                                         *)
(* Titles, dates and addresses, which come from the names of the folders   *)
(* or from the options, are left out: nothing looks an event up by them.   *)
(***************************************************************************)
EXTENDS EventImport

CONSTANTS
  Commands,  \* importers that run the command; the others serve requests
  Trees      \* what the folder given to the command may hold

Tree == [own : Batches \cup {<<>>}, subfolders : Seq(Batches \cup {<<>>})]

ASSUME FolderAssumption ==
  /\ Commands \subseteq Importers
  /\ 0 \notin Events
  /\ Trees \subseteq Tree

Alone(images) == [own |-> images, subfolders |-> <<>>]

VARIABLES
  phase,  \* next step of each command: "create", "read" or "import"; or "none", "ended"
  tree,   \* the folder it was given
  at,     \* number of its folders that are imported
  made    \* event created for the next one

commandVars == <<phase, tree, at, made>>
folderVars  == <<vars, commandVars>>

CommandInit ==
  /\ phase = [p \in Commands |-> "none"]
  /\ tree = [p \in Commands |-> Alone(<<>>)]
  /\ at = [p \in Commands |-> 0]
  /\ made = [p \in Commands |-> 0]

FolderInit == Init /\ CommandInit

\* Subfolders are the events; without any, the folder itself is one.  Images
\* beside subfolders are ignored.
Folders(t) == IF t.subfolders = <<>> THEN <<t.own>> ELSE t.subfolders
Folder(p)  == Folders(tree[p])[at[p] + 1]

EnterPhase(p, label) == phase' = [phase EXCEPT ![p] = label]

NextFolder(p) ==
  /\ at' = [at EXCEPT ![p] = @ + 1]
  /\ EnterPhase(p, IF at[p] + 1 = Len(Folders(tree[p])) THEN "ended" ELSE "create")

-----------------------------------------------------------------------------
\* The command is started on a folder.
Main(p, t) ==
  /\ phase[p] \in {"none", "ended"}
  /\ tree' = [tree EXCEPT ![p] = t]
  /\ at' = [at EXCEPT ![p] = 0]
  /\ EnterPhase(p, "create")
  /\ UNCHANGED <<vars, made>>

\* With --event-id: the images of the folder itself, whatever its subfolders,
\* for an event that exists (without images, nothing happens).
MainInEvent(p, t, e) ==
  /\ phase[p] \in {"none", "ended"}
  /\ t.own # <<>>
  /\ Receive(p, e, t.own)
  /\ tree' = [tree EXCEPT ![p] = Alone(t.own)]
  /\ at' = [at EXCEPT ![p] = 0]
  /\ EnterPhase(p, "import")
  /\ UNCHANGED made

\* create_event and its commit.
CreateFolderEvent(p, e) ==
  /\ phase[p] = "create"
  /\ CreateEvent(e)
  /\ made' = [made EXCEPT ![p] = e]
  /\ EnterPhase(p, "read")
  /\ UNCHANGED <<tree, at>>

\* _import_folder_for_event: the images of the folder, if there are any.
ReadFolder(p) ==
  /\ phase[p] = "read"
  /\ \/ /\ Folder(p) = <<>>
        /\ NextFolder(p)
        /\ UNCHANGED vars
     \/ /\ Folder(p) # <<>>
        /\ Receive(p, made[p], Folder(p))
        /\ EnterPhase(p, "import")
        /\ UNCHANGED at
  /\ UNCHANGED <<tree, made>>

FolderDone(p) ==
  /\ phase[p] = "import" /\ pc[p] = "answered"
  /\ NextFolder(p)
  /\ UNCHANGED <<vars, tree, made>>

\* Mutation: a folder whose import raised is left, and the next one begun.
SkipFolder(p) ==
  /\ phase[p] = "import" /\ pc[p] = "failed"
  /\ NextFolder(p)
  /\ UNCHANGED <<vars, tree, made>>

\* An exception in a folder, or the death of the command in it, ends it.
FolderFails(p) ==
  /\ phase[p] = "import" /\ pc[p] = "failed"
  /\ EnterPhase(p, "none")
  /\ UNCHANGED <<vars, tree, at, made>>

\* create_event raises, or the command dies outside an import.
CommandDies(p) ==
  /\ phase[p] \in {"create", "read"}
  /\ EnterPhase(p, "none")
  /\ UNCHANGED <<vars, tree, at, made>>

\* The steps of the imports; requests come to the processes of the API.
ImportNext ==
  /\ \/ \E e \in Events : CreateEvent(e)
     \/ \E p \in Importers \ Commands, e \in Events, b \in Batches : Receive(p, e, b)
     \/ \E p \in Importers : ImportStep(p)
     \/ \E i \in DOMAIN rows : Repair(i)
  /\ UNCHANGED commandVars

FolderNext ==
  \/ ImportNext
  \/ \E p \in Commands :
       \/ \E t \in Trees : Main(p, t) \/ \E e \in Events : MainInEvent(p, t, e)
       \/ \E e \in Events : CreateFolderEvent(p, e)
       \/ ReadFolder(p) \/ FolderDone(p) \/ FolderFails(p) \/ CommandDies(p)

FolderSpec == FolderInit /\ [][FolderNext]_folderVars

-----------------------------------------------------------------------------
\* The folders that the command has been through have their photos in the
\* system: a photo that it skips has a row already, maybe in another event, and
\* a folder that raises is never counted.  A command that ends by itself has
\* been through all of them.
NothingLeftBehind == \A p \in Commands :
  /\ \A k \in 1..at[p] : \A n \in DOMAIN Folders(tree[p])[k] :
       RowsOf(Folders(tree[p])[k][n].photo) # {}
  /\ phase[p] = "ended" => at[p] = Len(Folders(tree[p]))

-----------------------------------------------------------------------------
(* The inductive invariant, with that of EventImport.                      *)
CommandTypes ==
  /\ phase \in [Commands -> {"none", "create", "read", "import", "ended"}]
  /\ tree \in [Commands -> Tree]
  /\ at \in [Commands -> Nat]
  /\ made \in [Commands -> Nat \cup Events]

CommandInv(p) ==
  /\ phase[p] \in {"create", "read", "import"} => at[p] < Len(Folders(tree[p]))
  /\ at[p] <= Len(Folders(tree[p]))
  /\ phase[p] = "ended" => at[p] = Len(Folders(tree[p]))
  /\ phase[p] = "import" => batch[p] = Folder(p)
  /\ \A k \in 1..at[p] : \A n \in DOMAIN Folders(tree[p])[k] :
       RowsOf(Folders(tree[p])[k][n].photo) # {}

AnsweredAll == \A p \in Importers :
  pc[p] = "answered" => Len(results[p]) = Len(batch[p])

FInv == IInv /\ AnsweredAll /\ CommandTypes /\ \A p \in Commands : CommandInv(p)
=============================================================================

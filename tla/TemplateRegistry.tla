----------------------------- MODULE TemplateRegistry -----------------------------
(***************************************************************************)
(* The report templates of ingress: aiops_report_templates with one live   *)
(* row for each template, aiops_report_template_versions with every        *)
(* version there was, the transactions of postgres-repository.ts over      *)
(* them, the routes of app.ts that edit them, and the sync with the files  *)
(* of the templates directory that every start begins with                 *)
(* (template-sync.ts).                                                     *)
(*                                                                         *)
(* PostgreSQL runs these transactions at READ COMMITTED: each statement    *)
(* reads what is committed then, SELECT ... FOR UPDATE and the writes wait *)
(* for whoever locks the row, and FOR UPDATE locks nothing where there is  *)
(* no row.  The writes and the commit that end a transaction are one step: *)
(* nothing they do is visible before, and they need the row to be free.    *)
(*                                                                         *)
(* edited and crossed are no part of the program: they let the properties  *)
(* say which templates they are about.                                     *)
(***************************************************************************)
EXTENDS Naturals, Sequences

CONSTANTS
  Templates,   \* template ids
  Contents,    \* everything else in a template, enabled included
  NoContent,   \* no live row
  Editors,     \* handlers of PUT and DELETE, in whichever ingress process
  Starter,     \* the ingress process that is starting
  MaxVersion   \* bound: how many versions a template may get

ASSUME RegistryAssumption ==
  /\ NoContent \notin Contents
  /\ Starter \notin Editors
  /\ MaxVersion \in Nat

Actors == Editors \union {Starter}

VARIABLES
  version,   \* version of the live row, 0 where there is none
  content,   \* content of the live row
  history,   \* contents of the recorded versions, in order: they have no gaps
  tx,        \* the saveTemplate transaction each actor is in
  phase,     \* how far the start is
  files,     \* what the directory declared when the start read it
  todo,      \* files to save, then rows to remove
  edited,    \* templates written over HTTP since the start read the files
  crossed    \* templates saved by one while another save had found no row to lock

registry == <<version, content, history>>
start == <<phase, files, todo>>
watched == <<edited, crossed>>
vars == <<registry, tx, start, watched>>

Idle == [at |-> "idle"]
\* A save that found no live row, one that has read its next version, and one
\* that holds the lock of the row it will overwrite.
Numbering == [at : {"number"}, template : Templates, content : Contents]
Writing == [at : {"insert", "write"}, template : Templates, content : Contents, version : Nat \ {0}]
Saves == Numbering \union Writing

Directories == UNION {[declared -> Contents] : declared \in SUBSET Templates}

TypeOK ==
  /\ version \in [Templates -> Nat]
  /\ content \in [Templates -> Contents \union {NoContent}]
  /\ \A t \in Templates : version[t] = 0 <=> content[t] = NoContent
  /\ history \in [Templates -> Seq(Contents)]
  /\ tx \in [Actors -> Saves \union {Idle}]
  /\ phase \in {"down", "saving", "removing", "up"}
  /\ files \in Directories
  /\ todo \subseteq (IF phase = "saving" THEN DOMAIN files ELSE Templates)
  /\ edited \subseteq Templates
  /\ crossed \subseteq Templates

Init ==
  /\ version = [t \in Templates |-> 0]
  /\ content = [t \in Templates |-> NoContent]
  /\ history = [t \in Templates |-> <<>>]
  /\ tx = [a \in Actors |-> Idle]
  /\ phase = "down"
  /\ files = [t \in {} |-> NoContent]
  /\ todo = {}
  /\ edited = {}
  /\ crossed = {}

-----------------------------------------------------------------------------
(* saveTemplate and deleteTemplate. *)

\* Altered: the row is read without FOR UPDATE.
Locked_Never(a, t) == FALSE

\* Somebody else will overwrite this row.
Locked(a, t) ==
  \E other \in Actors \ {a} : tx[other].at = "write" /\ tx[other].template = t

Unchanged(t, c) == version[t] > 0 /\ content[t] = c

\* SELECT ... FOR UPDATE: the row is there and locked from here on, or it is not.
Select(a, t, c) ==
  /\ tx[a] = Idle
  /\ ~Locked(a, t)
  /\ ~Unchanged(t, c)
  /\ Len(history[t]) < MaxVersion
  /\ tx' = [tx EXCEPT ![a] =
       IF version[t] = 0
         THEN [at |-> "number", template |-> t, content |-> c]
         ELSE [at |-> "write", template |-> t, content |-> c, version |-> version[t] + 1]]
  /\ UNCHANGED <<registry, start, watched>>

\* Without a live row, the versions go on from the history.
Number(a) ==
  /\ tx[a].at = "number"
  /\ tx' = [tx EXCEPT ![a] =
       [at |-> "insert", template |-> tx[a].template, content |-> tx[a].content,
        version |-> Len(history[tx[a].template]) + 1]]
  /\ UNCHANGED <<registry, start, watched>>

\* Altered: ON CONFLICT DO UPDATE.
Recorded_Replaced(past, v, c) ==
  IF v <= Len(past) THEN [past EXCEPT ![v] = c] ELSE Append(past, c)

\* Altered: the conflict is looked for in template_id alone.
Recorded_FirstOnly(past, v, c) == IF past = <<>> THEN <<c>> ELSE past

\* INSERT of a version, ON CONFLICT DO NOTHING.
Recorded(past, v, c) == IF v <= Len(past) THEN past ELSE Append(past, c)

\* Somebody else is about to insert a row, under a version chosen already.
Crosses(a, t) ==
  \E other \in Actors \ {a} : tx[other].at = "insert" /\ tx[other].template = t

\* The upsert of the live row, the insert of the version, and the commit.
Write(a) ==
  /\ tx[a].at \in {"insert", "write"}
  /\ LET save == tx[a]
         t == save.template
     IN /\ ~Locked(a, t)
        /\ version' = [version EXCEPT ![t] = save.version]
        /\ content' = [content EXCEPT ![t] = save.content]
        /\ history' = [history EXCEPT ![t] = Recorded(@, save.version, save.content)]
        /\ crossed' = IF Crosses(a, t) THEN crossed \union {t} ELSE crossed
        /\ IF a = Starter
             THEN todo' = todo \ {t} /\ UNCHANGED edited
             ELSE edited' = edited \union {t} /\ UNCHANGED todo
  /\ tx' = [tx EXCEPT ![a] = Idle]
  /\ UNCHANGED <<phase, files>>

\* Altered: the row is emptied and stays.
Remove_KeepsContent(a, t) ==
  /\ ~Locked(a, t)
  /\ version' = [version EXCEPT ![t] = 0]
  /\ UNCHANGED <<content, history>>

\* DELETE of the live row; the history stays.
Remove(a, t) ==
  /\ ~Locked(a, t)
  /\ version' = [version EXCEPT ![t] = 0]
  /\ content' = [content EXCEPT ![t] = NoContent]
  /\ UNCHANGED history

-----------------------------------------------------------------------------
(* PUT and DELETE. *)

Put(e) == \E t \in Templates, c \in Contents : Select(e, t, c)

Delete(e) ==
  \E t \in Templates :
    /\ tx[e] = Idle
    /\ version[t] > 0
    /\ Remove(e, t)
    /\ edited' = edited \union {t}
    /\ UNCHANGED <<tx, start, crossed>>

\* A statement that fails, or a process that stops: the transaction is undone.
RollBack(e) ==
  /\ tx[e] # Idle
  /\ tx' = [tx EXCEPT ![e] = Idle]
  /\ UNCHANGED <<registry, start, watched>>

-----------------------------------------------------------------------------
(* syncTemplates. *)

\* A start, the first or another one, reads and validates every file first.  One
\* that finds an invalid file ends there and changes nothing.
ReadFiles ==
  /\ phase \in {"down", "up"}
  /\ phase' = "saving"
  /\ files' \in Directories
  /\ todo' = DOMAIN files'
  /\ edited' = {}
  /\ UNCHANGED <<registry, tx, crossed>>

SaveFile ==
  /\ phase = "saving"
  /\ \E t \in todo : Select(Starter, t, files[t])

KeepFile ==
  /\ phase = "saving"
  /\ tx[Starter] = Idle
  /\ \E t \in todo :
       /\ ~Locked(Starter, t)
       /\ Unchanged(t, files[t])
       /\ todo' = todo \ {t}
  /\ UNCHANGED <<registry, tx, phase, files, watched>>

\* Altered: a directory without files removes like any other.
ListRows_AlsoEmpty ==
  /\ phase = "saving"
  /\ todo = {}
  /\ tx[Starter] = Idle
  /\ phase' = "removing"
  /\ todo' = {t \in Templates : version[t] > 0} \ DOMAIN files
  /\ UNCHANGED <<registry, tx, files, watched>>

\* Rows that no file declares are removed, unless there are no files at all.
ListRows ==
  /\ phase = "saving"
  /\ todo = {}
  /\ tx[Starter] = Idle
  /\ IF DOMAIN files = {}
       THEN phase' = "up" /\ UNCHANGED todo
       ELSE /\ phase' = "removing"
            /\ todo' = {t \in Templates : version[t] > 0} \ DOMAIN files
  /\ UNCHANGED <<registry, tx, files, watched>>

RemoveRow ==
  /\ phase = "removing"
  /\ \E t \in todo :
       /\ Remove(Starter, t)
       /\ todo' = todo \ {t}
  /\ UNCHANGED <<tx, phase, files, watched>>

Listen ==
  /\ phase = "removing"
  /\ todo = {}
  /\ phase' = "up"
  /\ UNCHANGED <<registry, tx, files, todo, watched>>

\* Altered: a file that could not be saved is passed over.
StartFails_Skips ==
  /\ phase \in {"saving", "removing"}
  /\ tx[Starter] # Idle
  /\ todo' = todo \ {tx[Starter].template}
  /\ tx' = [tx EXCEPT ![Starter] = Idle]
  /\ UNCHANGED <<registry, phase, files, watched>>

\* A step that throws ends the process, with its transaction undone; the next
\* start begins again.
StartFails ==
  /\ phase \in {"saving", "removing"}
  /\ phase' = "down"
  /\ tx' = [tx EXCEPT ![Starter] = Idle]
  /\ UNCHANGED <<registry, files, todo, watched>>

-----------------------------------------------------------------------------

Next ==
  \/ \E e \in Editors : Put(e) \/ Delete(e) \/ RollBack(e)
  \/ \E a \in Actors : Number(a) \/ Write(a)
  \/ ReadFiles \/ SaveFile \/ KeepFile \/ ListRows \/ RemoveRow \/ Listen \/ StartFails

Spec == Init /\ [][Next]_vars

-----------------------------------------------------------------------------
(* Safety.  Two saves that meet where there is no row to lock may give one      *)
(* version to two contents (VersionNamesOneTemplate below); whatever else       *)
(* happens, the templates where none did keep their versions apart.             *)

\* The live row is the newest version in the history.
LiveIsRecorded ==
  \A t \in Templates \ crossed :
    version[t] > 0 =>
      /\ version[t] = Len(history[t])
      /\ history[t][version[t]] = content[t]

\* A recorded version stays what it was, whatever is edited, removed or added back.
HistoryIsPermanent ==
  [][\A t \in Templates :
       /\ Len(history[t]) <= Len(history'[t])
       /\ \A v \in 1..Len(history[t]) : history'[t][v] = history[t][v]]_vars

\* A row that changes or comes back does so under a version that was never used.
NewContentNewVersion ==
  [][\A t \in Templates \ crossed' :
       content'[t] \notin {content[t], NoContent} => version'[t] > Len(history[t])]_vars

\* Once the start is over, the registry is what the files declared, except for
\* what was edited meanwhile, and except that no file at all removes nothing.
SyncedToFiles ==
  phase = "up" =>
    \A t \in Templates \ edited :
      IF t \in DOMAIN files
        THEN version[t] > 0 /\ content[t] = files[t]
        ELSE DOMAIN files = {} \/ version[t] = 0

\* A start removes only templates that the directory left out while it
\* declared others.
RemovalNeedsFiles ==
  [][\A t \in Templates :
       version[t] > 0 /\ version'[t] = 0 /\ UNCHANGED edited /\ t \notin edited
         => DOMAIN files # {} /\ t \notin DOMAIN files]_vars

-----------------------------------------------------------------------------
(* What the documentation says and the code does not always do. *)

\* postgres-repository.ts: no two different templates share one (id, version).
VersionNamesOneTemplate ==
  \A t \in Templates :
    version[t] > 0 => version[t] <= Len(history[t]) /\ history[t][version[t]] = content[t]
=============================================================================

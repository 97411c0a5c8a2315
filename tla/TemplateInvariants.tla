---------------------------- MODULE TemplateInvariants ----------------------------
(***************************************************************************)
(* What holds between the statements of the transactions over the template *)
(* tables, and between the steps of a start, so that the properties of     *)
(* TemplateRegistry are inductive.                                         *)
(***************************************************************************)
EXTENDS TemplateRegistry

\* Who holds the lock of a row has read it, and holds it alone; a start is in a
\* transaction only while it saves.
LocksKeep ==
  /\ phase # "saving" => tx[Starter] = Idle
  /\ \A a \in Actors : tx[a].at = "write" =>
       /\ version[tx[a].template] > 0
       /\ tx[a].version = version[tx[a].template] + 1
  /\ \A a, b \in Actors :
       tx[a].at = "write" /\ tx[b].at = "write" /\ tx[a].template = tx[b].template => a = b

\* Live rows have versions that are in the history, and saves have new ones, as
\* long as nobody crossed them.
VersionsKeep ==
  /\ \A t \in Templates : version[t] <= Len(history[t])
  /\ \A a \in Actors : tx[a].at = "insert" =>
       /\ tx[a].version > 0
       /\ tx[a].version <= Len(history[tx[a].template]) + 1
       /\ tx[a].template \notin crossed => tx[a].version = Len(history[tx[a].template]) + 1

Apart == LocksKeep /\ VersionsKeep /\ LiveIsRecorded

Kept == TypeOK /\ Apart

Declared(t) == version[t] > 0 /\ content[t] = files[t]

\* What the start has done so far, apart from what was edited since.
Started ==
  /\ tx[Starter] # Idle =>
       /\ tx[Starter].template \in todo
       /\ tx[Starter].content = files[tx[Starter].template]
  /\ phase = "saving" => \A t \in DOMAIN files \ (todo \union edited) : Declared(t)
  /\ phase = "removing" =>
       /\ DOMAIN files # {}
       /\ todo \intersect DOMAIN files = {}
       /\ \A t \in DOMAIN files \ edited : Declared(t)
       /\ \A t \in Templates \ (DOMAIN files \union todo \union edited) : version[t] = 0
  /\ SyncedToFiles
=============================================================================

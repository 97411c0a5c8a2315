------------------------------ MODULE TemplateProofs ------------------------------
(***************************************************************************)
(* Versions of report templates and the sync with the files, for any       *)
(* number of templates and of handlers that edit them.                     *)
(***************************************************************************)
EXTENDS TemplateInvariants, TLAPS

-----------------------------------------------------------------------------
(* Transactions and histories. *)

LEMMA Transactions ==
  ASSUME TypeOK, NEW a \in Actors
  PROVE  /\ tx[a] = Idle => tx[a].at = "idle"
         /\ tx[a].at = "idle" => tx[a] = Idle
         /\ tx[a].at \in {"idle", "number", "insert", "write"}
         /\ tx[a].at = "number" => tx[a] \in Numbering
         /\ tx[a].at \in {"insert", "write"} => tx[a] \in Writing
<1>1. CASE tx[a] = Idle
  BY <1>1 DEF Idle
<1>2. CASE tx[a] # Idle
  <2>1. tx[a] \in Numbering \/ tx[a] \in Writing
    BY <1>2 DEF TypeOK, Saves
  <2>2. QED
    BY <1>2, <2>1 DEF Numbering, Writing
<1>3. QED
  BY <1>1, <1>2

\* An insert of a version adds a content or nothing.
LEMMA Recording ==
  ASSUME NEW past \in Seq(Contents), NEW v \in Nat, NEW c \in Contents
  PROVE  Recorded(past, v, c) \in Seq(Contents)
  BY DEF Recorded

\* What the start reads are templates with their contents.
LEMMA DeclaredFiles ==
  ASSUME NEW f \in Directories
  PROVE  DOMAIN f \subseteq Templates /\ \A t \in DOMAIN f : f[t] \in Contents
<1>1. PICK declared \in SUBSET Templates : f \in [declared -> Contents]
  BY DEF Directories
<1>2. QED
  BY <1>1

-----------------------------------------------------------------------------
(* Types. *)

LEMMA InitialTypes == Init => TypeOK
<1> SUFFICES ASSUME Init PROVE TypeOK
  OBVIOUS
<1>1. files \in Directories
  <2>1. files \in [{} -> Contents]
    BY DEF Init
  <2>2. QED
    BY <2>1 DEF Directories
<1>2. history \in [Templates -> Seq(Contents)]
  BY DEF Init
<1>3. QED
  BY <1>1, <1>2, RegistryAssumption DEF Init, TypeOK

LEMMA TypeStep == TypeOK /\ [Next]_vars => TypeOK'
<1> SUFFICES ASSUME TypeOK, [Next]_vars PROVE TypeOK'
  OBVIOUS
<1> USE DEF registry, start, watched
<1>1. CASE UNCHANGED vars
  BY <1>1 DEF vars, TypeOK
<1>2. ASSUME NEW a \in Actors, NEW t \in Templates, NEW c \in Contents, Select(a, t, c)
      PROVE  TypeOK'
  <2>1. version[t] # 0 => version[t] + 1 \in Nat \ {0}
    BY DEF TypeOK
  <2>2. tx' \in [Actors -> Saves \union {Idle}]
    <3>1. CASE version[t] = 0
      <4>1. [at |-> "number", template |-> t, content |-> c] \in Saves
        BY DEF Saves, Numbering
      <4>2. tx' = [tx EXCEPT ![a] = [at |-> "number", template |-> t, content |-> c]]
        BY <1>2, <3>1 DEF Select
      <4>3. QED
        BY <4>1, <4>2 DEF TypeOK
    <3>2. CASE version[t] # 0
      <4>1. [at |-> "write", template |-> t, content |-> c, version |-> version[t] + 1] \in Saves
        BY <2>1, <3>2 DEF Saves, Writing
      <4>2. tx' = [tx EXCEPT ![a] =
                    [at |-> "write", template |-> t, content |-> c, version |-> version[t] + 1]]
        BY <1>2, <3>2 DEF Select
      <4>3. QED
        BY <4>1, <4>2 DEF TypeOK
    <3>3. QED
      BY <3>1, <3>2
  <2>3. QED
    BY <1>2, <2>2 DEF Select, TypeOK
<1>3. ASSUME NEW a \in Actors, Number(a)
      PROVE  TypeOK'
  <2> DEFINE next == Len(history[tx[a].template]) + 1
             save == [at |-> "insert", template |-> tx[a].template,
                      content |-> tx[a].content, version |-> next]
  <2>1. tx[a].template \in Templates /\ tx[a].content \in Contents
    BY <1>3, Transactions DEF Number, Numbering
  <2>2. next \in Nat \ {0}
    BY <2>1 DEF TypeOK
  <2>3. save \in Saves
    BY <2>1, <2>2 DEF Saves, Writing
  <2>4. tx' \in [Actors -> Saves \union {Idle}]
    BY <1>3, <2>3 DEF Number, TypeOK
  <2>5. QED
    BY <1>3, <2>4 DEF Number, TypeOK
<1>4. ASSUME NEW a \in Actors, Write(a)
      PROVE  TypeOK'
  <2> DEFINE t == tx[a].template
             v == tx[a].version
             c == tx[a].content
  <2>1. t \in Templates /\ v \in Nat \ {0} /\ c \in Contents
    BY <1>4, Transactions DEF Write, Writing
  <2>2. version' = [version EXCEPT ![t] = v] /\ content' = [content EXCEPT ![t] = c]
    BY <1>4 DEF Write
  <2>3. history' = [history EXCEPT ![t] = Recorded(history[t], v, c)]
    BY <1>4 DEF Write
  <2>4. history' \in [Templates -> Seq(Contents)]
    BY <2>1, <2>3, Recording DEF TypeOK
  <2>5. /\ version' \in [Templates -> Nat]
        /\ content' \in [Templates -> Contents \union {NoContent}]
    BY <2>1, <2>2 DEF TypeOK
  <2>6. \A u \in Templates : version'[u] = 0 <=> content'[u] = NoContent
    BY <2>1, <2>2, RegistryAssumption DEF TypeOK
  <2>7. crossed' \subseteq Templates /\ edited' \subseteq Templates /\ todo' \subseteq todo
    <3>1. \/ todo' = todo \ {t} /\ edited' = edited
          \/ edited' = edited \union {t} /\ todo' = todo
      BY <1>4 DEF Write
    <3>2. crossed' = crossed \union {t} \/ crossed' = crossed
      BY <1>4 DEF Write
    <3>3. QED
      BY <2>1, <3>1, <3>2 DEF TypeOK
  <2>8. tx' \in [Actors -> Saves \union {Idle}] /\ phase' = phase /\ files' = files
    BY <1>4 DEF Write, TypeOK
  <2>9. QED
    BY <2>4, <2>5, <2>6, <2>7, <2>8 DEF TypeOK
<1>5. CASE \E e \in Editors : Put(e)
  BY <1>2, <1>5 DEF Put, Actors
<1>6. CASE \E e \in Editors : Delete(e)
  BY <1>6 DEF Delete, Remove, TypeOK
<1>7. CASE \E e \in Editors : RollBack(e)
  BY <1>7 DEF RollBack, TypeOK, Actors
<1>8. CASE ReadFiles
  <2>1. files' \in Directories /\ phase' = "saving" /\ todo' = DOMAIN files' /\ edited' = {}
    BY <1>8 DEF ReadFiles
  <2>2. UNCHANGED <<version, content, history, tx, crossed>>
    BY <1>8 DEF ReadFiles
  <2>3. QED
    BY <2>1, <2>2 DEF TypeOK
<1>9. CASE SaveFile
  <2>1. PICK t \in todo : phase = "saving" /\ Select(Starter, t, files[t])
    BY <1>9 DEF SaveFile
  <2>2. t \in Templates /\ files[t] \in Contents
    BY <2>1, DeclaredFiles DEF TypeOK
  <2>3. QED
    BY <1>2, <2>1, <2>2 DEF Actors
<1>10. CASE KeepFile
  BY <1>10 DEF KeepFile, TypeOK
<1>11. CASE ListRows
  <2>1. phase' \in {"removing", "up"} /\ todo' \subseteq Templates
    BY <1>11 DEF ListRows, TypeOK
  <2>2. UNCHANGED <<version, content, history, tx, files, edited, crossed>>
    BY <1>11 DEF ListRows
  <2>3. QED
    BY <2>1, <2>2 DEF TypeOK
<1>12. CASE RemoveRow
  BY <1>12 DEF RemoveRow, Remove, TypeOK
<1>13. CASE Listen
  BY <1>13 DEF Listen, TypeOK
<1>14. CASE StartFails
  <2>1. phase' = "down" /\ todo' \subseteq Templates /\ tx' \in [Actors -> Saves \union {Idle}]
    BY <1>14, DeclaredFiles DEF StartFails, TypeOK
  <2>2. UNCHANGED <<version, content, history, files, edited, crossed>>
    BY <1>14 DEF StartFails
  <2>3. QED
    BY <2>1, <2>2 DEF TypeOK
<1>15. QED
  BY <1>1, <1>3, <1>4, <1>5, <1>6, <1>7, <1>8, <1>9, <1>10, <1>11, <1>12, <1>13, <1>14 DEF Next

-----------------------------------------------------------------------------
(* Versions. *)

LEMMA SelectKeeps ==
  ASSUME Kept, NEW a \in Actors, NEW t \in Templates, NEW c \in Contents,
         Select(a, t, c), a = Starter => phase = "saving"
  PROVE  Apart'
<1>1. UNCHANGED <<version, content, history, phase, crossed>>
  BY DEF Select, registry, start, watched
<1>2. \A b \in Actors : b # a => tx'[b] = tx[b]
  BY DEF Select, Kept, TypeOK
<1>3. \/ tx'[a].at = "number"
      \/ /\ tx'[a].at = "write" /\ tx'[a].template = t
         /\ version[t] > 0 /\ tx'[a].version = version[t] + 1
  BY DEF Select, Kept, TypeOK
<1>4. \A b \in Actors : b # a => ~(tx[b].at = "write" /\ tx[b].template = t)
  BY DEF Select, Locked
<1>5. LocksKeep'
  <2>1. phase' # "saving" => tx'[Starter] = Idle
    BY <1>1, <1>2 DEF Kept, Apart, LocksKeep, Actors
  <2>2. QED
    BY <1>1, <1>2, <1>3, <1>4, <2>1 DEF Kept, Apart, LocksKeep
<1>6. VersionsKeep'
  BY <1>1, <1>2, <1>3 DEF Kept, Apart, VersionsKeep
<1>7. LiveIsRecorded'
  BY <1>1 DEF Kept, Apart, LiveIsRecorded
<1>8. QED
  BY <1>5, <1>6, <1>7 DEF Apart

LEMMA NumberKeeps ==
  ASSUME Kept, NEW a \in Actors, Number(a)
  PROVE  Apart'
<1> DEFINE t == tx[a].template
<1>1. UNCHANGED <<version, content, history, phase, crossed>>
  BY DEF Number, registry, start, watched
<1>2. \A b \in Actors : b # a => tx'[b] = tx[b]
  BY DEF Number, Kept, TypeOK
<1>3. tx'[a].at = "insert" /\ tx'[a].template = t /\ tx'[a].version = Len(history[t]) + 1
  BY DEF Number, Kept, TypeOK
<1>4. t \in Templates /\ Len(history[t]) \in Nat /\ tx[a] # Idle
  BY Transactions DEF Number, Numbering, Kept, TypeOK
<1>5. LocksKeep'
  BY <1>1, <1>2, <1>3, <1>4 DEF Kept, Apart, LocksKeep, Actors
<1>6. VersionsKeep'
  BY <1>1, <1>2, <1>3, <1>4 DEF Kept, Apart, VersionsKeep
<1>7. LiveIsRecorded'
  BY <1>1 DEF Kept, Apart, LiveIsRecorded
<1>8. QED
  BY <1>5, <1>6, <1>7 DEF Apart

\* A save is of the next version, unless somebody crossed it.
LEMMA SavedVersion ==
  ASSUME Kept, NEW a \in Actors, tx[a].at \in {"insert", "write"}
  PROVE  /\ tx[a].template \in Templates
         /\ tx[a].version \in Nat \ {0}
         /\ tx[a].content \in Contents
         /\ history[tx[a].template] \in Seq(Contents)
         /\ tx[a].version <= Len(history[tx[a].template]) + 1
         /\ tx[a].template \notin crossed =>
              tx[a].version = Len(history[tx[a].template]) + 1
<1> DEFINE t == tx[a].template
<1>1. t \in Templates /\ tx[a].version \in Nat \ {0} /\ tx[a].content \in Contents
  BY Transactions DEF Kept, Writing
<1>2. history[t] \in Seq(Contents) /\ version[t] \in Nat /\ Len(history[t]) \in Nat
  BY <1>1 DEF Kept, TypeOK
<1>3. CASE tx[a].at = "insert"
  BY <1>1, <1>2, <1>3 DEF Kept, Apart, VersionsKeep
<1>4. CASE tx[a].at = "write"
  <2>1. version[t] > 0 /\ tx[a].version = version[t] + 1
    BY <1>4 DEF Kept, Apart, LocksKeep
  <2>2. version[t] <= Len(history[t])
    BY <1>1 DEF Kept, Apart, VersionsKeep
  <2>3. t \notin crossed => version[t] = Len(history[t])
    BY <1>1, <2>1 DEF Kept, Apart, LiveIsRecorded
  <2>4. QED
    BY <1>1, <1>2, <2>1, <2>2, <2>3
<1>5. QED
  BY <1>3, <1>4

LEMMA WriteKeeps ==
  ASSUME Kept, NEW a \in Actors, Write(a)
  PROVE  Apart'
<1> DEFINE t == tx[a].template
           v == tx[a].version
           c == tx[a].content
<1>1. tx[a].at \in {"insert", "write"}
  BY DEF Write
<1>2. /\ t \in Templates /\ v \in Nat \ {0} /\ c \in Contents /\ history[t] \in Seq(Contents)
      /\ v <= Len(history[t]) + 1
      /\ t \notin crossed => v = Len(history[t]) + 1
  BY <1>1, SavedVersion
<1>3. /\ version'[t] = v /\ content'[t] = c
      /\ history'[t] = Recorded(history[t], v, c)
  BY <1>2 DEF Write, Kept, TypeOK
<1>4. \A u \in Templates : u # t =>
        version'[u] = version[u] /\ content'[u] = content[u] /\ history'[u] = history[u]
  BY <1>2 DEF Write, Kept, TypeOK
<1>5. tx'[a] = Idle /\ \A b \in Actors : b # a => tx'[b] = tx[b]
  BY DEF Write, Kept, TypeOK
<1>6. \A b \in Actors : b # a => ~(tx[b].at = "write" /\ tx[b].template = t)
  BY DEF Write, Locked
<1>7. /\ crossed \subseteq crossed'
      /\ t \notin crossed' => \A b \in Actors : b # a => ~(tx[b].at = "insert" /\ tx[b].template = t)
  BY DEF Write, Crosses
<1>8. /\ Len(history[t]) <= Len(history'[t]) /\ v <= Len(history'[t])
      /\ v = Len(history[t]) + 1 => Len(history'[t]) = v /\ history'[t][v] = c
      /\ Len(history[t]) \in Nat /\ Len(history'[t]) \in Nat
  <2> HIDE DEF t, v, c
  <2>1. v \in Nat
    BY <1>2
  <2>2. /\ Recorded(history[t], v, c) \in Seq(Contents)
        /\ Len(history[t]) <= Len(Recorded(history[t], v, c))
        /\ v <= Len(history[t]) + 1 => v <= Len(Recorded(history[t], v, c))
        /\ v = Len(history[t]) + 1 =>
             Len(Recorded(history[t], v, c)) = v /\ Recorded(history[t], v, c)[v] = c
    BY <1>2, <2>1 DEF Recorded
  <2>3. QED
    BY <1>2, <1>3, <2>2
<1>9. \A b \in Actors : tx[b].at \in {"insert", "write"} => tx[b].template \in Templates
  BY SavedVersion
<1>10. tx'[a].at = "idle"
  BY <1>5 DEF Idle
<1>11. LocksKeep'
  <2>1. phase' # "saving" => tx'[Starter] = Idle
    BY <1>5 DEF Write, Kept, Apart, LocksKeep, Actors
  <2>2. ASSUME NEW b \in Actors, tx'[b].at = "write"
        PROVE  /\ b # a /\ tx'[b] = tx[b] /\ tx[b].template # t
               /\ version'[tx'[b].template] > 0
               /\ tx'[b].version = version'[tx'[b].template] + 1
    <3>1. b # a /\ tx'[b] = tx[b]
      BY <1>5, <1>10, <2>2
    <3>2. tx[b].template # t /\ tx[b].template \in Templates
      BY <1>6, <1>9, <2>2, <3>1
    <3>3. QED
      BY <1>4, <2>2, <3>1, <3>2 DEF Kept, Apart, LocksKeep
  <2>3. QED
    BY <2>1, <2>2 DEF Kept, Apart, LocksKeep
<1>12. VersionsKeep'
  <2>1. \A u \in Templates : version'[u] <= Len(history'[u])
    BY <1>3, <1>4, <1>8 DEF Kept, Apart, VersionsKeep
  <2>2. ASSUME NEW b \in Actors, tx'[b].at = "insert"
        PROVE  /\ tx'[b].version > 0
               /\ tx'[b].version <= Len(history'[tx'[b].template]) + 1
               /\ tx'[b].template \notin crossed' =>
                    tx'[b].version = Len(history'[tx'[b].template]) + 1
    <3>1. b # a /\ tx'[b] = tx[b] /\ tx[b].at = "insert"
      BY <1>5, <1>10, <2>2
    <3>2. tx[b].template \in Templates /\ tx[b].version \in Nat
      BY <3>1, SavedVersion
    <3>3. /\ tx[b].version > 0
          /\ tx[b].version <= Len(history[tx[b].template]) + 1
          /\ tx[b].template \notin crossed =>
               tx[b].version = Len(history[tx[b].template]) + 1
      BY <3>1 DEF Kept, Apart, VersionsKeep
    <3>4. CASE tx[b].template = t
      BY <1>7, <1>8, <3>1, <3>2, <3>3, <3>4
    <3>5. CASE tx[b].template # t
      BY <1>4, <1>7, <3>1, <3>2, <3>3, <3>5
    <3>6. QED
      BY <3>4, <3>5
  <2>3. QED
    BY <2>1, <2>2 DEF VersionsKeep
<1>13. LiveIsRecorded'
  <2>1. ASSUME NEW u \in Templates \ crossed', version'[u] > 0
        PROVE  version'[u] = Len(history'[u]) /\ history'[u][version'[u]] = content'[u]
    <3>1. CASE u = t
      BY <1>2, <1>3, <1>7, <1>8, <3>1
    <3>2. CASE u # t
      BY <1>4, <1>7, <2>1, <3>2 DEF Kept, Apart, LiveIsRecorded
    <3>3. QED
      BY <3>1, <3>2
  <2>2. QED
    BY <2>1 DEF LiveIsRecorded
<1>14. QED
  BY <1>11, <1>12, <1>13 DEF Apart

LEMMA RemoveKeeps ==
  ASSUME Kept, NEW a \in Actors, NEW t \in Templates, tx[a] = Idle, Remove(a, t),
         UNCHANGED <<tx, phase, crossed>>
  PROVE  Apart'
<1>1. version'[t] = 0 /\ history' = history
  BY DEF Remove, Kept, TypeOK
<1>2. \A u \in Templates : u # t => version'[u] = version[u] /\ content'[u] = content[u]
  BY DEF Remove, Kept, TypeOK
<1>3. \A b \in Actors : ~(tx[b].at = "write" /\ tx[b].template = t)
  BY DEF Remove, Locked, Idle
<1>4. \A b \in Actors : tx[b].at = "write" => tx[b].template \in Templates
  BY SavedVersion
<1>5. LocksKeep'
  BY <1>2, <1>3, <1>4 DEF Kept, Apart, LocksKeep
<1>6. VersionsKeep'
  <2>1. \A u \in Templates : version'[u] <= Len(history'[u])
    BY <1>1, <1>2 DEF Kept, Apart, VersionsKeep, TypeOK
  <2>2. QED
    BY <1>1, <2>1 DEF Kept, Apart, VersionsKeep
<1>7. LiveIsRecorded'
  <2>1. ASSUME NEW u \in Templates \ crossed', version'[u] > 0
        PROVE  version'[u] = Len(history'[u]) /\ history'[u][version'[u]] = content'[u]
    <3>1. u # t
      BY <1>1, <2>1
    <3>2. QED
      BY <1>1, <1>2, <2>1, <3>1 DEF Kept, Apart, LiveIsRecorded
  <2>2. QED
    BY <2>1 DEF LiveIsRecorded
<1>8. QED
  BY <1>5, <1>6, <1>7 DEF Apart

\* A rollback, or the end of a start that fails.
LEMMA EndKeeps ==
  ASSUME Kept, NEW a \in Actors, tx' = [tx EXCEPT ![a] = Idle],
         UNCHANGED <<version, content, history, crossed>>, phase' = phase \/ a = Starter
  PROVE  Apart'
<1>1. tx'[a] = Idle /\ tx'[a].at = "idle" /\ \A b \in Actors : b # a => tx'[b] = tx[b]
  BY DEF Kept, TypeOK, Idle
<1>2. LocksKeep'
  <2>1. phase' # "saving" => tx'[Starter] = Idle
    BY <1>1 DEF Kept, Apart, LocksKeep, Actors
  <2>2. QED
    BY <1>1, <2>1 DEF Kept, Apart, LocksKeep
<1>3. VersionsKeep'
  BY <1>1 DEF Kept, Apart, VersionsKeep
<1>4. LiveIsRecorded'
  BY DEF Kept, Apart, LiveIsRecorded
<1>5. QED
  BY <1>2, <1>3, <1>4 DEF Apart

\* A step of the start that changes no table.
LEMMA StartMoves ==
  ASSUME Kept, tx[Starter] = Idle, UNCHANGED <<version, content, history, tx, crossed>>
  PROVE  Apart'
  BY DEF Kept, Apart, LocksKeep, VersionsKeep, LiveIsRecorded

LEMMA KeptStep == Kept /\ [Next]_vars => Kept'
<1> SUFFICES ASSUME Kept, [Next]_vars PROVE Apart'
  BY TypeStep DEF Kept
<1> USE DEF registry, start, watched
<1>1. CASE UNCHANGED vars
  BY <1>1 DEF vars, Kept, Apart, LocksKeep, VersionsKeep, LiveIsRecorded
<1>2. ASSUME NEW a \in Actors, Number(a) PROVE Apart'
  BY <1>2, NumberKeeps
<1>3. ASSUME NEW a \in Actors, Write(a) PROVE Apart'
  BY <1>3, WriteKeeps
<1>4. CASE \E e \in Editors : Put(e)
  BY <1>4, SelectKeeps, RegistryAssumption DEF Put, Actors
<1>5. CASE \E e \in Editors : Delete(e)
  BY <1>5, RemoveKeeps DEF Delete, Actors
<1>6. CASE \E e \in Editors : RollBack(e)
  BY <1>6, EndKeeps DEF RollBack, Actors
<1>7. CASE ReadFiles
  <2>1. tx[Starter] = Idle
    BY <1>7 DEF ReadFiles, Kept, Apart, LocksKeep
  <2>2. QED
    BY <1>7, <2>1, StartMoves DEF ReadFiles
<1>8. CASE SaveFile
  <2>1. PICK t \in todo : phase = "saving" /\ Select(Starter, t, files[t])
    BY <1>8 DEF SaveFile
  <2>2. t \in Templates /\ files[t] \in Contents
    BY <2>1, DeclaredFiles DEF Kept, TypeOK
  <2>3. QED
    BY <2>1, <2>2, SelectKeeps DEF Actors
<1>9. CASE KeepFile
  BY <1>9, StartMoves DEF KeepFile
<1>10. CASE ListRows
  BY <1>10, StartMoves DEF ListRows
<1>11. CASE RemoveRow
  <2>1. PICK t \in todo : phase = "removing" /\ Remove(Starter, t)
    BY <1>11 DEF RemoveRow
  <2>2. t \in Templates /\ tx[Starter] = Idle
    BY <2>1 DEF Kept, TypeOK, Apart, LocksKeep
  <2>3. QED
    BY <1>11, <2>1, <2>2, RemoveKeeps DEF RemoveRow, Actors
<1>12. CASE Listen
  <2>1. tx[Starter] = Idle
    BY <1>12 DEF Listen, Kept, Apart, LocksKeep
  <2>2. QED
    BY <1>12, <2>1, StartMoves DEF Listen
<1>13. CASE StartFails
  BY <1>13, EndKeeps DEF StartFails, Actors
<1>14. QED
  BY <1>1, <1>2, <1>3, <1>4, <1>5, <1>6, <1>7, <1>8, <1>9, <1>10, <1>11, <1>12, <1>13 DEF Next

LEMMA InitiallyKept == Init => Kept
<1> SUFFICES ASSUME Init PROVE Kept
  OBVIOUS
<1>1. \A a \in Actors : tx[a] = Idle /\ tx[a].at = "idle"
  BY DEF Init, Idle
<1>2. LocksKeep
  BY <1>1 DEF LocksKeep, Actors
<1>3. VersionsKeep
  BY <1>1 DEF Init, VersionsKeep
<1>4. LiveIsRecorded
  BY DEF Init, LiveIsRecorded
<1>5. QED
  BY <1>2, <1>3, <1>4, InitialTypes DEF Kept, Apart

-----------------------------------------------------------------------------
(* The start. *)

LEMMA StartedStep == Kept /\ Started /\ [Next]_vars => Started'
<1> SUFFICES ASSUME Kept, Started, [Next]_vars PROVE Started'
  OBVIOUS
<1> USE DEF registry, start, watched
<1>1. CASE UNCHANGED vars
  BY <1>1 DEF vars, Started, Declared, SyncedToFiles
<1>2. ASSUME NEW e \in Editors, Put(e) \/ RollBack(e)
      PROVE  Started'
  <2>1. tx'[Starter] = tx[Starter]
    BY <1>2, RegistryAssumption DEF Put, Select, RollBack, Kept, TypeOK, Actors
  <2>2. UNCHANGED <<version, content, phase, files, todo, edited>>
    BY <1>2 DEF Put, Select, RollBack
  <2>3. QED
    BY <2>1, <2>2 DEF Started, Declared, SyncedToFiles
<1>3. ASSUME NEW e \in Editors, Delete(e)
      PROVE  Started'
  <2>1. PICK t \in Templates : Remove(e, t) /\ edited' = edited \union {t}
                               /\ UNCHANGED <<tx, phase, files, todo>>
    BY <1>3 DEF Delete
  <2>2. \A u \in Templates : u # t => version'[u] = version[u] /\ content'[u] = content[u]
    BY <2>1 DEF Remove, Kept, TypeOK
  <2>3. QED
    BY <2>1, <2>2, DeclaredFiles DEF Started, Declared, SyncedToFiles, Kept, TypeOK
<1>4. ASSUME NEW a \in Actors, Number(a)
      PROVE  Started'
  <2>1. UNCHANGED <<version, content, phase, files, todo, edited>>
    BY <1>4 DEF Number
  <2>2. tx[Starter] # Idle /\ a = Starter =>
          /\ tx'[Starter].template = tx[Starter].template
          /\ tx'[Starter].content = tx[Starter].content
    BY <1>4 DEF Number, Kept, TypeOK
  <2>3. a # Starter => tx'[Starter] = tx[Starter]
    BY <1>4 DEF Number, Kept, TypeOK, Actors
  <2>4. a = Starter => tx[Starter] # Idle
    BY <1>4 DEF Number, Idle
  <2>5. QED
    BY <2>1, <2>2, <2>3, <2>4 DEF Started, Declared, SyncedToFiles
<1>5. ASSUME NEW a \in Actors, Write(a)
      PROVE  Started'
  <2> DEFINE t == tx[a].template
  <2>1. t \in Templates /\ tx[a].version > 0
    BY <1>5, SavedVersion DEF Write
  <2>2. version'[t] = tx[a].version /\ content'[t] = tx[a].content
    BY <1>5, <2>1 DEF Write, Kept, TypeOK
  <2>3. \A u \in Templates : u # t => version'[u] = version[u] /\ content'[u] = content[u]
    BY <1>5, <2>1 DEF Write, Kept, TypeOK
  <2>4. phase' = phase /\ files' = files /\ DOMAIN files \subseteq Templates
    BY <1>5, DeclaredFiles DEF Write, Kept, TypeOK
  <2>5. CASE a = Starter
    <3>1. tx'[Starter] = Idle /\ todo' = todo \ {t} /\ edited' = edited
      BY <1>5, <2>5 DEF Write, Kept, TypeOK
    <3>2. tx[Starter] # Idle
      BY <1>5, <2>5 DEF Write, Idle
    <3>3. phase = "saving" /\ t \in todo /\ tx[a].content = files[t]
      BY <2>5, <3>2 DEF Kept, Apart, LocksKeep, Started
    <3>4. \A u \in DOMAIN files \ (todo' \union edited') : Declared(u)'
      BY <2>1, <2>2, <2>3, <2>4, <3>1, <3>3 DEF Started, Declared
    <3>5. QED
      BY <2>4, <3>1, <3>3, <3>4 DEF Started, SyncedToFiles
  <2>6. CASE a # Starter
    <3>1. tx'[Starter] = tx[Starter] /\ todo' = todo /\ edited' = edited \union {t}
      BY <1>5, <2>6 DEF Write, Kept, TypeOK, Actors
    <3>2. QED
      BY <2>3, <2>4, <3>1 DEF Started, Declared, SyncedToFiles
  <2>7. QED
    BY <2>5, <2>6
<1>6. CASE ReadFiles
  <2>1. tx'[Starter] = Idle
    BY <1>6 DEF ReadFiles, Kept, Apart, LocksKeep
  <2>2. QED
    BY <1>6, <2>1 DEF ReadFiles, Started, SyncedToFiles
<1>7. CASE SaveFile
  <2>1. PICK t \in todo : phase = "saving" /\ Select(Starter, t, files[t])
    BY <1>7 DEF SaveFile
  <2>2. tx'[Starter].template = t /\ tx'[Starter].content = files[t]
    BY <2>1 DEF Select, Kept, TypeOK, Actors
  <2>3. UNCHANGED <<version, content, phase, files, todo, edited>>
    BY <2>1 DEF Select
  <2>4. QED
    BY <2>1, <2>2, <2>3 DEF Started, Declared, SyncedToFiles
<1>8. CASE KeepFile
  BY <1>8 DEF KeepFile, Unchanged, Started, Declared, SyncedToFiles
<1>9. CASE ListRows
  <2>1. UNCHANGED <<version, content, tx, files, edited>> /\ tx[Starter] = Idle
    BY <1>9 DEF ListRows
  <2>2. \A t \in DOMAIN files \ edited : Declared(t)
    BY <1>9 DEF ListRows, Started
  <2>3. CASE DOMAIN files = {}
    BY <1>9, <2>1, <2>3 DEF ListRows, Started, SyncedToFiles
  <2>4. CASE DOMAIN files # {}
    <3>1. phase' = "removing" /\ todo' = {t \in Templates : version[t] > 0} \ DOMAIN files
      BY <1>9, <2>4 DEF ListRows
    <3>2. QED
      BY <2>1, <2>2, <2>4, <3>1 DEF Started, Declared, SyncedToFiles, Kept, TypeOK
  <2>5. QED
    BY <2>3, <2>4
<1>10. CASE RemoveRow
  <2>1. PICK t \in todo : phase = "removing" /\ Remove(Starter, t) /\ todo' = todo \ {t}
    BY <1>10 DEF RemoveRow
  <2>2. UNCHANGED <<tx, phase, files, edited>> /\ t \in Templates /\ tx[Starter] = Idle
    BY <1>10, <2>1 DEF RemoveRow, Kept, TypeOK, Apart, LocksKeep
  <2>3. version'[t] = 0 /\ \A u \in Templates : u # t =>
          version'[u] = version[u] /\ content'[u] = content[u]
    BY <2>1, <2>2 DEF Remove, Kept, TypeOK
  <2>4. DOMAIN files \subseteq Templates /\ t \notin DOMAIN files
    BY <2>1, DeclaredFiles DEF Started, Kept, TypeOK
  <2>5. QED
    BY <2>1, <2>2, <2>3, <2>4 DEF Started, Declared, SyncedToFiles
<1>11. CASE Listen
  <2>1. tx[Starter] = Idle
    BY <1>11 DEF Listen, Kept, Apart, LocksKeep
  <2>2. QED
    BY <1>11, <2>1, DeclaredFiles DEF Listen, Started, Declared, SyncedToFiles, Kept, TypeOK
<1>12. CASE StartFails
  <2>1. phase' = "down" /\ tx'[Starter] = Idle
    BY <1>12 DEF StartFails, Kept, TypeOK, Actors
  <2>2. QED
    BY <2>1 DEF Started, SyncedToFiles
<1>13. QED
  BY <1>1, <1>2, <1>3, <1>4, <1>5, <1>6, <1>7, <1>8, <1>9, <1>10, <1>11, <1>12 DEF Next

LEMMA InitiallyStarted == Init => Started
  BY DEF Init, Started, SyncedToFiles, Actors

LEMMA Invariants == Spec => [](Kept /\ Started)
<1>1. Init => Kept /\ Started
  BY InitiallyKept, InitiallyStarted
<1>2. Kept /\ Started /\ [Next]_vars => (Kept /\ Started)'
  BY KeptStep, StartedStep
<1>3. QED
  BY <1>1, <1>2, PTL DEF Spec

-----------------------------------------------------------------------------
(* Steps that change the tables. *)

LEMMA TableSteps ==
  ASSUME [Next]_vars
  PROVE  \/ UNCHANGED <<version, content, history>>
         \/ \E a \in Actors : Write(a)
         \/ \E e \in Editors : Delete(e)
         \/ RemoveRow
<1> USE DEF registry, start, watched
<1>1. CASE UNCHANGED vars
  BY <1>1 DEF vars
<1>2. CASE \E e \in Editors : Put(e) \/ RollBack(e)
  BY <1>2 DEF Put, Select, RollBack
<1>3. CASE \E a \in Actors : Number(a)
  BY <1>3 DEF Number
<1>4. CASE ReadFiles \/ SaveFile \/ KeepFile \/ ListRows \/ Listen \/ StartFails
  BY <1>4 DEF ReadFiles, SaveFile, Select, KeepFile, ListRows, Listen, StartFails
<1>5. QED
  BY <1>1, <1>2, <1>3, <1>4 DEF Next

LEMMA HistoryStep ==
  ASSUME Kept, [Next]_vars, NEW t \in Templates
  PROVE  /\ Len(history[t]) <= Len(history'[t])
         /\ \A v \in 1..Len(history[t]) : history'[t][v] = history[t][v]
<1>1. Len(history[t]) \in Nat
  BY DEF Kept, TypeOK
<1>2. CASE history' = history
  BY <1>1, <1>2
<1>3. ASSUME NEW a \in Actors, Write(a)
      PROVE  /\ Len(history[t]) <= Len(history'[t])
             /\ \A v \in 1..Len(history[t]) : history'[t][v] = history[t][v]
  <2>1. /\ tx[a].template \in Templates /\ tx[a].version \in Nat /\ tx[a].content \in Contents
        /\ history[tx[a].template] \in Seq(Contents)
    BY <1>3, SavedVersion DEF Write
  <2>2. history' = [history EXCEPT ![tx[a].template] =
                      Recorded(history[tx[a].template], tx[a].version, tx[a].content)]
    BY <1>3 DEF Write
  <2>3. CASE t = tx[a].template
    <3>1. history'[t] = Recorded(history[t], tx[a].version, tx[a].content)
      BY <2>2, <2>3 DEF Kept, TypeOK
    <3>2. history[t] \in Seq(Contents) /\ tx[a].version \in Nat /\ tx[a].content \in Contents
      BY <2>1, <2>3
    <3>3. QED
      BY <3>1, <3>2 DEF Recorded
  <2>4. CASE t # tx[a].template
    BY <1>1, <2>2, <2>4 DEF Kept, TypeOK
  <2>5. QED
    BY <2>3, <2>4
<1>4. CASE (\E e \in Editors : Delete(e)) \/ RemoveRow
  BY <1>2, <1>4 DEF Delete, RemoveRow, Remove
<1>5. QED
  BY <1>2, <1>3, <1>4, TableSteps

LEMMA ContentStep ==
  ASSUME Kept, [Next]_vars, NEW t \in Templates \ crossed',
         content'[t] \notin {content[t], NoContent}
  PROVE  version'[t] > Len(history[t])
<1>1. PICK a \in Actors : Write(a) /\ tx[a].template = t
  <2>1. content' # content
    OBVIOUS
  <2>2. ~(\E e \in Editors : Delete(e)) /\ ~RemoveRow
    BY DEF Delete, RemoveRow, Remove, Kept, TypeOK
  <2>3. PICK a \in Actors : Write(a)
    BY <2>1, <2>2, TableSteps
  <2>4. content' = [content EXCEPT ![tx[a].template] = tx[a].content]
    BY <2>3 DEF Write
  <2>5. QED
    BY <2>3, <2>4 DEF Kept, TypeOK
<1>2. version'[t] = tx[a].version /\ t \notin crossed
  BY <1>1 DEF Write, Kept, TypeOK
<1>3. tx[a].version = Len(history[t]) + 1 /\ history[t] \in Seq(Contents)
  BY <1>1, <1>2, SavedVersion DEF Write
<1>4. QED
  BY <1>2, <1>3

LEMMA RemovalStep ==
  ASSUME Kept, Started, [Next]_vars, NEW t \in Templates,
         version[t] > 0, version'[t] = 0, UNCHANGED edited, t \notin edited
  PROVE  DOMAIN files # {} /\ t \notin DOMAIN files
<1>1. version' # version
  OBVIOUS
<1>2. ~\E a \in Actors : Write(a)
  <2>1. SUFFICES ASSUME NEW a \in Actors, Write(a) PROVE FALSE
    OBVIOUS
  <2>2. tx[a].version # 0 /\ version' = [version EXCEPT ![tx[a].template] = tx[a].version]
    BY <2>1, SavedVersion DEF Write
  <2>3. QED
    BY <2>2 DEF Kept, TypeOK
<1>3. ~\E e \in Editors : Delete(e)
  BY DEF Delete, Remove, Kept, TypeOK
<1>4. RemoveRow
  BY <1>1, <1>2, <1>3, TableSteps
<1>5. phase = "removing" /\ t \in todo
  BY <1>4 DEF RemoveRow, Remove, Kept, TypeOK
<1>6. QED
  BY <1>5 DEF Started

-----------------------------------------------------------------------------
(* The theorems. *)

\* The tables, the transactions and the start stay within their types: a row has
\* a version exactly when it has a content, and a start saves only declared files.
THEOREM TypeCorrect == Spec => []TypeOK
  BY Invariants, PTL DEF Kept

\* Where no two saves met without a row to lock, the live row is the newest
\* version in the history, however many handlers edit the template.
THEOREM LiveRowsAreRecorded == Spec => []LiveIsRecorded
  BY Invariants, PTL DEF Kept, Apart

\* Whatever is saved, removed and added back, by whomever: a recorded version
\* keeps the content it was recorded with, and none is lost.
THEOREM HistoriesArePermanent == Spec => HistoryIsPermanent
<1>1. Kept /\ [Next]_vars =>
        [\A t \in Templates :
           /\ Len(history[t]) <= Len(history'[t])
           /\ \A v \in 1..Len(history[t]) : history'[t][v] = history[t][v]]_vars
  BY HistoryStep
<1>2. QED
  BY <1>1, Invariants, PTL DEF Spec, HistoryIsPermanent

\* A row changes or comes back under a version that nothing was recorded under,
\* where no two saves met without a row to lock: FOR UPDATE is enough for that.
THEOREM VersionsAreNew == Spec => NewContentNewVersion
<1>1. Kept /\ [Next]_vars =>
        [\A t \in Templates \ crossed' :
           content'[t] \notin {content[t], NoContent} => version'[t] > Len(history[t])]_vars
  BY ContentStep
<1>2. QED
  BY <1>1, Invariants, PTL DEF Spec, NewContentNewVersion

\* A start that comes to an end leaves the registry as the files declared it,
\* but for what was edited over HTTP meanwhile.
THEOREM StartsSync == Spec => []SyncedToFiles
  BY Invariants, PTL DEF Started

\* A start removes no template that the directory declares, and none at all
\* where the directory declares nothing.
THEOREM RemovalsNeedFiles == Spec => RemovalNeedsFiles
<1>1. Kept /\ Started /\ [Next]_vars =>
        [\A t \in Templates :
           version[t] > 0 /\ version'[t] = 0 /\ UNCHANGED edited /\ t \notin edited
             => DOMAIN files # {} /\ t \notin DOMAIN files]_vars
  BY RemovalStep
<1>2. QED
  BY <1>1, Invariants, PTL DEF Spec, RemovalNeedsFiles

=============================================================================

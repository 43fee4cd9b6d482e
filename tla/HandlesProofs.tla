--------------------------- MODULE HandlesProofs ---------------------------
(* Theorems about Handles, for any number of threads, names, files, calls    *)
(* and I/O errors: types and locks first, then what the locks are for (no    *)
(* pointer in levelwise_file_list_ dangles, the write lock is where it       *)
(* should be).                                                               *)
EXTENDS Handles, TLAPS

-----------------------------------------------------------------------------
(* The inductive invariant.                                                 *)

Closing == {"flush", "datasync", "record", "add", "closewr", "destroy"}
Moving  == {"move_remove", "move_add"}
Places  == {"idle", "create", "reopen", "wrlock", "buffer", "delete", "move"}
               \union Closing \union Moving

CallSet == [at : Places, name : Name \union {None}, file : FileId \union {None},
            tries : 0..2]

\* TypeOK, and the types of calls and of the GC worker.
Types ==
    /\ TypeOK
    /\ call \in [Thread -> CallSet]
    /\ gc \in [at : {"idle", "get", "try", "copy", "sync", "release", "end"},
               name : Name \union {None}, file : FileId \union {None}]

\* Where a call has a file and where it has a name.
CallShape ==
    \A t \in Thread :
        /\ call[t].at # "idle" => call[t].name \in Name
        /\ (call[t].file # None) <=>
               (call[t].at \in Closing \union Moving \union {"wrlock", "buffer"})
        /\ call[t].file # None => name[call[t].file] = call[t].name
        /\ call[t].at \in Moving \union {"move"} => call[t].name \in Sst
        /\ call[t].at \in {"reopen", "wrlock"} => call[t].name \notin Sst
        /\ call[t].at = "add" => call[t].name \in Sst

\* A file that was not made yet is known to nobody.
FreshUnknown ==
    \A i \in FileId : i >= next_file_id =>
        /\ name[i] = None /\ wr[i] = None /\ i \notin handle /\ records[i] = 0
        /\ i \notin is_recorded
        /\ gc.file # i /\ \A t \in Thread : call[t].file # i

\* A name in the namespace leads to a file made under it.
NamesOwn ==
    \A n \in Name : files[n] # None => name[files[n]] = n /\ files[n] < next_file_id

\* No two calls work on one file.
OneCall ==
    \A s, t \in Thread :
        s # t /\ call[s].file # None => call[s].file # call[t].file

\* A handle exists from the end of the constructor to the end of the
\* destructor, and a file that is reopened or moved has none.
HandleHeld ==
    /\ \A i \in handle : name[i] \in Name
    /\ \A t \in Thread :
         /\ call[t].at \in Closing => call[t].file \in handle
         /\ call[t].at \in Moving \union {"wrlock", "buffer"} =>
                call[t].file \notin handle

\* The file that a reopen or a move is about to look up is closed and in
\* nobody's hands.
Resting ==
    \A t \in Thread : call[t].at \in {"reopen", "move"} =>
        LET i == files[call[t].name] IN
        /\ i # None => i \notin handle /\ \A s \in Thread : call[s].file # i
        /\ call[t].at = "move" => i # None

\* Calls that RocksDB never makes on one name at a time.
Exclusive ==
    \A t \in Thread : \A s \in Thread \ {t} : call[s].name = call[t].name =>
        /\ call[t].at \in {"reopen", "wrlock"} =>
               call[s].at \notin {"create", "reopen", "wrlock", "buffer"}
        /\ call[t].at = "move" => call[s].at \notin {"create", "delete", "move"}

\* A file has one record, or a second one where a policy or GC renewed the
\* record behind the back of is_recorded_ or of a move.
RecordCount ==
    /\ \A i \in handle : i \notin is_recorded => records[i] # 2
    /\ \A t \in Thread :
         call[t].at \in {"add", "move_add", "buffer"} => records[call[t].file] # 2

\* The worker has a file from GetFile to ReleaseWRLock, a table of the name it
\* was given.
GCShape ==
    /\ (gc.file # None) <=> (gc.at \in {"try", "copy", "sync", "release"})
    /\ gc.at # "idle" => gc.name \in Sst
    /\ gc.file # None => name[gc.file] = gc.name

\* Only tables have a level, and only tables have records.
TablesOnly ==
    /\ \A i \in levelled : name[i] \in Sst
    /\ \A i \in FileId : records[i] # 0 => name[i] \in Sst

TypeInv == Types /\ CallShape /\ FreshUnknown /\ NamesOwn /\ OneCall /\ HandleHeld
               /\ Resting /\ Exclusive /\ RecordCount /\ GCShape /\ TablesOnly

\* Thread t goes to place p with name n and file f; no other call changes.
Moves(t, p, n, f) ==
    /\ call' \in [Thread -> CallSet]
    /\ call'[t].at = p /\ call'[t].name = n /\ call'[t].file = f
    /\ \A s \in Thread \ {t} : call'[s] = call[s]

\* The records of the files in S are removed; those in use are remembered.
Forgets(S) ==
    /\ records' \in [FileId -> 0..2]
    /\ \A i \in FileId : records'[i] = IF i \in S THEN 0 ELSE records[i]
    /\ raced \subseteq raced' /\ raced' \subseteq raced \union S
    /\ \A i \in S : InUse(i) => i \in raced'


-----------------------------------------------------------------------------
(* What the steps of a call do to it.                                       *)

\* The bounds are natural numbers and None is no name, thread, file or owner.
LEMMA Consts ==
    /\ MaxBuffers \in Nat /\ MaxFiles \in Nat
    /\ FileId \subseteq Nat
    /\ Sst \subseteq Name
    /\ None \notin Name /\ None \notin Thread /\ None \notin FileId
    /\ None # "handle" /\ None # "gc"
  BY HandlesAssumption DEF FileId

\* A file has at most two records.
LEMMA RecordTypes ==
    ASSUME TypeInv, NEW i \in FileId
    PROVE  records[i] \in 0..2
  BY DEF TypeInv, Types, TypeOK

\* An open file is a file.
LEMMA OpenFiles == TypeInv => handle \subseteq FileId
  BY DEF TypeInv, Types, TypeOK

\* A call that begins has a name and no file.
LEMMA StartMoves ==
    ASSUME TypeInv, NEW t \in Thread, NEW n \in Name, NEW where \in Places,
           Start(t, where, n)
    PROVE  Moves(t, where, n, None)
  <1> DEFINE c == [at |-> where, name |-> n, file |-> None, tries |-> 0]
  <1>1. c \in CallSet
    BY DEF CallSet
  <1>2. call' = [call EXCEPT ![t] = c]
    BY DEF Start
  <1> QED BY <1>1, <1>2 DEF Moves, TypeInv, Types

\* A call that returns has neither.
LEMMA ReturnMoves ==
    ASSUME TypeInv, NEW t \in Thread, Return(t)
    PROVE  Moves(t, "idle", None, None)
  <1>1. Idle \in CallSet
    BY DEF Idle, CallSet, Places
  <1>2. Idle.at = "idle" /\ Idle.name = None /\ Idle.file = None
    BY DEF Idle
  <1> QED BY <1>1, <1>2 DEF Return, Moves, TypeInv, Types

\* A call that goes on keeps its name and its file.
LEMMA GotoMoves ==
    ASSUME TypeInv, NEW t \in Thread, NEW where \in Places, Goto(t, where)
    PROVE  Moves(t, where, call[t].name, call[t].file)
  BY DEF Goto, Moves, TypeInv, Types, CallSet

\* So does a CloseInternal that fails: it is run again, or given up.
LEMMA FailsMoves ==
    ASSUME TypeInv, NEW t \in Thread, Fails(t)
    PROVE  \/ /\ Moves(t, "flush", call[t].name, call[t].file)
              /\ abandoned' = abandoned
           \/ /\ Moves(t, "destroy", call[t].name, call[t].file)
              /\ abandoned' = abandoned \union {call[t].file}
  <1>1. call[t] \in CallSet
    BY DEF TypeInv, Types
  <1>2. CASE call[t].tries = 2
    BY <1>1, <1>2 DEF Fails, Moves, TypeInv, Types, CallSet, Places, Closing
  <1>3. CASE call[t].tries # 2
    BY <1>1, <1>3 DEF Fails, Moves, TypeInv, Types, CallSet, Places, Closing
  <1> QED BY <1>2, <1>3

\* What removing the records of files does.
LEMMA SetDeletedForgets ==
    ASSUME TypeInv, NEW S \in SUBSET FileId, SetDeleted(S)
    PROVE  Forgets(S)
  <1>1. records' \in [FileId -> 0..2]
    BY DEF SetDeleted, TypeInv, Types, TypeOK
  <1>2. \A i \in FileId : records'[i] = IF i \in S THEN 0 ELSE records[i]
    BY DEF SetDeleted
  <1>3. raced' = raced \union {i \in S : InUse(i)}
    BY DEF SetDeleted
  <1> QED BY <1>1, <1>2, <1>3 DEF Forgets

\* A call that finds its file.
LEMMA FindsMoves ==
    ASSUME TypeInv, NEW t \in Thread, NEW where \in Places, NEW i \in FileId,
           call' = [call EXCEPT ![t].at = where, ![t].file = i]
    PROVE  Moves(t, where, call[t].name, i)
  BY DEF Moves, TypeInv, Types, CallSet

\* Where a call has a name and a file.
LEMMA CallHas ==
    ASSUME TypeInv, NEW t \in Thread
    PROVE  /\ call[t].at # "idle" => call[t].name \in Name
           /\ call[t].at \in Closing \union Moving \union {"wrlock", "buffer"} =>
                  /\ call[t].file \in FileId
                  /\ name[call[t].file] = call[t].name
           /\ call[t].at = "move" => files[call[t].name] \in FileId
  BY DEF TypeInv, Types, TypeOK, CallShape, CallSet, Resting

\* When a step of thread t keeps the count of records.
LEMMA RecordCountStep ==
    ASSUME TypeInv, NEW t \in Thread, NEW p, NEW n, NEW f, Moves(t, p, n, f),
           \A i \in handle' : i \notin is_recorded' => records'[i] # 2,
           p \in {"add", "move_add", "buffer"} => records'[f] # 2,
           \A i \in FileId \ {call[t].file} : records'[i] = records[i] \/ records'[i] # 2
    PROVE  RecordCount'
  <1>1. ASSUME NEW s \in Thread, call'[s].at \in {"add", "move_add", "buffer"}
        PROVE  records'[call'[s].file] # 2
    <2>1. CASE s = t
      BY <1>1, <2>1 DEF Moves
    <2>2. CASE s # t
      <3>1. call'[s] = call[s]
        BY <2>2 DEF Moves
      <3>2. call[s].file \in FileId /\ call[s].file # None
        BY <1>1, <3>1, CallHas, Consts DEF Moving, Closing
      <3>3. call[s].file # call[t].file
        BY <2>2, <3>2 DEF TypeInv, OneCall
      <3>4. records[call[s].file] # 2
        BY <1>1, <3>1 DEF TypeInv, RecordCount
      <3> QED BY <3>1, <3>2, <3>3, <3>4
    <2> QED BY <2>1, <2>2
  <1> QED BY <1>1 DEF RecordCount

\* What AddZoneFileRecord does to the records.
LEMMA AddedEffect ==
    ASSUME TypeInv, NEW i \in FileId, records[i] # 2, records' = Added(i)
    PROVE  /\ records' \in [FileId -> 0..2]
           /\ \A j \in FileId \ {i} : records'[j] = records[j]
           /\ records'[i] = IF Recordable(i) THEN records[i] + 1 ELSE records[i]
  <1>1. records[i] \in 0..1 /\ records \in [FileId -> 0..2]
    BY RecordTypes DEF TypeInv, Types, TypeOK
  <1>2. CASE Recordable(i)
    BY <1>1, <1>2 DEF Added
  <1>3. CASE ~Recordable(i)
    BY <1>1, <1>3 DEF Added
  <1> QED BY <1>2, <1>3

\* DeleteFile leaves the namespace alone, or removes the name and the records.
LEMMA DeleteEffect ==
    ASSUME TypeInv, NEW t \in Thread, DeleteFile(t)
    PROVE  LET n == call[t].name IN
           /\ n \in Name /\ Moves(t, "idle", None, None)
           /\ \/ UNCHANGED <<files, records, raced>>
              \/ /\ files[n] \in FileId
                 /\ files' = [files EXCEPT ![n] = None]
                 /\ Forgets({files[n]})
  <1> DEFINE n == call[t].name
  <1>1. n \in Name /\ Moves(t, "idle", None, None)
    BY CallHas, ReturnMoves DEF DeleteFile, At
  <1>2. CASE UNCHANGED <<files, records, raced>>
    BY <1>1, <1>2
  <1>3. CASE ~UNCHANGED <<files, records, raced>>
    <2>1. files[n] \in FileId
      BY <1>1, <1>3 DEF DeleteFile, TypeInv, Types, TypeOK
    <2>2. files' = [files EXCEPT ![n] = None] /\ SetDeleted({files[n]})
      BY <1>3 DEF DeleteFile
    <2> QED BY <1>1, <2>1, <2>2, SetDeletedForgets
  <1> QED BY <1>2, <1>3

\* The outcomes of CreateFile: the old file cannot be deleted, the new one
\* cannot be persisted, or it is made and its lock taken.
CreateFails(t) == Moves(t, "idle", None, None)
    /\ UNCHANGED <<files, name, next_file_id, wr, records, raced, files_mtx>>

CreateLost(t, n) ==
    /\ Moves(t, "idle", None, None)
    /\ next_file_id' = next_file_id + 1
    /\ files' = [files EXCEPT ![n] = None]
    /\ Forgets({files[n]} \ {None})
    /\ UNCHANGED <<name, wr, files_mtx>>

Creates(t, n, new) ==
    /\ Moves(t, "buffer", n, new)
    /\ next_file_id' = new + 1
    /\ files' = [files EXCEPT ![n] = new]
    /\ name' = [name EXCEPT ![new] = n]
    /\ Forgets({files[n]} \ {None})
    /\ wr' = [wr EXCEPT ![new] = "handle"]
    /\ files_mtx' = t

\* CreateFile has one of these outcomes.
LEMMA CreateEffect ==
    ASSUME TypeInv, NEW t \in Thread, CreateFile(t)
    PROVE  LET n == call[t].name
               new == next_file_id
           IN  /\ n \in Name /\ new \in FileId
               /\ CreateFails(t) \/ CreateLost(t, n) \/ Creates(t, n, new)
  <1> DEFINE n == call[t].name
             new == next_file_id
  <1>1. n \in Name /\ new \in FileId
    BY CallHas, HandlesAssumption, SMTT(30)
    DEF CreateFile, At, TypeInv, Types, TypeOK, FileId
  <1>2. ({files[n]} \ {None}) \in SUBSET FileId
    BY <1>1 DEF TypeInv, Types, TypeOK
  <1>3. SetDeleted({files[n]} \ {None}) => Forgets({files[n]} \ {None})
    BY <1>2, SetDeletedForgets
  <1>4. Return(t) => Moves(t, "idle", None, None)
    BY ReturnMoves
  <1>5. call' = [call EXCEPT ![t].at = "buffer", ![t].file = new] =>
            Moves(t, "buffer", n, new)
    BY <1>1, FindsMoves DEF Places
  <1> QED BY <1>1, <1>3, <1>4, <1>5
          DEF CreateFile, CreateFails, CreateLost, Creates, nameVars

\* Every step of a call preserves the invariant.
LEMMA TypeInvStep ==
    ASSUME TypeInv, NEW t \in Thread, Asks(t) \/ Works(t)
    PROVE  TypeInv'
  <1> USE DEF At, nameVars, recordVars, tableVars, history, bounds
  <1>1. ASSUME NEW n \in Name, StartCreate(t, n)
       PROVE  TypeInv'
    <2>1. Moves(t, "create", n, None)
      BY <1>1, StartMoves DEF StartCreate, Places, Closing, Moving
    <2>2. UNCHANGED <<files, name, next_file_id, handle, wr, records, is_recorded, levelled, gc>>
      BY <1>1 DEF StartCreate, Start
    <2>3. Types'
      BY <1>1, <2>1, Consts DEF StartCreate, Start, Moves, TypeInv, Types,
         TypeOK
    <2>4. CallShape'
      BY <1>1, <2>1, <2>2, <2>3, Consts DEF Moves, TypeInv, Types, TypeOK,
         CallShape, NamesOwn, HandleHeld, FreshUnknown, Closing, Moving,
         StartCreate, Start, At, Pending
    <2>5. FreshUnknown'
      BY <1>1, <2>1, <2>2, <2>3, Consts DEF Moves, TypeInv, Types, TypeOK,
         FreshUnknown, NamesOwn, CallShape, Closing, Moving, StartCreate,
         Start, At, Pending
    <2>6. NamesOwn'
      BY <1>1, <2>1, <2>2, <2>3, Consts DEF Moves, TypeInv, Types, TypeOK,
         NamesOwn, FreshUnknown, Closing, Moving, StartCreate, Start, At,
         Pending
    <2>7. OneCall'
      BY <1>1, <2>1, <2>2, <2>3, Consts DEF Moves, TypeInv, Types, TypeOK,
         OneCall, Resting, FreshUnknown, CallShape, Closing, Moving,
         StartCreate, Start, At, Pending
    <2>8. HandleHeld'
      BY <1>1, <2>1, <2>2, <2>3, Consts DEF Moves, TypeInv, Types, TypeOK,
         HandleHeld, CallShape, OneCall, Resting, FreshUnknown, Closing,
         Moving, StartCreate, Start, At, Pending
    <2>9. Resting'
      BY <1>1, <2>1, <2>2, <2>3, Consts DEF Moves, TypeInv, Types, TypeOK,
         Resting, CallShape, NamesOwn, OneCall, HandleHeld, Exclusive,
         FreshUnknown, Closing, Moving, StartCreate, Start, At, Pending
    <2>10. Exclusive'
      BY <1>1, <2>1, <2>2, <2>3, Consts DEF Moves, TypeInv, Types, TypeOK,
         Exclusive, CallShape, Closing, Moving, StartCreate, Start, At,
         Pending
    <2>11. RecordCount'
      BY <1>1, <2>1, <2>2, <2>3, RecordCountStep, OpenFiles DEF TypeInv, RecordCount,
         TablesOnly, Moving
    <2>12. GCShape'
      BY <1>1, <2>1, <2>2, <2>3, Consts DEF Moves, TypeInv, Types, TypeOK,
         GCShape, FreshUnknown, Closing, Moving, StartCreate, Start, At,
         Pending
    <2>13. TablesOnly'
      BY <1>1, <2>1, <2>2, <2>3, Consts DEF Moves, TypeInv, Types, TypeOK,
         TablesOnly, CallShape, Resting, FreshUnknown, NamesOwn, Exclusive,
         GCShape, Closing, Moving, StartCreate, Start, At, Pending
    <2> QED BY <2>3, <2>4, <2>5, <2>6, <2>7, <2>8, <2>9, <2>10, <2>11, <2>12,
       <2>13 DEF TypeInv
  <1>2. ASSUME NEW n \in Name, StartReopen(t, n)
       PROVE  TypeInv'
    <2>1. Moves(t, "reopen", n, None)
      BY <1>2, StartMoves DEF StartReopen, Places, Closing, Moving
    <2>2. UNCHANGED <<files, name, next_file_id, handle, wr, records, is_recorded, levelled, gc>>
      BY <1>2 DEF StartReopen, Start
    <2>3. Types'
      BY <1>2, <2>1, Consts DEF StartReopen, Start, Moves, TypeInv, Types,
         TypeOK
    <2>4. CallShape'
      BY <1>2, <2>1, <2>2, <2>3, Consts DEF Moves, TypeInv, Types, TypeOK,
         CallShape, NamesOwn, HandleHeld, FreshUnknown, Closing, Moving,
         StartReopen, Start, At, Pending
    <2>5. FreshUnknown'
      BY <1>2, <2>1, <2>2, <2>3, Consts DEF Moves, TypeInv, Types, TypeOK,
         FreshUnknown, NamesOwn, CallShape, Closing, Moving, StartReopen,
         Start, At, Pending
    <2>6. NamesOwn'
      BY <1>2, <2>1, <2>2, <2>3, Consts DEF Moves, TypeInv, Types, TypeOK,
         NamesOwn, FreshUnknown, Closing, Moving, StartReopen, Start, At,
         Pending
    <2>7. OneCall'
      BY <1>2, <2>1, <2>2, <2>3, Consts DEF Moves, TypeInv, Types, TypeOK,
         OneCall, Resting, FreshUnknown, CallShape, Closing, Moving,
         StartReopen, Start, At, Pending
    <2>8. HandleHeld'
      BY <1>2, <2>1, <2>2, <2>3, Consts DEF Moves, TypeInv, Types, TypeOK,
         HandleHeld, CallShape, OneCall, Resting, FreshUnknown, Closing,
         Moving, StartReopen, Start, At, Pending
    <2>9. Resting'
      BY <1>2, <2>1, <2>2, <2>3, Consts DEF Moves, TypeInv, Types, TypeOK,
         Resting, CallShape, NamesOwn, OneCall, HandleHeld, Exclusive,
         FreshUnknown, Closing, Moving, StartReopen, Start, At, Pending
    <2>10. Exclusive'
      BY <1>2, <2>1, <2>2, <2>3, Consts DEF Moves, TypeInv, Types, TypeOK,
         Exclusive, CallShape, Closing, Moving, StartReopen, Start, At,
         Pending
    <2>11. RecordCount'
      BY <1>2, <2>1, <2>2, <2>3, RecordCountStep, OpenFiles DEF TypeInv, RecordCount,
         TablesOnly, Moving
    <2>12. GCShape'
      BY <1>2, <2>1, <2>2, <2>3, Consts DEF Moves, TypeInv, Types, TypeOK,
         GCShape, FreshUnknown, Closing, Moving, StartReopen, Start, At,
         Pending
    <2>13. TablesOnly'
      BY <1>2, <2>1, <2>2, <2>3, Consts DEF Moves, TypeInv, Types, TypeOK,
         TablesOnly, CallShape, Resting, FreshUnknown, NamesOwn, Exclusive,
         GCShape, Closing, Moving, StartReopen, Start, At, Pending
    <2> QED BY <2>3, <2>4, <2>5, <2>6, <2>7, <2>8, <2>9, <2>10, <2>11, <2>12,
       <2>13 DEF TypeInv
  <1>3. ASSUME NEW n \in Name, StartDelete(t, n)
       PROVE  TypeInv'
    <2>1. Moves(t, "delete", n, None)
      BY <1>3, StartMoves DEF StartDelete, Places, Closing, Moving
    <2>2. UNCHANGED <<files, name, next_file_id, handle, wr, records, is_recorded, levelled, gc>>
      BY <1>3 DEF StartDelete, Start
    <2>3. Types'
      BY <1>3, <2>1, Consts DEF StartDelete, Start, Moves, TypeInv, Types,
         TypeOK
    <2>4. CallShape'
      BY <1>3, <2>1, <2>2, <2>3, Consts DEF Moves, TypeInv, Types, TypeOK,
         CallShape, NamesOwn, HandleHeld, FreshUnknown, Closing, Moving,
         StartDelete, Start, At, Pending
    <2>5. FreshUnknown'
      BY <1>3, <2>1, <2>2, <2>3, Consts DEF Moves, TypeInv, Types, TypeOK,
         FreshUnknown, NamesOwn, CallShape, Closing, Moving, StartDelete,
         Start, At, Pending
    <2>6. NamesOwn'
      BY <1>3, <2>1, <2>2, <2>3, Consts DEF Moves, TypeInv, Types, TypeOK,
         NamesOwn, FreshUnknown, Closing, Moving, StartDelete, Start, At,
         Pending
    <2>7. OneCall'
      BY <1>3, <2>1, <2>2, <2>3, Consts DEF Moves, TypeInv, Types, TypeOK,
         OneCall, Resting, FreshUnknown, CallShape, Closing, Moving,
         StartDelete, Start, At, Pending
    <2>8. HandleHeld'
      BY <1>3, <2>1, <2>2, <2>3, Consts DEF Moves, TypeInv, Types, TypeOK,
         HandleHeld, CallShape, OneCall, Resting, FreshUnknown, Closing,
         Moving, StartDelete, Start, At, Pending
    <2>9. Resting'
      BY <1>3, <2>1, <2>2, <2>3, Consts DEF Moves, TypeInv, Types, TypeOK,
         Resting, CallShape, NamesOwn, OneCall, HandleHeld, Exclusive,
         FreshUnknown, Closing, Moving, StartDelete, Start, At, Pending
    <2>10. Exclusive'
      BY <1>3, <2>1, <2>2, <2>3, Consts DEF Moves, TypeInv, Types, TypeOK,
         Exclusive, CallShape, Closing, Moving, StartDelete, Start, At,
         Pending
    <2>11. RecordCount'
      BY <1>3, <2>1, <2>2, <2>3, RecordCountStep, OpenFiles DEF TypeInv, RecordCount,
         TablesOnly, Moving
    <2>12. GCShape'
      BY <1>3, <2>1, <2>2, <2>3, Consts DEF Moves, TypeInv, Types, TypeOK,
         GCShape, FreshUnknown, Closing, Moving, StartDelete, Start, At,
         Pending
    <2>13. TablesOnly'
      BY <1>3, <2>1, <2>2, <2>3, Consts DEF Moves, TypeInv, Types, TypeOK,
         TablesOnly, CallShape, Resting, FreshUnknown, NamesOwn, Exclusive,
         GCShape, Closing, Moving, StartDelete, Start, At, Pending
    <2> QED BY <2>3, <2>4, <2>5, <2>6, <2>7, <2>8, <2>9, <2>10, <2>11, <2>12,
       <2>13 DEF TypeInv
  <1>4. ASSUME NEW n \in Name, StartMove(t, n)
       PROVE  TypeInv'
    <2>1. n \in Sst
      BY <1>4 DEF StartMove
    <2>2. Moves(t, "move", n, None)
      BY <1>4, <2>1, StartMoves DEF StartMove, Places, Closing, Moving
    <2>3. UNCHANGED <<files, name, next_file_id, handle, wr, records, is_recorded, levelled, gc>>
      BY <1>4 DEF StartMove, Start
    <2>4. Types'
      BY <1>4, <2>1, <2>2, Consts DEF StartMove, Start, Moves, TypeInv, Types,
         TypeOK
    <2>5. CallShape'
      BY <1>4, <2>1, <2>2, <2>3, <2>4, Consts DEF Moves, TypeInv, Types,
         TypeOK, CallShape, NamesOwn, HandleHeld, FreshUnknown, Closing,
         Moving, StartMove, Start, At, Pending
    <2>6. FreshUnknown'
      BY <1>4, <2>1, <2>2, <2>3, <2>4, Consts DEF Moves, TypeInv, Types,
         TypeOK, FreshUnknown, NamesOwn, CallShape, Closing, Moving,
         StartMove, Start, At, Pending
    <2>7. NamesOwn'
      BY <1>4, <2>1, <2>2, <2>3, <2>4, Consts DEF Moves, TypeInv, Types,
         TypeOK, NamesOwn, FreshUnknown, Closing, Moving, StartMove, Start,
         At, Pending
    <2>8. OneCall'
      BY <1>4, <2>1, <2>2, <2>3, <2>4, Consts DEF Moves, TypeInv, Types,
         TypeOK, OneCall, Resting, FreshUnknown, CallShape, Closing, Moving,
         StartMove, Start, At, Pending
    <2>9. HandleHeld'
      BY <1>4, <2>1, <2>2, <2>3, <2>4, Consts DEF Moves, TypeInv, Types,
         TypeOK, HandleHeld, CallShape, OneCall, Resting, FreshUnknown,
         Closing, Moving, StartMove, Start, At, Pending
    <2>10. Resting'
      BY <1>4, <2>1, <2>2, <2>3, <2>4, Consts DEF Moves, TypeInv, Types,
         TypeOK, Resting, CallShape, NamesOwn, OneCall, HandleHeld, Exclusive,
         FreshUnknown, Closing, Moving, StartMove, Start, At, Pending
    <2>11. Exclusive'
      BY <1>4, <2>1, <2>2, <2>3, <2>4, Consts DEF Moves, TypeInv, Types,
         TypeOK, Exclusive, CallShape, Closing, Moving, StartMove, Start, At,
         Pending
    <2>12. RecordCount'
      BY <1>4, <2>1, <2>2, <2>3, <2>4, RecordCountStep, OpenFiles DEF TypeInv,
         RecordCount, TablesOnly, Moving
    <2>13. GCShape'
      BY <1>4, <2>1, <2>2, <2>3, <2>4, Consts DEF Moves, TypeInv, Types,
         TypeOK, GCShape, FreshUnknown, Closing, Moving, StartMove, Start, At,
         Pending
    <2>14. TablesOnly'
      BY <1>4, <2>1, <2>2, <2>3, <2>4, Consts DEF Moves, TypeInv, Types,
         TypeOK, TablesOnly, CallShape, Resting, FreshUnknown, NamesOwn,
         Exclusive, GCShape, Closing, Moving, StartMove, Start, At, Pending
    <2> QED BY <2>4, <2>5, <2>6, <2>7, <2>8, <2>9, <2>10, <2>11, <2>12, <2>13,
       <2>14 DEF TypeInv
  <1>5. ASSUME NEW i \in FileId, StartClose(t, i)
       PROVE  TypeInv'
    <2>1. /\ call[t].at = "idle" /\ i \in handle /\ name[i] \in Name
          /\ \A s \in Thread : call[s].file # i
      BY <1>5 DEF StartClose, TypeInv, HandleHeld
    <2>2. Moves(t, "flush", name[i], i)
      BY <1>5, <2>1 DEF StartClose, Moves, TypeInv, Types, CallSet, Places,
         Closing
    <2>3. UNCHANGED <<files, name, next_file_id, handle, wr, records, is_recorded, levelled, gc>>
      BY <1>5 DEF StartClose
    <2>4. Types'
      BY <1>5, <2>1, <2>2, Consts DEF StartClose, Moves, TypeInv, Types,
         TypeOK
    <2>5. CallShape'
      BY <2>1, <2>2, <2>3, <2>4, Consts DEF Moves, TypeInv, Types, TypeOK,
         CallShape, NamesOwn, HandleHeld, FreshUnknown, Closing, Moving
    <2>6. FreshUnknown'
      BY <2>1, <2>2, <2>3, <2>4, Consts DEF Moves, TypeInv, Types, TypeOK,
         FreshUnknown, NamesOwn, CallShape, Closing, Moving
    <2>7. NamesOwn'
      BY <2>1, <2>2, <2>3, <2>4, Consts DEF Moves, TypeInv, Types, TypeOK,
         NamesOwn, FreshUnknown, Closing, Moving
    <2>8. OneCall'
      BY <2>1, <2>2, <2>3, <2>4, Consts DEF Moves, TypeInv, Types, TypeOK,
         OneCall, Resting, FreshUnknown, CallShape, Closing, Moving
    <2>9. HandleHeld'
      BY <2>1, <2>2, <2>3, <2>4, Consts DEF Moves, TypeInv, Types, TypeOK,
         HandleHeld, CallShape, OneCall, Resting, FreshUnknown, Closing,
         Moving
    <2>10. Resting'
      BY <2>1, <2>2, <2>3, <2>4, Consts DEF Moves, TypeInv, Types, TypeOK,
         Resting, CallShape, NamesOwn, OneCall, HandleHeld, Exclusive,
         FreshUnknown, Closing, Moving
    <2>11. Exclusive'
      BY <2>1, <2>2, <2>3, <2>4, Consts DEF Moves, TypeInv, Types, TypeOK,
         Exclusive, CallShape, Closing, Moving
    <2>12. RecordCount'
      BY <2>1, <2>2, <2>3, <2>4, RecordCountStep, OpenFiles DEF TypeInv, RecordCount,
         TablesOnly, Moving
    <2>13. GCShape'
      BY <2>1, <2>2, <2>3, <2>4, Consts DEF Moves, TypeInv, Types, TypeOK,
         GCShape, FreshUnknown, Closing, Moving
    <2>14. TablesOnly'
      BY <2>1, <2>2, <2>3, <2>4, Consts DEF Moves, TypeInv, Types, TypeOK,
         TablesOnly, CallShape, Resting, FreshUnknown, NamesOwn, Exclusive,
         GCShape, Closing, Moving
    <2> QED BY <2>4, <2>5, <2>6, <2>7, <2>8, <2>9, <2>10, <2>11, <2>12, <2>13,
       <2>14 DEF TypeInv
  <1>6. CASE DeleteFile(t)
    <2>1. call[t].name \in Name /\ Moves(t, "idle", None, None)
      BY <1>6, DeleteEffect
    <2>2. /\ files' \in [Name -> FileId \union {None}]
          /\ records' \in [FileId -> 0..2]
          /\ raced' \subseteq FileId
          /\ \A m \in Name : files'[m] = files[m] \/ (m = call[t].name /\ files'[m] = None)
          /\ \A i \in FileId : records'[i] = 0 \/ records'[i] = records[i]
      <3>1. CASE UNCHANGED <<files, records, raced>>
        BY <3>1 DEF TypeInv, Types, TypeOK
      <3>2. CASE /\ files[call[t].name] \in FileId
                 /\ files' = [files EXCEPT ![call[t].name] = None]
                 /\ Forgets({files[call[t].name]})
        BY <2>1, <3>2 DEF Forgets, TypeInv, Types, TypeOK
      <3> QED BY <1>6, <3>1, <3>2, DeleteEffect
    <2>3. UNCHANGED <<name, next_file_id, handle, wr, is_recorded, levelled, gc>>
      BY <1>6 DEF DeleteFile
    <2>4. call[t].at = "delete"
      BY <1>6 DEF DeleteFile
    <2>5. Types'
      BY <1>6, <2>1, <2>2 DEF DeleteFile, Moves, TypeInv, Types, TypeOK
    <2>6. CallShape'
      BY <2>1, <2>2, <2>3, <2>4, <2>5, Consts DEF Moves, TypeInv, Types,
         TypeOK, CallShape, NamesOwn, HandleHeld, FreshUnknown, Closing,
         Moving
    <2>7. FreshUnknown'
      BY <2>1, <2>2, <2>3, <2>4, <2>5, Consts DEF Moves, TypeInv, Types,
         TypeOK, FreshUnknown, NamesOwn, CallShape, Closing, Moving
    <2>8. NamesOwn'
      BY <2>1, <2>2, <2>3, <2>4, <2>5, Consts DEF Moves, TypeInv, Types,
         TypeOK, NamesOwn, FreshUnknown, Closing, Moving
    <2>9. OneCall'
      BY <2>1, <2>2, <2>3, <2>4, <2>5, Consts DEF Moves, TypeInv, Types,
         TypeOK, OneCall, Resting, FreshUnknown, CallShape, Closing, Moving
    <2>10. HandleHeld'
      BY <2>1, <2>2, <2>3, <2>4, <2>5, Consts DEF Moves, TypeInv, Types,
         TypeOK, HandleHeld, CallShape, OneCall, Resting, FreshUnknown,
         Closing, Moving
    <2>11. Resting'
      BY <2>1, <2>2, <2>3, <2>4, <2>5, Consts DEF Moves, TypeInv, Types,
         TypeOK, Resting, CallShape, NamesOwn, OneCall, HandleHeld, Exclusive,
         FreshUnknown, Closing, Moving
    <2>12. Exclusive'
      BY <2>1, <2>2, <2>3, <2>4, <2>5, Consts DEF Moves, TypeInv, Types,
         TypeOK, Exclusive, CallShape, Closing, Moving
    <2>13. RecordCount'
      BY <2>1, <2>2, <2>3, RecordCountStep, OpenFiles DEF TypeInv, RecordCount
    <2>14. GCShape'
      BY <2>1, <2>2, <2>3, <2>4, <2>5, Consts DEF Moves, TypeInv, Types,
         TypeOK, GCShape, FreshUnknown, Closing, Moving
    <2>15. TablesOnly'
      BY <2>1, <2>2, <2>3, <2>4, <2>5, Consts DEF Moves, TypeInv, Types,
         TypeOK, TablesOnly, CallShape, Resting, FreshUnknown, NamesOwn,
         Exclusive, GCShape, Closing, Moving
    <2> QED BY <2>5, <2>6, <2>7, <2>8, <2>9, <2>10, <2>11, <2>12, <2>13,
       <2>14, <2>15 DEF TypeInv
  <1>7. CASE CreateFile(t)
    <2>1. call[t].name \in Name /\ next_file_id \in FileId /\ call[t].at = "create"
      BY <1>7, CreateEffect DEF CreateFile
    <2>2. UNCHANGED <<handle, is_recorded, levelled, gc>>
      BY <1>7 DEF CreateFile
    <2>3. CASE CreateFails(t)
      <3>1. Types'
        BY <1>7, <2>3 DEF CreateFile, CreateFails, Moves, TypeInv, Types, TypeOK
      <3>2. CallShape'
        BY <2>1, <2>2, <2>3, <3>1, Consts DEF CreateFails, Moves, TypeInv,
           Types, TypeOK, CallShape, NamesOwn, HandleHeld, FreshUnknown,
           Closing, Moving
      <3>3. FreshUnknown'
        BY <2>1, <2>2, <2>3, <3>1, Consts DEF CreateFails, Moves, TypeInv,
           Types, TypeOK, FreshUnknown, NamesOwn, CallShape, Closing, Moving
      <3>4. NamesOwn'
        BY <2>3 DEF CreateFails, TypeInv, NamesOwn
      <3>5. OneCall'
        BY <2>1, <2>2, <2>3, <3>1, Consts DEF CreateFails, Moves, TypeInv,
           Types, TypeOK, OneCall, Resting, FreshUnknown, CallShape, Closing,
           Moving
      <3>6. HandleHeld'
        BY <2>1, <2>2, <2>3, <3>1, Consts DEF CreateFails, Moves, TypeInv,
           Types, TypeOK, HandleHeld, CallShape, OneCall, Resting,
           FreshUnknown, Closing, Moving
      <3>7. Resting'
        BY <2>1, <2>2, <2>3, <3>1, Consts DEF CreateFails, Moves, TypeInv,
           Types, TypeOK, Resting, CallShape, NamesOwn, OneCall, HandleHeld,
           Exclusive, FreshUnknown, Closing, Moving
      <3>8. Exclusive'
        BY <2>1, <2>2, <2>3, <3>1, Consts DEF CreateFails, Moves, TypeInv,
           Types, TypeOK, Exclusive, CallShape, Closing, Moving
      <3>9. RecordCount'
        BY <2>1, <2>2, <2>3, RecordCountStep, OpenFiles DEF CreateFails, TypeInv,
           RecordCount
      <3>10. GCShape'
        BY <2>1, <2>2, <2>3, <3>1, Consts DEF CreateFails, Moves, TypeInv,
           Types, TypeOK, GCShape, FreshUnknown, Closing, Moving
      <3>11. TablesOnly'
        BY <2>1, <2>2, <2>3, <3>1, Consts DEF CreateFails, Moves, TypeInv,
           Types, TypeOK, TablesOnly, CallShape, Resting, FreshUnknown,
           NamesOwn, Exclusive, GCShape, Closing, Moving
      <3> QED BY <3>1, <3>2, <3>3, <3>4, <3>5, <3>6, <3>7, <3>8, <3>9, <3>10,
         <3>11 DEF TypeInv
    <2>4. CASE CreateLost(t, call[t].name)
      <3>a. /\ files' \in [Name -> FileId \union {None}]
            /\ records' \in [FileId -> 0..2]
            /\ raced' \subseteq FileId
            /\ \A m \in Name : files'[m] = files[m] \/ (m = call[t].name /\ files'[m] = None)
            /\ \A i \in FileId : records'[i] = 0 \/ records'[i] = records[i]
            /\ UNCHANGED <<name, wr>>
            /\ Moves(t, "idle", None, None)
        <4>1. Forgets({files[call[t].name]} \ {None}) /\ Moves(t, "idle", None, None)
          BY <2>4 DEF CreateLost
        <4>2. /\ records' \in [FileId -> 0..2] /\ raced' \subseteq FileId
              /\ \A i \in FileId : records'[i] = 0 \/ records'[i] = records[i]
          BY <2>1, <4>1 DEF Forgets, TypeInv, Types, TypeOK
        <4> QED BY <2>1, <2>4, <4>1, <4>2 DEF CreateLost, TypeInv, Types, TypeOK
      <3>b. /\ next_file_id' \in 1..(MaxFiles + 1)
            /\ \A i \in FileId : i >= next_file_id' => i >= next_file_id /\ i # next_file_id
            /\ \A i \in FileId : i < next_file_id => i < next_file_id' /\ i # next_file_id
        BY <2>1, <2>4, Consts DEF CreateLost, FileId
      <3>1. Types'
        BY <1>7, <3>a, <3>b DEF CreateFile, CreateLost, Moves, TypeInv, Types, TypeOK
      <3>2. CallShape'
        BY <2>1, <2>2, <3>a, <3>b, <3>1, Consts DEF Moves, TypeInv, Types,
           TypeOK, CallShape, NamesOwn, HandleHeld, FreshUnknown, Closing,
           Moving
      <3>3. FreshUnknown'
        BY <2>1, <2>2, <3>a, <3>b, <3>1, Consts DEF Moves, TypeInv, Types,
           TypeOK, FreshUnknown, NamesOwn, CallShape, Closing, Moving
      <3>4. NamesOwn'
        <4>1. ASSUME NEW m \in Name, files'[m] # None
              PROVE  name'[files'[m]] = m /\ files'[m] < next_file_id'
          <5>1. files'[m] = files[m] /\ files[m] \in FileId
            BY <3>a, <4>1 DEF TypeInv, Types, TypeOK
          <5>2. name[files[m]] = m /\ files[m] < next_file_id
            BY <4>1, <5>1 DEF TypeInv, NamesOwn
          <5> QED BY <3>a, <3>b, <5>1, <5>2
        <4> QED BY <4>1 DEF NamesOwn
      <3>5. OneCall'
        BY <2>1, <2>2, <3>a, <3>b, <3>1, Consts DEF Moves, TypeInv, Types,
           TypeOK, OneCall, Resting, FreshUnknown, CallShape, Closing, Moving
      <3>6. HandleHeld'
        BY <2>1, <2>2, <3>a, <3>b, <3>1, Consts DEF Moves, TypeInv, Types,
           TypeOK, HandleHeld, CallShape, OneCall, Resting, FreshUnknown,
           Closing, Moving
      <3>7. Resting'
        BY <2>1, <2>2, <3>a, <3>b, <3>1, Consts DEF Moves, TypeInv, Types,
           TypeOK, Resting, CallShape, NamesOwn, OneCall, HandleHeld,
           Exclusive, FreshUnknown, Closing, Moving
      <3>8. Exclusive'
        BY <2>1, <2>2, <3>a, <3>b, <3>1, Consts DEF Moves, TypeInv, Types,
           TypeOK, Exclusive, CallShape, Closing, Moving
      <3>9. RecordCount'
        BY <2>1, <2>2, <3>a, <3>b, RecordCountStep, OpenFiles DEF TypeInv, RecordCount
      <3>10. GCShape'
        BY <2>1, <2>2, <3>a, <3>b, <3>1, Consts DEF Moves, TypeInv, Types,
           TypeOK, GCShape, FreshUnknown, Closing, Moving
      <3>11. TablesOnly'
        BY <2>1, <2>2, <3>a, <3>b, <3>1, Consts DEF Moves, TypeInv, Types,
           TypeOK, TablesOnly, CallShape, Resting, FreshUnknown, NamesOwn,
           Exclusive, GCShape, Closing, Moving
      <3> QED BY <3>1, <3>2, <3>3, <3>4, <3>5, <3>6, <3>7, <3>8, <3>9, <3>10,
         <3>11 DEF TypeInv
    <2>5. CASE Creates(t, call[t].name, next_file_id)
      <3>a. /\ files' \in [Name -> FileId \union {None}]
            /\ records' \in [FileId -> 0..2]
            /\ raced' \subseteq FileId
            /\ files'[call[t].name] = next_file_id
            /\ \A m \in Name \ {call[t].name} : files'[m] = files[m]
            /\ \A i \in FileId : records'[i] = 0 \/ records'[i] = records[i]
            /\ \A i \in FileId \ {next_file_id} : name'[i] = name[i] /\ wr'[i] = wr[i]
            /\ name'[next_file_id] = call[t].name /\ wr'[next_file_id] = "handle"
            /\ Moves(t, "buffer", call[t].name, next_file_id)
        BY <2>1, <2>5 DEF Creates, Forgets, TypeInv, Types, TypeOK
      <3>b. /\ next_file_id' \in 1..(MaxFiles + 1)
            /\ \A i \in FileId : i >= next_file_id' => i >= next_file_id /\ i # next_file_id
            /\ \A i \in FileId : i < next_file_id => i < next_file_id' /\ i # next_file_id
            /\ next_file_id < next_file_id' /\ next_file_id >= next_file_id
        BY <2>1, <2>5, Consts DEF Creates, FileId
      <3>1. Types'
        BY <1>7, <2>1, <2>5, <3>a, <3>b DEF CreateFile, Creates, Moves, TypeInv, Types, TypeOK
      <3>2. CallShape'
        <4>1. ASSUME NEW s \in Thread, s # t, call[s].file # None
              PROVE  call[s].file \in FileId \ {next_file_id}
          BY <2>1, <3>b, <4>1 DEF TypeInv, Types, CallSet, FreshUnknown
        <4> QED BY <2>1, <3>a, <3>1, <4>1, Consts
                DEF Moves, TypeInv, CallShape, Closing, Moving
      <3>3. FreshUnknown'
        BY <2>1, <2>2, <3>a, <3>b, <3>1, Consts DEF Moves, TypeInv, Types,
           TypeOK, FreshUnknown, NamesOwn, CallShape, Closing, Moving
      <3>4. NamesOwn'
        <4>1. ASSUME NEW m \in Name, files'[m] # None, m # call[t].name
              PROVE  name'[files'[m]] = m /\ files'[m] < next_file_id'
          <5>1. files'[m] = files[m] /\ files[m] \in FileId
            BY <3>a, <4>1 DEF TypeInv, Types, TypeOK
          <5>2. name[files[m]] = m /\ files[m] < next_file_id
            BY <4>1, <5>1 DEF TypeInv, NamesOwn
          <5> QED BY <3>a, <3>b, <5>1, <5>2
        <4> QED BY <2>1, <3>a, <3>b, <4>1 DEF NamesOwn
      <3>5. OneCall'
        BY <2>1, <2>2, <3>a, <3>b, <3>1, Consts DEF Moves, TypeInv, Types,
           TypeOK, OneCall, Resting, FreshUnknown, CallShape, Closing, Moving
      <3>6. HandleHeld'
        BY <2>1, <2>2, <3>a, <3>b, <3>1, Consts DEF Moves, TypeInv, Types,
           TypeOK, HandleHeld, CallShape, OneCall, Resting, FreshUnknown,
           Closing, Moving
      <3>7. Resting'
        BY <2>1, <2>2, <3>a, <3>b, <3>1, Consts DEF Moves, TypeInv, Types,
           TypeOK, Resting, CallShape, NamesOwn, OneCall, HandleHeld,
           Exclusive, FreshUnknown, Closing, Moving
      <3>8. Exclusive'
        BY <2>1, <2>2, <3>a, <3>b, <3>1, Consts DEF Moves, TypeInv, Types,
           TypeOK, Exclusive, CallShape, Closing, Moving
      <3>9. RecordCount'
        <4>1. records[next_file_id] = 0
          BY <2>1, <3>b DEF TypeInv, FreshUnknown
        <4> QED BY <2>1, <2>2, <3>a, <3>b, <4>1, RecordCountStep, OpenFiles
                DEF TypeInv, RecordCount
      <3>10. GCShape'
        BY <2>1, <2>2, <3>a, <3>b, <3>1, Consts DEF Moves, TypeInv, Types,
           TypeOK, GCShape, FreshUnknown, Closing, Moving
      <3>11. TablesOnly'
        BY <2>1, <2>2, <3>a, <3>b, <3>1, Consts DEF Moves, TypeInv, Types,
           TypeOK, TablesOnly, CallShape, Resting, FreshUnknown, NamesOwn,
           Exclusive, GCShape, Closing, Moving
      <3> QED BY <3>1, <3>2, <3>3, <3>4, <3>5, <3>6, <3>7, <3>8, <3>9, <3>10,
         <3>11 DEF TypeInv
    <2> QED BY <1>7, <2>3, <2>4, <2>5, CreateEffect
  <1>8. CASE ReopenFile(t)
    <2>1. call[t].name \in Name /\ files[call[t].name] \in FileId \union {None} /\ call[t].at = "reopen"
      BY <1>8, CallHas DEF ReopenFile, Closing, Moving, TypeInv, Types, TypeOK
    <2>2. \/ files[call[t].name] = None /\ Moves(t, "create", call[t].name, None)
          \/ /\ files[call[t].name] # None
             /\ Moves(t, "wrlock", call[t].name, files[call[t].name])
      <3>1. CASE files[call[t].name] = None
        <4>1. call[t].file = None /\ Goto(t, "create")
          BY <1>8, <2>1, <3>1 DEF ReopenFile, TypeInv, CallShape, Closing, Moving
        <4> QED BY <3>1, <4>1, GotoMoves DEF Places
      <3>2. CASE files[call[t].name] # None
        BY <1>8, <2>1, <3>2, FindsMoves DEF ReopenFile, Places
      <3> QED BY <3>1, <3>2
    <2>3. files_mtx' \in Thread \union {None}
      BY <1>8, <2>1 DEF ReopenFile, TypeInv, Types, TypeOK
    <2>4. UNCHANGED <<files, name, next_file_id, handle, wr, records, is_recorded, levelled, gc>>
      BY <1>8 DEF ReopenFile
    <2>5. Types'
      BY <1>8, <2>1, <2>2, <2>3, Consts DEF ReopenFile, Moves, TypeInv, Types,
         TypeOK
    <2>6. CallShape'
      BY <2>1, <2>2, <2>3, <2>4, <2>5, Consts DEF Moves, TypeInv, Types,
         TypeOK, CallShape, NamesOwn, HandleHeld, FreshUnknown, Closing,
         Moving
    <2>7. FreshUnknown'
      BY <2>1, <2>2, <2>3, <2>4, <2>5, Consts DEF Moves, TypeInv, Types,
         TypeOK, FreshUnknown, NamesOwn, CallShape, Closing, Moving
    <2>8. NamesOwn'
      BY <2>1, <2>2, <2>3, <2>4, <2>5, Consts DEF Moves, TypeInv, Types,
         TypeOK, NamesOwn, FreshUnknown, Closing, Moving
    <2>9. OneCall'
      BY <2>1, <2>2, <2>3, <2>4, <2>5, Consts DEF Moves, TypeInv, Types,
         TypeOK, OneCall, Resting, FreshUnknown, CallShape, Closing, Moving
    <2>10. HandleHeld'
      BY <2>1, <2>2, <2>3, <2>4, <2>5, Consts DEF Moves, TypeInv, Types,
         TypeOK, HandleHeld, CallShape, OneCall, Resting, FreshUnknown,
         Closing, Moving
    <2>11. Resting'
      BY <2>1, <2>2, <2>3, <2>4, <2>5, Consts DEF Moves, TypeInv, Types,
         TypeOK, Resting, CallShape, NamesOwn, OneCall, HandleHeld, Exclusive,
         FreshUnknown, Closing, Moving
    <2>12. Exclusive'
      BY <2>1, <2>2, <2>3, <2>4, <2>5, Consts DEF Moves, TypeInv, Types,
         TypeOK, Exclusive, CallShape, Closing, Moving
    <2>13. RecordCount'
      BY <2>1, <2>2, <2>3, <2>4, <2>5, RecordCountStep, OpenFiles DEF TypeInv,
         RecordCount, TablesOnly, Moving
    <2>14. GCShape'
      BY <2>1, <2>2, <2>3, <2>4, <2>5, Consts DEF Moves, TypeInv, Types,
         TypeOK, GCShape, FreshUnknown, Closing, Moving
    <2>15. TablesOnly'
      BY <2>1, <2>2, <2>3, <2>4, <2>5, Consts DEF Moves, TypeInv, Types,
         TypeOK, TablesOnly, CallShape, Resting, FreshUnknown, NamesOwn,
         Exclusive, GCShape, Closing, Moving
    <2> QED BY <2>5, <2>6, <2>7, <2>8, <2>9, <2>10, <2>11, <2>12, <2>13,
       <2>14, <2>15 DEF TypeInv
  <1>9. CASE AcquireWRLock(t)
    <2>1. /\ call[t].file \in FileId /\ call[t].name \in Name
          /\ name[call[t].file] = call[t].name
          /\ call[t].at = "wrlock"
      BY <1>9, CallHas DEF AcquireWRLock, Closing, Moving
    <2>2. Moves(t, "buffer", call[t].name, call[t].file)
      BY <1>9, <2>1, GotoMoves DEF AcquireWRLock, Places, Closing, Moving
    <2>3. wr' \in [FileId -> {None, "handle", "gc"}]
      BY <1>9, <2>1 DEF AcquireWRLock, TypeInv, Types, TypeOK
    <2>4. \A i \in FileId \ {call[t].file} : wr'[i] = wr[i]
      BY <1>9, <2>1, <2>3 DEF AcquireWRLock, TypeInv, Types, TypeOK
    <2>5. UNCHANGED <<files, name, next_file_id, handle, records, is_recorded, levelled, gc>>
      BY <1>9 DEF AcquireWRLock
    <2>6. Types'
      BY <1>9, <2>1, <2>2, <2>3, <2>4, Consts DEF AcquireWRLock, Moves,
         TypeInv, Types, TypeOK
    <2>7. CallShape'
      BY <2>1, <2>2, <2>3, <2>4, <2>5, <2>6, Consts DEF Moves, TypeInv, Types,
         TypeOK, CallShape, NamesOwn, HandleHeld, FreshUnknown, Closing,
         Moving
    <2>8. FreshUnknown'
      BY <2>1, <2>2, <2>3, <2>4, <2>5, <2>6, Consts DEF Moves, TypeInv, Types,
         TypeOK, FreshUnknown, NamesOwn, CallShape, Closing, Moving
    <2>9. NamesOwn'
      BY <2>1, <2>2, <2>3, <2>4, <2>5, <2>6, Consts DEF Moves, TypeInv, Types,
         TypeOK, NamesOwn, FreshUnknown, Closing, Moving
    <2>10. OneCall'
      BY <2>1, <2>2, <2>3, <2>4, <2>5, <2>6, Consts DEF Moves, TypeInv, Types,
         TypeOK, OneCall, Resting, FreshUnknown, CallShape, Closing, Moving
    <2>11. HandleHeld'
      BY <2>1, <2>2, <2>3, <2>4, <2>5, <2>6, Consts DEF Moves, TypeInv, Types,
         TypeOK, HandleHeld, CallShape, OneCall, Resting, FreshUnknown,
         Closing, Moving
    <2>12. Resting'
      BY <2>1, <2>2, <2>3, <2>4, <2>5, <2>6, Consts DEF Moves, TypeInv, Types,
         TypeOK, Resting, CallShape, NamesOwn, OneCall, HandleHeld, Exclusive,
         FreshUnknown, Closing, Moving
    <2>13. Exclusive'
      BY <2>1, <2>2, <2>3, <2>4, <2>5, <2>6, Consts DEF Moves, TypeInv, Types,
         TypeOK, Exclusive, CallShape, Closing, Moving
    <2>14. RecordCount'
      <3>1. records[call[t].file] = 0
        BY <2>1 DEF TypeInv, CallShape, TablesOnly
      <3> QED BY <2>1, <2>2, <2>3, <2>4, <2>5, <2>6, <3>1, RecordCountStep, OpenFiles DEF TypeInv,
              RecordCount
    <2>15. GCShape'
      BY <2>1, <2>2, <2>3, <2>4, <2>5, <2>6, Consts DEF Moves, TypeInv, Types,
         TypeOK, GCShape, FreshUnknown, Closing, Moving
    <2>16. TablesOnly'
      BY <2>1, <2>2, <2>3, <2>4, <2>5, <2>6, Consts DEF Moves, TypeInv, Types,
         TypeOK, TablesOnly, CallShape, Resting, FreshUnknown, NamesOwn,
         Exclusive, GCShape, Closing, Moving
    <2> QED BY <2>6, <2>7, <2>8, <2>9, <2>10, <2>11, <2>12, <2>13, <2>14,
       <2>15, <2>16 DEF TypeInv
  <1>10. CASE ZonedWritableFile(t)
    <2>1. /\ call[t].file \in FileId /\ call[t].name \in Name
          /\ name[call[t].file] = call[t].name
          /\ call[t].at = "buffer"
      BY <1>10, CallHas DEF ZonedWritableFile, Closing, Moving
    <2>2. Moves(t, "idle", None, None)
      BY <1>10, <2>1, ReturnMoves DEF ZonedWritableFile, Places, Closing,
         Moving
    <2>3. curr_buffer_count' \in 0..MaxBuffers
      BY <1>10, <2>1, Consts DEF ZonedWritableFile, TypeInv, Types, TypeOK
    <2>4. handle' = handle \union {call[t].file}
      BY <1>10, <2>1, <2>3 DEF ZonedWritableFile, TypeInv, Types, TypeOK
    <2>5. UNCHANGED <<files, name, next_file_id, wr, records, is_recorded, levelled, gc>>
      BY <1>10 DEF ZonedWritableFile
    <2>6. Types'
      BY <1>10, <2>1, <2>2, <2>3, <2>4, Consts DEF ZonedWritableFile, Moves,
         TypeInv, Types, TypeOK
    <2>7. CallShape'
      BY <2>1, <2>2, <2>3, <2>4, <2>5, <2>6, Consts DEF Moves, TypeInv, Types,
         TypeOK, CallShape, NamesOwn, HandleHeld, FreshUnknown, Closing,
         Moving
    <2>8. FreshUnknown'
      BY <2>1, <2>2, <2>3, <2>4, <2>5, <2>6, Consts DEF Moves, TypeInv, Types,
         TypeOK, FreshUnknown, NamesOwn, CallShape, Closing, Moving
    <2>9. NamesOwn'
      BY <2>1, <2>2, <2>3, <2>4, <2>5, <2>6, Consts DEF Moves, TypeInv, Types,
         TypeOK, NamesOwn, FreshUnknown, Closing, Moving
    <2>10. OneCall'
      BY <2>1, <2>2, <2>3, <2>4, <2>5, <2>6, Consts DEF Moves, TypeInv, Types,
         TypeOK, OneCall, Resting, FreshUnknown, CallShape, Closing, Moving
    <2>11. HandleHeld'
      BY <2>1, <2>2, <2>3, <2>4, <2>5, <2>6, Consts DEF Moves, TypeInv, Types,
         TypeOK, HandleHeld, CallShape, OneCall, Resting, FreshUnknown,
         Closing, Moving
    <2>12. Resting'
      BY <2>1, <2>2, <2>3, <2>4, <2>5, <2>6, Consts DEF Moves, TypeInv, Types,
         TypeOK, Resting, CallShape, NamesOwn, OneCall, HandleHeld, Exclusive,
         FreshUnknown, Closing, Moving
    <2>13. Exclusive'
      BY <2>1, <2>2, <2>3, <2>4, <2>5, <2>6, Consts DEF Moves, TypeInv, Types,
         TypeOK, Exclusive, CallShape, Closing, Moving
    <2>14. RecordCount'
      BY <2>1, <2>2, <2>3, <2>4, <2>5, <2>6, RecordCountStep, OpenFiles DEF TypeInv,
         RecordCount, TablesOnly, Moving
    <2>15. GCShape'
      BY <2>1, <2>2, <2>3, <2>4, <2>5, <2>6, Consts DEF Moves, TypeInv, Types,
         TypeOK, GCShape, FreshUnknown, Closing, Moving
    <2>16. TablesOnly'
      BY <2>1, <2>2, <2>3, <2>4, <2>5, <2>6, Consts DEF Moves, TypeInv, Types,
         TypeOK, TablesOnly, CallShape, Resting, FreshUnknown, NamesOwn,
         Exclusive, GCShape, Closing, Moving
    <2> QED BY <2>6, <2>7, <2>8, <2>9, <2>10, <2>11, <2>12, <2>13, <2>14,
       <2>15, <2>16 DEF TypeInv
  <1>11. CASE FlushBuffer(t)
    <2>1. /\ call[t].file \in FileId /\ call[t].name \in Name
          /\ name[call[t].file] = call[t].name
          /\ call[t].at = "flush"
      BY <1>11, CallHas DEF FlushBuffer, Closing, Moving
    <2>2. Moves(t, "datasync", call[t].name, call[t].file)
      BY <1>11, <2>1, GotoMoves DEF FlushBuffer, Places, Closing, Moving
    <2>3. records' \in [FileId -> 0..2]
      BY <1>11, <2>1 DEF FlushBuffer, TypeInv, Types, TypeOK
    <2>4. \A i \in FileId : records'[i] \in {records[i], 1}
      BY <1>11, <2>1, <2>3 DEF FlushBuffer, TypeInv, Types, TypeOK
    <2>5. /\ \A i \in FileId \ {call[t].file} : records'[i] = records[i]
          /\ records' = records \/ call[t].name \in Sst
      BY <1>11, <2>1, <2>3, <2>4 DEF FlushBuffer, TypeInv, Types, TypeOK,
         Recordable, IsSst
    <2>6. UNCHANGED <<files, name, next_file_id, handle, wr, is_recorded, levelled, gc>>
      BY <1>11 DEF FlushBuffer
    <2>7. Types'
      BY <1>11, <2>1, <2>2, <2>3, <2>4, <2>5, Consts DEF FlushBuffer, Moves,
         TypeInv, Types, TypeOK
    <2>8. CallShape'
      BY <2>1, <2>2, <2>3, <2>4, <2>5, <2>6, <2>7, Consts DEF Moves, TypeInv,
         Types, TypeOK, CallShape, NamesOwn, HandleHeld, FreshUnknown,
         Closing, Moving
    <2>9. FreshUnknown'
      BY <2>1, <2>2, <2>3, <2>4, <2>5, <2>6, <2>7, Consts DEF Moves, TypeInv,
         Types, TypeOK, FreshUnknown, NamesOwn, CallShape, Closing, Moving
    <2>10. NamesOwn'
      BY <2>1, <2>2, <2>3, <2>4, <2>5, <2>6, <2>7, Consts DEF Moves, TypeInv,
         Types, TypeOK, NamesOwn, FreshUnknown, Closing, Moving
    <2>11. OneCall'
      BY <2>1, <2>2, <2>3, <2>4, <2>5, <2>6, <2>7, Consts DEF Moves, TypeInv,
         Types, TypeOK, OneCall, Resting, FreshUnknown, CallShape, Closing,
         Moving
    <2>12. HandleHeld'
      BY <2>1, <2>2, <2>3, <2>4, <2>5, <2>6, <2>7, Consts DEF Moves, TypeInv,
         Types, TypeOK, HandleHeld, CallShape, OneCall, Resting, FreshUnknown,
         Closing, Moving
    <2>13. Resting'
      BY <2>1, <2>2, <2>3, <2>4, <2>5, <2>6, <2>7, Consts DEF Moves, TypeInv,
         Types, TypeOK, Resting, CallShape, NamesOwn, OneCall, HandleHeld,
         Exclusive, FreshUnknown, Closing, Moving
    <2>14. Exclusive'
      BY <2>1, <2>2, <2>3, <2>4, <2>5, <2>6, <2>7, Consts DEF Moves, TypeInv,
         Types, TypeOK, Exclusive, CallShape, Closing, Moving
    <2>15. RecordCount'
      BY <2>1, <2>2, <2>3, <2>4, <2>5, <2>6, <2>7, RecordCountStep, OpenFiles DEF
         TypeInv, RecordCount, TablesOnly, Moving
    <2>16. GCShape'
      BY <2>1, <2>2, <2>3, <2>4, <2>5, <2>6, <2>7, Consts DEF Moves, TypeInv,
         Types, TypeOK, GCShape, FreshUnknown, Closing, Moving
    <2>17. TablesOnly'
      BY <2>1, <2>2, <2>3, <2>4, <2>5, <2>6, <2>7, Consts DEF Moves, TypeInv,
         Types, TypeOK, TablesOnly, CallShape, Resting, FreshUnknown, NamesOwn,
         Exclusive, GCShape, Closing, Moving
    <2> QED BY <2>7, <2>8, <2>9, <2>10, <2>11, <2>12, <2>13, <2>14, <2>15,
       <2>16, <2>17 DEF TypeInv
  <1>12. CASE DataSync(t)
    <2>1. /\ call[t].file \in FileId /\ call[t].name \in Name
          /\ name[call[t].file] = call[t].name
          /\ call[t].at = "datasync"
      BY <1>12, CallHas DEF DataSync, Closing, Moving
    <2>2. \/ Moves(t, "record", call[t].name, call[t].file)
          \/ Moves(t, "flush", call[t].name, call[t].file)
          \/ Moves(t, "destroy", call[t].name, call[t].file)
      BY <1>12, <2>1, GotoMoves, FailsMoves DEF DataSync, Places, Closing,
         Moving, Succeeds
    <2>3. abandoned' = abandoned \/ abandoned' = abandoned \union {call[t].file}
      BY <1>12, <2>1, FailsMoves DEF DataSync, Succeeds
    <2>4. UNCHANGED <<files, name, next_file_id, handle, wr, records, is_recorded, levelled, gc>>
      BY <1>12 DEF DataSync
    <2>5. Types'
      BY <1>12, <2>1, <2>2, <2>3, Consts DEF DataSync, Moves, TypeInv, Types,
         TypeOK
    <2>6. CallShape'
      BY <2>1, <2>2, <2>3, <2>4, <2>5, Consts DEF Moves, TypeInv, Types,
         TypeOK, CallShape, NamesOwn, HandleHeld, FreshUnknown, Closing,
         Moving
    <2>7. FreshUnknown'
      BY <2>1, <2>2, <2>3, <2>4, <2>5, Consts DEF Moves, TypeInv, Types,
         TypeOK, FreshUnknown, NamesOwn, CallShape, Closing, Moving
    <2>8. NamesOwn'
      BY <2>1, <2>2, <2>3, <2>4, <2>5, Consts DEF Moves, TypeInv, Types,
         TypeOK, NamesOwn, FreshUnknown, Closing, Moving
    <2>9. OneCall'
      BY <2>1, <2>2, <2>3, <2>4, <2>5, Consts DEF Moves, TypeInv, Types,
         TypeOK, OneCall, Resting, FreshUnknown, CallShape, Closing, Moving
    <2>10. HandleHeld'
      BY <2>1, <2>2, <2>3, <2>4, <2>5, Consts DEF Moves, TypeInv, Types,
         TypeOK, HandleHeld, CallShape, OneCall, Resting, FreshUnknown,
         Closing, Moving
    <2>11. Resting'
      BY <2>1, <2>2, <2>3, <2>4, <2>5, Consts DEF Moves, TypeInv, Types,
         TypeOK, Resting, CallShape, NamesOwn, OneCall, HandleHeld, Exclusive,
         FreshUnknown, Closing, Moving
    <2>12. Exclusive'
      BY <2>1, <2>2, <2>3, <2>4, <2>5, Consts DEF Moves, TypeInv, Types,
         TypeOK, Exclusive, CallShape, Closing, Moving
    <2>13. RecordCount'
      BY <2>1, <2>2, <2>3, <2>4, <2>5, RecordCountStep, OpenFiles DEF TypeInv,
         RecordCount, TablesOnly, Moving
    <2>14. GCShape'
      BY <2>1, <2>2, <2>3, <2>4, <2>5, Consts DEF Moves, TypeInv, Types,
         TypeOK, GCShape, FreshUnknown, Closing, Moving
    <2>15. TablesOnly'
      BY <2>1, <2>2, <2>3, <2>4, <2>5, Consts DEF Moves, TypeInv, Types,
         TypeOK, TablesOnly, CallShape, Resting, FreshUnknown, NamesOwn,
         Exclusive, GCShape, Closing, Moving
    <2> QED BY <2>5, <2>6, <2>7, <2>8, <2>9, <2>10, <2>11, <2>12, <2>13,
       <2>14, <2>15 DEF TypeInv
  <1>13. CASE RemoveOldRecord(t)
    <2>1. /\ call[t].file \in FileId /\ call[t].name \in Name
          /\ name[call[t].file] = call[t].name
          /\ call[t].at = "record"
      BY <1>13, CallHas DEF RemoveOldRecord, Closing, Moving
    <2>2. \/ /\ call[t].file \in levelled /\ call[t].name \in Sst
             /\ Moves(t, "add", call[t].name, call[t].file)
          \/ /\ call[t].file \notin levelled
             /\ Moves(t, "closewr", call[t].name, call[t].file)
      BY <1>13, <2>1, GotoMoves DEF RemoveOldRecord, Places, Closing, Moving,
         TypeInv, TablesOnly
    <2>3. /\ OtherRecords(call[t].file) \in 0..2 /\ OtherRecords(call[t].file) # 2
          /\ OtherRecords(call[t].file) \in {0, records[call[t].file]}
      BY <1>13, <2>1, RecordTypes
      DEF OtherRecords, TypeInv, RecordCount, HandleHeld, Closing
    <2>4. records' \in [FileId -> 0..2]
      BY <1>13, <2>1, <2>3 DEF RemoveOldRecord, RecordCount, TypeInv, Types,
         TypeOK
    <2>5. /\ \/ call[t].file \notin is_recorded
             \/ call[t].file \in levelled
             => records'[call[t].file] # 2
          /\ records'[call[t].file] \in {0, records[call[t].file]}
      BY <1>13, <2>1, <2>3, <2>4 DEF RemoveOldRecord, RecordCount, TypeInv,
         Types, TypeOK, HandleHeld, Closing
    <2>6. \A i \in FileId \ {call[t].file} : records'[i] = records[i]
      BY <1>13, <2>1, <2>3, <2>4, <2>5 DEF RemoveOldRecord, RecordCount,
         TypeInv, Types, TypeOK
    <2>7. UNCHANGED <<files, name, next_file_id, handle, wr, is_recorded, levelled, gc>>
      BY <1>13 DEF RemoveOldRecord
    <2>8. Types'
      BY <1>13, <2>1, <2>2, <2>3, <2>4, <2>5, <2>6, Consts DEF
         RemoveOldRecord, Moves, TypeInv, Types, TypeOK
    <2>9. CallShape'
      BY <2>1, <2>2, <2>3, <2>4, <2>5, <2>6, <2>7, <2>8, Consts DEF Moves,
         TypeInv, Types, TypeOK, CallShape, NamesOwn, HandleHeld,
         FreshUnknown, Closing, Moving
    <2>10. FreshUnknown'
      BY <2>1, <2>2, <2>3, <2>4, <2>5, <2>6, <2>7, <2>8, Consts DEF Moves,
         TypeInv, Types, TypeOK, FreshUnknown, NamesOwn, CallShape, Closing,
         Moving
    <2>11. NamesOwn'
      BY <2>1, <2>2, <2>3, <2>4, <2>5, <2>6, <2>7, <2>8, Consts DEF Moves,
         TypeInv, Types, TypeOK, NamesOwn, FreshUnknown, Closing, Moving
    <2>12. OneCall'
      BY <2>1, <2>2, <2>3, <2>4, <2>5, <2>6, <2>7, <2>8, Consts DEF Moves,
         TypeInv, Types, TypeOK, OneCall, Resting, FreshUnknown, CallShape,
         Closing, Moving
    <2>13. HandleHeld'
      BY <2>1, <2>2, <2>3, <2>4, <2>5, <2>6, <2>7, <2>8, Consts DEF Moves,
         TypeInv, Types, TypeOK, HandleHeld, CallShape, OneCall, Resting,
         FreshUnknown, Closing, Moving
    <2>14. Resting'
      BY <2>1, <2>2, <2>3, <2>4, <2>5, <2>6, <2>7, <2>8, Consts DEF Moves,
         TypeInv, Types, TypeOK, Resting, CallShape, NamesOwn, OneCall,
         HandleHeld, Exclusive, FreshUnknown, Closing, Moving
    <2>15. Exclusive'
      BY <2>1, <2>2, <2>3, <2>4, <2>5, <2>6, <2>7, <2>8, Consts DEF Moves,
         TypeInv, Types, TypeOK, Exclusive, CallShape, Closing, Moving
    <2>16. RecordCount'
      BY <2>1, <2>2, <2>3, <2>4, <2>5, <2>6, <2>7, <2>8, RecordCountStep, OpenFiles DEF
         TypeInv, RecordCount, TablesOnly, Moving
    <2>17. GCShape'
      BY <2>1, <2>2, <2>3, <2>4, <2>5, <2>6, <2>7, <2>8, Consts DEF Moves,
         TypeInv, Types, TypeOK, GCShape, FreshUnknown, Closing, Moving
    <2>18. TablesOnly'
      BY <2>1, <2>2, <2>3, <2>4, <2>5, <2>6, <2>7, <2>8, Consts DEF Moves,
         TypeInv, Types, TypeOK, TablesOnly, CallShape, Resting, FreshUnknown,
         NamesOwn, Exclusive, GCShape, Closing, Moving
    <2> QED BY <2>8, <2>9, <2>10, <2>11, <2>12, <2>13, <2>14, <2>15, <2>16,
       <2>17, <2>18 DEF TypeInv
  <1>14. CASE AddRecord(t)
    <2>1. /\ call[t].file \in FileId /\ call[t].name \in Name
          /\ name[call[t].file] = call[t].name
          /\ call[t].at = "add"
      BY <1>14, CallHas DEF AddRecord, Closing, Moving
    <2>2. Moves(t, "closewr", call[t].name, call[t].file)
      BY <1>14, <2>1, GotoMoves DEF AddRecord, Places, Closing, Moving
    <2>3. records[call[t].file] # 2
      BY <1>14, <2>1 DEF TypeInv, RecordCount
    <2>4. records[call[t].file] \in 0..1
      BY <1>14, <2>1, RecordTypes, <2>3
    <2>5. records' \in [FileId -> 0..2]
      BY <1>14, <2>1, <2>3, AddedEffect DEF AddRecord
    <2>6. /\ \A i \in FileId \ {call[t].file} : records'[i] = records[i]
          /\ call[t].name \in Sst
      BY <1>14, <2>1, <2>3, AddedEffect DEF AddRecord, TypeInv, CallShape
    <2>7. is_recorded' = is_recorded \union {call[t].file}
      BY <1>14, <2>1, <2>3, <2>4, <2>5, <2>6 DEF AddRecord, RecordCount,
         TypeInv, Types, TypeOK
    <2>8. UNCHANGED <<files, name, next_file_id, handle, wr, levelled, gc>>
      BY <1>14 DEF AddRecord
    <2>9. Types'
      BY <1>14, <2>1, <2>2, <2>3, <2>4, <2>5, <2>6, <2>7, Consts DEF
         AddRecord, Moves, TypeInv, Types, TypeOK
    <2>10. CallShape'
      BY <2>1, <2>2, <2>3, <2>4, <2>5, <2>6, <2>7, <2>8, <2>9, Consts DEF
         Moves, TypeInv, Types, TypeOK, CallShape, NamesOwn, HandleHeld,
         FreshUnknown, Closing, Moving
    <2>11. FreshUnknown'
      BY <2>1, <2>2, <2>3, <2>4, <2>5, <2>6, <2>7, <2>8, <2>9, Consts DEF
         Moves, TypeInv, Types, TypeOK, FreshUnknown, NamesOwn, CallShape,
         Closing, Moving
    <2>12. NamesOwn'
      BY <2>1, <2>2, <2>3, <2>4, <2>5, <2>6, <2>7, <2>8, <2>9, Consts DEF
         Moves, TypeInv, Types, TypeOK, NamesOwn, FreshUnknown, Closing,
         Moving
    <2>13. OneCall'
      BY <2>1, <2>2, <2>3, <2>4, <2>5, <2>6, <2>7, <2>8, <2>9, Consts DEF
         Moves, TypeInv, Types, TypeOK, OneCall, Resting, FreshUnknown,
         CallShape, Closing, Moving
    <2>14. HandleHeld'
      BY <2>1, <2>2, <2>3, <2>4, <2>5, <2>6, <2>7, <2>8, <2>9, Consts DEF
         Moves, TypeInv, Types, TypeOK, HandleHeld, CallShape, OneCall,
         Resting, FreshUnknown, Closing, Moving
    <2>15. Resting'
      BY <2>1, <2>2, <2>3, <2>4, <2>5, <2>6, <2>7, <2>8, <2>9, Consts DEF
         Moves, TypeInv, Types, TypeOK, Resting, CallShape, NamesOwn, OneCall,
         HandleHeld, Exclusive, FreshUnknown, Closing, Moving
    <2>16. Exclusive'
      BY <2>1, <2>2, <2>3, <2>4, <2>5, <2>6, <2>7, <2>8, <2>9, Consts DEF
         Moves, TypeInv, Types, TypeOK, Exclusive, CallShape, Closing, Moving
    <2>17. RecordCount'
      BY <2>1, <2>2, <2>3, <2>4, <2>5, <2>6, <2>7, <2>8, <2>9, RecordCountStep, OpenFiles
         DEF TypeInv, RecordCount, TablesOnly, Moving
    <2>18. GCShape'
      BY <2>1, <2>2, <2>3, <2>4, <2>5, <2>6, <2>7, <2>8, <2>9, Consts DEF
         Moves, TypeInv, Types, TypeOK, GCShape, FreshUnknown, Closing, Moving
    <2>19. TablesOnly'
      BY <2>1, <2>2, <2>3, <2>4, <2>5, <2>6, <2>7, <2>8, <2>9, Consts, SMTT(40) DEF
         Moves, TypeInv, Types, TypeOK, TablesOnly, CallShape, Resting,
         FreshUnknown, NamesOwn, Exclusive, GCShape, Closing, Moving
    <2> QED BY <2>9, <2>10, <2>11, <2>12, <2>13, <2>14, <2>15, <2>16, <2>17,
       <2>18, <2>19 DEF TypeInv
  <1>15. CASE CloseWR(t)
    <2>1. /\ call[t].file \in FileId /\ call[t].name \in Name
          /\ name[call[t].file] = call[t].name
          /\ call[t].at = "closewr"
      BY <1>15, CallHas DEF CloseWR, Closing, Moving
    <2>2. \/ Moves(t, "flush", call[t].name, call[t].file)
          \/ Moves(t, "destroy", call[t].name, call[t].file)
      BY <1>15, <2>1, GotoMoves, FailsMoves DEF CloseWR, Places, Closing,
         Moving, Succeeds
    <2>3. wr' \in [FileId -> {None, "handle", "gc"}]
      BY <1>15, <2>1 DEF CloseWR, Succeeds, ReleaseWRLock, TypeInv, Types,
         TypeOK
    <2>4. \A i \in FileId : wr'[i] = wr[i] \/ (i = call[t].file /\ wr'[i] = None)
      BY <1>15, <2>1, <2>3 DEF CloseWR, Succeeds, ReleaseWRLock, TypeInv,
         Types, TypeOK
    <2>5. abandoned' = abandoned \/ abandoned' = abandoned \union {call[t].file}
      BY <1>15, <2>1, FailsMoves, <2>3, <2>4 DEF CloseWR, Succeeds
    <2>6. UNCHANGED <<files, name, next_file_id, handle, records, is_recorded, levelled, gc>>
      BY <1>15 DEF CloseWR
    <2>7. Types'
      <3>1. unclosed' = unclosed \/ unclosed' = unclosed \union {call[t].file}
        BY <1>15 DEF CloseWR
      <3> QED BY <1>15, <2>1, <2>2, <2>3, <2>4, <2>5, <3>1, Consts DEF CloseWR, Moves,
              TypeInv, Types, TypeOK
    <2>8. CallShape'
      BY <2>1, <2>2, <2>3, <2>4, <2>5, <2>6, <2>7, Consts DEF Moves, TypeInv,
         Types, TypeOK, CallShape, NamesOwn, HandleHeld, FreshUnknown,
         Closing, Moving
    <2>9. FreshUnknown'
      BY <2>1, <2>2, <2>3, <2>4, <2>5, <2>6, <2>7, Consts DEF Moves, TypeInv,
         Types, TypeOK, FreshUnknown, NamesOwn, CallShape, Closing, Moving
    <2>10. NamesOwn'
      BY <2>1, <2>2, <2>3, <2>4, <2>5, <2>6, <2>7, Consts DEF Moves, TypeInv,
         Types, TypeOK, NamesOwn, FreshUnknown, Closing, Moving
    <2>11. OneCall'
      BY <2>1, <2>2, <2>3, <2>4, <2>5, <2>6, <2>7, Consts DEF Moves, TypeInv,
         Types, TypeOK, OneCall, Resting, FreshUnknown, CallShape, Closing,
         Moving
    <2>12. HandleHeld'
      BY <2>1, <2>2, <2>3, <2>4, <2>5, <2>6, <2>7, Consts DEF Moves, TypeInv,
         Types, TypeOK, HandleHeld, CallShape, OneCall, Resting, FreshUnknown,
         Closing, Moving
    <2>13. Resting'
      BY <2>1, <2>2, <2>3, <2>4, <2>5, <2>6, <2>7, Consts DEF Moves, TypeInv,
         Types, TypeOK, Resting, CallShape, NamesOwn, OneCall, HandleHeld,
         Exclusive, FreshUnknown, Closing, Moving
    <2>14. Exclusive'
      BY <2>1, <2>2, <2>3, <2>4, <2>5, <2>6, <2>7, Consts DEF Moves, TypeInv,
         Types, TypeOK, Exclusive, CallShape, Closing, Moving
    <2>15. RecordCount'
      BY <2>1, <2>2, <2>3, <2>4, <2>5, <2>6, <2>7, RecordCountStep, OpenFiles DEF
         TypeInv, RecordCount, TablesOnly, Moving
    <2>16. GCShape'
      BY <2>1, <2>2, <2>3, <2>4, <2>5, <2>6, <2>7, Consts DEF Moves, TypeInv,
         Types, TypeOK, GCShape, FreshUnknown, Closing, Moving
    <2>17. TablesOnly'
      BY <2>1, <2>2, <2>3, <2>4, <2>5, <2>6, <2>7, Consts DEF Moves, TypeInv,
         Types, TypeOK, TablesOnly, CallShape, Resting, FreshUnknown, NamesOwn,
         Exclusive, GCShape, Closing, Moving
    <2> QED BY <2>7, <2>8, <2>9, <2>10, <2>11, <2>12, <2>13, <2>14, <2>15,
       <2>16, <2>17 DEF TypeInv
  <1>16. CASE DestroyHandle(t)
    <2>1. /\ call[t].file \in FileId /\ call[t].name \in Name
          /\ name[call[t].file] = call[t].name
          /\ call[t].at = "destroy"
      BY <1>16, CallHas DEF DestroyHandle, Closing, Moving
    <2>2. Moves(t, "idle", None, None)
      BY <1>16, <2>1, ReturnMoves DEF DestroyHandle, Places, Closing, Moving
    <2>3. curr_buffer_count' \in 0..MaxBuffers
      BY <1>16, <2>1, Consts DEF DestroyHandle, ReleaseBuffer, TypeInv, Types,
         TypeOK
    <2>4. handle' = handle \ {call[t].file}
      BY <1>16, <2>1, <2>3 DEF DestroyHandle, ReleaseBuffer, TypeInv, Types,
         TypeOK
    <2>5. UNCHANGED <<files, name, next_file_id, wr, records, is_recorded, levelled, gc>>
      BY <1>16 DEF DestroyHandle
    <2>6. Types'
      BY <1>16, <2>1, <2>2, <2>3, <2>4, Consts DEF DestroyHandle, Moves,
         TypeInv, Types, TypeOK
    <2>7. CallShape'
      BY <2>1, <2>2, <2>3, <2>4, <2>5, <2>6, Consts DEF Moves, TypeInv, Types,
         TypeOK, CallShape, NamesOwn, HandleHeld, FreshUnknown, Closing,
         Moving
    <2>8. FreshUnknown'
      BY <2>1, <2>2, <2>3, <2>4, <2>5, <2>6, Consts DEF Moves, TypeInv, Types,
         TypeOK, FreshUnknown, NamesOwn, CallShape, Closing, Moving
    <2>9. NamesOwn'
      BY <2>1, <2>2, <2>3, <2>4, <2>5, <2>6, Consts DEF Moves, TypeInv, Types,
         TypeOK, NamesOwn, FreshUnknown, Closing, Moving
    <2>10. OneCall'
      BY <2>1, <2>2, <2>3, <2>4, <2>5, <2>6, Consts DEF Moves, TypeInv, Types,
         TypeOK, OneCall, Resting, FreshUnknown, CallShape, Closing, Moving
    <2>11. HandleHeld'
      BY <2>1, <2>2, <2>3, <2>4, <2>5, <2>6, Consts DEF Moves, TypeInv, Types,
         TypeOK, HandleHeld, CallShape, OneCall, Resting, FreshUnknown,
         Closing, Moving
    <2>12. Resting'
      BY <2>1, <2>2, <2>3, <2>4, <2>5, <2>6, Consts DEF Moves, TypeInv, Types,
         TypeOK, Resting, CallShape, NamesOwn, OneCall, HandleHeld, Exclusive,
         FreshUnknown, Closing, Moving
    <2>13. Exclusive'
      BY <2>1, <2>2, <2>3, <2>4, <2>5, <2>6, Consts DEF Moves, TypeInv, Types,
         TypeOK, Exclusive, CallShape, Closing, Moving
    <2>14. RecordCount'
      BY <2>1, <2>2, <2>3, <2>4, <2>5, <2>6, RecordCountStep, OpenFiles DEF TypeInv,
         RecordCount, TablesOnly, Moving
    <2>15. GCShape'
      BY <2>1, <2>2, <2>3, <2>4, <2>5, <2>6, Consts DEF Moves, TypeInv, Types,
         TypeOK, GCShape, FreshUnknown, Closing, Moving
    <2>16. TablesOnly'
      BY <2>1, <2>2, <2>3, <2>4, <2>5, <2>6, Consts DEF Moves, TypeInv, Types,
         TypeOK, TablesOnly, CallShape, Resting, FreshUnknown, NamesOwn,
         Exclusive, GCShape, Closing, Moving
    <2> QED BY <2>6, <2>7, <2>8, <2>9, <2>10, <2>11, <2>12, <2>13, <2>14,
       <2>15, <2>16 DEF TypeInv
  <1>17. CASE GetFileToMove(t)
    <2>1. call[t].name \in Name /\ files[call[t].name] \in FileId /\ call[t].at = "move"
      BY <1>17, CallHas DEF GetFileToMove, Closing, Moving
    <2>2. Moves(t, "move_remove", call[t].name, files[call[t].name])
      BY <1>17, <2>1, FindsMoves DEF GetFileToMove, Places, Closing, Moving
    <2>3. UNCHANGED <<files, name, next_file_id, handle, wr, records, is_recorded, levelled, gc>>
      BY <1>17 DEF GetFileToMove
    <2>4. Types'
      BY <1>17, <2>1, <2>2, Consts DEF GetFileToMove, Moves, TypeInv, Types,
         TypeOK
    <2>5. CallShape'
      BY <2>1, <2>2, <2>3, <2>4, Consts DEF Moves, TypeInv, Types, TypeOK,
         CallShape, NamesOwn, HandleHeld, FreshUnknown, Closing, Moving
    <2>6. FreshUnknown'
      BY <2>1, <2>2, <2>3, <2>4, Consts DEF Moves, TypeInv, Types, TypeOK,
         FreshUnknown, NamesOwn, CallShape, Closing, Moving
    <2>7. NamesOwn'
      BY <2>1, <2>2, <2>3, <2>4, Consts DEF Moves, TypeInv, Types, TypeOK,
         NamesOwn, FreshUnknown, Closing, Moving
    <2>8. OneCall'
      BY <2>1, <2>2, <2>3, <2>4, Consts DEF Moves, TypeInv, Types, TypeOK,
         OneCall, Resting, FreshUnknown, CallShape, Closing, Moving
    <2>9. HandleHeld'
      BY <2>1, <2>2, <2>3, <2>4, Consts DEF Moves, TypeInv, Types, TypeOK,
         HandleHeld, CallShape, OneCall, Resting, FreshUnknown, Closing,
         Moving
    <2>10. Resting'
      BY <2>1, <2>2, <2>3, <2>4, Consts DEF Moves, TypeInv, Types, TypeOK,
         Resting, CallShape, NamesOwn, OneCall, HandleHeld, Exclusive,
         FreshUnknown, Closing, Moving
    <2>11. Exclusive'
      BY <2>1, <2>2, <2>3, <2>4, Consts DEF Moves, TypeInv, Types, TypeOK,
         Exclusive, CallShape, Closing, Moving
    <2>12. RecordCount'
      BY <2>1, <2>2, <2>3, <2>4, RecordCountStep, OpenFiles DEF TypeInv, RecordCount,
         TablesOnly, Moving
    <2>13. GCShape'
      BY <2>1, <2>2, <2>3, <2>4, Consts DEF Moves, TypeInv, Types, TypeOK,
         GCShape, FreshUnknown, Closing, Moving
    <2>14. TablesOnly'
      BY <2>1, <2>2, <2>3, <2>4, Consts DEF Moves, TypeInv, Types, TypeOK,
         TablesOnly, CallShape, Resting, FreshUnknown, NamesOwn, Exclusive,
         GCShape, Closing, Moving
    <2> QED BY <2>4, <2>5, <2>6, <2>7, <2>8, <2>9, <2>10, <2>11, <2>12, <2>13,
       <2>14 DEF TypeInv
  <1>18. CASE MoveRemove(t)
    <2>1. /\ call[t].file \in FileId /\ call[t].name \in Name
          /\ name[call[t].file] = call[t].name
          /\ call[t].at = "move_remove"
      BY <1>18, CallHas DEF MoveRemove, Closing, Moving
    <2>2. Moves(t, "move_add", call[t].name, call[t].file)
      BY <1>18, <2>1, GotoMoves DEF MoveRemove, Places, Closing, Moving
    <2>3. records' \in [FileId -> 0..2]
      BY <1>18, <2>1 DEF MoveRemove, TypeInv, Types, TypeOK
    <2>4. records'[call[t].file] = 0
      BY <1>18, <2>1, <2>3 DEF MoveRemove, TypeInv, Types, TypeOK
    <2>5. \A i \in FileId \ {call[t].file} : records'[i] = records[i]
      BY <1>18, <2>1, <2>3, <2>4 DEF MoveRemove, TypeInv, Types, TypeOK
    <2>6. /\ UNCHANGED <<files, name, next_file_id, handle, wr, is_recorded, gc>>
          /\ levelled' = levelled \union {call[t].file} /\ call[t].name \in Sst
      BY <1>18, <2>1 DEF MoveRemove, TypeInv, CallShape, Moving
    <2>7. Types'
      BY <1>18, <2>1, <2>2, <2>3, <2>4, <2>5, <2>6, Consts DEF MoveRemove, Moves,
         TypeInv, Types, TypeOK
    <2>8. CallShape'
      BY <2>1, <2>2, <2>3, <2>4, <2>5, <2>6, <2>7, Consts DEF Moves, TypeInv,
         Types, TypeOK, CallShape, NamesOwn, HandleHeld, FreshUnknown,
         Closing, Moving
    <2>9. FreshUnknown'
      BY <2>1, <2>2, <2>3, <2>4, <2>5, <2>6, <2>7, Consts DEF Moves, TypeInv,
         Types, TypeOK, FreshUnknown, NamesOwn, CallShape, Closing, Moving
    <2>10. NamesOwn'
      BY <2>1, <2>2, <2>3, <2>4, <2>5, <2>6, <2>7, Consts DEF Moves, TypeInv,
         Types, TypeOK, NamesOwn, FreshUnknown, Closing, Moving
    <2>11. OneCall'
      BY <2>1, <2>2, <2>3, <2>4, <2>5, <2>6, <2>7, Consts DEF Moves, TypeInv,
         Types, TypeOK, OneCall, Resting, FreshUnknown, CallShape, Closing,
         Moving
    <2>12. HandleHeld'
      BY <2>1, <2>2, <2>3, <2>4, <2>5, <2>6, <2>7, Consts DEF Moves, TypeInv,
         Types, TypeOK, HandleHeld, CallShape, OneCall, Resting, FreshUnknown,
         Closing, Moving
    <2>13. Resting'
      BY <2>1, <2>2, <2>3, <2>4, <2>5, <2>6, <2>7, Consts DEF Moves, TypeInv,
         Types, TypeOK, Resting, CallShape, NamesOwn, OneCall, HandleHeld,
         Exclusive, FreshUnknown, Closing, Moving
    <2>14. Exclusive'
      BY <2>1, <2>2, <2>3, <2>4, <2>5, <2>6, <2>7, Consts DEF Moves, TypeInv,
         Types, TypeOK, Exclusive, CallShape, Closing, Moving
    <2>15. RecordCount'
      BY <2>1, <2>2, <2>3, <2>4, <2>5, <2>6, <2>7, RecordCountStep, OpenFiles DEF
         TypeInv, RecordCount, TablesOnly, Moving
    <2>16. GCShape'
      BY <2>1, <2>2, <2>3, <2>4, <2>5, <2>6, <2>7, Consts DEF Moves, TypeInv,
         Types, TypeOK, GCShape, FreshUnknown, Closing, Moving
    <2>17. TablesOnly'
      BY <2>1, <2>2, <2>3, <2>4, <2>5, <2>6, <2>7, Consts DEF Moves, TypeInv,
         Types, TypeOK, TablesOnly, CallShape, Resting, FreshUnknown, NamesOwn,
         Exclusive, GCShape, Closing, Moving
    <2> QED BY <2>7, <2>8, <2>9, <2>10, <2>11, <2>12, <2>13, <2>14, <2>15,
       <2>16, <2>17 DEF TypeInv
  <1>19. CASE MoveAdd(t)
    <2>1. /\ call[t].file \in FileId /\ call[t].name \in Name
          /\ name[call[t].file] = call[t].name
          /\ call[t].at = "move_add"
      BY <1>19, CallHas DEF MoveAdd, Closing, Moving
    <2>2. Moves(t, "idle", None, None)
      BY <1>19, <2>1, ReturnMoves DEF MoveAdd, Places, Closing, Moving
    <2>3. records[call[t].file] # 2
      BY <1>19, <2>1 DEF TypeInv, RecordCount
    <2>4. records[call[t].file] \in 0..1
      BY <1>19, <2>1, RecordTypes, <2>3
    <2>5. records' \in [FileId -> 0..2]
      BY <1>19, <2>1, <2>3, AddedEffect DEF MoveAdd
    <2>6. call[t].name \in Sst /\ call[t].file \notin handle
      BY <1>19, <2>1 DEF TypeInv, CallShape, HandleHeld, Moving
    <2>7. \A i \in FileId \ {call[t].file} : records'[i] = records[i]
      BY <1>19, <2>1, <2>3, AddedEffect DEF MoveAdd
    <2>8. UNCHANGED <<files, name, next_file_id, handle, wr, is_recorded, levelled, gc>>
      BY <1>19 DEF MoveAdd
    <2>9. Types'
      BY <1>19, <2>1, <2>2, <2>3, <2>4, <2>5, <2>6, <2>7, Consts DEF MoveAdd,
         Moves, TypeInv, Types, TypeOK
    <2>10. CallShape'
      BY <2>1, <2>2, <2>3, <2>4, <2>5, <2>6, <2>7, <2>8, <2>9, Consts DEF
         Moves, TypeInv, Types, TypeOK, CallShape, NamesOwn, HandleHeld,
         FreshUnknown, Closing, Moving
    <2>11. FreshUnknown'
      BY <2>1, <2>2, <2>3, <2>4, <2>5, <2>6, <2>7, <2>8, <2>9, Consts DEF
         Moves, TypeInv, Types, TypeOK, FreshUnknown, NamesOwn, CallShape,
         Closing, Moving
    <2>12. NamesOwn'
      BY <2>1, <2>2, <2>3, <2>4, <2>5, <2>6, <2>7, <2>8, <2>9, Consts DEF
         Moves, TypeInv, Types, TypeOK, NamesOwn, FreshUnknown, Closing,
         Moving
    <2>13. OneCall'
      BY <2>1, <2>2, <2>3, <2>4, <2>5, <2>6, <2>7, <2>8, <2>9, Consts DEF
         Moves, TypeInv, Types, TypeOK, OneCall, Resting, FreshUnknown,
         CallShape, Closing, Moving
    <2>14. HandleHeld'
      BY <2>1, <2>2, <2>3, <2>4, <2>5, <2>6, <2>7, <2>8, <2>9, Consts DEF
         Moves, TypeInv, Types, TypeOK, HandleHeld, CallShape, OneCall,
         Resting, FreshUnknown, Closing, Moving
    <2>15. Resting'
      BY <2>1, <2>2, <2>3, <2>4, <2>5, <2>6, <2>7, <2>8, <2>9, Consts DEF
         Moves, TypeInv, Types, TypeOK, Resting, CallShape, NamesOwn, OneCall,
         HandleHeld, Exclusive, FreshUnknown, Closing, Moving
    <2>16. Exclusive'
      BY <2>1, <2>2, <2>3, <2>4, <2>5, <2>6, <2>7, <2>8, <2>9, Consts DEF
         Moves, TypeInv, Types, TypeOK, Exclusive, CallShape, Closing, Moving
    <2>17. RecordCount'
      BY <2>1, <2>2, <2>3, <2>4, <2>5, <2>6, <2>7, <2>8, <2>9, RecordCountStep, OpenFiles
         DEF TypeInv, RecordCount, TablesOnly, Moving
    <2>18. GCShape'
      BY <2>1, <2>2, <2>3, <2>4, <2>5, <2>6, <2>7, <2>8, <2>9, Consts DEF
         Moves, TypeInv, Types, TypeOK, GCShape, FreshUnknown, Closing, Moving
    <2>19. TablesOnly'
      BY <2>1, <2>2, <2>3, <2>4, <2>5, <2>6, <2>7, <2>8, <2>9, Consts DEF
         Moves, TypeInv, Types, TypeOK, TablesOnly, CallShape, Resting,
         FreshUnknown, NamesOwn, Exclusive, GCShape, Closing, Moving
    <2> QED BY <2>9, <2>10, <2>11, <2>12, <2>13, <2>14, <2>15, <2>16, <2>17,
       <2>18, <2>19 DEF TypeInv
  <1> QED BY <1>1, <1>2, <1>3, <1>4, <1>5, <1>6, <1>7, <1>8, <1>9, <1>10,
     <1>11, <1>12, <1>13, <1>14, <1>15, <1>16, <1>17, <1>18, <1>19 DEF Asks,
     Works

\* A step of the worker leaves all of TypeInv that is about calls alone.
GCKeeps ==
    UNCHANGED <<files, name, next_file_id, handle, is_recorded, levelled, call>>

\* When a step of the worker preserves the invariant.
LEMMA GCInvStep ==
    ASSUME TypeInv, GCUnchanged, Types', GCShape',
           \A i \in FileId : wr'[i] = wr[i] \/ i = gc.file,
           \A i \in FileId : records'[i] = records[i] \/ (i = gc.file /\ records'[i] = 1),
           \A i \in FileId : i >= next_file_id => gc'.file # i
    PROVE  TypeInv'
  <1>1. GCKeeps
    BY DEF GCUnchanged, GCKeeps, nameVars, tableVars, history
  <1>2. CallShape' /\ NamesOwn' /\ OneCall' /\ HandleHeld' /\ Resting' /\ Exclusive'
    BY <1>1 DEF GCKeeps, TypeInv, CallShape, NamesOwn, OneCall, HandleHeld,
                Resting, Exclusive
  <1>3. FreshUnknown'
    <2>1. ASSUME NEW i \in FileId, i >= next_file_id
          PROVE  wr'[i] = None /\ records'[i] = 0 /\ gc'.file # i
      BY <2>1 DEF TypeInv, FreshUnknown
    <2> QED BY <1>1, <2>1 DEF GCKeeps, TypeInv, FreshUnknown
  <1>4. RecordCount'
    <2>1. ASSUME NEW i \in FileId, records[i] # 2
          PROVE  records'[i] # 2
      BY <2>1
    <2>2. ASSUME NEW t \in Thread, call[t].at \in {"add", "move_add", "buffer"}
          PROVE  records'[call[t].file] # 2
      BY <2>1, <2>2, CallHas DEF TypeInv, RecordCount, Closing, Moving
    <2> QED BY <1>1, <2>1, <2>2 DEF GCKeeps, TypeInv, RecordCount, Types, TypeOK
  <1>5. TablesOnly'
    <2>1. ASSUME NEW i \in FileId, records'[i] # 0
          PROVE  name[i] \in Sst
      BY <2>1, Consts DEF TypeInv, TablesOnly, GCShape
    <2> QED BY <1>1, <2>1 DEF GCKeeps, TypeInv, TablesOnly
  <1> QED BY <1>2, <1>3, <1>4, <1>5 DEF TypeInv

\* Every step of the worker preserves the invariant.
LEMMA TypeInvGC ==
    ASSUME TypeInv, (\E n \in Sst : GCStart(n)) \/ Collects
    PROVE  TypeInv'
  <1> DEFINE i == gc.file
  <1>1. ASSUME NEW n \in Sst, GCStart(n)
        PROVE  TypeInv'
    <2>1. gc' = [at |-> "get", name |-> n, file |-> None] /\ UNCHANGED <<wr, records>>
      BY <1>1 DEF GCStart
    <2>2. Types' /\ GCShape'
      BY <1>1, <2>1, Consts DEF GCStart, GCUnchanged, nameVars, tableVars, history, TypeInv, Types,
         TypeOK, GCShape
    <2>3. /\ \A j \in FileId : j >= next_file_id => gc'.file # j
      BY <2>1, Consts
    <2>4. GCUnchanged
      BY <1>1 DEF GCStart
    <2> QED BY <2>1, <2>2, <2>3, <2>4, GCInvStep
  <1>2. CASE GCGetFile
    <2>1. gc.name \in Sst /\ gc.name \in Name /\ gc.at = "get" /\ UNCHANGED <<wr, records>>
      BY <1>2, Consts DEF GCGetFile, TypeInv, GCShape
    <2>2. \/ files[gc.name] = None /\ gc' = [gc EXCEPT !.file = None, !.at = "end"]
          \/ /\ files[gc.name] \in FileId
             /\ gc' = [gc EXCEPT !.file = files[gc.name], !.at = "try"]
      BY <1>2, <2>1 DEF GCGetFile, TypeInv, Types, TypeOK
    <2>3. Types' /\ GCShape'
      BY <1>2, <2>1, <2>2, Consts DEF GCGetFile, GCUnchanged, nameVars, tableVars, history, TypeInv,
         Types, TypeOK, GCShape, NamesOwn
    <2>5. ASSUME NEW j \in FileId, j >= next_file_id
          PROVE  gc'.file # j
      <3>1. files[gc.name] # j
        BY <2>1, <2>5, Consts DEF TypeInv, NamesOwn, FreshUnknown
      <3> QED BY <2>2, <3>1 DEF TypeInv, Types
    <2>6. GCUnchanged
      BY <1>2 DEF GCGetFile
    <2> QED BY <2>1, <2>3, <2>5, <2>6, GCInvStep
  <1>3. CASE TryAcquireWRLock
    <2>1. gc.at = "try" /\ i \in FileId /\ UNCHANGED records /\ GCUnchanged
      BY <1>3 DEF TryAcquireWRLock, TypeInv, GCShape, Types
    <2>2. \/ /\ wr[i] = None /\ wr' = [wr EXCEPT ![i] = "gc"]
             /\ gc' = [gc EXCEPT !.at = "copy"]
          \/ UNCHANGED wr /\ gc' = [gc EXCEPT !.at = "end", !.file = None]
      BY <1>3 DEF TryAcquireWRLock, CanAcquireWRLock
    <2>4. Types' /\ GCShape'
      <3>1. gc' \in [at : {"idle", "get", "try", "copy", "sync", "release", "end"},
                     name : Name \union {None}, file : FileId \union {None}]
        BY <2>2 DEF TypeInv, Types
      <3>2. wr' \in [FileId -> {None, "handle", "gc"}]
        BY <2>1, <2>2 DEF TypeInv, Types, TypeOK
      <3>3. Types'
        BY <1>3, <2>1, <3>1, <3>2 DEF TryAcquireWRLock, GCUnchanged, nameVars, tableVars, history,
           TypeInv, Types, TypeOK
      <3>4. UNCHANGED name
        BY <2>1 DEF GCUnchanged, nameVars
      <3> QED BY <2>1, <2>2, <3>3, <3>4, Consts DEF TypeInv, Types, GCShape
    <2>5. /\ \A j \in FileId : wr'[j] = wr[j] \/ j = i
          /\ \A j \in FileId : j >= next_file_id => gc'.file # j
      <3>1. CASE wr[i] = None /\ wr' = [wr EXCEPT ![i] = "gc"] /\ gc' = [gc EXCEPT !.at = "copy"]
        BY <2>1, <3>1 DEF TypeInv, Types, TypeOK, FreshUnknown
      <3>2. CASE UNCHANGED wr /\ gc' = [gc EXCEPT !.at = "end", !.file = None]
        BY <2>1, <3>2, Consts DEF TypeInv, Types
      <3> QED BY <2>2, <3>1, <3>2
    <2> QED BY <2>1, <2>4, <2>5, GCInvStep
  <1>4. CASE GCCopy
    <2>1. /\ gc.at = "copy" /\ i \in FileId
          /\ UNCHANGED wr /\ GCUnchanged
          /\ gc' = [gc EXCEPT !.at = "sync"]
      BY <1>4, Consts DEF GCCopy, TypeInv, GCShape, Types, TablesOnly
    <2>2. records' = records \/ records' = [records EXCEPT ![i] = 1]
      BY <1>4 DEF GCCopy
    <2>3. records' \in [FileId -> 0..2]
      BY <2>1, <2>2 DEF TypeInv, Types, TypeOK
    <2>4. Types' /\ GCShape'
      BY <1>4, <2>1, <2>3 DEF GCCopy, GCUnchanged, nameVars, tableVars, history, TypeInv, Types,
         TypeOK, GCShape
    <2>5. /\ \A j \in FileId : records'[j] = records[j] \/ (j = i /\ records'[j] = 1)
          /\ \A j \in FileId : j >= next_file_id => gc'.file # j
      BY <2>1, <2>2 DEF TypeInv, Types, TypeOK, FreshUnknown
    <2> QED BY <2>1, <2>4, <2>5, GCInvStep
  <1>5. CASE GCSync
    <2>1. /\ gc.at = "sync" /\ i \in FileId
          /\ UNCHANGED <<wr, records>> /\ GCUnchanged
          /\ gc' = [gc EXCEPT !.at = "release"]
      BY <1>5, Consts DEF GCSync, TypeInv, GCShape, Types, TablesOnly
    <2>2. Types' /\ GCShape'
      BY <1>5, <2>1 DEF GCSync, GCUnchanged, nameVars, tableVars, history, TypeInv, Types,
         TypeOK, GCShape
    <2>3. /\ \A j \in FileId : j >= next_file_id => gc'.file # j
      BY <2>1 DEF TypeInv, Types, TypeOK, FreshUnknown
    <2> QED BY <2>1, <2>2, <2>3, GCInvStep
  <1>6. CASE GCRelease
    <2>1. /\ gc.at = "release" /\ i \in FileId
          /\ UNCHANGED records /\ GCUnchanged
          /\ wr' = [wr EXCEPT ![i] = None]
          /\ gc' = [gc EXCEPT !.at = "end", !.file = None]
      BY <1>6, Consts DEF GCRelease, TypeInv, GCShape, Types, TablesOnly
    <2>2. wr' \in [FileId -> {None, "handle", "gc"}]
      BY <2>1 DEF TypeInv, Types, TypeOK
    <2>3. Types' /\ GCShape'
      BY <1>6, <2>1, <2>2 DEF GCRelease, GCUnchanged, nameVars, tableVars, history, TypeInv, Types,
         TypeOK, GCShape
    <2>4. /\ \A j \in FileId : wr'[j] = wr[j] \/ j = i
          /\ \A j \in FileId : j >= next_file_id => gc'.file # j
      BY <2>1, Consts DEF TypeInv, Types, TypeOK
    <2> QED BY <2>1, <2>3, <2>4, GCInvStep
  <1>7. CASE GCEnd
    <2>1. /\ gc.at = "end" /\ UNCHANGED <<wr, records>> /\ GCUnchanged
          /\ gc' = [at |-> "idle", name |-> None, file |-> None]
      BY <1>7 DEF GCEnd
    <2>2. Types' /\ GCShape'
      <3>1. alloc_mtx' \in BOOLEAN
        BY <1>7 DEF GCEnd
      <3>2. /\ gc' \in [at : {"idle", "get", "try", "copy", "sync", "release", "end"},
                        name : Name \union {None}, file : FileId \union {None}]
            /\ gc'.at = "idle" /\ gc'.file = None
        BY <2>1
      <3>3. Types'
        BY <2>1, <3>1, <3>2 DEF GCUnchanged, nameVars, tableVars, history, TypeInv, Types, TypeOK
      <3> QED BY <3>2, <3>3 DEF GCShape
    <2>3. /\ \A j \in FileId : j >= next_file_id => gc'.file # j
      BY <2>1, Consts
    <2> QED BY <2>1, <2>2, <2>3, GCInvStep
  <1> QED BY <1>1, <1>2, <1>3, <1>4, <1>5, <1>6, <1>7 DEF Collects

\* So does telling the level or the keys of a table.
LEMMA TypeInvDescribe ==
    ASSUME TypeInv, NEW i \in FileId, SetLevel(i) \/ UpdateInternalKeys(i)
    PROVE  TypeInv'
  <1>1. /\ DescribeUnchanged /\ name[i] \in Sst
        /\ levelled' = levelled \/ levelled' = levelled \union {i}
        /\ keyed' = keyed \/ keyed' = keyed \union {i}
    BY DEF SetLevel, UpdateInternalKeys, Writing, IsSst
  <1>2. /\ UNCHANGED <<files, name, next_file_id, handle, wr, records, is_recorded>>
        /\ UNCHANGED <<curr_buffer_count, files_mtx, alloc_mtx, call, gc, history>>
    BY <1>1 DEF DescribeUnchanged, nameVars
  <1>3. Types'
    BY <1>1, <1>2 DEF history, TypeInv, Types, TypeOK
  <1>4. CallShape' /\ NamesOwn' /\ OneCall' /\ HandleHeld' /\ Resting' /\ Exclusive'
    BY <1>2 DEF TypeInv, CallShape, NamesOwn, OneCall, HandleHeld, Resting, Exclusive
  <1>5. FreshUnknown' /\ RecordCount' /\ GCShape'
    BY <1>2 DEF TypeInv, FreshUnknown, RecordCount, GCShape
  <1>6. TablesOnly'
    BY <1>1, <1>2 DEF TypeInv, TablesOnly
  <1> QED BY <1>3, <1>4, <1>5, <1>6 DEF TypeInv

\* Nothing exists at first.
LEMMA TypeInvInit == Init => TypeInv
  <1> SUFFICES ASSUME Init PROVE TypeInv
    OBVIOUS
  <1>1. \A t \in Thread : call[t].at = "idle" /\ call[t].name = None /\ call[t].file = None
    BY DEF Init, Idle
  <1>2. TypeOK
    <2>1. /\ next_file_id \in 1..(MaxFiles + 1)
          /\ curr_buffer_count \in 0..MaxBuffers
      BY Consts DEF Init
    <2>2. /\ files \in [Name -> FileId \union {None}]
          /\ name \in [FileId -> Name \union {None}]
          /\ wr \in [FileId -> {None, "handle", "gc"}]
          /\ records \in [FileId -> 0..2]
      BY DEF Init
    <2> QED BY <2>1, <2>2 DEF Init, TypeOK
  <1>3. call \in [Thread -> CallSet]
    <2>1. Idle \in CallSet
      BY DEF Idle, CallSet, Places
    <2> QED BY <2>1 DEF Init
  <1>4. Types
    BY <1>2, <1>3 DEF Init, Types
  <1>5. CallShape /\ OneCall /\ HandleHeld /\ Resting /\ Exclusive
    BY <1>1, Consts DEF Init, CallShape, OneCall, HandleHeld, Resting, Exclusive,
       Closing, Moving
  <1>6. FreshUnknown /\ NamesOwn /\ RecordCount
    BY <1>1, Consts DEF Init, FreshUnknown, NamesOwn, RecordCount
  <1>7. GCShape /\ TablesOnly
    BY <1>1, Consts DEF Init, GCShape, TablesOnly, Moving
  <1> QED BY <1>4, <1>5, <1>6, <1>7 DEF TypeInv

\* Every step preserves the invariant.
LEMMA TypeInvNext == TypeInv /\ [Next]_vars => TypeInv'
  <1> SUFFICES ASSUME TypeInv, [Next]_vars PROVE TypeInv'
    OBVIOUS
  <1>1. CASE Next
    BY <1>1, TypeInvStep, TypeInvGC, TypeInvDescribe DEF Next
  <1>2. CASE UNCHANGED vars
    BY <1>2 DEF vars, TypeInv, Types, TypeOK, CallShape, FreshUnknown, NamesOwn, OneCall,
       HandleHeld, Resting, Exclusive, RecordCount, GCShape, TablesOnly
  <1> QED BY <1>1, <1>2

\* The types of Handles, for any number of threads, names, files and faults: a
\* file never has more than two records, and no more buffers are handed out
\* than there are.
THEOREM HandlesTypes == Spec => []TypeOK
  <1>1. TypeInv => TypeOK
    BY DEF TypeInv, Types
  <1> QED BY TypeInvInit, TypeInvNext, <1>1, PTL DEF Spec

-----------------------------------------------------------------------------
(* The inductive invariant for the records.                                 *)

Named(i) == \E n \in Name : files[n] = i
NoCall(i) == \A t \in Thread : call[t].file # i

Copying == {"copy", "sync", "release"}

\* A handle that no call works on has the write lock, and so has a constructor
\* that waits for a buffer; GC copies no file while a handle has its lock.
OpenLocked ==
    /\ \A i \in handle : NoCall(i) => wr[i] = "handle"
    /\ \A t \in Thread : call[t].at = "buffer" => wr[call[t].file] = "handle"
    /\ gc.at \in Copying => wr[gc.file] # "handle"

\* Whatever is in use is in the namespace, or was deleted while in use.
UseKnown ==
    \A i \in FileId : (i \in handle \/ gc.file = i \/ ~NoCall(i)) =>
        Named(i) \/ i \in raced

\* The same of whatever has a record.
RecordKnown == \A i \in FileId : records[i] # 0 => Named(i) \/ i \in raced

\* A table of the namespace with a level and keys has a record, but for
\* the time it is first written and between the removal of its record and the
\* addition of the next.
TableRecorded ==
    \A i \in FileId :
        /\ Recordable(i) /\ Named(i) /\ wr[i] # "handle"
        /\ \A t \in Thread : call[t].file = i => call[t].at \notin {"add", "move_add"}
        => records[i] # 0

\* A table has a record when its lock is about to be released.
CloseRecorded ==
    \A t \in Thread :
        call[t].at = "closewr" /\ Recordable(call[t].file) /\ Named(call[t].file) =>
            records[call[t].file] # 0

RecordInv == UseKnown /\ RecordKnown /\ TableRecorded /\ CloseRecorded

-----------------------------------------------------------------------------
(* Steps that leave the namespace alone.                                    *)

\* When a step of a call that leaves the namespace alone preserves RecordInv.
LEMMA RecordStep ==
    ASSUME TypeInv, RecordInv, NEW t \in Thread, NEW p, NEW n, NEW f,
           Moves(t, p, n, f), UNCHANGED <<files, name, gc, raced, keyed>>,
           \/ levelled' = levelled
           \/ p = "move_add" /\ f = call[t].file /\ levelled' = levelled \union {f},
           f = None \/ f = call[t].file \/ f \in handle \/ Named(f),
           handle' \subseteq handle \union {call[t].file},
           \A i \in FileId \ {call[t].file} : records'[i] = records[i] /\ wr'[i] = wr[i],
           LET i == call[t].file IN i \in FileId =>
               \/ wr'[i] = "handle" \/ records'[i] # 0
               \/ ~Recordable(i) \/ ~Named(i)
               \/ p \in {"add", "move_add"} /\ f = i
               \/ /\ records'[i] = records[i] /\ wr'[i] = wr[i]
                  /\ call[t].at \notin {"add", "move_add"},
           p = "closewr" /\ Recordable(f) /\ Named(f) => records'[f] # 0
    PROVE  RecordInv'
  <1>1. \A i : Named(i)' <=> Named(i)
    BY DEF Named
  <1>2. \A s \in Thread \ {t} : call'[s] = call[s]
    BY DEF Moves
  <1>3. \A s \in Thread \ {t} : call[s].file # None => call[s].file # call[t].file
    BY DEF TypeInv, OneCall
  <1>r. \A i : Recordable(i)' => Recordable(i) \/ (p = "move_add" /\ i = f /\ f = call[t].file)
    BY DEF Recordable, IsSst
  <1>4. UseKnown'
    <2>1. ASSUME NEW i \in FileId, i \in handle' \/ gc.file = i \/ ~NoCall(i)'
          PROVE  Named(i) \/ i \in raced
      <3>1. ~NoCall(i)' => ~NoCall(i) \/ i = f
        BY <1>2 DEF NoCall, Moves
      <3>2. i = call[t].file => ~NoCall(i)
        BY DEF NoCall
      <3> QED BY <2>1, <3>1, <3>2, Consts DEF RecordInv, UseKnown
    <2> QED BY <1>1, <2>1 DEF UseKnown
  <1>5. RecordKnown'
    <2>1. ASSUME NEW i \in FileId, records'[i] # 0
          PROVE  Named(i) \/ i \in raced
      <3>1. CASE i = call[t].file
        BY <3>1 DEF RecordInv, UseKnown, NoCall
      <3>2. CASE i # call[t].file
        BY <2>1, <3>2 DEF RecordInv, RecordKnown
      <3> QED BY <3>1, <3>2
    <2> QED BY <1>1, <2>1 DEF RecordKnown
  <1>6. TableRecorded'
    <2>1. ASSUME NEW i \in FileId, Recordable(i)', Named(i), wr'[i] # "handle",
                 \A s \in Thread : call'[s].file = i => call'[s].at \notin {"add", "move_add"}
          PROVE  records'[i] # 0
      <3>r. Recordable(i)
        BY <1>r, <2>1 DEF Moves
      <3>1. \A s \in Thread \ {t} : call[s].file = i => call[s].at \notin {"add", "move_add"}
        BY <1>2, <2>1
      <3>2. CASE i # call[t].file
        BY <2>1, <3>r, <3>1, <3>2 DEF RecordInv, TableRecorded
      <3>3. CASE i = call[t].file
        <4>1. ~(p \in {"add", "move_add"} /\ f = i)
          BY <2>1 DEF Moves
        <4>2. CASE records'[i] = records[i] /\ wr'[i] = wr[i] /\ call[t].at \notin {"add", "move_add"}
          BY <2>1, <3>r, <3>1, <4>2 DEF RecordInv, TableRecorded
        <4> QED BY <2>1, <3>r, <3>3, <4>1, <4>2
      <3> QED BY <3>2, <3>3
    <2> QED BY <1>1, <2>1 DEF TableRecorded
  <1>7. CloseRecorded'
    <2>1. ASSUME NEW s \in Thread, NEW i, i = call'[s].file, call'[s].at = "closewr",
                 Recordable(i)', Named(i)
          PROVE  records'[i] # 0
      <3>1. CASE s = t
        <4>1. i = f /\ p = "closewr" /\ Recordable(i)
          BY <1>r, <2>1, <3>1 DEF Moves
        <4> QED BY <2>1, <4>1
      <3>2. CASE s # t
        <4>1. call'[s] = call[s] /\ i \in FileId /\ i # None /\ i = call[s].file
          BY <1>2, <2>1, <3>2, CallHas, Consts DEF Closing
        <4>2. i # call[t].file /\ call[s].at = "closewr"
          BY <1>3, <2>1, <3>2, <4>1
        <4>3. Recordable(i)
          BY <1>r, <2>1, <4>2
        <4>4. records[i] # 0
          BY <2>1, <4>1, <4>2, <4>3 DEF RecordInv, CloseRecorded
        <4> QED BY <4>1, <4>2, <4>4
      <3> QED BY <3>1, <3>2
    <2>2. ASSUME NEW s \in Thread PROVE Recordable(call[s].file)' <=>
              /\ name'[call'[s].file] \in Sst
              /\ call'[s].file \in levelled' /\ call'[s].file \in keyed'
      BY DEF Recordable, IsSst
    <2> QED BY <1>1, <2>1, <2>2 DEF CloseRecorded, Recordable, IsSst, Named
  <1> QED BY <1>4, <1>5, <1>6, <1>7 DEF RecordInv

\* When a step of the worker preserves it.
LEMMA RecordGC ==
    ASSUME TypeInv, RecordInv,
           UNCHANGED <<files, name, handle, call, raced, levelled, keyed>>,
           gc'.file = None \/ gc'.file = gc.file \/ Named(gc'.file),
           \A i \in FileId : records'[i] = records[i] \/ (i = gc.file /\ records'[i] = 1),
           \A i \in FileId : wr'[i] = "handle" <=> wr[i] = "handle"
    PROVE  RecordInv'
  <1>1. \A i : (Named(i)' <=> Named(i)) /\ (NoCall(i)' <=> NoCall(i))
    BY DEF Named, NoCall
  <1>2. UseKnown'
    BY <1>1, Consts DEF RecordInv, UseKnown
  <1>3. RecordKnown'
    BY <1>1 DEF RecordInv, UseKnown, RecordKnown
  <1>4. ASSUME NEW i \in FileId, records[i] # 0
        PROVE  records'[i] # 0
    BY <1>4
  <1>5. TableRecorded'
    BY <1>1, <1>4 DEF RecordInv, TableRecorded, Recordable, IsSst
  <1>6. CloseRecorded'
    <2>1. \A t \in Thread : call[t].at = "closewr" => call[t].file \in FileId
      BY CallHas DEF Closing
    <2> QED BY <1>1, <1>4, <2>1 DEF RecordInv, CloseRecorded, Recordable, IsSst
  <1> QED BY <1>2, <1>3, <1>5, <1>6 DEF RecordInv

\* When a step of a call preserves OpenLocked.
LEMMA OpenLockedStep ==
    ASSUME TypeInv, OpenLocked, NEW t \in Thread, NEW p, NEW n, NEW f,
           Moves(t, p, n, f), UNCHANGED gc,
           \A i \in FileId : \/ wr'[i] = wr[i] \/ i = call[t].file
                             \/ wr'[i] = "handle" /\ i # gc.file,
           handle' \subseteq FileId,
           \A i \in handle' : \/ i \in handle /\ (i # call[t].file \/ f = i)
                              \/ wr'[i] = "handle",
           p = "buffer" => wr'[f] = "handle",
           gc.at \in Copying /\ gc.file = call[t].file => wr'[gc.file] # "handle"
    PROVE  OpenLocked'
  <1>1. \A s \in Thread \ {t} : call'[s] = call[s]
    BY DEF Moves
  <1>2. ASSUME NEW i \in handle', NoCall(i)'
        PROVE  wr'[i] = "handle"
    <2>1. CASE i \in handle /\ (i # call[t].file \/ f = i)
      <3>1. i # f /\ i # call[t].file
        BY <1>2, <2>1 DEF NoCall, Moves
      <3>2. NoCall(i)
        BY <1>1, <1>2, <3>1 DEF NoCall
      <3> QED BY <2>1, <3>1, <3>2 DEF OpenLocked
    <2> QED BY <2>1
  <1>3. ASSUME NEW s \in Thread, call'[s].at = "buffer"
        PROVE  wr'[call'[s].file] = "handle"
    <2>1. CASE s = t
      BY <1>3, <2>1 DEF Moves
    <2>2. CASE s # t
      <3>1. call'[s] = call[s] /\ call[s].file \in FileId /\ call[s].file # None
        BY <1>1, <1>3, <2>2, CallHas, Consts
      <3>2. call[s].file # call[t].file
        BY <2>2, <3>1 DEF TypeInv, OneCall
      <3> QED BY <1>3, <3>1, <3>2 DEF OpenLocked
    <2> QED BY <2>1, <2>2
  <1>4. gc.at \in Copying => gc.file \in FileId
    BY DEF TypeInv, GCShape, Types, Copying
  <1>5. gc.at \in Copying => wr'[gc.file] # "handle"
    BY <1>4 DEF OpenLocked
  <1> QED BY <1>2, <1>3, <1>5 DEF OpenLocked

LocksInv == TypeInv /\ OpenLocked /\ RecordInv

\* A call that begins on a name, and one whose file was not found or that
\* drops its name, changes nothing.
LEMMA QuietStep ==
    ASSUME LocksInv, NEW t \in Thread, NEW p, NEW n, NEW f, Moves(t, p, n, f),
           p \notin {"buffer", "closewr"},
           UNCHANGED <<files, name, gc, raced, handle, wr, records, levelled, keyed>>,
           call[t].at \notin {"add", "move_add"},
           \/ f = call[t].file
           \/ call[t].file = None /\ (f \in handle \/ Named(f))
    PROVE  OpenLocked' /\ RecordInv'
  <1>1. handle \subseteq FileId
    BY DEF LocksInv, TypeInv, Types, TypeOK
  <1>2. OpenLocked'
    <2>1. \A i \in handle : i # call[t].file \/ f = i
      BY <1>1, Consts
    <2> QED BY <1>1, <2>1, OpenLockedStep DEF LocksInv, OpenLocked
  <1>3. RecordInv'
    BY RecordStep DEF LocksInv
  <1> QED BY <1>2, <1>3

\* Deleting a file keeps the records and the use of the others.
LEMMA ForgetStep ==
    ASSUME LocksInv, NEW t \in Thread, NEW m \in Name, Moves(t, "idle", None, None),
           call[t].file = None,
           files' = [files EXCEPT ![m] = None],
           Forgets({files[m]} \ {None}), UNCHANGED <<name, gc, handle, wr, levelled, keyed>>
    PROVE  OpenLocked' /\ RecordInv'
  <1>1. handle \subseteq FileId
    BY DEF LocksInv, TypeInv, Types, TypeOK
  <1>2. OpenLocked'
    <2>1. \A i \in handle : i # call[t].file
      BY <1>1, Consts
    <2> QED BY <1>1, <2>1, OpenLockedStep DEF LocksInv, OpenLocked
  <1>3. /\ \A i \in FileId : Named(i)' <=> Named(i) /\ i # files[m]
        /\ \A s \in Thread \ {t} : call'[s] = call[s]
        /\ \A i \in FileId : NoCall(i)' <=> NoCall(i)
    <2>1. \A i \in FileId : Named(i)' <=> Named(i) /\ i # files[m]
      BY Consts DEF Named, LocksInv, TypeInv, Types, TypeOK, NamesOwn
    <2> QED BY <2>1, Consts DEF Moves, NoCall
  <1>4. ASSUME NEW i \in FileId, i = files[m], i \in handle \/ gc.file = i \/ ~NoCall(i)
        PROVE  i \in raced'
    <2>1. InUse(i)
      BY <1>4, Consts DEF LocksInv, OpenLocked, NoCall, InUse
    <2>2. i \in {files[m]} \ {None}
      BY <1>4, Consts
    <2> QED BY <2>1, <2>2 DEF Forgets
  <1>5. UseKnown'
    BY <1>3, <1>4 DEF LocksInv, RecordInv, UseKnown, Forgets
  <1>6. \A i \in FileId : records'[i] = IF i = files[m] THEN 0 ELSE records[i]
    BY Consts DEF Forgets
  <1>7. RecordKnown'
    BY <1>3, <1>6 DEF LocksInv, RecordInv, RecordKnown, Forgets
  <1>8. TableRecorded'
    <2>1. ASSUME NEW i \in FileId, Recordable(i), Named(i)', wr[i] # "handle",
                 \A s \in Thread : call'[s].file = i => call'[s].at \notin {"add", "move_add"}
          PROVE  records'[i] # 0
      <3>1. Named(i) /\ records'[i] = records[i]
        BY <1>3, <1>6, <2>1
      <3>2. \A s \in Thread : call[s].file = i => call[s].at \notin {"add", "move_add"}
        BY <1>3, <2>1, Consts
      <3> QED BY <2>1, <3>1, <3>2 DEF LocksInv, RecordInv, TableRecorded
    <2> QED BY <2>1 DEF TableRecorded, Recordable, IsSst
  <1>9. CloseRecorded'
    <2>1. ASSUME NEW s \in Thread, call'[s].at = "closewr", Recordable(call[s].file)',
                 Named(call[s].file)'
          PROVE  records'[call'[s].file] # 0
      <3>1. call'[s] = call[s]
        BY <1>3, <2>1 DEF Moves
      <3>2. call[s].file \in FileId
        BY <2>1, <3>1, CallHas DEF Closing, LocksInv
      <3> QED BY <1>3, <1>6, <2>1, <3>1, <3>2 DEF LocksInv, RecordInv, CloseRecorded,
              Recordable, IsSst
    <2> QED BY <2>1 DEF CloseRecorded
  <1> QED BY <1>2, <1>5, <1>7, <1>8, <1>9 DEF RecordInv

\* So does making one, whose write lock the call takes.
LEMMA CreateStep ==
    ASSUME LocksInv, NEW t \in Thread, call[t].file = None,
           NEW m \in Name, NEW new \in FileId, new = next_file_id,
           Creates(t, m, new), UNCHANGED <<gc, handle, levelled, keyed>>
    PROVE  OpenLocked' /\ RecordInv'
  <1>1. /\ Moves(t, "buffer", m, new)
        /\ files' = [files EXCEPT ![m] = new]
        /\ name' = [name EXCEPT ![new] = m]
        /\ Forgets({files[m]} \ {None})
        /\ wr' = [wr EXCEPT ![new] = "handle"]
    BY DEF Creates
  <1>2. /\ handle \subseteq FileId /\ new \notin handle /\ gc.file # new
        /\ records[new] = 0 /\ NoCall(new) /\ new # files[m] /\ ~Named(new)
        /\ \A s \in Thread : call[s].file # new
    <2>1. new >= new
      BY Consts
    <2>2. \A k \in Name : files[k] # new
      BY <2>1, Consts DEF LocksInv, TypeInv, NamesOwn, FreshUnknown
    <2> QED BY <2>1, <2>2 DEF LocksInv, TypeInv, Types, TypeOK, FreshUnknown, NoCall, Named
  <1>3. /\ wr'[new] = "handle" /\ name'[new] = m
        /\ \A i \in FileId \ {new} : wr'[i] = wr[i] /\ name'[i] = name[i]
    BY <1>1 DEF LocksInv, TypeInv, Types, TypeOK
  <1>4. OpenLocked'
    <2>1. \A i \in handle : i # call[t].file
      BY <1>2, Consts
    <2>2. gc.at \in Copying => gc.file # call[t].file
      BY DEF LocksInv, TypeInv, GCShape, Copying
    <2> QED BY <1>1, <1>2, <1>3, <2>1, <2>2, OpenLockedStep DEF LocksInv
  <1>5. /\ \A i \in FileId \ {new} : Named(i)' <=> Named(i) /\ i # files[m]
        /\ Named(new)'
        /\ \A s \in Thread \ {t} : call'[s] = call[s]
        /\ \A i \in FileId \ {new} : NoCall(i)' <=> NoCall(i)
    <2>1. \A k \in Name : files'[k] = IF k = m THEN new ELSE files[k]
      BY <1>1 DEF LocksInv, TypeInv, Types, TypeOK
    <2>2. \A i \in FileId \ {new} : Named(i)' <=> Named(i) /\ i # files[m]
      BY <2>1, Consts DEF Named, LocksInv, TypeInv, NamesOwn
    <2>3. Named(new)'
      BY <2>1 DEF Named
    <2> QED BY <1>1, <2>2, <2>3, Consts DEF Moves, NoCall
  <1>6. ASSUME NEW i \in FileId, i = files[m], i \in handle \/ gc.file = i \/ ~NoCall(i)
        PROVE  i \in raced'
    <2>1. InUse(i)
      BY <1>6, Consts DEF LocksInv, OpenLocked, NoCall, InUse
    <2>2. i \in {files[m]} \ {None}
      BY <1>6, Consts
    <2> QED BY <1>1, <2>1, <2>2 DEF Forgets
  <1>7. UseKnown'
    <2>1. ASSUME NEW i \in FileId \ {new}, i \in handle \/ gc.file = i \/ ~NoCall(i)
          PROVE  Named(i)' \/ i \in raced'
      BY <1>1, <1>5, <1>6, <2>1 DEF LocksInv, RecordInv, UseKnown, Forgets
    <2> QED BY <1>5, <2>1 DEF UseKnown
  <1>8. \A i \in FileId : records'[i] = IF i = files[m] THEN 0 ELSE records[i]
    BY <1>1, Consts DEF Forgets
  <1>9. RecordKnown'
    BY <1>1, <1>5, <1>8 DEF LocksInv, RecordInv, RecordKnown, Forgets
  <1>10. TableRecorded'
    <2>1. ASSUME NEW i \in FileId, Recordable(i)', Named(i)', wr'[i] # "handle",
                 \A s \in Thread : call'[s].file = i => call'[s].at \notin {"add", "move_add"}
          PROVE  records'[i] # 0
      <3>1. i # new /\ Named(i) /\ records'[i] = records[i] /\ wr[i] # "handle"
            /\ Recordable(i)
        BY <1>3, <1>5, <1>8, <2>1 DEF Recordable, IsSst
      <3>2. \A s \in Thread : call[s].file = i => call[s].at \notin {"add", "move_add"}
        BY <1>5, <2>1, Consts
      <3> QED BY <2>1, <3>1, <3>2 DEF LocksInv, RecordInv, TableRecorded
    <2> QED BY <2>1 DEF TableRecorded
  <1>11. CloseRecorded'
    <2>1. ASSUME NEW s \in Thread, call'[s].at = "closewr", Recordable(call[s].file)',
                 Named(call[s].file)'
          PROVE  records'[call'[s].file] # 0
      <3>1. call'[s] = call[s]
        BY <1>1, <1>5, <2>1 DEF Moves
      <3>2. call[s].file \in FileId \ {new}
        BY <1>2, <2>1, <3>1, CallHas DEF Closing, LocksInv
      <3>3. Recordable(call[s].file)
        BY <1>3, <2>1, <3>1, <3>2 DEF Recordable, IsSst
      <3> QED BY <1>5, <1>8, <2>1, <3>1, <3>2, <3>3 DEF LocksInv, RecordInv, CloseRecorded
    <2> QED BY <2>1 DEF CloseRecorded
  <1> QED BY <1>4, <1>7, <1>9, <1>10, <1>11 DEF RecordInv

\* Every step of a call preserves the two invariants.
LEMMA LocksCall ==
    ASSUME LocksInv, NEW t \in Thread, Asks(t) \/ Works(t)
    PROVE  OpenLocked' /\ RecordInv'
  <1> USE DEF At, nameVars, recordVars, tableVars, history, bounds
  <1> DEFINE i == call[t].file
  <1>t. /\ TypeInv /\ OpenLocked /\ RecordInv
        /\ handle \subseteq FileId
        /\ wr \in [FileId -> {None, "handle", "gc"}] /\ records \in [FileId -> 0..2]
    BY DEF LocksInv, TypeInv, Types, TypeOK
  <1>n. call[t].at \in {"idle", "create", "reopen", "delete", "move"} => i = None
    BY <1>t DEF TypeInv, CallShape, Closing, Moving
  <1>f. call[t].at \in Closing \union Moving \union {"wrlock", "buffer"} =>
            i \in FileId /\ i # None
    BY <1>t, CallHas, Consts
  <1>1. ASSUME NEW n \in Name, NEW where \in {"create", "reopen", "delete", "move"},
               Start(t, where, n)
        PROVE  OpenLocked' /\ RecordInv'
    <2>1. Moves(t, where, n, None)
      BY <1>1, <1>t, StartMoves DEF Places
    <2> QED BY <1>1, <1>n, <2>1, QuietStep DEF Start
  <1>2. ASSUME NEW j \in FileId, StartClose(t, j)
        PROVE  OpenLocked' /\ RecordInv'
    <2>1. name[j] \in Name
      BY <1>2, <1>t DEF StartClose, TypeInv, HandleHeld
    <2>2. Moves(t, "flush", name[j], j)
      BY <1>2, <1>t, <2>1 DEF StartClose, Moves, TypeInv, Types, CallSet, Places, Closing
    <2> QED BY <1>2, <1>n, <2>2, QuietStep DEF StartClose
  <1>3. CASE DeleteFile(t)
    <2>1. /\ call[t].name \in Name /\ Moves(t, "idle", None, None) /\ i = None
          /\ UNCHANGED <<name, gc, handle, wr, levelled, keyed>>
      BY <1>3, <1>n, <1>t, DeleteEffect DEF DeleteFile
    <2>2. CASE UNCHANGED <<files, records, raced>>
      BY <1>3, <2>1, <2>2, QuietStep DEF DeleteFile
    <2>3. CASE /\ files[call[t].name] \in FileId
               /\ files' = [files EXCEPT ![call[t].name] = None]
               /\ Forgets({files[call[t].name]})
      <3>1. {files[call[t].name]} \ {None} = {files[call[t].name]}
        BY <2>3, Consts
      <3> QED BY <2>1, <2>3, <3>1, ForgetStep
    <2> QED BY <1>3, <1>t, <2>2, <2>3, DeleteEffect
  <1>4. CASE CreateFile(t)
    <2>1. /\ call[t].name \in Name /\ next_file_id \in FileId /\ i = None
          /\ call[t].at = "create" /\ UNCHANGED <<gc, handle, levelled, keyed>>
      BY <1>4, <1>n, <1>t, CreateEffect DEF CreateFile
    <2>2. CASE CreateFails(t)
      BY <2>1, <2>2, QuietStep DEF CreateFails
    <2>3. CASE CreateLost(t, call[t].name)
      BY <2>1, <2>3, ForgetStep DEF CreateLost
    <2>4. CASE Creates(t, call[t].name, next_file_id)
      BY <2>1, <2>4, CreateStep
    <2> QED BY <1>4, <1>t, <2>2, <2>3, <2>4, CreateEffect
  <1>5. CASE ReopenFile(t)
    <2>1. /\ call[t].at = "reopen" /\ i = None /\ call[t].name \in Name
          /\ UNCHANGED <<files, name, gc, raced, handle, wr, records, levelled, keyed>>
      BY <1>5, <1>n, <1>t, CallHas DEF ReopenFile
    <2>2. CASE files[call[t].name] = None
      BY <1>5, <1>t, <2>1, <2>2, GotoMoves, QuietStep DEF ReopenFile, Places
    <2>3. CASE files[call[t].name] # None
      <3>1. files[call[t].name] \in FileId /\ Named(files[call[t].name])
        BY <1>t, <2>1, <2>3 DEF TypeInv, Types, TypeOK, Named
      <3>2. Moves(t, "wrlock", call[t].name, files[call[t].name])
        BY <1>5, <1>t, <2>3, <3>1, FindsMoves DEF ReopenFile, Places
      <3> QED BY <2>1, <3>1, <3>2, QuietStep
    <2> QED BY <2>2, <2>3
  <1>6. CASE AcquireWRLock(t)
    <2>1. /\ Moves(t, "buffer", call[t].name, i) /\ i \in FileId /\ i # None
          /\ call[t].at = "wrlock"
      BY <1>6, <1>f, <1>t, GotoMoves DEF AcquireWRLock, Places
    <2>2. /\ UNCHANGED <<files, name, gc, raced, handle, records, levelled, keyed>>
          /\ wr'[i] = "handle" /\ \A j \in FileId \ {i} : wr'[j] = wr[j]
      BY <1>6, <1>t, <2>1 DEF AcquireWRLock
    <2>3. gc.at \in Copying => gc.file # i
      BY <1>t, <2>1 DEF TypeInv, CallShape, GCShape, Copying
    <2>4. OpenLocked'
      BY <1>t, <2>1, <2>2, <2>3, OpenLockedStep
    <2>5. RecordInv'
      BY <1>t, <2>1, <2>2, RecordStep
    <2> QED BY <2>4, <2>5
  <1>7. CASE ZonedWritableFile(t)
    <2>1. /\ Moves(t, "idle", None, None) /\ i \in FileId /\ i # None
          /\ call[t].at = "buffer" /\ wr[i] = "handle"
      BY <1>7, <1>f, <1>t, ReturnMoves DEF ZonedWritableFile, OpenLocked
    <2>2. /\ UNCHANGED <<files, name, gc, raced, wr, records, levelled, keyed>>
          /\ handle' = handle \union {i}
      BY <1>7 DEF ZonedWritableFile
    <2>3. gc.at \in Copying => gc.file # i
      BY <1>t, <2>1 DEF OpenLocked
    <2>4. OpenLocked'
      BY <1>t, <2>1, <2>2, <2>3, OpenLockedStep
    <2>5. RecordInv'
      BY <1>t, <2>1, <2>2, RecordStep
    <2> QED BY <2>4, <2>5
  <1>8. CASE FlushBuffer(t)
    <2>1. /\ Moves(t, "datasync", call[t].name, i) /\ i \in FileId /\ i # None
          /\ call[t].at = "flush"
      BY <1>8, <1>f, <1>t, GotoMoves DEF FlushBuffer, Places, Closing
    <2>2. UNCHANGED <<files, name, gc, raced, wr, handle, levelled, keyed>>
      BY <1>8 DEF FlushBuffer
    <2>3. records' = records \/ records' = [records EXCEPT ![i] = 1]
      BY <1>8 DEF FlushBuffer
    <2>4. /\ \A j \in FileId \ {i} : records'[j] = records[j]
          /\ records'[i] = records[i] \/ records'[i] # 0
      BY <1>t, <2>1, <2>3
    <2>5. OpenLocked'
      BY <1>t, <2>1, <2>2, OpenLockedStep DEF OpenLocked
    <2>6. RecordInv'
      BY <1>t, <2>1, <2>2, <2>4, RecordStep
    <2> QED BY <2>5, <2>6
  <1>9. CASE DataSync(t)
    <2>1. i \in FileId /\ call[t].at = "datasync"
      BY <1>9, <1>f DEF DataSync, Closing
    <2>2. \/ Moves(t, "record", call[t].name, i) \/ Moves(t, "flush", call[t].name, i)
          \/ Moves(t, "destroy", call[t].name, i)
      BY <1>9, <1>t, GotoMoves, FailsMoves DEF DataSync, Succeeds, Places, Closing
    <2>3. UNCHANGED <<files, name, gc, raced, wr, handle, records, levelled, keyed>>
      BY <1>9 DEF DataSync
    <2> QED BY <2>1, <2>2, <2>3, QuietStep
  <1>10. CASE RemoveOldRecord(t)
    <2>1. i \in FileId /\ i # None /\ call[t].at = "record" /\ name[i] = call[t].name
      BY <1>10, <1>f, <1>t, CallHas DEF RemoveOldRecord, Closing
    <2>2. \/ Moves(t, "add", call[t].name, i)
          \/ ~Recordable(i) /\ Moves(t, "closewr", call[t].name, i)
      BY <1>10, <1>t, GotoMoves DEF RemoveOldRecord, Recordable, Places, Closing
    <2>3. /\ UNCHANGED <<files, name, gc, raced, wr, handle, levelled, keyed>>
          /\ \A j \in FileId \ {i} : records'[j] = records[j]
      BY <1>10, <1>t, <2>1 DEF RemoveOldRecord
    <2>4. OpenLocked'
      BY <1>t, <2>1, <2>2, <2>3, OpenLockedStep DEF OpenLocked
    <2>5. RecordInv'
      BY <1>t, <2>1, <2>2, <2>3, RecordStep
    <2> QED BY <2>4, <2>5
  <1>11. CASE AddRecord(t)
    <2>1. /\ Moves(t, "closewr", call[t].name, i) /\ i \in FileId /\ i # None
          /\ call[t].at = "add"
      BY <1>11, <1>f, <1>t, GotoMoves DEF AddRecord, Places, Closing
    <2>2. UNCHANGED <<files, name, gc, raced, wr, handle, levelled, keyed>>
      BY <1>11 DEF AddRecord
    <2>3. /\ \A j \in FileId \ {i} : records'[j] = records[j]
          /\ records'[i] = IF Recordable(i) THEN records[i] + 1 ELSE records[i]
      <3>1. records[i] # 2
        BY <1>t, <2>1 DEF TypeInv, RecordCount
      <3> QED BY <1>11, <1>t, <2>1, <3>1, AddedEffect DEF AddRecord
    <2>4. Recordable(i) => records'[i] # 0
      BY <1>t, <2>1, <2>3
    <2>5. OpenLocked'
      BY <1>t, <2>1, <2>2, OpenLockedStep DEF OpenLocked
    <2>6. RecordInv'
      BY <1>t, <2>1, <2>2, <2>3, <2>4, RecordStep
    <2> QED BY <2>5, <2>6
  <1>12. CASE CloseWR(t)
    <2>1. /\ i \in FileId /\ i # None /\ call[t].at = "closewr" /\ name[i] = call[t].name
          /\ UNCHANGED <<files, name, gc, raced, records, handle, levelled, keyed>>
      BY <1>12, <1>f, <1>t, CallHas DEF CloseWR, Closing
    <2>2. Moves(t, "flush", call[t].name, i) \/ Moves(t, "destroy", call[t].name, i)
      BY <1>12, <1>t, GotoMoves, FailsMoves DEF CloseWR, Succeeds, Places, Closing
    <2>3. wr' = wr \/ wr' = [wr EXCEPT ![i] = None]
      BY <1>12 DEF CloseWR, ReleaseWRLock
    <2>4. /\ \A j \in FileId \ {i} : wr'[j] = wr[j]
          /\ wr'[i] = wr[i] \/ wr'[i] # "handle"
      BY <1>t, <2>1, <2>3, Consts
    <2>5. Recordable(i) /\ Named(i) => records[i] # 0
      BY <1>t, <2>1 DEF RecordInv, CloseRecorded
    <2>6. OpenLocked'
      BY <1>t, <2>1, <2>2, <2>4, OpenLockedStep DEF OpenLocked
    <2>7. RecordInv'
      BY <1>t, <2>1, <2>2, <2>4, <2>5, RecordStep
    <2> QED BY <2>6, <2>7
  <1>13. CASE DestroyHandle(t)
    <2>1. /\ Moves(t, "idle", None, None) /\ i \in FileId /\ i # None
          /\ call[t].at = "destroy"
      BY <1>13, <1>f, <1>t, ReturnMoves DEF DestroyHandle, Closing
    <2>2. /\ UNCHANGED <<files, name, gc, raced, wr, records, levelled, keyed>>
          /\ handle' = handle \ {i}
      BY <1>13 DEF DestroyHandle
    <2>3. OpenLocked'
      BY <1>t, <2>1, <2>2, OpenLockedStep DEF OpenLocked
    <2>4. RecordInv'
      BY <1>t, <2>1, <2>2, RecordStep
    <2> QED BY <2>3, <2>4
  <1>14. CASE GetFileToMove(t)
    <2>1. /\ call[t].at = "move" /\ i = None /\ call[t].name \in Name
          /\ files[call[t].name] \in FileId
          /\ UNCHANGED <<files, name, gc, raced, handle, wr, records, levelled, keyed>>
      BY <1>14, <1>n, <1>t, CallHas DEF GetFileToMove
    <2>2. Moves(t, "move_remove", call[t].name, files[call[t].name])
      BY <1>14, <1>t, <2>1, FindsMoves DEF GetFileToMove, Places, Moving
    <2>3. Named(files[call[t].name])
      BY <2>1 DEF Named
    <2> QED BY <2>1, <2>2, <2>3, QuietStep
  <1>15. CASE MoveRemove(t)
    <2>1. /\ Moves(t, "move_add", call[t].name, i) /\ i \in FileId /\ i # None
          /\ call[t].at = "move_remove"
      BY <1>15, <1>f, <1>t, GotoMoves DEF MoveRemove, Places, Moving
    <2>2. /\ UNCHANGED <<files, name, gc, raced, wr, handle, keyed>>
          /\ \A j \in FileId \ {i} : records'[j] = records[j]
          /\ levelled' = levelled \union {i}
      BY <1>15, <1>t, <2>1 DEF MoveRemove
    <2>3. OpenLocked'
      BY <1>t, <2>1, <2>2, OpenLockedStep DEF OpenLocked
    <2>4. RecordInv'
      BY <1>t, <2>1, <2>2, RecordStep
    <2> QED BY <2>3, <2>4
  <1>16. CASE MoveAdd(t)
    <2>1. /\ Moves(t, "idle", None, None) /\ i \in FileId /\ i # None
          /\ call[t].at = "move_add" /\ i \notin handle
      BY <1>16, <1>f, <1>t, ReturnMoves DEF MoveAdd, Moving, TypeInv, HandleHeld
    <2>2. UNCHANGED <<files, name, gc, raced, wr, handle, levelled, keyed>>
      BY <1>16 DEF MoveAdd
    <2>3. /\ \A j \in FileId \ {i} : records'[j] = records[j]
          /\ records'[i] = IF Recordable(i) THEN records[i] + 1 ELSE records[i]
      <3>1. records[i] # 2
        BY <1>t, <2>1 DEF TypeInv, RecordCount
      <3> QED BY <1>16, <1>t, <2>1, <3>1, AddedEffect DEF MoveAdd
    <2>4. Recordable(i) => records'[i] # 0
      BY <1>t, <2>1, <2>3
    <2>5. OpenLocked'
      BY <1>t, <2>1, <2>2, OpenLockedStep DEF OpenLocked
    <2>6. RecordInv'
      BY <1>t, <2>1, <2>2, <2>3, <2>4, RecordStep
    <2> QED BY <2>5, <2>6
  <1> QED
    BY <1>1, <1>2, <1>3, <1>4, <1>5, <1>6, <1>7, <1>8, <1>9, <1>10, <1>11, <1>12,
       <1>13, <1>14, <1>15, <1>16
    DEF Asks, Works, StartCreate, StartReopen, StartDelete, StartMove

\* Every step of the worker preserves the two invariants.
LEMMA LocksGC ==
    ASSUME LocksInv, (\E n \in Sst : GCStart(n)) \/ Collects
    PROVE  OpenLocked' /\ RecordInv'
  <1> USE DEF nameVars, tableVars, history
  <1> DEFINE i == gc.file
  <1>t. /\ TypeInv /\ OpenLocked /\ RecordInv
        /\ wr \in [FileId -> {None, "handle", "gc"}] /\ records \in [FileId -> 0..2]
        /\ gc \in [at : {"idle", "get", "try", "copy", "sync", "release", "end"},
                   name : Name \union {None}, file : FileId \union {None}]
    BY DEF LocksInv, TypeInv, Types, TypeOK
  <1>u. UNCHANGED <<files, name, handle, call, raced, levelled, keyed>>
    BY DEF GCStart, Collects, GCGetFile, TryAcquireWRLock, GCCopy, GCSync, GCRelease,
           GCEnd, GCUnchanged
  <1>f. gc.at \in {"try"} \union Copying => i \in FileId
    BY <1>t DEF TypeInv, GCShape, Copying
  \* What is left to show: OpenLocked but for the lock of the copied file.
  <1>o. ASSUME \A j \in handle : NoCall(j) => wr'[j] = wr[j],
               \A t \in Thread : call[t].at = "buffer" => wr'[call[t].file] = wr[call[t].file],
               gc'.at \in Copying => wr'[gc'.file] # "handle"
        PROVE  OpenLocked'
    <2>1. \A j : NoCall(j)' <=> NoCall(j)
      BY <1>u DEF NoCall
    <2> QED BY <1>o, <1>t, <1>u, <2>1 DEF OpenLocked
  <1>1. ASSUME NEW n \in Sst, GCStart(n)
        PROVE  OpenLocked' /\ RecordInv'
    <2>1. /\ gc' = [at |-> "get", name |-> n, file |-> None] /\ UNCHANGED <<wr, records>>
      BY <1>1 DEF GCStart
    <2> QED BY <1>o, <1>t, <1>u, <2>1, RecordGC DEF Copying
  <1>2. CASE GCGetFile
    <2>1. gc.name \in Name /\ UNCHANGED <<wr, records>>
      BY <1>2, <1>t, Consts DEF GCGetFile, TypeInv, GCShape
    <2>2. gc'.file = files[gc.name] /\ gc'.at \notin Copying
      BY <1>2, <1>t DEF GCGetFile, Copying
    <2>3. Named(gc'.file) \/ gc'.file = None
      BY <2>1, <2>2 DEF Named
    <2> QED BY <1>o, <1>t, <1>u, <2>1, <2>2, <2>3, RecordGC
  <1>3. CASE TryAcquireWRLock
    <2>1. i \in FileId /\ UNCHANGED records
      BY <1>3, <1>f DEF TryAcquireWRLock
    <2>2. CASE wr[i] = None /\ wr' = [wr EXCEPT ![i] = "gc"] /\ gc' = [gc EXCEPT !.at = "copy"]
      <3>1. /\ wr'[i] = "gc" /\ \A j \in FileId \ {i} : wr'[j] = wr[j]
            /\ gc'.file = i
        BY <1>t, <2>1, <2>2
      <3>2. OpenLocked'
        <4>1. \A j \in handle : j \in FileId
          BY <1>t DEF TypeInv, Types, TypeOK
        <4>2. \A t \in Thread : call[t].at = "buffer" => call[t].file \in FileId
          BY <1>t, CallHas
        <4> QED BY <1>o, <1>t, <2>2, <3>1, <4>1, <4>2, Consts DEF OpenLocked
      <3>3. RecordInv'
        BY <1>t, <1>u, <2>1, <2>2, <3>1, Consts, RecordGC
      <3> QED BY <3>2, <3>3
    <2>3. CASE UNCHANGED wr /\ gc' = [gc EXCEPT !.at = "end", !.file = None]
      <3>1. gc'.at = "end" /\ gc'.file = None
        BY <1>t, <2>3
      <3> QED BY <1>o, <1>t, <1>u, <2>1, <2>3, <3>1, RecordGC DEF Copying
    <2> QED BY <1>3, <2>2, <2>3 DEF TryAcquireWRLock, CanAcquireWRLock
  <1>4. CASE GCCopy
    <2>1. /\ i \in FileId /\ UNCHANGED wr /\ gc.at = "copy"
          /\ gc' = [gc EXCEPT !.at = "sync"]
      BY <1>4, <1>f DEF GCCopy, Copying
    <2>2. gc'.file = i
      BY <1>t, <2>1
    <2>3. records' = records \/ records' = [records EXCEPT ![i] = 1]
      BY <1>4 DEF GCCopy
    <2>4. \A j \in FileId : records'[j] = records[j] \/ (j = i /\ records'[j] = 1)
      BY <1>t, <2>1, <2>3
    <2>5. OpenLocked'
      BY <1>o, <1>t, <2>1, <2>2 DEF OpenLocked, Copying
    <2>6. RecordInv'
      BY <1>t, <1>u, <2>1, <2>2, <2>4, RecordGC
    <2> QED BY <2>5, <2>6
  <1>5. CASE GCSync
    <2>1. UNCHANGED <<wr, records>> /\ gc.at = "sync" /\ gc' = [gc EXCEPT !.at = "release"]
      BY <1>5 DEF GCSync
    <2>2. gc'.file = i
      BY <1>t, <2>1
    <2>3. OpenLocked'
      BY <1>o, <1>t, <2>1, <2>2 DEF OpenLocked, Copying
    <2>4. RecordInv'
      BY <1>t, <1>u, <2>1, <2>2, RecordGC
    <2> QED BY <2>3, <2>4
  <1>6. CASE GCRelease
    <2>1. /\ i \in FileId /\ UNCHANGED records /\ wr[i] # "handle"
          /\ wr' = [wr EXCEPT ![i] = None]
          /\ gc' = [gc EXCEPT !.at = "end", !.file = None]
      BY <1>6, <1>f, <1>t DEF GCRelease, Copying, OpenLocked
    <2>2. /\ wr'[i] = None /\ \A j \in FileId \ {i} : wr'[j] = wr[j]
          /\ gc'.file = None /\ gc'.at = "end"
      BY <1>t, <2>1
    <2>3. OpenLocked'
      <3>1. \A j \in handle : j \in FileId
        BY <1>t DEF TypeInv, Types, TypeOK
      <3>2. \A t \in Thread : call[t].at = "buffer" => call[t].file \in FileId
        BY <1>t, CallHas
      <3> QED BY <1>o, <1>t, <2>1, <2>2, <3>1, <3>2 DEF OpenLocked, Copying
    <2>4. RecordInv'
      BY <1>t, <1>u, <2>1, <2>2, Consts, RecordGC
    <2> QED BY <2>3, <2>4
  <1>7. CASE GCEnd
    <2>1. /\ UNCHANGED <<wr, records>>
          /\ gc' = [at |-> "idle", name |-> None, file |-> None]
      BY <1>7 DEF GCEnd
    <2> QED BY <1>o, <1>t, <1>u, <2>1, RecordGC DEF Copying
  <1> QED BY <1>1, <1>2, <1>3, <1>4, <1>5, <1>6, <1>7 DEF Collects

\* RocksDB tells the level and the keys of a table while its handle has the lock.
LEMMA LocksDescribe ==
    ASSUME LocksInv, NEW i \in FileId, SetLevel(i) \/ UpdateInternalKeys(i)
    PROVE  OpenLocked' /\ RecordInv'
  <1>1. /\ UNCHANGED <<files, name, handle, wr, records, call, gc, raced>>
        /\ levelled' \subseteq levelled \union {i} /\ keyed' \subseteq keyed \union {i}
        /\ i \in handle /\ NoCall(i)
    BY DEF SetLevel, UpdateInternalKeys, DescribeUnchanged, Writing, nameVars, history,
       NoCall
  <1>2. wr[i] = "handle"
    BY <1>1 DEF LocksInv, OpenLocked
  <1>3. OpenLocked' /\ UseKnown' /\ RecordKnown'
    BY <1>1 DEF LocksInv, OpenLocked, RecordInv, UseKnown, RecordKnown, Named, NoCall
  <1>4. \A j : j # i /\ Recordable(j)' => Recordable(j)
    BY <1>1 DEF Recordable, IsSst
  <1>5. TableRecorded'
    BY <1>1, <1>2, <1>4 DEF LocksInv, RecordInv, TableRecorded, Named
  <1>6. CloseRecorded'
    <2>1. ASSUME NEW t \in Thread, call[t].file \in levelled', call[t].file \in keyed'
          PROVE  call[t].file \in levelled /\ call[t].file \in keyed
      BY <1>1, <2>1 DEF NoCall
    <2> QED BY <1>1, <2>1 DEF LocksInv, RecordInv, CloseRecorded, Named, Recordable, IsSst
  <1> QED BY <1>3, <1>5, <1>6 DEF RecordInv

\* Nothing is open, recorded or in use at first.
LEMMA LocksInit == Init => LocksInv
  <1> SUFFICES ASSUME Init PROVE LocksInv
    OBVIOUS
  <1>1. \A t \in Thread : call[t].at = "idle" /\ call[t].name = None /\ call[t].file = None
    BY DEF Init, Idle
  <1>2. TypeInv
    BY TypeInvInit
  <1>3. OpenLocked
    BY <1>1 DEF Init, OpenLocked, Copying
  <1>4. \A i \in FileId : ~Named(i) /\ NoCall(i)
    BY <1>1, Consts DEF Init, Named, NoCall
  <1>5. RecordInv
    BY <1>1, <1>4, Consts DEF Init, RecordInv, UseKnown, RecordKnown, TableRecorded,
       CloseRecorded
  <1> QED BY <1>2, <1>3, <1>5 DEF LocksInv

\* Every step preserves the invariant.
LEMMA LocksNext == LocksInv /\ [Next]_vars => LocksInv'
  <1> SUFFICES ASSUME LocksInv, [Next]_vars PROVE LocksInv'
    OBVIOUS
  <1>1. TypeInv'
    BY TypeInvNext DEF LocksInv
  <1>2. CASE Next
    BY <1>1, <1>2, LocksCall, LocksGC, LocksDescribe DEF Next, LocksInv
  <1>3. CASE UNCHANGED vars
    BY <1>1, <1>3 DEF vars, LocksInv, OpenLocked, RecordInv, UseKnown, RecordKnown,
       TableRecorded, CloseRecorded, Named, NoCall, Recordable, IsSst
  <1> QED BY <1>2, <1>3

\* levelwise_file_list_ never points to a file that is gone, unless the file was
\* deleted while in use, and it holds every closed table that has a level and keys: whatever calls,
\* migrations and failures interleave, failures to close a zone included.
THEOREM RecordsNeverDangle == Spec => []RecordsLive
  <1>1. LocksInv => RecordsLive
    <2> SUFFICES ASSUME LocksInv, NEW i \in FileId
                 PROVE  /\ records[i] > 0 /\ ~Alive(i) => i \in raced
                        /\ \A n \in Sst : (files[n] = i /\ Recordable(i) /\ wr[i] # "handle" /\
                               \A t \in Thread : call[t].file # i) => records[i] > 0
      BY DEF RecordsLive
    <2>1. records[i] \in 0..2
      BY RecordTypes DEF LocksInv
    <2>2. records[i] > 0 <=> records[i] # 0
      BY <2>1
    <2>3. Named(i) => Alive(i)
      BY DEF Named, Alive
    <2>4. ASSUME NEW n \in Sst, files[n] = i
          PROVE  Named(i)
      BY <2>4, Consts DEF Named, LocksInv, TypeInv, NamesOwn
    <2> QED BY <2>2, <2>3, <2>4 DEF LocksInv, RecordInv, RecordKnown, TableRecorded
  <1> QED BY LocksInit, LocksNext, <1>1, PTL DEF Spec

-----------------------------------------------------------------------------
(* The write lock, unless closing the zone fails.                           *)

\* A constructor waits for a buffer for file i.
Building(i) == \E t \in Thread : call[t].file = i /\ At(t, "buffer")

\* WriteLockExact for one file, and: a destructor that still has the lock has
\* failed.
Exact(i) ==
    /\ i \in handle /\ ~Released(i) => wr[i] = "handle"
    /\ wr[i] = "handle" => i \in handle \union abandoned \/ Building(i)
    /\ (wr[i] = "gc") <=> (gc.file = i /\ gc.at \in Copying)
    /\ Released(i) /\ wr[i] = "handle" => i \in abandoned

ExactInv == \A i \in FileId \ unclosed : Exact(i)

\* Which files a step of a call makes Released or Building.
LEMMA Roles ==
    ASSUME TypeInv, TypeInv', NEW t \in Thread, NEW p, NEW n, NEW f,
           Moves(t, p, n, f), NEW i \in FileId
    PROVE  /\ i = call[t].file => /\ Released(i) <=> call[t].at = "destroy"
                                  /\ Building(i) <=> call[t].at = "buffer"
           /\ i = f => /\ Released(i)' <=> p = "destroy"
                       /\ Building(i)' <=> p = "buffer"
           /\ i = call[t].file /\ i # f => ~Released(i)' /\ ~Building(i)'
           /\ i = f /\ i # call[t].file => ~Released(i) /\ ~Building(i)
           /\ i # f /\ i # call[t].file => /\ Released(i)' <=> Released(i)
                                           /\ Building(i)' <=> Building(i)
  <1>1. /\ \A s \in Thread \ {t} : call'[s] = call[s]
        /\ call'[t].at = p /\ call'[t].file = f
    BY DEF Moves
  <1>2. i = call[t].file => \A s \in Thread \ {t} : call[s].file # i
    BY Consts DEF TypeInv, OneCall
  <1>3. i = f => \A s \in Thread \ {t} : call'[s].file # i
    BY <1>1, Consts DEF TypeInv, OneCall
  <1> QED BY <1>1, <1>2, <1>3 DEF Released, Building, At

\* When a step of a call that touches neither locks nor handles preserves
\* ExactInv.
LEMMA ExactQuiet ==
    ASSUME TypeInv, TypeInv', ExactInv, NEW t \in Thread, NEW p, NEW n, NEW f,
           Moves(t, p, n, f), UNCHANGED <<gc, handle, wr>>,
           abandoned \subseteq abandoned', unclosed \subseteq unclosed',
           call[t].at \notin {"buffer", "destroy"}, p # "buffer",
           p = "destroy" => f \in abandoned'
    PROVE  ExactInv'
  <1> SUFFICES ASSUME NEW i \in FileId, i \notin unclosed' PROVE Exact(i)'
    BY DEF ExactInv
  <1>1. Exact(i)
    BY DEF ExactInv
  <1>2. Building(i)' <=> Building(i)
    BY Roles
  <1>3. Released(i) => Released(i)'
    BY Roles
  <1>4. Released(i)' => Released(i) \/ i \in abandoned'
    BY Roles
  <1> QED BY <1>1, <1>2, <1>3, <1>4 DEF Exact

\* Every step of a call preserves ExactInv.
LEMMA ExactCall ==
    ASSUME LocksInv, TypeInv', ExactInv, NEW t \in Thread,
           Asks(t) \/ Works(t)
    PROVE  ExactInv'
  <1> USE DEF At, nameVars, recordVars, tableVars, history, bounds
  <1> DEFINE f == call[t].file
  <1>t. /\ TypeInv /\ OpenLocked
        /\ wr \in [FileId -> {None, "handle", "gc"}]
    BY DEF LocksInv, TypeInv, Types, TypeOK
  <1>f. call[t].at \in Closing \union Moving \union {"wrlock", "buffer"} =>
            f \in FileId /\ f # None
    BY <1>t, CallHas, Consts
  <1>1. ASSUME NEW n \in Name, NEW where \in {"create", "reopen", "delete", "move"},
               Start(t, where, n)
        PROVE  ExactInv'
    <2>1. Moves(t, where, n, None)
      BY <1>1, <1>t, StartMoves DEF Places
    <2> QED BY <1>1, <1>t, <2>1, ExactQuiet DEF Start
  <1>2. ASSUME NEW j \in FileId, StartClose(t, j)
        PROVE  ExactInv'
    <2>1. name[j] \in Name
      BY <1>2, <1>t DEF StartClose, TypeInv, HandleHeld
    <2>2. Moves(t, "flush", name[j], j)
      BY <1>2, <1>t, <2>1 DEF StartClose, Moves, TypeInv, Types, CallSet, Places, Closing
    <2> QED BY <1>2, <1>t, <2>2, ExactQuiet DEF StartClose
  <1>3. CASE DeleteFile(t)
    BY <1>3, <1>t, DeleteEffect, ExactQuiet DEF DeleteFile
  <1>4. CASE CreateFile(t)
    <2>1. /\ call[t].name \in Name /\ next_file_id \in FileId
          /\ call[t].at = "create" /\ UNCHANGED <<gc, handle, abandoned, unclosed>>
      BY <1>4, <1>t, CreateEffect DEF CreateFile
    <2>2. CASE CreateFails(t)
      BY <1>t, <2>1, <2>2, ExactQuiet DEF CreateFails
    <2>3. CASE CreateLost(t, call[t].name)
      BY <1>t, <2>1, <2>3, ExactQuiet DEF CreateLost
    <2>4. ASSUME NEW new \in FileId, new = next_file_id, Creates(t, call[t].name, new)
          PROVE  ExactInv'
      <3> SUFFICES ASSUME NEW i \in FileId, i \notin unclosed' PROVE Exact(i)'
        BY DEF ExactInv
      <3>1. /\ Moves(t, "buffer", call[t].name, new)
            /\ wr'[new] = "handle" /\ \A j \in FileId \ {new} : wr'[j] = wr[j]
        BY <1>t, <2>4 DEF Creates
      <3>2. new \notin handle /\ gc.file # new
        <4>1. new >= new
          BY Consts
        <4> QED BY <1>t, <2>4, <4>1 DEF TypeInv, FreshUnknown
      <3>3. Exact(i) /\ f = None
        BY <1>t, <2>1 DEF ExactInv, TypeInv, CallShape, Closing, Moving
      <3>4. CASE i = new
        BY <1>t, <2>1, <3>1, <3>2, <3>4, Roles DEF Exact
      <3>5. CASE i # new
        <4>1. (Released(i)' <=> Released(i)) /\ (Building(i)' <=> Building(i))
          BY <1>t, <3>1, <3>3, <3>5, Consts, Roles
        <4> QED BY <2>1, <3>1, <3>3, <3>5, <4>1 DEF Exact
      <3> QED BY <3>4, <3>5
    <2> QED BY <1>4, <1>t, <2>1, <2>2, <2>3, <2>4, CreateEffect
  <1>5. CASE ReopenFile(t)
    <2>1. /\ call[t].at = "reopen" /\ call[t].name \in Name
          /\ UNCHANGED <<gc, handle, wr, abandoned, unclosed>>
      BY <1>5, <1>t, CallHas DEF ReopenFile
    <2>2. CASE files[call[t].name] = None
      BY <1>5, <1>t, <2>1, <2>2, GotoMoves, ExactQuiet DEF ReopenFile, Places
    <2>3. CASE files[call[t].name] # None
      <3>1. files[call[t].name] \in FileId
        BY <1>t, <2>1, <2>3 DEF TypeInv, Types, TypeOK
      <3>2. Moves(t, "wrlock", call[t].name, files[call[t].name])
        BY <1>5, <1>t, <2>3, <3>1, FindsMoves DEF ReopenFile, Places
      <3> QED BY <1>t, <2>1, <3>2, ExactQuiet
    <2> QED BY <2>2, <2>3
  <1>6. CASE AcquireWRLock(t)
    <2> SUFFICES ASSUME NEW i \in FileId, i \notin unclosed' PROVE Exact(i)'
      BY DEF ExactInv
    <2>1. /\ Moves(t, "buffer", call[t].name, f) /\ f \in FileId
          /\ call[t].at = "wrlock" /\ wr[f] = None
      BY <1>6, <1>f, <1>t, GotoMoves DEF AcquireWRLock, Places
    <2>2. /\ UNCHANGED <<gc, handle, abandoned, unclosed>>
          /\ wr'[f] = "handle" /\ \A j \in FileId \ {f} : wr'[j] = wr[j]
      BY <1>6, <1>t, <2>1 DEF AcquireWRLock
    <2>3. Exact(i)
      BY <2>2 DEF ExactInv
    <2>4. CASE i = f
      BY <1>t, <2>1, <2>2, <2>3, <2>4, Consts, Roles DEF Exact
    <2>5. CASE i # f
      BY <1>t, <2>1, <2>2, <2>3, <2>5, Roles DEF Exact
    <2> QED BY <2>4, <2>5
  <1>7. CASE ZonedWritableFile(t)
    <2> SUFFICES ASSUME NEW i \in FileId, i \notin unclosed' PROVE Exact(i)'
      BY DEF ExactInv
    <2>1. /\ Moves(t, "idle", None, None) /\ f \in FileId
          /\ call[t].at = "buffer" /\ wr[f] = "handle"
      BY <1>7, <1>f, <1>t, ReturnMoves DEF ZonedWritableFile, OpenLocked
    <2>2. UNCHANGED <<gc, wr, abandoned, unclosed>> /\ handle' = handle \union {f}
      BY <1>7 DEF ZonedWritableFile
    <2>3. Exact(i) /\ i # None
      BY <2>2, Consts DEF ExactInv
    <2>4. CASE i = f
      BY <1>t, <2>1, <2>2, <2>3, <2>4, Roles DEF Exact
    <2>5. CASE i # f
      BY <1>t, <2>1, <2>2, <2>3, <2>5, Roles DEF Exact
    <2> QED BY <2>4, <2>5
  <1>8. CASE FlushBuffer(t)
    BY <1>8, <1>t, GotoMoves, ExactQuiet DEF FlushBuffer, Places, Closing
  <1>9. CASE DataSync(t)
    <2>1. call[t].at = "datasync" /\ UNCHANGED <<gc, handle, wr, unclosed>>
      BY <1>9 DEF DataSync
    <2>2. \/ Moves(t, "record", call[t].name, f) /\ abandoned' = abandoned
          \/ Moves(t, "flush", call[t].name, f) /\ abandoned' = abandoned
          \/ Moves(t, "destroy", call[t].name, f) /\ abandoned' = abandoned \union {f}
      BY <1>9, <1>t, GotoMoves, FailsMoves DEF DataSync, Succeeds, Places, Closing
    <2> QED BY <1>t, <2>1, <2>2, ExactQuiet
  <1>10. CASE RemoveOldRecord(t)
    <2>1. \/ Moves(t, "add", call[t].name, f) \/ Moves(t, "closewr", call[t].name, f)
      BY <1>10, <1>t, GotoMoves DEF RemoveOldRecord, Places, Closing
    <2> QED BY <1>10, <1>t, <2>1, ExactQuiet DEF RemoveOldRecord
  <1>11. CASE AddRecord(t)
    BY <1>11, <1>t, GotoMoves, ExactQuiet DEF AddRecord, Places, Closing
  <1>12. CASE CloseWR(t)
    <2>1. /\ f \in FileId /\ f \in handle /\ call[t].at = "closewr"
          /\ UNCHANGED <<gc, handle>>
      BY <1>12, <1>f, <1>t DEF CloseWR, Closing, TypeInv, HandleHeld
    <2>2. CASE UNCHANGED <<wr, unclosed>> /\ Fails(t)
      <3>1. \/ Moves(t, "flush", call[t].name, f) /\ abandoned' = abandoned
            \/ Moves(t, "destroy", call[t].name, f) /\ abandoned' = abandoned \union {f}
        BY <1>t, <2>2, FailsMoves
      <3> QED BY <1>t, <2>1, <2>2, <3>1, ExactQuiet
    <2>3. CASE wr' = [wr EXCEPT ![f] = None] /\ Succeeds(t, "destroy") /\ UNCHANGED unclosed
      <3> SUFFICES ASSUME NEW i \in FileId, i \notin unclosed' PROVE Exact(i)'
        BY DEF ExactInv
      <3>1. Moves(t, "destroy", call[t].name, f) /\ abandoned' = abandoned
        BY <1>t, <2>3, GotoMoves DEF Succeeds, Places, Closing
      <3>2. wr'[f] = None /\ \A j \in FileId \ {f} : wr'[j] = wr[j]
        BY <1>t, <2>1, <2>3
      <3>3. Exact(i)
        BY <2>3 DEF ExactInv
      <3>4. CASE i = f
        BY <1>t, <2>1, <3>1, <3>2, <3>3, <3>4, Consts, Roles DEF Exact
      <3>5. CASE i # f
        BY <1>t, <2>1, <3>1, <3>2, <3>3, <3>5, Roles DEF Exact
      <3> QED BY <3>4, <3>5
    <2>4. CASE wr' = [wr EXCEPT ![f] = None] /\ Fails(t) /\ unclosed' = unclosed \union {f}
      <3> SUFFICES ASSUME NEW i \in FileId, i \notin unclosed' PROVE Exact(i)'
        BY DEF ExactInv
      <3>1. /\ \/ Moves(t, "flush", call[t].name, f)
               \/ Moves(t, "destroy", call[t].name, f)
            /\ abandoned \subseteq abandoned'
        BY <1>t, <2>4, FailsMoves
      <3>2. i # f /\ wr'[i] = wr[i] /\ Exact(i)
        BY <1>t, <2>1, <2>4 DEF ExactInv
      <3>3. (Released(i)' <=> Released(i)) /\ (Building(i)' <=> Building(i))
        BY <1>t, <3>1, <3>2, Roles
      <3> QED BY <2>1, <3>1, <3>2, <3>3 DEF Exact
    <2> QED BY <1>12, <2>2, <2>3, <2>4 DEF CloseWR, ReleaseWRLock
  <1>13. CASE DestroyHandle(t)
    <2> SUFFICES ASSUME NEW i \in FileId, i \notin unclosed' PROVE Exact(i)'
      BY DEF ExactInv
    <2>1. /\ Moves(t, "idle", None, None) /\ f \in FileId /\ call[t].at = "destroy"
      BY <1>13, <1>f, <1>t, ReturnMoves DEF DestroyHandle, Closing
    <2>2. UNCHANGED <<gc, wr, abandoned, unclosed>> /\ handle' = handle \ {f}
      BY <1>13 DEF DestroyHandle
    <2>3. Exact(i) /\ i # None
      BY <2>2, Consts DEF ExactInv
    <2>4. CASE i = f
      BY <1>t, <2>1, <2>2, <2>3, <2>4, Roles DEF Exact
    <2>5. CASE i # f
      BY <1>t, <2>1, <2>2, <2>3, <2>5, Roles DEF Exact
    <2> QED BY <2>4, <2>5
  <1>14. CASE GetFileToMove(t)
    <2>1. /\ call[t].at = "move" /\ files[call[t].name] \in FileId
          /\ UNCHANGED <<gc, handle, wr, abandoned, unclosed>>
      BY <1>14, <1>t, CallHas DEF GetFileToMove
    <2>2. Moves(t, "move_remove", call[t].name, files[call[t].name])
      BY <1>14, <1>t, <2>1, FindsMoves DEF GetFileToMove, Places, Moving
    <2> QED BY <1>t, <2>1, <2>2, ExactQuiet
  <1>15. CASE MoveRemove(t)
    BY <1>15, <1>t, GotoMoves, ExactQuiet DEF MoveRemove, Places, Moving
  <1>16. CASE MoveAdd(t)
    BY <1>16, <1>t, ReturnMoves, ExactQuiet DEF MoveAdd
  <1> QED
    BY <1>1, <1>2, <1>3, <1>4, <1>5, <1>6, <1>7, <1>8, <1>9, <1>10, <1>11, <1>12,
       <1>13, <1>14, <1>15, <1>16
    DEF Asks, Works, StartCreate, StartReopen, StartDelete, StartMove

\* Every step of the worker preserves ExactInv.
LEMMA ExactGC ==
    ASSUME LocksInv, ExactInv, (\E n \in Sst : GCStart(n)) \/ Collects
    PROVE  ExactInv'
  <1> USE DEF nameVars, history
  <1>t. /\ wr \in [FileId -> {None, "handle", "gc"}]
        /\ gc \in [at : {"idle", "get", "try", "copy", "sync", "release", "end"},
                   name : Name \union {None}, file : FileId \union {None}]
        /\ gc.at \in {"try"} \union Copying => gc.file \in FileId
    BY DEF LocksInv, TypeInv, Types, TypeOK, GCShape, Copying
  <1>u. UNCHANGED <<handle, call, abandoned, unclosed>>
    BY DEF GCStart, Collects, GCGetFile, TryAcquireWRLock, GCCopy, GCSync, GCRelease,
           GCEnd, GCUnchanged
  <1> SUFFICES ASSUME NEW i \in FileId, i \notin unclosed' PROVE Exact(i)'
    BY DEF ExactInv
  <1>e. Exact(i) /\ (Released(i)' <=> Released(i)) /\ (Building(i)' <=> Building(i))
    BY <1>u DEF ExactInv, Released, Building, At
  \* It is enough that the lock and the worker's place agree.
  <1>o. ASSUME wr'[i] = wr[i] \/ (wr[i] # "handle" /\ wr'[i] # "handle"),
               (wr'[i] = "gc") <=> (gc'.file = i /\ gc'.at \in Copying)
        PROVE  Exact(i)'
    BY <1>e, <1>o, <1>u DEF Exact
  <1>1. ASSUME NEW n \in Sst, GCStart(n)
        PROVE  Exact(i)'
    BY <1>1, <1>e, <1>o DEF GCStart, Copying, Exact
  <1>2. CASE GCGetFile
    <2>1. gc.at = "get" /\ gc'.at \notin Copying /\ UNCHANGED wr
      BY <1>2, <1>t DEF GCGetFile, Copying
    <2> QED BY <1>e, <1>o, <2>1 DEF Exact, Copying
  <1>3. CASE TryAcquireWRLock
    <2>1. gc.at = "try" /\ gc.file \in FileId
      BY <1>3, <1>t DEF TryAcquireWRLock
    <2>2. CASE wr[gc.file] = None /\ wr' = [wr EXCEPT ![gc.file] = "gc"]
               /\ gc' = [gc EXCEPT !.at = "copy"]
      <3>1. /\ wr'[gc.file] = "gc" /\ \A j \in FileId \ {gc.file} : wr'[j] = wr[j]
            /\ gc'.file = gc.file /\ gc'.at = "copy"
        BY <1>t, <2>1, <2>2
      <3> QED BY <1>e, <1>o, <2>1, <2>2, <3>1, Consts DEF Exact, Copying
    <2>3. CASE UNCHANGED wr /\ gc' = [gc EXCEPT !.at = "end", !.file = None]
      <3>1. gc'.at = "end"
        BY <1>t, <2>3
      <3> QED BY <1>e, <1>o, <2>1, <2>3, <3>1 DEF Exact, Copying
    <2> QED BY <1>3, <2>2, <2>3 DEF TryAcquireWRLock, CanAcquireWRLock
  <1>4. CASE GCCopy
    <2>1. gc.at = "copy" /\ gc'.at = "sync" /\ gc'.file = gc.file /\ UNCHANGED wr
      BY <1>4, <1>t DEF GCCopy
    <2> QED BY <1>e, <1>o, <2>1 DEF Exact, Copying
  <1>5. CASE GCSync
    <2>1. gc.at = "sync" /\ gc'.at = "release" /\ gc'.file = gc.file /\ UNCHANGED wr
      BY <1>5, <1>t DEF GCSync
    <2> QED BY <1>e, <1>o, <2>1 DEF Exact, Copying
  <1>6. CASE GCRelease
    <2>1. /\ gc.at = "release" /\ gc.file \in FileId
          /\ wr' = [wr EXCEPT ![gc.file] = None]
          /\ gc' = [gc EXCEPT !.at = "end", !.file = None]
      BY <1>6, <1>t DEF GCRelease, Copying
    <2>2. /\ wr'[gc.file] = None /\ \A j \in FileId \ {gc.file} : wr'[j] = wr[j]
          /\ gc'.at = "end"
      BY <1>t, <2>1
    <2> QED BY <1>e, <1>o, <2>1, <2>2, Consts DEF Exact, Copying
  <1>7. CASE GCEnd
    BY <1>7, <1>e, <1>o DEF GCEnd, Exact, Copying
  <1> QED BY <1>1, <1>2, <1>3, <1>4, <1>5, <1>6, <1>7 DEF Collects

\* Telling the level or the keys of a table changes nothing of it.
LEMMA ExactDescribe ==
    ASSUME ExactInv, NEW i \in FileId, SetLevel(i) \/ UpdateInternalKeys(i)
    PROVE  ExactInv'
  <1>1. UNCHANGED <<handle, wr, call, gc, abandoned, unclosed>>
    BY DEF SetLevel, UpdateInternalKeys, DescribeUnchanged, history
  <1> QED BY <1>1 DEF ExactInv, Exact, Released, Building, At

\* Whatever I/O fails: an open file is locked until it is closed, GC has the
\* lock exactly while it migrates, and only a destructor that failed leaves the
\* lock taken; a zone that fails to close (WritableFile::Close releases the lock
\* before it) costs at most its own file this, for any number of threads and
\* files.
THEOREM WriteLockHeld == Spec => []WriteLockExact
  <1>1. Init => LocksInv /\ ExactInv
    <2> SUFFICES ASSUME Init PROVE LocksInv /\ ExactInv
      OBVIOUS
    <2>1. \A t \in Thread : call[t].at = "idle"
      BY DEF Init, Idle
    <2>2. ExactInv
      BY <2>1, Consts DEF Init, ExactInv, Exact, Released, At, Copying
    <2> QED BY <2>2, LocksInit
  <1>2. LocksInv /\ ExactInv /\ [Next]_vars => LocksInv' /\ ExactInv'
    <2> SUFFICES ASSUME LocksInv, ExactInv, [Next]_vars PROVE LocksInv' /\ ExactInv'
      OBVIOUS
    <2>1. LocksInv'
      BY LocksNext
    <2>2. CASE Next
      BY <2>1, <2>2, ExactCall, ExactGC, ExactDescribe DEF Next, LocksInv
    <2>3. CASE UNCHANGED vars
      BY <2>1, <2>3 DEF vars, ExactInv, Exact, Released, Building, At
    <2> QED BY <2>1, <2>2, <2>3
  <1>3. ExactInv => WriteLockExact
    BY DEF ExactInv, Exact, WriteLockExact, Building, Copying
  <1> QED BY <1>1, <1>2, <1>3, PTL DEF Spec
=============================================================================

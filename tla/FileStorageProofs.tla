--------------------------- MODULE FileStorageProofs --------------------------
(***************************************************************************)
(* The file storage keeps the promise of a Shelf, for any identifiers and  *)
(* any number of calls: every step of it is one of the shelf's, or none.   *)
(***************************************************************************)
EXTENDS FileStorage, TLAPS

(* A process that is down does nothing, calls wait while the folder is     *)
(* listed, and the timer of the next cleanup is set when one is complete.  *)
PhaseInv ==
    /\ phase = "down" => /\ \A k \in Calls : call[k] = Free
                         /\ \A i \in Ids : todo[i] = "none"
    /\ phase = "readdir" => cleanup
    /\ timers > 0 => phase = "idle"

(* A call of create().                                                     *)
Creates(c) == c.op = "create"

(* A create() that has begun.                                              *)
Creating(c) == Creates(c) /\ c.at # "wrap"

(* Its directory is not there yet, and nobody else knows its name.         *)
Unmade(c) == Creates(c) /\ c.at \in {"wrap", "mkdir"}

(* Until the first cleanup has listed what it removes.                     *)
Starting == phase \in {"exists", "mkdir"} \/ (phase = "readdir" /\ force)

(* The first cleanup takes what was there when the process began, and what *)
(* was begun before it.                                                    *)
StartInv ==
    Starting => /\ Present \subseteq due
                /\ \A k \in Calls : Creating(call[k]) => call[k].id \in due

(* Cleanups remove what may go.                                            *)
CleanupInv == \A i \in Ids : todo[i] = "rimraf" => i \in due

(* What a call of each operation can be at.                                *)
StagesInv(c) ==
    /\ c.op = "none" => c = Free
    /\ c.op # "none" => c.id \in Ids
    /\ c.op = "create" => c.at \in {"wrap", "mkdir", "open", "write"}
    /\ c.op = "find" => c.at \in {"wrap", "readdir"}
    /\ c.op = "remove" => c.at \in {"wrap", "rimraf"}

(* What a call finds of its directory.                                     *)
CallInv(c) ==
    /\ StagesInv(c)
    /\ Unmade(c) => dir[c.id] = "none" /\ todo[c.id] = "none"
    /\ Creates(c) /\ c.at \in {"mkdir", "open"} => c.id \notin uploaded
    /\ c.at = "open" => dir[c.id] \in {"none", "empty"}
    /\ c.at = "write" => dir[c.id] = "part" \/ c.id \in due
    /\ c.at = "rimraf" => c.id \in due

(* Two calls of create() have two identifiers, and what is not made yet is *)
(* not asked for.                                                          *)
Apart(c, d) == Creates(c) /\ (Unmade(c) \/ Creates(d)) => c.id # d.id

CallsInv ==
    /\ \A k \in Calls : CallInv(call[k])
    /\ \A k, l \in Calls : k # l => Apart(call[k], call[l])

(* The inductive invariant.                                                *)
Inv == TypeOK /\ PhaseInv /\ StartInv /\ CleanupInv /\ CallsInv

-----------------------------------------------------------------------------

(* Calls that go on as they are, or end, keep what they found.             *)
LEMMA CallsKept ==
    ASSUME Inv, due \subseteq due',
           \A l \in Calls : call'[l] \in {call[l], Free},
           \A l \in Calls : Creates(call'[l]) =>
               LET i == call[l].id IN
               /\ i \in uploaded' => i \in uploaded
               /\ \/ dir'[i] = dir[i]
                  \/ i \in due' /\ (dir'[i] = "none" \/ (dir'[i] = "empty" /\ dir[i] # "none"))
               /\ dir[i] = "none" /\ todo[i] = "none" => todo'[i] = "none"
    PROVE  CallsInv'
<1>0. Free.op = "none" /\ Free.at = "done"
  BY DEF Free
<1>1. ASSUME NEW l \in Calls
      PROVE  CallInv(call[l])'
  <2>1. CASE call'[l] = Free
    BY <1>0, <2>1 DEF CallInv, StagesInv, Unmade, Creates
  <2>2. CASE call'[l] = call[l]
    <3>1. CallInv(call[l])
      BY DEF Inv, CallsInv
    <3> DEFINE c == call[l]
    <3>2. StagesInv(c)'
      BY <2>2, <3>1 DEF CallInv, StagesInv
    <3>3. CASE ~Creates(c)
      <4>1. c.op \in {"none", "find", "remove"}
        BY <3>3 DEF Inv, TypeOK, Call, Creates
      <4>2. c.at \notin {"open", "write"}
        BY <1>0, <3>1, <4>1 DEF CallInv, StagesInv
      <4>3. QED
        BY <2>2, <3>1, <3>2, <3>3, <4>2 DEF CallInv, Unmade, Creates
    <3>4. CASE Creates(c)
      BY <2>2, <3>1, <3>2, <3>4 DEF CallInv, StagesInv, Unmade, Creates
    <3>5. QED
      BY <3>3, <3>4
  <2>3. QED
    BY <2>1, <2>2
<1>2. ASSUME NEW k \in Calls, NEW l \in Calls, k # l
      PROVE  Apart(call[k], call[l])'
  <2>1. Apart(call[k], call[l])
    BY <1>2 DEF Inv, CallsInv
  <2>2. call'[k] \in {call[k], Free} /\ call'[l] \in {call[l], Free}
    OBVIOUS
  <2>3. Creates(call[k]) => call[k].id \in Ids
    BY DEF Inv, CallsInv, CallInv, StagesInv, Creates
  <2>4. Free.id \notin Ids
    BY NoIdAssumption DEF Free
  <2>5. CASE call'[k] = Free
    BY <1>0, <2>5 DEF Apart, Creates
  <2>6. CASE call'[k] = call[k] /\ call'[l] = Free
    BY <2>3, <2>4, <2>6 DEF Apart
  <2>7. CASE call'[k] = call[k] /\ call'[l] = call[l]
    BY <2>1, <2>7 DEF Apart, Unmade, Creates
  <2>8. QED
    BY <2>2, <2>5, <2>6, <2>7
<1>3. QED
  BY <1>1, <1>2 DEF CallsInv

(* What a call needs to begin with its directory.                          *)
Sole(k, op, i) ==
    /\ op = "create" => /\ dir[i] = "none"
                        /\ todo[i] = "none"
                        /\ \A l \in Calls \ {k} : call[l].id # i
    /\ op # "create" => \A l \in Calls \ {k} : Unmade(call[l]) => call[l].id # i

(* One call goes on, and the others find what they found.                  *)
LEMMA CallGoesOn ==
    ASSUME Inv, NEW k \in Calls, NEW c \in Call,
           call' = [call EXCEPT ![k] = c],
           CallInv(call[k])',
           \A l \in Calls \ {k} :
               CallInv(call[l])' /\ Apart(c, call[l]) /\ Apart(call[l], c)
    PROVE  CallsInv'
<1>1. /\ call'[k] = c
      /\ \A l \in Calls \ {k} : call'[l] = call[l]
  BY DEF Inv, TypeOK
<1>2. ASSUME NEW m \in Calls, NEW l \in Calls, m # l
      PROVE  Apart(call[m], call[l])'
  <2>1. Apart(call[m], call[l])
    BY <1>2 DEF Inv, CallsInv
  <2>2. QED
    BY <1>1, <1>2, <2>1 DEF Apart, Unmade, Creates
<1>3. QED
  BY <1>2 DEF CallsInv

(* A new call is apart from the others.                                    *)
LEMMA SoleApart ==
    ASSUME Inv, NEW k \in Calls, NEW op \in DOMAIN First, NEW i \in Ids, Sole(k, op, i),
           NEW at, NEW l \in Calls \ {k}
    PROVE  LET c == [op |-> op, id |-> i, at |-> at] IN
           Apart(c, call[l]) /\ Apart(call[l], c)
<1>1. CASE op = "create"
  BY <1>1 DEF Sole, Apart
<1>2. CASE op # "create"
  BY <1>2 DEF Sole, Apart, Unmade, Creates
<1>3. QED
  BY <1>1, <1>2

-----------------------------------------------------------------------------
(* Each step keeps the invariant. *)

(* The first cleanup begins, or there is no folder to clean up.            *)
LEMMA FolderKeeps ==
    ASSUME Inv, FolderChecked \/ \E made \in BOOLEAN : FolderMade(made)
    PROVE  Inv'
<1>1. /\ phase \in {"exists", "mkdir"} /\ phase' \in {"mkdir", "readdir", "idle"}
      /\ phase' = "readdir" => cleanup'
      /\ UNCHANGED <<dir, age, timers, call, history, todo>>
      /\ folder' \in BOOLEAN /\ force' \in BOOLEAN /\ cleanup' \in BOOLEAN
  BY DEF Inv, TypeOK, FolderChecked, FolderMade, BeginCleanup
<1>2. TypeOK'
  BY <1>1 DEF Inv, TypeOK, history
<1>3. PhaseInv'
  BY <1>1 DEF Inv, PhaseInv
<1>4. StartInv'
  BY <1>1 DEF Inv, StartInv, Starting, Present, history
<1>5. CleanupInv'
  BY <1>1 DEF Inv, CleanupInv, history
<1>6. CallsInv'
  BY <1>1, CallsKept DEF history
<1>7. QED
  BY <1>2, <1>3, <1>4, <1>5, <1>6 DEF Inv

(* The next cleanup begins.                                                *)
LEMMA TimerKeeps ==
    ASSUME Inv, TimerFires
    PROVE  Inv'
<1>1. /\ timers \in 0 .. 1 /\ timers > 0 /\ timers' = timers - 1
      /\ phase' = "readdir" /\ cleanup' /\ ~force'
      /\ cleanup' \in BOOLEAN /\ force' \in BOOLEAN
      /\ UNCHANGED <<folder, dir, age, call, history, todo>>
  <2>1. cleanup' = TRUE /\ force' = FALSE
    BY Zenon DEF TimerFires, BeginCleanup
  <2>2. cleanup' /\ ~force' /\ cleanup' \in BOOLEAN /\ force' \in BOOLEAN
    BY <2>1
  <2>3. QED
    BY <2>2 DEF Inv, TypeOK, TimerFires, BeginCleanup
<1>2. TypeOK'
  <2>1. timers' \in 0 .. 1
    BY <1>1
  <2>2. QED
    BY <1>1, <2>1 DEF Inv, TypeOK, history
<1>3. PhaseInv'
  BY <1>1 DEF PhaseInv
<1>4. StartInv'
  BY <1>1 DEF StartInv, Starting
<1>5. CleanupInv'
  BY <1>1 DEF Inv, CleanupInv, history
<1>6. CallsInv'
  BY <1>1, CallsKept DEF history
<1>7. QED
  BY <1>2, <1>3, <1>4, <1>5, <1>6 DEF Inv

(* A cleanup that completes, or goes on, keeps types and phases.           *)
LEMMA CompleteFacts ==
    ASSUME Inv, phase \in {"readdir", "dirs"}, Complete
    PROVE  /\ phase' = "idle" /\ timers' = 1
           /\ cleanup' \in BOOLEAN /\ force' \in BOOLEAN
           /\ age' \in [Ids -> 0 .. 2]
<1>1. timers = 0
  BY DEF Inv, TypeOK, PhaseInv
<1>2. age' \in [Ids -> 0 .. 2]
  BY DEF Inv, TypeOK, Complete, Older
<1>3. cleanup' = FALSE /\ force' = FALSE
  BY Zenon DEF Complete
<1>4. cleanup' \in BOOLEAN /\ force' \in BOOLEAN
  BY <1>3
<1>5. QED
  BY <1>1, <1>2, <1>4 DEF Complete

(* What the cleanup is to look at, or to remove.                           *)
LEMMA ListedKeeps ==
    ASSUME Inv, NEW read \in BOOLEAN, Listed(read)
    PROVE  Inv'
<1>1. /\ phase = "readdir"
      /\ UNCHANGED <<folder, dir, call, history>>
  BY DEF Listed
<1> DEFINE Listing ==
              /\ todo' = [i \in Ids |-> IF i \notin Present THEN "none"
                                        ELSE IF force THEN "rimraf" ELSE "stat"]
              /\ phase' = "dirs"
              /\ UNCHANGED <<age, force, cleanup, timers>>
<1>2. \/ Listing
      \/ UNCHANGED todo /\ phase' = "idle" /\ timers' = 1 /\ cleanup' \in BOOLEAN
         /\ force' \in BOOLEAN /\ age' \in [Ids -> 0 .. 2]
  BY <1>1, CompleteFacts DEF Listed
<1>3. TypeOK'
  BY <1>1, <1>2 DEF Inv, TypeOK, history
<1>4. PhaseInv'
  BY <1>1, <1>2 DEF Inv, PhaseInv
<1>5. StartInv'
  BY <1>2 DEF StartInv, Starting
<1>6. CleanupInv'
  BY <1>1, <1>2 DEF Inv, CleanupInv, StartInv, Starting, history
<1>7. CallsInv'
  <2>1. ASSUME NEW l \in Calls, Creates(call'[l])
        PROVE  dir[call[l].id] = "none" /\ todo[call[l].id] = "none" => todo'[call[l].id] = "none"
    <3>1. call[l].id \in Ids
      BY <1>1, <2>1 DEF Inv, CallsInv, CallInv, StagesInv, Creates
    <3>2. QED
      BY <1>2, <3>1 DEF Present
  <2>2. QED
    BY <1>1, <2>1, CallsKept DEF history
<1>8. QED
  BY <1>3, <1>4, <1>5, <1>6, <1>7 DEF Inv

(* A task of a cleanup that is over.                                       *)
LEMMA DoneFacts ==
    ASSUME Inv, NEW i \in Ids, NEW failed \in BOOLEAN, Done(i, failed), todo[i] # "none"
    PROVE  /\ todo' = [todo EXCEPT ![i] = "none"]
           /\ age' \in [Ids -> 0 .. 2]
           /\ \/ UNCHANGED <<phase, force, cleanup, timers>>
              \/ phase' = "idle" /\ timers' = 1 /\ cleanup' \in BOOLEAN /\ force' \in BOOLEAN
BY CompleteFacts DEF Done, Continue, Inv, TypeOK

(* What one step of rimraf does to a directory.                            *)
Goes(i) == dir' = [dir EXCEPT ![i] = IF Filled(i) THEN "empty" ELSE "none"]

LEMMA RemovingGoes ==
    ASSUME Inv, NEW i \in Ids, RemoveFile(i) \/ RemoveDirectory(i)
    PROVE  Goes(i)
BY DEF RemoveFile, RemoveDirectory, Goes

(* The tasks of a cleanup: only todo, due, the stamps and, for what is due,*)
(* the directory change.                                                   *)
LEMMA TaskKeeps ==
    ASSUME Inv, NEW i \in Ids, todo[i] # "none",
           UNCHANGED <<folder, call, uploaded>>,
           due \subseteq due', due' \subseteq due \cup {i},
           NEW t \in {"none", "rimraf"}, todo' = [todo EXCEPT ![i] = t],
           t = "rimraf" => i \in due',
           dir' = dir \/ (i \in due /\ Goes(i)),
           age' \in [Ids -> 0 .. 2],
           \/ UNCHANGED <<phase, force, cleanup, timers>>
           \/ phase' = "idle" /\ timers' = 1 /\ cleanup' \in BOOLEAN /\ force' \in BOOLEAN
    PROVE  Inv'
<1>1. phase # "down"
  BY DEF Inv, PhaseInv
<1>2. /\ dir' \in [Ids -> {"none", "empty", "part", "file"}]
      /\ \A j \in Ids : \/ dir'[j] = dir[j]
                        \/ j \in due /\ (dir'[j] = "none" \/ (dir'[j] = "empty" /\ dir[j] # "none"))
  BY DEF Inv, TypeOK, Goes, Filled
<1>3. TypeOK'
  <2>1. todo' \in [Ids -> {"none", "stat", "rimraf"}] /\ due' \in SUBSET Ids
    BY DEF Inv, TypeOK
  <2>2. CASE UNCHANGED <<phase, force, cleanup, timers>>
    BY <1>2, <2>1, <2>2 DEF Inv, TypeOK
  <2>3. CASE phase' = "idle" /\ timers' = 1 /\ cleanup' \in BOOLEAN /\ force' \in BOOLEAN
    BY <1>2, <2>1, <2>3 DEF Inv, TypeOK
  <2>4. QED
    BY <2>2, <2>3
<1>4. PhaseInv'
  BY <1>1 DEF Inv, PhaseInv
<1>5. StartInv'
  <2>1. ASSUME Starting'
        PROVE  Starting
    BY <2>1 DEF Starting
  <2>2. Present' \subseteq Present
    BY <1>2 DEF Present
  <2>3. QED
    BY <2>1, <2>2 DEF Inv, StartInv
<1>6. CleanupInv'
  BY DEF Inv, TypeOK, CleanupInv
<1>7. CallsInv'
  <2>1. ASSUME NEW l \in Calls, Creates(call'[l])
        PROVE  call[l].id \in Ids
    BY <2>1 DEF Inv, CallsInv, CallInv, StagesInv, Creates
  <2>2. \A j \in Ids : todo[j] = "none" => todo'[j] = "none"
    BY DEF Inv, TypeOK
  <2>3. QED
    BY <1>2, <2>1, <2>2, CallsKept
<1>8. QED
  BY <1>3, <1>4, <1>5, <1>6, <1>7 DEF Inv

(* A directory is looked at.                                               *)
LEMMA StatKeeps ==
    ASSUME Inv, NEW i \in Ids, NEW old \in BOOLEAN, Stat(i, old)
    PROVE  Inv'
<1>1. todo[i] = "stat" /\ UNCHANGED <<folder, dir, call, uploaded>>
  BY DEF Stat
<1>2. ASSUME NEW failed \in BOOLEAN, Done(i, failed), due' = due
      PROVE  Inv'
  BY <1>1, <1>2, DoneFacts, TaskKeeps
<1>3. CASE dir[i] = "none" \/ ~old
  BY <1>2, <1>3 DEF Stat
<1>4. CASE dir[i] # "none" /\ old
  <2>1. age[i] > 0
    BY <1>4 DEF Stat, OldEnough
  <2>2. due' = due \cup {i} /\ todo' = [todo EXCEPT ![i] = "rimraf"] /\ Continue
    BY <1>4, <2>1 DEF Stat
  <2>3. age' \in [Ids -> 0 .. 2] /\ UNCHANGED <<phase, force, cleanup, timers>>
    BY <2>2 DEF Continue, Inv, TypeOK
  <2>4. QED
    BY <1>1, <2>2, <2>3, TaskKeeps
<1>5. QED
  BY <1>3, <1>4

(* A directory is removed, or its file first, or neither can be.           *)
LEMMA RimrafKeeps ==
    ASSUME Inv, NEW i \in Ids, Rimraf(i) \/ RimrafFails(i)
    PROVE  Inv'
<1>1. /\ todo[i] = "rimraf" /\ i \in due
      /\ UNCHANGED <<folder, call, uploaded, due>>
  BY DEF Rimraf, RimrafFails, Inv, CleanupInv, history
<1>2. CASE RemoveFile(i) /\ UNCHANGED storage
  <2>1. todo' = [todo EXCEPT ![i] = "rimraf"] /\ UNCHANGED <<phase, force, cleanup, timers>>
    BY <1>1, <1>2 DEF storage, Inv, TypeOK
  <2>2. age' \in [Ids -> 0 .. 2]
    BY <1>2 DEF RemoveFile, Inv, TypeOK
  <2>3. QED
    BY <1>1, <1>2, <2>1, <2>2, RemovingGoes, TaskKeeps
<1>3. CASE RemoveDirectory(i) /\ Done(i, FALSE)
  BY <1>1, <1>3, RemovingGoes, DoneFacts, TaskKeeps
<1>4. CASE RimrafFails(i)
  BY <1>1, <1>4, DoneFacts, TaskKeeps DEF RimrafFails
<1>5. QED
  BY <1>2, <1>3, <1>4 DEF Rimraf

(* What the others find stays when one call changes its own directory's    *)
(* state only.                                                             *)
LEMMA OthersKept ==
    ASSUME Inv, NEW k \in Calls, NEW l \in Calls \ {k}, call'[l] = call[l],
           UNCHANGED todo,
           LET i == call[l].id IN
           call[l].op # "none" =>
               /\ Creates(call[l]) => (i \in uploaded' => i \in uploaded) /\ dir'[i] = dir[i]
               /\ i \in due => i \in due'
    PROVE  CallInv(call[l])'
<1>1. CallInv(call[l])
  BY DEF Inv, CallsInv
<1>2. StagesInv(call[l])'
  BY <1>1 DEF CallInv, StagesInv
<1>3. call[l].op \in {"none", "create", "find", "remove"}
  BY DEF Inv, TypeOK, Call
<1>4. CASE call[l].op = "none"
  BY <1>1, <1>2, <1>4 DEF CallInv, StagesInv, Creates, Unmade, Free
<1>5. CASE call[l].op = "create"
  BY <1>1, <1>2, <1>5 DEF CallInv, StagesInv, Creates, Unmade
<1>6. CASE call[l].op \in {"find", "remove"}
  BY <1>1, <1>2, <1>6 DEF CallInv, StagesInv, Creates, Unmade
<1>7. QED
  BY <1>3, <1>4, <1>5, <1>6

(* A call waits for the cleanup.                                           *)
LEMMA WrapKeeps ==
    ASSUME Inv, phase # "down", NEW k \in Calls, NEW op \in DOMAIN First, NEW i \in Ids,
           Sole(k, op, i), Wrap(k, op, i)
    PROVE  Inv'
<1> DEFINE c == [op |-> op, id |-> i, at |-> "wrap"]
<1>1. c \in Call /\ c.op = op /\ c.id = i /\ c.at = "wrap"
  BY DEF Call, First
<1>2. /\ call' = [call EXCEPT ![k] = c]
      /\ UNCHANGED <<folder, dir, age, storage, history>>
  BY DEF Wrap
<1>3. op \in {"create", "find", "remove"}
  BY DEF First
<1>4. \A l \in Calls \ {k} : Apart(c, call[l]) /\ Apart(call[l], c)
  BY SoleApart
<1> HIDE DEF c
<1>5. call'[k] = c /\ \A l \in Calls \ {k} : call'[l] = call[l]
  BY <1>2 DEF Inv, TypeOK
<1>6. TypeOK'
  BY <1>1, <1>2 DEF Inv, TypeOK, storage, history
<1>7. PhaseInv'
  BY <1>2 DEF Inv, PhaseInv, storage
<1>8. StartInv'
  BY <1>1, <1>2, <1>5 DEF Inv, StartInv, Starting, Present, Creating, Creates, storage, history
<1>9. CleanupInv'
  BY <1>2 DEF Inv, CleanupInv, storage, history
<1>10. CallInv(call[k])'
  BY <1>1, <1>2, <1>3, <1>5 DEF CallInv, StagesInv, Creates, Unmade, Sole, storage
<1>11. \A l \in Calls \ {k} : CallInv(call[l])'
  BY <1>2, <1>5, OthersKept DEF storage, history
<1>12. CallsInv'
  BY <1>1, <1>2, <1>4, <1>10, <1>11, CallGoesOn
<1>13. QED
  BY <1>6, <1>7, <1>8, <1>9, <1>12 DEF Inv

(* A call begins.                                                          *)
LEMMA StartKeeps ==
    ASSUME Inv, phase # "down", ~cleanup, NEW k \in Calls, NEW op \in DOMAIN First, NEW i \in Ids,
           Sole(k, op, i), Start(k, op, i)
    PROVE  Inv'
<1> DEFINE c == [op |-> op, id |-> i, at |-> First[op]]
<1>1. /\ c \in Call /\ c.op = op /\ c.id = i
      /\ op = "create" => c.at = "mkdir"
      /\ op = "find" => c.at = "readdir"
      /\ op = "remove" => c.at = "rimraf"
      /\ op \in {"create", "find", "remove"}
  BY DEF Call, First
<1>2. /\ call' = [call EXCEPT ![k] = c]
      /\ UNCHANGED <<folder, dir, age, storage>>
  BY DEF Start
<1>3. \A l \in Calls \ {k} : Apart(c, call[l]) /\ Apart(call[l], c)
  BY SoleApart
<1> HIDE DEF c
<1>4. /\ due' \in SUBSET Ids /\ uploaded' \in SUBSET Ids
      /\ uploaded' \subseteq uploaded /\ due \ {i} \subseteq due'
      /\ op # "create" => due \subseteq due'
      /\ op = "create" => i \notin uploaded'
      /\ op = "remove" => i \in due'
      /\ phase \in {"exists", "mkdir"} => due \subseteq due' /\ (op = "create" => i \in due')
  <2>1. CASE op = "create"
    BY <2>1 DEF Inv, TypeOK, Start
  <2>2. CASE op = "find"
    BY <2>2 DEF Inv, TypeOK, Start
  <2>3. CASE op = "remove"
    BY <2>3 DEF Inv, TypeOK, Start
  <2>4. QED
    BY <1>1, <2>1, <2>2, <2>3
<1>5. call'[k] = c /\ \A l \in Calls \ {k} : call'[l] = call[l]
  BY <1>2 DEF Inv, TypeOK
<1>6. TypeOK'
  BY <1>1, <1>2, <1>4 DEF Inv, TypeOK, storage
<1>7. PhaseInv'
  BY <1>2 DEF Inv, PhaseInv, storage
<1>8. StartInv'
  <2> SUFFICES ASSUME Starting'
               PROVE  /\ Present' \subseteq due'
                      /\ \A l \in Calls : Creating(call'[l]) => call'[l].id \in due'
    BY DEF StartInv
  <2>1. phase \in {"exists", "mkdir"} /\ Starting
    BY <1>2 DEF Inv, PhaseInv, Starting, storage
  <2>2. Present' = Present
    BY <1>2 DEF Present
  <2>3. \A l \in Calls \ {k} : Creating(call'[l]) => call'[l].id \in due'
    BY <1>4, <1>5, <2>1 DEF Inv, StartInv
  <2>4. Creating(call'[k]) => call'[k].id \in due'
    BY <1>1, <1>4, <1>5, <2>1 DEF Creating, Creates
  <2>5. QED
    BY <1>4, <2>1, <2>2, <2>3, <2>4 DEF Inv, StartInv
<1>9. CleanupInv'
  BY <1>1, <1>2, <1>4 DEF Inv, CleanupInv, Sole, storage
<1>10. CallInv(call[k])'
  BY <1>1, <1>2, <1>4, <1>5 DEF CallInv, StagesInv, Creates, Unmade, Sole, storage
<1>11. ASSUME NEW l \in Calls \ {k}
       PROVE  CallInv(call[l])'
  <2>1. op = "create" => call[l].id # i
    BY DEF Sole
  <2>2. call[l].id \in due => call[l].id \in due'
    BY <1>4, <2>1
  <2>3. call'[l] = call[l] /\ UNCHANGED todo /\ UNCHANGED dir
    BY <1>2, <1>5 DEF storage
  <2>4. QED
    BY <1>4, <2>2, <2>3, OthersKept
<1>12. CallsInv'
  BY <1>1, <1>2, <1>3, <1>10, <1>11, CallGoesOn
<1>13. QED
  BY <1>6, <1>7, <1>8, <1>9, <1>12 DEF Inv

(* Whoever calls has an identifier of his own, or one he was told, ...     *)
LEMMA AskIsSole ==
    ASSUME Inv, NEW k \in Calls, NEW op \in DOMAIN First, NEW i \in Ids, Ask(k, op, i)
    PROVE  Sole(k, op, i)
<1>1. CASE op = "create"
  BY <1>1 DEF Ask, Unused, Sole
<1>2. CASE op # "create"
  <2>1. ASSUME NEW l \in Calls, Unmade(call[l]), call[l].id = i
        PROVE  FALSE
    BY <1>2, <2>1 DEF Ask, Known, Unmade, Creates
  <2>2. QED
    BY <1>2, <2>1 DEF Sole
<1>3. QED
  BY <1>1, <1>2

(* ... and still has it when the cleanup is over.                          *)
LEMMA WaitIsSole ==
    ASSUME Inv, NEW k \in Calls, call[k].at = "wrap"
    PROVE  /\ call[k].op \in DOMAIN First /\ call[k].id \in Ids
           /\ Sole(k, call[k].op, call[k].id)
           /\ phase # "down"
<1>1. call[k] \in Call /\ CallInv(call[k])
  BY DEF Inv, TypeOK, CallsInv
<1>2. call[k].op # "none"
  BY <1>1 DEF CallInv, StagesInv, Free
<1>3. call[k].op \in {"create", "find", "remove"} /\ call[k].id \in Ids
  BY <1>1, <1>2 DEF Call, CallInv, StagesInv
<1>4. call[k].op \in DOMAIN First
  BY <1>3 DEF First
<1>5. phase # "down"
  BY DEF Inv, PhaseInv, Free
<1>6. Sole(k, call[k].op, call[k].id)
  <2>1. CASE call[k].op = "create"
    <3>1. Unmade(call[k])
      BY <2>1 DEF Unmade, Creates
    <3>2. QED
      BY <1>1, <2>1, <3>1 DEF Sole, Inv, CallsInv, CallInv, Apart, Unmade
  <2>2. CASE call[k].op # "create"
    <3>1. ASSUME NEW l \in Calls \ {k}, Unmade(call[l])
          PROVE  call[l].id # call[k].id
      <4>1. Apart(call[l], call[k])
        BY DEF Inv, CallsInv
      <4>2. QED
        BY <3>1, <4>1 DEF Apart, Unmade
    <3>2. QED
      BY <2>2, <3>1 DEF Sole
  <2>3. QED
    BY <2>1, <2>2
<1>7. QED
  BY <1>3, <1>4, <1>5, <1>6

(* A call ends, or goes on as it is, having changed what is due or its own *)
(* file only.                                                              *)
LEMMA EndKeeps ==
    ASSUME Inv, phase # "down", NEW k \in Calls,
           call' = call \/ call' = [call EXCEPT ![k] = Free],
           UNCHANGED <<folder, storage, due>>, age' \in [Ids -> 0 .. 2],
           uploaded' \in SUBSET Ids, dir' \in [Ids -> {"none", "empty", "part", "file"}],
           \A j \in Ids : dir[j] = "none" => dir'[j] = "none",
           \A l \in Calls : Creates(call'[l]) =>
               LET i == call[l].id IN
               /\ i \in uploaded' => i \in uploaded
               /\ dir'[i] = dir[i] \/ (i \in due /\ dir'[i] \in {"none", "empty"})
    PROVE  Inv'
<1>1. Free \in Call
  BY DEF Free, Call
<1>2. TypeOK'
  BY <1>1 DEF Inv, TypeOK, storage
<1>3. PhaseInv'
  BY DEF Inv, PhaseInv, storage
<1>4. \A l \in Calls : call'[l] \in {call[l], Free}
  BY DEF Inv, TypeOK
<1>5. StartInv'
  <2>1. Present' \subseteq Present
    BY DEF Present
  <2>2. ~Creating(Free)
    BY DEF Creating, Creates, Free
  <2>3. QED
    BY <1>4, <2>1, <2>2 DEF Inv, StartInv, Starting, storage
<1>6. CleanupInv'
  BY DEF Inv, CleanupInv, storage
<1>7. CallsInv'
  <2>1. ASSUME NEW l \in Calls, Creates(call'[l])
        PROVE  call[l].id \in Ids
    <3>1. call'[l] = call[l]
      BY <1>4, <2>1 DEF Creates, Free
    <3>2. QED
      BY <2>1, <3>1 DEF Inv, CallsInv, CallInv, StagesInv, Creates
  <2>2. \A j \in Ids : dir'[j] = "empty" => dir[j] # "none"
    OBVIOUS
  <2>3. QED
    BY <1>4, <2>1, <2>2, CallsKept DEF storage
<1>8. QED
  BY <1>2, <1>3, <1>5, <1>6, <1>7 DEF Inv

(* A directory is made where none is, or the call ends.                    *)
LEMMA PathMadeKeeps ==
    ASSUME Inv, NEW k \in Calls, PathMade(k)
    PROVE  Inv'
<1> DEFINE i == call[k].id
           c == [call[k] EXCEPT !.at = "open"]
<1>1. /\ call[k].at = "mkdir" /\ call[k] \in Call /\ CallInv(call[k])
      /\ UNCHANGED <<folder, storage, history>>
  BY DEF PathMade, Inv, TypeOK, CallsInv
<1>2. Creates(call[k]) /\ i \in Ids /\ dir[i] = "none" /\ i \notin uploaded /\ Creating(call[k])
  <2>1. call[k].op = "create"
    BY <1>1 DEF Call, CallInv, StagesInv, Free
  <2>2. QED
    BY <1>1, <2>1 DEF CallInv, StagesInv, Creates, Creating, Unmade
<1>3. CASE ~folder
  <2>1. call' = [call EXCEPT ![k] = Free] /\ UNCHANGED <<dir, age>>
    BY <1>3 DEF PathMade, End
  <2>2. phase # "down"
    BY <1>1 DEF Inv, PhaseInv, Free
  <2>3. QED
    BY <1>1, <2>1, <2>2, EndKeeps DEF history, Inv, TypeOK
<1>4. CASE folder
  <2>1. /\ dir' = [dir EXCEPT ![i] = "empty"] /\ age' = [age EXCEPT ![i] = 0]
        /\ call' = [call EXCEPT ![k] = c]
    BY <1>1, <1>4 DEF PathMade, Go, Inv, TypeOK
  <2>2. c \in Call /\ c.at = "open" /\ c.op = "create" /\ c.id = i
    BY <1>1, <1>2 DEF Call, Creates
  <2> HIDE DEF c
  <2>3. call'[k] = c /\ \A l \in Calls \ {k} : call'[l] = call[l]
    BY <2>1 DEF Inv, TypeOK
  <2>4. dir'[i] = "empty" /\ \A j \in Ids \ {i} : dir'[j] = dir[j]
    BY <1>2, <2>1 DEF Inv, TypeOK
  <2>5. TypeOK'
    BY <1>1, <1>2, <2>1, <2>2 DEF Inv, TypeOK, storage, history
  <2>6. PhaseInv'
    <3>1. phase # "down"
      BY <1>1 DEF Inv, PhaseInv, Free
    <3>2. QED
      BY <1>1, <3>1 DEF Inv, PhaseInv, storage
  <2>7. StartInv'
    <3>1. Starting => i \in due
      BY <1>2 DEF Inv, StartInv
    <3>2. \A l \in Calls : Creating(call'[l]) => Creating(call[l]) /\ call'[l].id = call[l].id
      BY <1>2, <2>2, <2>3
    <3>3. Present' \subseteq Present \cup {i}
      BY <2>4 DEF Present
    <3>4. QED
      BY <1>1, <3>1, <3>2, <3>3 DEF Inv, StartInv, Starting, storage, history
  <2>8. CleanupInv'
    BY <1>1 DEF Inv, CleanupInv, storage, history
  <2>9. CallInv(call[k])'
    BY <1>1, <1>2, <2>2, <2>3, <2>4 DEF CallInv, StagesInv, Creates, Unmade, history
  <2>10. \A l \in Calls \ {k} : Apart(call[k], call[l]) /\ Apart(call[l], call[k])
    BY DEF Inv, CallsInv
  <2>11. \A l \in Calls \ {k} : Apart(c, call[l]) /\ Apart(call[l], c)
    BY <1>2, <2>2, <2>10 DEF Apart, Unmade, Creates
  <2>12. ASSUME NEW l \in Calls \ {k}
         PROVE  CallInv(call[l])'
    <3>1. Creates(call[l]) => call[l].id \in Ids /\ call[l].id # i
      BY <1>2, <2>10 DEF Apart, Inv, CallsInv, CallInv, StagesInv, Creates
    <3>2. Creates(call[l]) => dir'[call[l].id] = dir[call[l].id]
      BY <2>4, <3>1
    <3>3. call'[l] = call[l] /\ UNCHANGED <<todo, uploaded, due>>
      BY <1>1, <2>3 DEF storage, history
    <3>4. QED
      BY <3>2, <3>3, OthersKept
  <2>13. CallsInv'
    BY <2>1, <2>2, <2>9, <2>11, <2>12, CallGoesOn
  <2>14. QED
    BY <2>5, <2>6, <2>7, <2>8, <2>13 DEF Inv
<1>5. QED
  BY <1>3, <1>4

(* Its file is opened, unless the directory is gone.                       *)
LEMMA WriteOpenedKeeps ==
    ASSUME Inv, NEW k \in Calls, WriteOpened(k)
    PROVE  Inv'
<1> DEFINE i == call[k].id
           c == [call[k] EXCEPT !.at = "write"]
<1>1. /\ call[k].at = "open" /\ call[k] \in Call /\ CallInv(call[k])
      /\ UNCHANGED <<folder, storage, history>>
  BY DEF WriteOpened, Inv, TypeOK, CallsInv
<1>2. Creates(call[k]) /\ i \in Ids /\ dir[i] \in {"none", "empty"} /\ i \notin uploaded
  <2>1. call[k].op = "create"
    BY <1>1 DEF Call, CallInv, StagesInv, Free
  <2>2. QED
    BY <1>1, <2>1 DEF CallInv, StagesInv, Creates
<1>3. CASE dir[i] = "none"
  <2>1. call' = [call EXCEPT ![k] = Free] /\ UNCHANGED <<dir, age>>
    BY <1>3 DEF WriteOpened, End
  <2>2. phase # "down"
    BY <1>1 DEF Inv, PhaseInv, Free
  <2>3. QED
    BY <1>1, <2>1, <2>2, EndKeeps DEF history, Inv, TypeOK
<1>4. CASE dir[i] # "none"
  <2>1. /\ dir' = [dir EXCEPT ![i] = "part"] /\ age' = [age EXCEPT ![i] = 0]
        /\ call' = [call EXCEPT ![k] = c]
    BY <1>1, <1>4 DEF WriteOpened, Go, Inv, TypeOK
  <2>2. c \in Call /\ c.at = "write" /\ c.op = "create" /\ c.id = i
    BY <1>1, <1>2 DEF Call, Creates
  <2> HIDE DEF c
  <2>3. call'[k] = c /\ \A l \in Calls \ {k} : call'[l] = call[l]
    BY <2>1 DEF Inv, TypeOK
  <2>4. dir'[i] = "part" /\ \A j \in Ids \ {i} : dir'[j] = dir[j]
    BY <1>2, <2>1 DEF Inv, TypeOK
  <2>5. TypeOK'
    BY <1>1, <1>2, <2>1, <2>2 DEF Inv, TypeOK, storage, history
  <2>6. PhaseInv'
    <3>1. phase # "down"
      BY <1>1 DEF Inv, PhaseInv, Free
    <3>2. QED
      BY <1>1, <3>1 DEF Inv, PhaseInv, storage
  <2>7. StartInv'
    <3>1. \A l \in Calls : Creating(call'[l]) => Creating(call[l]) /\ call'[l].id = call[l].id
      BY <1>1, <1>2, <2>2, <2>3 DEF Creating
    <3>2. Present' = Present
      BY <1>4, <2>4 DEF Present
    <3>3. QED
      BY <1>1, <3>1, <3>2 DEF Inv, StartInv, Starting, storage, history
  <2>8. CleanupInv'
    BY <1>1 DEF Inv, CleanupInv, storage, history
  <2>9. CallInv(call[k])'
    BY <1>1, <1>2, <2>2, <2>3, <2>4 DEF CallInv, StagesInv, Creates, Unmade, history
  <2>10. \A l \in Calls \ {k} : Apart(call[k], call[l]) /\ Apart(call[l], call[k])
    BY DEF Inv, CallsInv
  <2>11. \A l \in Calls \ {k} : Apart(c, call[l]) /\ Apart(call[l], c)
    BY <1>2, <2>2, <2>10 DEF Apart, Unmade, Creates
  <2>12. ASSUME NEW l \in Calls \ {k}
         PROVE  CallInv(call[l])'
    <3>1. Creates(call[l]) => call[l].id \in Ids /\ call[l].id # i
      BY <1>2, <2>10 DEF Apart, Inv, CallsInv, CallInv, StagesInv, Creates
    <3>2. Creates(call[l]) => dir'[call[l].id] = dir[call[l].id]
      BY <2>4, <3>1
    <3>3. call'[l] = call[l] /\ UNCHANGED <<todo, uploaded, due>>
      BY <1>1, <2>3 DEF storage, history
    <3>4. QED
      BY <3>2, <3>3, OthersKept
  <2>13. CallsInv'
    BY <2>1, <2>2, <2>9, <2>11, <2>12, CallGoesOn
  <2>14. QED
    BY <2>5, <2>6, <2>7, <2>8, <2>13 DEF Inv
<1>5. QED
  BY <1>3, <1>4

(* The file is closed, and the upload answered.                            *)
LEMMA WrittenKeeps ==
    ASSUME Inv, NEW k \in Calls, Written(k)
    PROVE  Inv'
<1> DEFINE i == call[k].id
<1>1. /\ call[k].at = "write" /\ call[k] \in Call /\ CallInv(call[k])
      /\ dir' = [dir EXCEPT ![i] = IF @ = "part" THEN "file" ELSE @]
      /\ uploaded' = uploaded \cup {i}
      /\ call' = [call EXCEPT ![k] = Free]
      /\ UNCHANGED <<folder, age, storage, due>>
  BY DEF Written, End, Inv, TypeOK, CallsInv
<1>2. Creates(call[k]) /\ i \in Ids
  <2>1. call[k].op = "create"
    BY <1>1 DEF Call, CallInv, StagesInv, Free
  <2>2. QED
    BY <1>1, <2>1 DEF CallInv, StagesInv, Creates
<1>3. phase # "down"
  BY <1>1 DEF Inv, PhaseInv, Free
<1>4. /\ dir' \in [Ids -> {"none", "empty", "part", "file"}] /\ uploaded' \in SUBSET Ids
      /\ \A j \in Ids : dir[j] = "none" => dir'[j] = "none"
      /\ \A j \in Ids \ {i} : dir'[j] = dir[j]
  BY <1>1, <1>2 DEF Inv, TypeOK
<1>5. ASSUME NEW l \in Calls, Creates(call'[l])
      PROVE  call[l].id \in Ids \ {i}
  <2>1. l # k /\ call'[l] = call[l]
    BY <1>1, <1>5 DEF Inv, TypeOK, Creates, Free
  <2>2. Apart(call[k], call[l])
    BY <2>1 DEF Inv, CallsInv
  <2>3. QED
    BY <1>2, <1>5, <2>1, <2>2 DEF Apart, Inv, CallsInv, CallInv, StagesInv, Creates
<1>6. age' \in [Ids -> 0 .. 2]
  BY <1>1 DEF Inv, TypeOK
<1>7. QED
  BY <1>1, <1>3, <1>4, <1>5, <1>6, EndKeeps

(* A call that ends having changed nothing.                                *)
LEMMA OnlyEndKeeps ==
    ASSUME Inv, NEW k \in Calls, call[k].at # "done", End(k),
           UNCHANGED <<folder, dir, age, storage, history>>
    PROVE  Inv'
<1>1. phase # "down"
  BY DEF Inv, PhaseInv, Free
<1>2. QED
  BY <1>1, EndKeeps DEF End, history, Inv, TypeOK

(* A remove() goes on.                                                     *)
LEMMA RemovedKeeps ==
    ASSUME Inv, NEW k \in Calls, Removed(k)
    PROVE  Inv'
<1> DEFINE i == call[k].id
<1>1. /\ call[k].at = "rimraf" /\ call[k] \in Call /\ CallInv(call[k])
      /\ dir' = [dir EXCEPT ![i] = IF Filled(i) THEN "empty" ELSE "none"]
      /\ UNCHANGED <<folder, storage, history>>
      /\ age' = age \/ age' = [age EXCEPT ![i] = 0]
      /\ call' = call \/ call' = [call EXCEPT ![k] = Free]
  BY DEF Removed, RemoveFile, RemoveDirectory, End, Inv, TypeOK, CallsInv
<1>2. i \in due /\ i \in Ids
  BY <1>1 DEF CallInv, Inv, TypeOK
<1>3. phase # "down"
  BY <1>1 DEF Inv, PhaseInv, Free
<1>4. /\ dir' \in [Ids -> {"none", "empty", "part", "file"}]
      /\ \A j \in Ids : dir[j] = "none" => dir'[j] = "none"
      /\ \A j \in Ids \ {i} : dir'[j] = dir[j]
      /\ dir'[i] \in {"none", "empty"}
  BY <1>1, <1>2 DEF Inv, TypeOK, Filled
<1>5. ASSUME NEW l \in Calls, Creates(call'[l])
      PROVE  call[l].id \in Ids
  <2>1. call'[l] = call[l]
    BY <1>1, <1>5 DEF Inv, TypeOK, Creates, Free
  <2>2. QED
    BY <1>5, <2>1 DEF Inv, CallsInv, CallInv, StagesInv, Creates
<1>6. \A l \in Calls : Creates(call'[l]) =>
         dir'[call[l].id] = dir[call[l].id] \/ (call[l].id \in due /\ dir'[call[l].id] \in {"none", "empty"})
  BY <1>2, <1>4, <1>5
<1>7. /\ uploaded' \in SUBSET Ids /\ uploaded' = uploaded /\ due' = due
      /\ age' \in [Ids -> 0 .. 2]
  BY <1>1 DEF Inv, TypeOK, history
<1>8. QED
  BY <1>1, <1>3, <1>4, <1>6, <1>7, EndKeeps

(* Nothing is under way in a process that ended.                           *)
LEMMA DownKeeps ==
    ASSUME Inv, Down
    PROVE  Inv'
<1>1. /\ phase' = "down" /\ timers' = 0
      /\ \A i \in Ids : todo'[i] = "none"
      /\ \A k \in Calls : call'[k] = Free
      /\ todo' \in [Ids -> {"none", "stat", "rimraf"}]
      /\ UNCHANGED <<folder, dir, age, force, history>>
  BY DEF Down
<1>2. Free \in Call /\ Free.op = "none"
  BY DEF Free, Call
<1>3. call' \in [Calls -> Call]
  BY <1>2 DEF Down
<1>4. cleanup' \in BOOLEAN
  <2>1. cleanup' = FALSE
    BY Zenon DEF Down
  <2>2. QED
    BY <2>1
<1>5. TypeOK'
  BY <1>1, <1>3, <1>4 DEF Inv, TypeOK, history
<1>6. PhaseInv' /\ StartInv' /\ CleanupInv'
  BY <1>1 DEF PhaseInv, StartInv, Starting, CleanupInv
<1>7. CallsInv'
  BY <1>1, <1>2, CallsKept DEF history, Creates
<1>8. QED
  BY <1>5, <1>6, <1>7 DEF Inv

-----------------------------------------------------------------------------

(* A process that starts has no call, and may remove whatever it finds.    *)
LEMMA InitInv == Init => Inv
<1> SUFFICES ASSUME Init
             PROVE  Inv
  OBVIOUS
<1>1. Free \in Call /\ Free.op = "none" /\ Free.at = "done"
  BY DEF Free, Call
<1>2. TypeOK
  <2>1. force \in BOOLEAN /\ cleanup \in BOOLEAN
    BY Zenon DEF Init
  <2>2. QED
    BY <1>1, <2>1 DEF Init, TypeOK, Present
<1>3. PhaseInv /\ StartInv /\ CleanupInv
  BY <1>1 DEF Init, PhaseInv, StartInv, CleanupInv, Creating, Creates
<1>4. CallsInv
  BY <1>1 DEF Init, CallsInv, CallInv, StagesInv, Unmade, Creates, Apart
<1>5. QED
  BY <1>2, <1>3, <1>4 DEF Inv

(* The conjunction is inductive.                                           *)
LEMMA InvStep == Inv /\ [Next]_vars => Inv'
<1> SUFFICES ASSUME Inv, [Next]_vars
             PROVE  Inv'
  OBVIOUS
<1>1. CASE UNCHANGED vars
  BY <1>1 DEF vars, Inv, TypeOK, PhaseInv, StartInv, Starting, Present, Creating, Creates, CleanupInv,
              CallsInv, CallInv, StagesInv, Unmade, Apart
<1>2. ASSUME NEW k \in Calls, NEW op \in DOMAIN First, NEW i \in Ids, Ask(k, op, i)
      PROVE  Inv'
  <2>1. Sole(k, op, i)
    BY <1>2, AskIsSole
  <2>2. CASE cleanup
    BY <1>2, <2>1, <2>2, WrapKeeps DEF Ask
  <2>3. CASE ~cleanup
    BY <1>2, <2>1, <2>3, StartKeeps DEF Ask
  <2>4. QED
    BY <2>2, <2>3
<1>3. ASSUME NEW k \in Calls, AskedAgain(k)
      PROVE  Inv'
  BY <1>3, WaitIsSole, StartKeeps DEF AskedAgain
<1>4. ASSUME NEW k \in Calls, DirectoryRead(k)
      PROVE  Inv'
  <2>1. CASE dir[call[k].id] = "empty"
    BY <1>4, <2>1, DownKeeps DEF DirectoryRead
  <2>2. CASE dir[call[k].id] # "empty"
    BY <1>4, <2>2, OnlyEndKeeps DEF DirectoryRead
  <2>3. QED
    BY <2>1, <2>2
<1>5. CASE Kill
  BY <1>5, DownKeeps DEF Kill
<1>6. CASE FolderChecked \/ \E b \in BOOLEAN : FolderMade(b) \/ Listed(b)
  BY <1>6, FolderKeeps, ListedKeeps
<1>7. CASE TimerFires
  BY <1>7, TimerKeeps
<1>8. CASE \E i \in Ids : (\E old \in BOOLEAN : Stat(i, old)) \/ Rimraf(i) \/ RimrafFails(i)
  BY <1>8, StatKeeps, RimrafKeeps
<1>9. CASE \E k \in Calls : PathMade(k) \/ WriteOpened(k) \/ Written(k) \/ Removed(k)
  BY <1>9, PathMadeKeeps, WriteOpenedKeeps, WrittenKeeps, RemovedKeeps
<1>10. CASE \E k \in Calls : WriteFails(k) \/ RemoveFails(k)
  BY <1>10, OnlyEndKeeps, DownKeeps DEF WriteFails, RemoveFails
<1>11. QED
  BY <1>1, <1>2, <1>3, <1>4, <1>5, <1>6, <1>7, <1>8, <1>9, <1>10 DEF Next

-----------------------------------------------------------------------------
(* Each step is one of the shelf's, or none. *)

ShelfStays == UNCHANGED <<dir, uploaded, due>> /\ (phase # "down" <=> phase' # "down")

(* What a user of the shelf sees of a step that leaves it alone.           *)
LEMMA StaysIsStutter == ShelfStays => UNCHANGED Promise!shelfVars
BY Zenon DEF ShelfStays, Promise!shelfVars

(* A task of a cleanup, or a call, that removes what may go.               *)
LEMMA RemoveIsTake ==
    ASSUME Inv, NEW i \in Ids, i \in due, Goes(i), phase # "down", phase' # "down",
           UNCHANGED <<uploaded, due>>
    PROVE  [Promise!ShelfNext]_(Promise!shelfVars)
<1>1. CASE dir[i] = "none"
  <2>1. dir' = dir
    BY <1>1 DEF Inv, TypeOK, Goes, Filled
  <2>2. QED
    BY <2>1, StaysIsStutter DEF ShelfStays
<1>2. CASE dir[i] # "none"
  <2>1. Promise!Take(i)
    BY <1>2 DEF Promise!Take, Goes, Filled
  <2>2. QED
    BY <2>1 DEF Promise!ShelfNext
<1>3. QED
  BY <1>1, <1>2

(* A call that begins.                                                     *)
LEMMA StartIsPromised ==
    ASSUME Inv, phase # "down", NEW k \in Calls, NEW op \in DOMAIN First, NEW i \in Ids,
           Sole(k, op, i), Start(k, op, i)
    PROVE  [Promise!ShelfNext]_(Promise!shelfVars)
<1>1. UNCHANGED <<dir, phase>>
  BY DEF Start, storage
<1>2. CASE op = "create"
  <2>1. PICK ready \in BOOLEAN : ready <=> phase \notin {"exists", "mkdir"}
    OBVIOUS
  <2>2. due' = IF ready THEN due \ {i} ELSE due \cup {i}
    BY <1>2, <2>1 DEF Start
  <2>3. Promise!Begin(i, ready)
    BY <1>1, <1>2, <2>2 DEF Sole, Start, Promise!Begin
  <2>4. QED
    BY <2>3 DEF Promise!ShelfNext
<1>3. CASE op = "find"
  <2>1. UNCHANGED <<due, uploaded>>
    BY <1>3 DEF Start
  <2>2. QED
    BY <1>1, <2>1, StaysIsStutter DEF ShelfStays
<1>4. CASE op = "remove"
  <2>1. Promise!Release(i)
    BY <1>1, <1>4 DEF Start, Promise!Release
  <2>2. QED
    BY <2>1 DEF Promise!ShelfNext
<1>5. QED
  BY <1>2, <1>3, <1>4 DEF First

(* A process that ends.                                                    *)
LEMMA DownIsStop ==
    ASSUME phase # "down", Down
    PROVE  [Promise!ShelfNext]_(Promise!shelfVars)
<1>1. Promise!Stop
  BY DEF Down, history, Promise!Stop
<1>2. QED
  BY <1>1 DEF Promise!ShelfNext

(* Every step of the file storage is one that the shelf allows.            *)
LEMMA StepIsPromised == Inv /\ [Next]_vars => [Promise!ShelfNext]_(Promise!shelfVars)
<1> SUFFICES ASSUME Inv, [Next]_vars
             PROVE  [Promise!ShelfNext]_(Promise!shelfVars)
  OBVIOUS
<1> DEFINE Goal == [Promise!ShelfNext]_(Promise!shelfVars)
<1>0. ASSUME ShelfStays
      PROVE  Goal
  BY <1>0, StaysIsStutter
<1> HIDE DEF Goal
<1>1. CASE UNCHANGED vars
  BY <1>0, <1>1 DEF vars, ShelfStays, Goal
<1>2. CASE FolderChecked \/ \E b \in BOOLEAN : FolderMade(b) \/ Listed(b)
  BY <1>0, <1>2 DEF FolderChecked, FolderMade, Listed, BeginCleanup, Complete, history, ShelfStays, Goal
<1>3. CASE TimerFires
  <2>1. phase = "idle"
    BY <1>3 DEF TimerFires, Inv, PhaseInv, TypeOK
  <2>2. QED
    BY <1>0, <1>3, <2>1 DEF TimerFires, BeginCleanup, history, ShelfStays, Goal
<1>4. ASSUME NEW i \in Ids, todo[i] # "none"
      PROVE  phase # "down"
  BY <1>4 DEF Inv, PhaseInv
<1>5. ASSUME NEW k \in Calls, call[k].at # "done"
      PROVE  phase # "down"
  BY <1>5 DEF Inv, PhaseInv, Free
<1>6. ASSUME NEW i \in Ids, NEW failed \in BOOLEAN, phase # "down", Done(i, failed) \/ Continue
      PROVE  phase' # "down"
  BY <1>6 DEF Done, Complete, Continue
<1>7. ASSUME NEW i \in Ids, NEW old \in BOOLEAN, Stat(i, old)
      PROVE  Goal
  <2>1. phase # "down" /\ phase' # "down" /\ UNCHANGED <<dir, uploaded>>
    BY <1>4, <1>6, <1>7 DEF Stat
  <2>2. CASE due' = due
    BY <1>0, <2>1, <2>2 DEF ShelfStays
  <2>3. CASE due' = due \cup {i}
    <3>1. Promise!Release(i)
      BY <2>1, <2>3 DEF Promise!Release
    <3>2. QED
      BY <2>1, <3>1 DEF Promise!ShelfNext, Goal
  <2>4. QED
    BY <1>7, <2>2, <2>3 DEF Stat
<1>8. ASSUME NEW i \in Ids, Rimraf(i)
      PROVE  Goal
  <2>1. phase # "down" /\ phase' # "down" /\ i \in due /\ Goes(i) /\ UNCHANGED <<uploaded, due>>
    BY <1>4, <1>6, <1>8, RemovingGoes DEF Rimraf, history, storage, Inv, CleanupInv
  <2>2. QED
    BY <2>1, RemoveIsTake DEF Goal
<1>9. ASSUME NEW k \in Calls, NEW op \in DOMAIN First, NEW i \in Ids, Ask(k, op, i)
      PROVE  Goal
  <2>1. CASE cleanup
    BY <1>0, <1>9, <2>1 DEF Ask, Wrap, storage, history, ShelfStays
  <2>2. CASE ~cleanup
    BY <1>9, <2>2, AskIsSole, StartIsPromised DEF Ask, Goal
  <2>3. QED
    BY <2>1, <2>2
<1>10. ASSUME NEW k \in Calls, AskedAgain(k)
       PROVE  Goal
  BY <1>10, WaitIsSole, StartIsPromised DEF AskedAgain, Goal
<1>11. ASSUME NEW k \in Calls
       PROVE  call[k] \in Call /\ CallInv(call[k])
  BY DEF Inv, TypeOK, CallsInv
<1>12. ASSUME NEW k \in Calls, call[k].at \in {"mkdir", "open", "write", "rimraf"}
       PROVE  /\ call[k].id \in Ids
              /\ call[k].at # "rimraf" => Creates(call[k])
  BY <1>11, <1>12 DEF Call, CallInv, StagesInv, Creates, Free
<1>13. ASSUME NEW k \in Calls, PathMade(k)
       PROVE  Goal
  <2> DEFINE i == call[k].id
  <2>1. phase # "down" /\ phase' = phase /\ i \in Ids /\ UNCHANGED <<uploaded, due>>
    BY <1>5, <1>12, <1>13 DEF PathMade, storage, history
  <2>2. CASE ~folder
    BY <1>0, <1>13, <2>1, <2>2 DEF PathMade, ShelfStays
  <2>3. CASE folder
    <3>1. dir[i] = "none" /\ i \notin uploaded
      BY <1>11, <1>12, <1>13 DEF PathMade, CallInv, Unmade
    <3>2. Promise!Make(i)
      BY <1>13, <2>1, <2>3, <3>1 DEF PathMade, Promise!Make
    <3>3. QED
      BY <2>1, <3>2 DEF Promise!ShelfNext, Goal
  <2>4. QED
    BY <2>2, <2>3
<1>14. ASSUME NEW k \in Calls, WriteOpened(k)
       PROVE  Goal
  <2> DEFINE i == call[k].id
  <2>1. phase # "down" /\ phase' = phase /\ i \in Ids /\ UNCHANGED <<uploaded, due>>
    BY <1>5, <1>12, <1>14 DEF WriteOpened, storage, history
  <2>2. CASE dir[i] = "none"
    BY <1>0, <1>14, <2>1, <2>2 DEF WriteOpened, ShelfStays
  <2>3. CASE dir[i] # "none"
    <3>1. dir[i] = "empty" /\ i \notin uploaded
      BY <1>11, <1>12, <1>14, <2>3 DEF WriteOpened, CallInv
    <3>2. Promise!Open(i)
      BY <1>14, <2>1, <2>3, <3>1 DEF WriteOpened, Promise!Open
    <3>3. QED
      BY <2>1, <3>2 DEF Promise!ShelfNext, Goal
  <2>4. QED
    BY <2>2, <2>3
<1>15. ASSUME NEW k \in Calls, Written(k)
       PROVE  Goal
  <2> DEFINE i == call[k].id
  <2>1. phase # "down" /\ phase' = phase /\ i \in Ids
    BY <1>5, <1>12, <1>15 DEF Written, storage
  <2>2. dir[i] = "part" \/ i \in due
    BY <1>11, <1>15 DEF Written, CallInv
  <2>3. Promise!Give(i)
    BY <1>15, <2>1, <2>2 DEF Written, Promise!Give
  <2>4. QED
    BY <2>1, <2>3 DEF Promise!ShelfNext, Goal
<1>16. ASSUME NEW k \in Calls, DirectoryRead(k)
       PROVE  Goal
  <2>1. phase # "down"
    BY <1>5, <1>16 DEF DirectoryRead
  <2>2. CASE dir[call[k].id] = "empty"
    BY <1>16, <2>1, <2>2, DownIsStop DEF DirectoryRead, Goal
  <2>3. CASE dir[call[k].id] # "empty"
    BY <1>0, <1>16, <2>3 DEF DirectoryRead, storage, history, ShelfStays
  <2>4. QED
    BY <2>2, <2>3
<1>17. ASSUME NEW k \in Calls, Removed(k)
       PROVE  Goal
  <2> DEFINE i == call[k].id
  <2>1. phase # "down" /\ phase' # "down" /\ i \in Ids /\ Goes(i) /\ UNCHANGED <<uploaded, due>>
    BY <1>5, <1>12, <1>17, RemovingGoes DEF Removed, storage, history
  <2>2. i \in due
    BY <1>11, <1>17 DEF Removed, CallInv
  <2>3. QED
    BY <2>1, <2>2, RemoveIsTake DEF Goal
<1>18. CASE Kill
  BY <1>18, DownIsStop DEF Kill, Goal
<1>19. ASSUME NEW i \in Ids, RimrafFails(i)
       PROVE  Goal
  BY <1>0, <1>4, <1>6, <1>19 DEF RimrafFails, history, ShelfStays
<1>20. ASSUME NEW k \in Calls, WriteFails(k) \/ RemoveFails(k)
       PROVE  Goal
  <2>1. phase # "down"
    BY <1>5, <1>20 DEF WriteFails, RemoveFails
  <2>2. CASE Down
    BY <2>1, <2>2, DownIsStop DEF Goal
  <2>3. CASE UNCHANGED <<dir, storage, history>>
    BY <1>0, <2>3 DEF storage, history, ShelfStays
  <2>4. QED
    BY <1>20, <2>2, <2>3 DEF WriteFails, RemoveFails
<1>21. QED
  BY <1>1, <1>2, <1>3, <1>7, <1>8, <1>9, <1>10, <1>13, <1>14, <1>15, <1>16, <1>17, <1>18, <1>19, <1>20
  DEF Next, Goal

-----------------------------------------------------------------------------

(* Every reachable state satisfies the inductive invariant.                *)
LEMMA Invariance == Spec => []Inv
BY InitInv, InvStep, PTL DEF Spec

(* Every reachable state is of its type.                                   *)
THEOREM TypeCorrect == Spec => []TypeOK
BY Invariance, PTL DEF Inv

(* The file storage implements the shelf: what was uploaded is there in    *)
(* full until it may be removed, whatever cleanups and calls are under way *)
(* and wherever the process ends.                                          *)
THEOREM StorageIsShelf == Spec => ImplementsShelf
<1>1. Init => Promise!ShelfInit
  BY DEF Init, Present, Promise!ShelfInit
<1>2. Inv /\ [Next]_vars => [Promise!ShelfNext]_(Promise!shelfVars)
  BY StepIsPromised
<1>3. QED
  BY <1>1, <1>2, Invariance, PTL DEF Spec, ImplementsShelf, Promise!ShelfSpec

(* Only what is due is taken, and an identifier that stops being due stops *)
(* being uploaded.                                                         *)
LEMMA UploadKeptStep ==
    ASSUME TypeOK, Promise!UploadKept, [Promise!ShelfNext]_(Promise!shelfVars)
    PROVE  Promise!UploadKept'
<1>1. CASE UNCHANGED Promise!shelfVars
  BY <1>1 DEF Promise!UploadKept, Promise!shelfVars
<1>2. CASE Promise!Stop
  BY <1>2 DEF Promise!UploadKept, Promise!Stop
<1>3. ASSUME NEW i \in Ids, NEW ready \in BOOLEAN, Promise!Begin(i, ready)
      PROVE  Promise!UploadKept'
  BY <1>3 DEF Promise!UploadKept, Promise!Begin
<1>4. ASSUME NEW i \in Ids,
             \/ Promise!Make(i) \/ Promise!Open(i) \/ Promise!Give(i)
             \/ Promise!Release(i) \/ Promise!Take(i)
      PROVE  Promise!UploadKept'
  BY <1>4 DEF TypeOK, Promise!UploadKept, Promise!Make, Promise!Open, Promise!Give,
     Promise!Release, Promise!Take
<1>5. QED
  BY <1>1, <1>2, <1>3, <1>4 DEF Promise!ShelfNext

(* An upload that was answered is there in full until somebody asks to     *)
(* remove it, it is too old, or it began before the first cleanup.         *)
THEOREM UploadsKept == Spec => []Promise!UploadKept
<1>1. Init => Promise!UploadKept
  BY DEF Init, Promise!UploadKept
<1>2. Inv /\ Promise!UploadKept /\ [Next]_vars => Promise!UploadKept'
  BY StepIsPromised, UploadKeptStep DEF Inv
<1>3. QED
  BY <1>1, <1>2, Invariance, PTL DEF Spec
=============================================================================

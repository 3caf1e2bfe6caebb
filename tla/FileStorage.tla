----------------------------- MODULE FileStorage -----------------------------
(***************************************************************************)
(* The temporary file storage (lib/storage/file.js) as lib/storage/        *)
(* fileServer.js and lib/storage/archive.js use it: uploads, downloads and *)
(* removals while cleanups come and go.  A process that is down starts     *)
(* again at Init, which allows for whatever it left.                       *)
(*                                                                         *)
(* Every file has a directory of its own, named by an identifier.  A       *)
(* cleanup removes those whose ctime is more than the time to live before  *)
(* _cleanupStamp, the end of the LAST cleanup; a cleanup starts a time to  *)
(* live after that stamp.  Time is therefore told in stamps: a directory   *)
(* changed after the last stamp stays (age 0), one changed between the     *)
(* last two may go, as the last period took longer than the time to live   *)
(* (age 1), and an older one goes (age 2).                                 *)
(***************************************************************************)
EXTENDS Naturals

CONSTANTS
    Ids,            \* identifiers of directories
    NoId,           \* no identifier
    Calls,          \* calls of the storage that may be under way at once
    Uploads,        \* bound: those that may be uploads
    Failing         \* bound: directories in which writing and removing may fail

ASSUME NoIdAssumption == NoId \notin Ids

VARIABLES
    folder,         \* the base folder exists
    dir,            \* each directory: "none", "empty", with "part" of its "file"
    age,            \* stamps since its ctime, 0 where none is
    phase,          \* what initialization or cleanup awaits; "idle"; "down"
    force,          \* the cleanup under way takes everything
    cleanup,        \* _cleanup
    timers,         \* timers of _setupTimer() pending
    todo,           \* what the cleanup awaits for each directory
    call,           \* each call: its operation, its directory, what it awaits
    uploaded,       \* history: uploads answered with their identifier, no write failed
    due             \* history: directories that somebody may remove

vars == <<folder, dir, age, phase, force, cleanup, timers, todo, call,
          uploaded, due>>

Free == [op |-> "none", id |-> NoId, at |-> "done"]

Call == [op : {"none", "create", "find", "remove"}, id : Ids \cup {NoId},
         at : {"done", "wrap", "mkdir", "open", "write", "readdir", "rimraf"}]

TypeOK ==
    /\ folder \in BOOLEAN
    /\ dir \in [Ids -> {"none", "empty", "part", "file"}]
    /\ age \in [Ids -> 0 .. 2]
    /\ phase \in {"down", "exists", "mkdir", "readdir", "dirs", "idle"}
    /\ force \in BOOLEAN
    /\ cleanup \in BOOLEAN
    /\ timers \in 0 .. 1
    /\ todo \in [Ids -> {"none", "stat", "rimraf"}]
    /\ call \in [Calls -> Call]
    /\ uploaded \in SUBSET Ids
    /\ due \in SUBSET Ids

Present == {i \in Ids : dir[i] # "none"}

(* A process and finds what those before it left. *)
Init ==
    /\ folder \in BOOLEAN
    /\ dir \in [Ids -> {"none", "empty", "file"}]
    /\ Present # {} => folder
    /\ age = [i \in Ids |-> 0]
    /\ phase = "exists"
    /\ force = FALSE
    /\ cleanup = FALSE
    /\ timers = 0
    /\ todo = [i \in Ids |-> "none"]
    /\ call = [k \in Calls |-> Free]
    /\ uploaded = {}
    /\ due = Present

storage == <<phase, force, cleanup, timers, todo>>

history == <<uploaded, due>>

-----------------------------------------------------------------------------
(* Initialization and cleanups. *)

BeginCleanup(forced) ==
    /\ cleanup' = TRUE
    /\ force' = forced
    /\ phase' = "readdir"
    /\ UNCHANGED todo

FolderChecked ==
    /\ phase = "exists"
    /\ IF folder THEN BeginCleanup(TRUE)
       ELSE phase' = "mkdir" /\ UNCHANGED <<force, cleanup, todo>>
    /\ UNCHANGED <<folder, dir, age, timers, call, history>>

(* Without its folder the storage stays without a timer. *)
FolderMade(made) ==
    /\ phase = "mkdir"
    /\ folder' = made
    /\ IF made THEN BeginCleanup(TRUE)
       ELSE phase' = "idle" /\ UNCHANGED <<force, cleanup, todo>>
    /\ UNCHANGED <<dir, age, timers, call, history>>

(* The timer; calls of the file system do not last as long as its period. *)
TimerFires ==
    /\ timers > 0
    /\ \A i \in Ids : todo[i] = "none"
    /\ timers' = timers - 1
    /\ BeginCleanup(FALSE)
    /\ UNCHANGED <<folder, dir, age, call, history>>

Older == [i \in Ids |-> CASE dir[i] = "none" -> 0
                          [] age[i] = 2 -> 2
                          [] OTHER -> age[i] + 1]

CompleteOnce ==
    /\ cleanup' = FALSE
    /\ phase' = "idle"
    /\ age' = Older
    /\ force' = FALSE
    /\ UNCHANGED timers

(* The stamp, and the timer of the next cleanup. *)
Complete ==
    /\ cleanup' = FALSE
    /\ phase' = "idle"
    /\ timers' = timers + 1
    /\ age' = Older
    /\ force' = FALSE

Continue == UNCHANGED <<age, phase, force, cleanup, timers>>

Listed(read) ==
    /\ phase = "readdir"
    /\ IF read /\ Present # {}
       THEN /\ todo' = [i \in Ids |-> IF i \notin Present THEN "none"
                                      ELSE IF force THEN "rimraf" ELSE "stat"]
            /\ phase' = "dirs"
            /\ UNCHANGED <<age, force, cleanup, timers>>
       ELSE Complete /\ UNCHANGED todo
    /\ UNCHANGED <<folder, dir, call, history>>

DoneUnlessFailed(i, failed) ==
    /\ todo' = [todo EXCEPT ![i] = "none"]
    /\ IF phase = "dirs" /\ ~failed /\ \A j \in Ids : todo'[j] = "none"
       THEN Complete ELSE Continue

(* One of the parallel tasks is over; the last one, or the first that      *)
(* fails, completes the cleanup, and the others then go on without it.     *)
Done(i, failed) ==
    /\ todo' = [todo EXCEPT ![i] = "none"]
    /\ IF phase = "dirs" /\ (failed \/ \A j \in Ids : todo'[j] = "none")
       THEN Complete ELSE Continue

OldEnough == 1 .. 2

Stat(i, old) ==
    /\ todo[i] = "stat"
    /\ old => age[i] \in OldEnough
    /\ age[i] = 2 => old
    /\ IF dir[i] = "none" THEN Done(i, TRUE) /\ UNCHANGED due
       ELSE IF old
       THEN /\ todo' = [todo EXCEPT ![i] = "rimraf"]
            /\ due' = IF age[i] > 0 THEN due \cup {i} ELSE due
            /\ Continue
       ELSE Done(i, FALSE) /\ UNCHANGED due
    /\ UNCHANGED <<folder, dir, call, uploaded>>

Filled(i) == dir[i] \in {"part", "file"}

(* rimraf: the file first, which changes the directory's ctime, then the   *)
(* directory, which may be filled again.                                   *)
RemoveFile(i) ==
    /\ Filled(i)
    /\ dir' = [dir EXCEPT ![i] = "empty"]
    /\ age' = [age EXCEPT ![i] = 0]

RemoveDirectory(i) ==
    /\ ~Filled(i)
    /\ dir' = [dir EXCEPT ![i] = "none"]

Rimraf(i) ==
    /\ todo[i] = "rimraf"
    /\ \/ RemoveFile(i) /\ UNCHANGED storage
       \/ RemoveDirectory(i) /\ Done(i, FALSE)
    /\ UNCHANGED <<folder, call, history>>

(* What is gone already is no error of rimraf's; any other ends the        *)
(* cleanup early, as a failing stat does.                                  *)
RimrafFails(i) ==
    /\ i \in Failing
    /\ todo[i] = "rimraf"
    /\ Done(i, TRUE)
    /\ UNCHANGED <<folder, dir, call, history>>

-----------------------------------------------------------------------------
(* The calls. *)

First == [create |-> "mkdir", find |-> "readdir", remove |-> "rimraf"]

Unused(i) ==
    dir[i] = "none" /\ todo[i] = "none" /\ \A k \in Calls : call[k].id # i

(* A new identifier is known to others when its directory is made. *)
Known(i) ==
    \A k \in Calls :
        call[k].id = i /\ call[k].op = "create" => call[k].at \in {"open", "write"}

(* What is created before the first cleanup began, it may take away. *)
Start(k, op, i) ==
    /\ call' = [call EXCEPT ![k] = [op |-> op, id |-> i, at |-> First[op]]]
    /\ due' = CASE op = "find" -> due
                [] op = "remove" -> due \cup {i}
                [] op = "create" -> IF phase \in {"exists", "mkdir"}
                                    THEN due \cup {i} ELSE due \ {i}
    /\ uploaded' = IF op = "create" THEN uploaded \ {i} ELSE uploaded
    /\ UNCHANGED <<folder, dir, age, storage>>

Wrap(k, op, i) ==
    /\ call' = [call EXCEPT ![k] = [op |-> op, id |-> i, at |-> "wrap"]]
    /\ UNCHANGED <<folder, dir, age, storage, history>>

(* createPath(), createWriteStream() and what follows; getFilePath() and   *)
(* createReadStream(); removeFiles(): at once, or not during a cleanup.    *)
Ask(k, op, i) ==
    /\ phase # "down"
    /\ call[k] = Free
    /\ op = "create" => k \in Uploads
    /\ IF op = "create" THEN Unused(i) ELSE Known(i)
    /\ IF cleanup THEN Wrap(k, op, i) ELSE Start(k, op, i)

AskedEarly(k) ==
    /\ call[k].at = "wrap"
    /\ Start(k, call[k].op, call[k].id)

AskedAgain(k) ==
    /\ call[k].at = "wrap"
    /\ ~cleanup
    /\ Start(k, call[k].op, call[k].id)

Go(k, at) == call' = [call EXCEPT ![k].at = at]

End(k) == call' = [call EXCEPT ![k] = Free]

PathMade(k) ==
    LET i == call[k].id IN
    /\ call[k].at = "mkdir"
    /\ IF folder
       THEN /\ dir' = [dir EXCEPT ![i] = "empty"]
            /\ age' = [age EXCEPT ![i] = 0]
            /\ Go(k, "open")
       ELSE End(k) /\ UNCHANGED <<dir, age>>
    /\ UNCHANGED <<folder, storage, history>>

WriteOpened(k) ==
    LET i == call[k].id IN
    /\ call[k].at = "open"
    /\ IF dir[i] # "none"
       THEN /\ dir' = [dir EXCEPT ![i] = "part"]
            /\ age' = [age EXCEPT ![i] = 0]
            /\ Go(k, "write")
       ELSE End(k) /\ UNCHANGED <<dir, age>>
    /\ UNCHANGED <<folder, storage, history>>

(* The stream closes, and the upload is answered with the identifier. *)
Written(k) ==
    /\ call[k].at = "write"
    /\ dir' = [dir EXCEPT ![call[k].id] = IF @ = "part" THEN "file" ELSE @]
    /\ uploaded' = uploaded \cup {call[k].id}
    /\ End(k)
    /\ UNCHANGED <<folder, age, storage, due>>

(* A process that ends, killed or by an exception nobody catches. *)
Down ==
    /\ phase' = "down"
    /\ cleanup' = FALSE
    /\ timers' = 0
    /\ todo' = [i \in Ids |-> "none"]
    /\ call' = [k \in Calls |-> Free]
    /\ UNCHANGED <<folder, dir, age, force, history>>

(* An error of the stream: next(err).  Then it closes and answers as if it *)
(* had been written: with the identifier of a part, or, as the error was   *)
(* answered before, it throws.                                             *)
WriteFails(k) ==
    /\ call[k].at = "write"
    /\ call[k].id \in Failing
    /\ \/ Down
       \/ End(k) /\ UNCHANGED <<folder, dir, age, storage, history>>

(* files[0] of an empty directory is undefined, which path.join() refuses; *)
(* what is read from a file that is there, or is not, changes nothing.     *)
DirectoryRead(k) ==
    LET i == call[k].id IN
    /\ call[k].at = "readdir"
    /\ IF dir[i] = "empty" THEN Down
       ELSE /\ End(k)
            /\ UNCHANGED <<folder, dir, age, storage, history>>

Removed(k) ==
    LET i == call[k].id IN
    /\ call[k].at = "rimraf"
    /\ \/ RemoveFile(i) /\ UNCHANGED call
       \/ RemoveDirectory(i) /\ End(k) /\ UNCHANGED age
    /\ UNCHANGED <<folder, storage, history>>

RemoveFails(k) ==
    /\ call[k].at = "rimraf"
    /\ call[k].id \in Failing
    /\ End(k)
    /\ UNCHANGED <<folder, dir, age, storage, history>>

Kill ==
    /\ phase # "down"
    /\ Down

Next ==
    \/ FolderChecked
    \/ \E b \in BOOLEAN : FolderMade(b) \/ Listed(b)
    \/ TimerFires
    \/ \E i \in Ids :
          \/ \E old \in BOOLEAN : Stat(i, old)
          \/ Rimraf(i)
          \/ RimrafFails(i)
    \/ \E k \in Calls :
          \/ \E op \in DOMAIN First, i \in Ids : Ask(k, op, i)
          \/ AskedAgain(k)
          \/ PathMade(k)
          \/ WriteOpened(k)
          \/ Written(k)
          \/ WriteFails(k)
          \/ DirectoryRead(k)
          \/ Removed(k)
          \/ RemoveFails(k)
    \/ Kill

(* The file system answers and does not fail to list the folder for ever,  *)
(* the timer fires, and somewhere between two cleanups, which are far      *)
(* apart, the 500 ms of a waiting call run out.                            *)
Fairness ==
    /\ WF_vars(FolderChecked)
    /\ WF_vars(\E made \in BOOLEAN : FolderMade(made))
    /\ SF_vars(Listed(TRUE))
    /\ WF_vars(TimerFires)
    /\ \A i \in Ids :
          WF_vars(Rimraf(i) \/ RimrafFails(i)) /\ WF_vars(\E old \in BOOLEAN : Stat(i, old))
    /\ \A k \in Calls : SF_vars(AskedAgain(k))

Spec == Init /\ [][Next]_vars

FairSpec == Spec /\ Fairness

-----------------------------------------------------------------------------

(* The storage keeps what a Shelf promises: an upload that was answered is *)
(* there in full until somebody asks to remove it or it is older than the  *)
(* time to live - unless its write had failed, or it began before the      *)
(* first cleanup, which nothing keeps it from.                             *)
Promise == INSTANCE Shelf WITH place <- dir, up <- phase # "down"

ImplementsShelf == Promise!ShelfSpec

(* Every directory is removed in the end, or, where removing may fail,     *)
(* tried again and again: the cleanups never cease, one that fails in the  *)
(* middle included, as long as the folder can be read.                     *)
Expires ==
    \A i \in Ids : dir[i] # "none" ~> \/ dir[i] = "none" \/ phase = "down"
                                      \/ i \in Failing /\ todo[i] = "rimraf"

(* A call that waits for a cleanup is let in, or the process ends. *)
LetIn == \A k \in Calls : call[k].at = "wrap" ~> call[k].at # "wrap"
=============================================================================

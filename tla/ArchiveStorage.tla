---------------------------- MODULE ArchiveStorage ----------------------------
(***************************************************************************)
(* The archive storage (lib/storage/archive.js): compress() of a directory *)
(* into a new file of the storage, and extract() of an archive into a new  *)
(* directory of it.  The storage is whatever keeps a Shelf's promises.     *)
(*                                                                         *)
(* yazl, of the vendored modules, writes the archive while the directory   *)
(* is being walked through: an entry that it cannot read, whole and to its *)
(* end, is an 'error' of the archive, and the archive is never finished    *)
(* then.  unzip may report an 'error' and 'close' nevertheless.            *)
(***************************************************************************)
EXTENDS Shelf, Naturals, Sequences, SequencesExt

CONSTANTS
    Jobs,           \* calls of compress() and extract()
    NoId,           \* no identifier yet
    Tree,           \* the folders of a directory, and the nodes in each
    Root,           \* the directory itself
    MaxTold         \* bound: answers of one call

ASSUME NoIdAssumption == NoId \notin Ids
ASSUME TreeAssumption == Root \in DOMAIN Tree

Folders == DOMAIN Tree

(* Every folder of the directory lies in it, at whatever depth. *)
ASSUME ReachAssumption ==
    \A S \in SUBSET Folders :
        Root \in S /\ (\A f \in S : Tree[f] \cap Folders \subseteq S) => S = Folders

Nodes == UNION {Tree[f] : f \in Folders}

(* lstat and readdir: nodes that are awaited; ended: archive.end(), with   *)
(* failed for what _readDir and the archive left in error; finished: the   *)
(* archive's stream is ended, so that what is added then is late; bad: the *)
(* entries that failed; told: what the callback was called with.           *)
Job == [at : {"idle", "path", "opening", "open", "extracting", "readdir", "stat", "over"},
        compress : BOOLEAN, id : Ids \cup {NoId},
        lstat : SUBSET Nodes, readdir : SUBSET Folders, added : SUBSET Nodes,
        bad : SUBSET Nodes, late : SUBSET Nodes, ended : BOOLEAN,
        finished : BOOLEAN, failed : BOOLEAN, told : Seq({"ok", "error"})]

VARIABLE job

archiveVars == <<shelfVars, job>>

ArchiveTypeOK == job \in [Jobs -> Job]

NoJob == [at |-> "idle", compress |-> FALSE, id |-> NoId, lstat |-> {},
          readdir |-> {}, added |-> {}, bad |-> {}, late |-> {}, ended |-> FALSE,
          finished |-> FALSE, failed |-> FALSE, told |-> <<>>]

ArchiveInit == job = [j \in Jobs |-> NoJob]

Tell(q, answer) == [q EXCEPT !.told = Append(q.told, answer)]

Room(j) == Len(job[j].told) < MaxTold

Put(j, q) == job' = [job EXCEPT ![j] = q]

-----------------------------------------------------------------------------

(* createPath(), whose directory is known to nobody else yet. *)
Ask(j, compress, i, ready) ==
    /\ job[j].at = "idle"
    /\ Begin(i, ready)
    /\ Put(j, [NoJob EXCEPT !.at = "path", !.compress = compress, !.id = i])

(* Then the output is opened and the walk begins, or unzip does. *)
PathMade(j) ==
    /\ job[j].at = "path"
    /\ Make(job[j].id)
    /\ Put(j, IF job[j].compress
              THEN [job[j] EXCEPT !.at = "opening", !.readdir = {Root}]
              ELSE [job[j] EXCEPT !.at = "extracting"])

PathRefused(j) ==
    /\ job[j].at = "path"
    /\ Put(j, [Tell(job[j], "error") EXCEPT !.at = "over"])
    /\ UNCHANGED shelfVars

(* Nobody listens to an 'error' of the output, or of the archive that is   *)
(* to be extracted: the process ends.                                      *)
Opened(j) ==
    /\ job[j].at = "opening"
    /\ IF place[job[j].id] = "empty"
       THEN Open(job[j].id) /\ Put(j, [job[j] EXCEPT !.at = "open"])
       ELSE Stop /\ UNCHANGED job

SourceUnreadable(j) ==
    /\ job[j].at = "extracting"
    /\ Stop
    /\ UNCHANGED job

(* _readDir(): folders and nodes are looked at in parallel.  The end of    *)
(* the last, or the first that fails, ends the archive; what else was      *)
(* under way is still added.                                               *)
EndingUnmarked(q, ok) ==
    [q EXCEPT !.ended = @ \/ ~ok \/ (q.lstat = {} /\ q.readdir = {})]

EndingAtLast(q, ok) ==
    LET over == q.lstat = {} /\ q.readdir = {}
    IN [q EXCEPT !.ended = @ \/ (ok /\ over), !.failed = @ \/ (~ok /\ ~q.ended)]

Ending(q, ok) ==
    LET over == q.lstat = {} /\ q.readdir = {}
    IN [q EXCEPT !.ended = @ \/ ~ok \/ over, !.failed = @ \/ (~ok /\ ~q.ended)]

DirRead(q, f, ok) ==
    Ending([q EXCEPT !.readdir = @ \ {f},
                     !.lstat = IF ok THEN @ \cup Tree[f] ELSE @], ok)

Looked(q, n, ok) ==
    LET file == IF ok /\ n \notin Folders THEN {n} ELSE {}
    IN Ending([q EXCEPT !.lstat = @ \ {n},
                        !.readdir = IF ok /\ n \in Folders THEN @ \cup {n} ELSE @,
                        !.added = @ \cup file,
                        !.late = IF q.finished THEN @ \cup file ELSE @], ok)

Walk(j, ok) ==
    /\ \/ \E f \in job[j].readdir : Put(j, DirRead(job[j], f, ok))
       \/ \E n \in job[j].lstat : Put(j, Looked(job[j], n, ok))
    /\ UNCHANGED shelfVars

(* An entry's stat, or its reading, fails: an 'error' of the archive, which *)
(* calls the callback at once, for each of them and even when it is over.  *)
EntryFails(j) ==
    /\ Room(j)
    /\ \E n \in (IF job[j].finished THEN job[j].late ELSE job[j].added) \ job[j].bad :
          Put(j, [Tell(job[j], "error") EXCEPT !.failed = TRUE, !.bad = @ \cup {n}])
    /\ UNCHANGED shelfVars

(* pumpEntries(): all entries are done, and the archive was ended.         *)
Finish(j) ==
    /\ job[j].ended
    /\ ~job[j].finished
    /\ job[j].bad = {}
    /\ Put(j, [job[j] EXCEPT !.finished = TRUE])
    /\ UNCHANGED shelfVars

(* A late entry is written to a stream that was ended, to whose 'error'    *)
(* nobody listens.                                                         *)
WriteAfterEnd(j) ==
    /\ job[j].late \ job[j].bad # {}
    /\ Stop
    /\ UNCHANGED job

(* The output is closed: the callback, with the error if there was one.    *)
OutputEnds(j) ==
    /\ Room(j)
    /\ job[j].at = "open"
    /\ job[j].finished
    /\ ~job[j].failed
    /\ Put(j, [Tell(job[j], "ok") EXCEPT !.at = "over"])
    /\ uploaded' = uploaded \cup {job[j].id}
    /\ UNCHANGED <<place, due, up>>

OutputCloses(j) ==
    /\ Room(j)
    /\ job[j].at = "open"
    /\ job[j].finished
    /\ IF job[j].failed
       THEN /\ Put(j, [Tell(job[j], "error") EXCEPT !.at = "over"])
            /\ UNCHANGED shelfVars
       ELSE /\ Put(j, [Tell(job[j], "ok") EXCEPT !.at = "over"])
            /\ Give(job[j].id)

-----------------------------------------------------------------------------
(* extract() *)

Unpack(j) ==
    /\ job[j].at = "extracting"
    /\ Open(job[j].id)
    /\ UNCHANGED job

ExtractFails(j) ==
    /\ Room(j)
    /\ job[j].at = "extracting"
    /\ Put(j, Tell(job[j], "error"))
    /\ UNCHANGED shelfVars

(* 'close': with options.normalize the directory is looked into first, and *)
(* a single folder in it too.                                              *)
Extracted(j, normalize) ==
    /\ Room(j)
    /\ job[j].at = "extracting"
    /\ Put(j, IF normalize THEN [job[j] EXCEPT !.at = "readdir"]
              ELSE [Tell(job[j], "ok") EXCEPT !.at = "over"])
    /\ UNCHANGED shelfVars

Normalized(j, ok, single) ==
    /\ job[j].at \in {"readdir", "stat"}
    /\ Put(j, IF ~ok THEN [Tell(job[j], "error") EXCEPT !.at = "over"]
              ELSE IF single /\ job[j].at = "readdir" THEN [job[j] EXCEPT !.at = "stat"]
              ELSE [Tell(job[j], "ok") EXCEPT !.at = "over"])
    /\ UNCHANGED shelfVars

ArchiveNext ==
    \E j \in Jobs :
        \/ \E compress \in BOOLEAN, i \in Ids, ready \in BOOLEAN : Ask(j, compress, i, ready)
        \/ PathMade(j)
        \/ PathRefused(j)
        \/ Opened(j)
        \/ SourceUnreadable(j)
        \/ \E ok \in BOOLEAN : Walk(j, ok)
        \/ EntryFails(j)
        \/ Finish(j)
        \/ WriteAfterEnd(j)
        \/ OutputCloses(j)
        \/ Unpack(j)
        \/ ExtractFails(j)
        \/ \E normalize \in BOOLEAN : Extracted(j, normalize)
        \/ \E ok, single \in BOOLEAN : Normalized(j, ok, single)

-----------------------------------------------------------------------------

(* compress() never reports success after an error, and success means that *)
(* every file of the directory is in the archive: nothing that fails in    *)
(* the walk, which goes on in parallel, gets lost on the way to 'close'.   *)
SuccessIsWhole ==
    \A j \in Jobs : job[j].compress /\ Contains(job[j].told, "ok") =>
        /\ job[j].told = <<"ok">>
        /\ job[j].added \ (job[j].bad \cup job[j].late) = Nodes \ Folders
=============================================================================

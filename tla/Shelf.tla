-------------------------------- MODULE Shelf --------------------------------
(***************************************************************************)
(* What a temporary storage promises its users, of whatever cleanups and   *)
(* calls it consists: what was answered with its identifier is there in    *)
(* full until somebody may remove it.  Nothing else is promised: not that  *)
(* a directory lasts while it is being filled, nor that the process does.  *)
(***************************************************************************)

CONSTANT Ids            \* identifiers of directories

VARIABLES
    place,          \* each directory: "none", "empty", a "part" of a file or the "file"
    uploaded,       \* directories that were answered with their identifier
    due,            \* directories that may be removed: asked for, or too old
    up              \* the process runs

shelfVars == <<place, uploaded, due, up>>

ShelfTypeOK ==
    /\ place \in [Ids -> {"none", "empty", "part", "file"}]
    /\ uploaded \in SUBSET Ids
    /\ due \in SUBSET Ids
    /\ up \in BOOLEAN

(* Whatever a former process left is removed. *)
ShelfInit ==
    /\ place \in [Ids -> {"none", "empty", "file"}]
    /\ uploaded = {}
    /\ due = {i \in Ids : place[i] # "none"}
    /\ up = TRUE

(* An identifier is drawn; before the storage is ready, its directory may  *)
(* fall to the first cleanup.                                              *)
Begin(i, ready) ==
    /\ place[i] = "none"
    /\ uploaded' = uploaded \ {i}
    /\ due' = IF ready THEN due \ {i} ELSE due \cup {i}
    /\ UNCHANGED <<place, up>>

Make(i) ==
    /\ place[i] = "none"
    /\ i \notin uploaded
    /\ place' = [place EXCEPT ![i] = "empty"]
    /\ UNCHANGED <<uploaded, due, up>>

Open(i) ==
    /\ place[i] = "empty"
    /\ i \notin uploaded
    /\ place' = [place EXCEPT ![i] = "part"]
    /\ UNCHANGED <<uploaded, due, up>>

(* The file is written and closed, and the identifier given away. *)
Give(i) ==
    /\ place[i] = "part" \/ i \in due
    /\ place' = [place EXCEPT ![i] = IF @ = "part" THEN "file" ELSE @]
    /\ uploaded' = uploaded \cup {i}
    /\ UNCHANGED <<due, up>>

Release(i) ==
    /\ due' = due \cup {i}
    /\ UNCHANGED <<place, uploaded, up>>

(* The file goes before its directory. *)
Take(i) ==
    /\ i \in due
    /\ place[i] # "none"
    /\ place' = [place EXCEPT ![i] = IF @ \in {"part", "file"} THEN "empty" ELSE "none"]
    /\ UNCHANGED <<uploaded, due, up>>

Stop == up' = FALSE /\ UNCHANGED <<place, uploaded, due>>

ShelfNext ==
    /\ up
    /\ \/ Stop
       \/ \E i \in Ids :
             \/ \E ready \in BOOLEAN : Begin(i, ready)
             \/ Make(i)
             \/ Open(i)
             \/ Give(i)
             \/ Release(i)
             \/ Take(i)

ShelfSpec == ShelfInit /\ [][ShelfNext]_shelfVars

(* What was given away is there in full until it may be removed. *)
UploadKept == \A i \in uploaded \ due : place[i] = "file"
=============================================================================

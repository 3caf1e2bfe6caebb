---------------------------- MODULE IncidentReport ----------------------------
(***************************************************************************)
(* The incident report (lib/components/incidentReport): an incident is     *)
(* created at the help desk, and then the attachments, which are files of  *)
(* the storage, are sent to it one after another.  The first failure ends  *)
(* the report; what is at the help desk by then stays there.  The storage  *)
(* is whatever keeps a Shelf's promises.                                   *)
(***************************************************************************)
EXTENDS Shelf, Naturals, Sequences, SequencesExt

CONSTANTS
    Reports,        \* calls of sendReport()
    MaxAttachments  \* bound: attachments of a report

ASSUME AttachmentsAssumption == MaxAttachments \in Nat

(* What a report awaits, for the first attachment that is not done; whole  *)
(* says that the file was complete when it was read.                       *)
Report == [at : {"idle", "incident", "path", "read", "post", "ok", "error"},
           attachments : Seq(Ids), done : 0 .. MaxAttachments, whole : BOOLEAN]

VARIABLES
    report,         \* state of each call
    desk            \* history: the attachments that the help desk has, per report

reportVars == <<shelfVars, report, desk>>

ReportTypeOK ==
    /\ report \in [Reports -> Report]
    /\ desk \in [Reports -> Seq([id : Ids, whole : BOOLEAN])]

NoReport == [at |-> "idle", attachments |-> <<>>, done |-> 0, whole |-> FALSE]

ReportInit ==
    /\ report = [r \in Reports |-> NoReport]
    /\ desk = [r \in Reports |-> <<>>]

Current(r) == report[r].attachments[report[r].done + 1]

Go(r, at) == report' = [report EXCEPT ![r].at = at]

(* Identifiers are those that the storage gave away. *)
SendReport(r) ==
    /\ report[r].at = "idle"
    /\ \E n \in 0 .. MaxAttachments : \E ids \in [1 .. n -> uploaded] :
          report' = [report EXCEPT ![r] = [NoReport EXCEPT !.at = "incident", !.attachments = ids]]
    /\ UNCHANGED <<shelfVars, desk>>

(* The next attachment, or the end of the series. *)
Continue(r, done) ==
    report' = [report EXCEPT ![r].done = done,
                             ![r].at = IF done = Len(report[r].attachments) THEN "ok" ELSE "path"]

(* Without an incident's identifier in the answer the report fails. *)
IncidentPosted(r, ok) ==
    /\ report[r].at = "incident"
    /\ IF ok THEN Continue(r, 0) ELSE Go(r, "error")
    /\ UNCHANGED <<shelfVars, desk>>

(* getFilePath(), which throws at an empty directory. *)
PathFound(r) ==
    /\ report[r].at = "path"
    /\ CASE place[Current(r)] = "none" -> Go(r, "error") /\ UNCHANGED shelfVars
         [] place[Current(r)] = "empty" -> Stop /\ UNCHANGED report
         [] OTHER -> Go(r, "read") /\ UNCHANGED shelfVars
    /\ UNCHANGED desk

FileRead(r) ==
    /\ report[r].at = "read"
    /\ IF place[Current(r)] \in {"none", "empty"} THEN Go(r, "error")
       ELSE report' = [report EXCEPT ![r].at = "post",
                                     ![r].whole = place[Current(r)] = "file"]
    /\ UNCHANGED <<shelfVars, desk>>

(* An answer below 400 is the only one after which the series goes on; any *)
(* other, or none, may come from a help desk that has the attachment.      *)
PostFailsQuietly(r) == Continue(r, report[r].done + 1)

PostFails(r) == Go(r, "error")

AttachmentPosted(r, stored, ok) ==
    /\ report[r].at = "post"
    /\ ok => stored
    /\ desk' = IF stored
               THEN [desk EXCEPT ![r] = Append(@, [id |-> Current(r), whole |-> report[r].whole])]
               ELSE desk
    /\ IF ok THEN Continue(r, report[r].done + 1) ELSE PostFails(r)
    /\ UNCHANGED shelfVars

ReportNext ==
    \E r \in Reports :
        \/ SendReport(r)
        \/ \E ok \in BOOLEAN : IncidentPosted(r, ok)
        \/ PathFound(r)
        \/ FileRead(r)
        \/ \E stored, ok \in BOOLEAN : AttachmentPosted(r, stored, ok)

-----------------------------------------------------------------------------

(* The help desk has the attachments in order, each once and each a        *)
(* complete file, and all of them if the report was answered without an    *)
(* error; identifiers that were given away may be removed meanwhile, and   *)
(* any call may fail.                                                      *)
Attached ==
    \A r \in Reports :
        LET ids == [k \in DOMAIN desk[r] |-> desk[r][k].id] IN
        /\ IsPrefix(ids, report[r].attachments)
        /\ report[r].at = "ok" => ids = report[r].attachments
        /\ \A k \in DOMAIN desk[r] : desk[r][k].whole
=============================================================================

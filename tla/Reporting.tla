------------------------------ MODULE Reporting ------------------------------
(***************************************************************************)
(* Incident reports about files of a storage: users upload and remove      *)
(* them, the application compresses directories into further ones, and     *)
(* cleanups take away what is too old, all while reports are being sent.   *)
(* It composes IncidentReport and ArchiveStorage over one Shelf, which     *)
(* FileStorage implements.                                                 *)
(***************************************************************************)
EXTENDS ArchiveStorage, IncidentReport

reportingVars == <<shelfVars, job, report, desk>>

ReportingTypeOK == ShelfTypeOK /\ ArchiveTypeOK /\ ReportTypeOK

ReportingInit == ShelfInit /\ ArchiveInit /\ ReportInit

(* Identifiers are never drawn twice. *)
Forgotten(i) ==
    /\ \A j \in Jobs : job[j].id # i
    /\ \A r \in Reports : ~Contains(report[r].attachments, i)

(* Other users of the storage leave a job's directory alone until it is    *)
(* given away, but may ask for the removal of anything.                    *)
Others ==
    \/ Stop
    \/ \E i \in Ids :
          \/ Forgotten(i) /\ \E ready \in BOOLEAN : Begin(i, ready)
          \/ Forgotten(i) /\ (Make(i) \/ Open(i) \/ (place[i] = "part" /\ Give(i)))
          \/ Release(i)
          \/ Take(i)

ReportingNext ==
    /\ up
    /\ \/ Others /\ UNCHANGED <<job, report, desk>>
       \/ /\ ArchiveNext
          /\ \A j \in Jobs : job'[j].id # job[j].id => Forgotten(job'[j].id)
          /\ UNCHANGED <<report, desk>>
       \/ ReportNext /\ UNCHANGED job

(* The file system and the help desk answer, and unzip closes. *)
ReportingFairness ==
    /\ \A r \in Reports :
          WF_reportingVars(up /\ UNCHANGED job
              /\ (\/ \E ok \in BOOLEAN : IncidentPosted(r, ok)
                  \/ PathFound(r)
                  \/ FileRead(r)
                  \/ \E stored, ok \in BOOLEAN : AttachmentPosted(r, stored, ok)))
    /\ \A j \in Jobs :
          WF_reportingVars(up /\ UNCHANGED <<report, desk>>
              /\ (\/ PathMade(j) \/ PathRefused(j)
                  \/ Opened(j)
                  \/ \E ok \in BOOLEAN : Walk(j, ok)
                  \/ Finish(j) \/ OutputCloses(j)
                  \/ \E normalize \in BOOLEAN : Extracted(j, normalize)
                  \/ \E ok, single \in BOOLEAN : Normalized(j, ok, single)))

ReportingSpec == ReportingInit /\ [][ReportingNext]_reportingVars /\ ReportingFairness

-----------------------------------------------------------------------------

(* Every call of sendReport(), compress() and extract() is answered, or    *)
(* the process ends; the storage may be emptied under it meanwhile.        *)
AllAnswered ==
    /\ \A r \in Reports :
          report[r].at # "idle" ~> (report[r].at \in {"ok", "error"} \/ ~up)
    /\ \A j \in Jobs :
          job[j].at # "idle" ~> (job[j].told # <<>> \/ ~up)
=============================================================================

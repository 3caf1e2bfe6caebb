---------------------------- MODULE ReportingProofs ----------------------------
(***************************************************************************)
(* What the users of a storage, the archive storage and the incident       *)
(* report keep together, for all identifiers, calls, attachments and       *)
(* directories.                                                            *)
(***************************************************************************)
EXTENDS Reporting, SequenceTheorems, TLAPS

(* What every user of a Shelf may rely on, whatever its identifiers. *)

(* Every step keeps the places and sets of their types. *)
LEMMA ShelfTypeStep == ShelfTypeOK /\ [ShelfNext]_shelfVars => ShelfTypeOK'
BY DEF ShelfTypeOK, ShelfNext, shelfVars, Stop, Begin, Make, Open, Give, Release, Take

(* The type invariant of the shelf. *)
LEMMA ShelfTypeCorrect == ShelfSpec => []ShelfTypeOK
<1>1. ShelfInit => ShelfTypeOK
  BY DEF ShelfInit, ShelfTypeOK
<1>2. QED
  BY <1>1, ShelfTypeStep, PTL DEF ShelfSpec

(* An upload that is not due is a whole file before and after each step:   *)
(* an identifier that is drawn again, the only one that stops being due,   *)
(* stops being uploaded, and only what is due is taken.                    *)
LEMMA UploadKeptStep ==
    ASSUME ShelfTypeOK, UploadKept, [ShelfNext]_shelfVars
    PROVE  UploadKept'
<1>1. CASE UNCHANGED shelfVars
  BY <1>1 DEF UploadKept, shelfVars
<1>2. CASE Stop
  BY <1>2 DEF UploadKept, Stop
<1>3. ASSUME NEW i \in Ids, NEW ready \in BOOLEAN, Begin(i, ready)
      PROVE  UploadKept'
  BY <1>3 DEF UploadKept, Begin
<1>4. ASSUME NEW i \in Ids, Make(i) \/ Open(i)
      PROVE  UploadKept'
  BY <1>4 DEF ShelfTypeOK, UploadKept, Make, Open
<1>5. ASSUME NEW i \in Ids, Give(i)
      PROVE  UploadKept'
  BY <1>5 DEF ShelfTypeOK, UploadKept, Give
<1>6. ASSUME NEW i \in Ids, Release(i)
      PROVE  UploadKept'
  BY <1>6 DEF UploadKept, Release
<1>7. ASSUME NEW i \in Ids, Take(i)
      PROVE  UploadKept'
  BY <1>7 DEF ShelfTypeOK, UploadKept, Take
<1>8. QED
  BY <1>1, <1>2, <1>3, <1>4, <1>5, <1>6, <1>7 DEF ShelfNext

(* A file that was answered with its identifier is there in full until it  *)
(* may be removed, on every storage that keeps a Shelf's promises.         *)
THEOREM UploadKeptAlways == ShelfSpec => []UploadKept
<1>1. ShelfInit => UploadKept
  BY DEF ShelfInit, UploadKept
<1>2. ShelfTypeOK /\ UploadKept /\ [ShelfNext]_shelfVars => UploadKept'
  BY UploadKeptStep
<1>3. QED
  BY <1>1, <1>2, ShelfTypeCorrect, PTL DEF ShelfSpec

-----------------------------------------------------------------------------


(* What was given away is never a part of a file.                          *)
NoParts == \A i \in uploaded : place[i] # "part"

(* A report's attachments up to the one it is at are at the help desk, in  *)
(* full, and the one it is at may be there after an error.                 *)
SentInv(q, d) ==
    /\ q.done <= Len(q.attachments) /\ Len(q.attachments) <= MaxAttachments
    /\ Len(d) = q.done \/ (q.at = "error" /\ Len(d) = q.done + 1 /\ q.done < Len(q.attachments))
    /\ \A k \in DOMAIN d : d[k].id = q.attachments[k] /\ d[k].whole
    /\ q.at \in {"idle", "incident"} => q.done = 0
    /\ q.at \in {"path", "read", "post"} => q.done < Len(q.attachments)
    /\ q.at = "post" => q.whole
    /\ q.at = "ok" => q.done = Len(q.attachments)

(* Every report is so, and its attachments were given away.               *)
ReportsInv ==
    \A r \in Reports :
        /\ SentInv(report[r], desk[r])
        /\ \A k \in DOMAIN report[r].attachments : report[r].attachments[k] \in uploaded

(* The folders that were read, D, have the root and whatever lies in them, *)
(* but for what is still awaited.                                          *)
WalkedInv(q) ==
    /\ q.added \subseteq Nodes \ Folders
    /\ \E D \in SUBSET Folders :
          /\ Root \in D \cup q.readdir
          /\ \A f \in D : \A n \in Tree[f] :
                n \in q.lstat \/ n \in (IF n \in Folders THEN D \cup q.readdir ELSE q.added)

(* No callback of the walk is awaited.                                     *)
Unwalked(q) == q.lstat = {} /\ q.readdir = {}

(* A compress() that did not fail looks at everything before it ends the   *)
(* archive, and says so once.                                              *)
CompressInv(q) ==
    /\ q.at \in {"idle", "path", "opening", "open", "over"}
    /\ q.at = "path" => /\ Unwalked(q) /\ ~q.ended /\ ~q.failed /\ ~q.finished
                       /\ q.added = {} /\ q.bad = {} /\ q.late = {} /\ q.told = <<>>
    /\ q.at \in {"opening", "open"} =>
          \A k \in DOMAIN q.told : q.told[k] = "error" /\ q.failed
    /\ q.finished => q.ended
    /\ q.bad # {} \/ q.late # {} => q.failed
    /\ q.at \in {"opening", "open"} /\ ~q.failed => WalkedInv(q)
    /\ q.ended /\ ~q.failed => Unwalked(q)
    /\ Contains(q.told, "ok") => /\ q.told = <<"ok">>
                                 /\ Unwalked(q)
                                 /\ q.finished /\ q.bad = {} /\ q.late = {}
                                 /\ q.added = Nodes \ Folders

(* A call of compress() or extract(): it has an identifier once it began.  *)
JobInv(q) ==
    /\ q.at = "idle" <=> q.id = NoId
    /\ q.at = "idle" => q = NoJob
    /\ ~q.compress => Unwalked(q) /\ q.added = {} /\ q.late = {} /\ ~q.ended
    /\ q.compress => CompressInv(q)

(* Every call is so.                                                       *)
JobsInv == \A j \in Jobs : JobInv(job[j])

(* The inductive invariant.                                                *)
Inv ==
    /\ ReportingTypeOK
    /\ UploadKept
    /\ NoParts
    /\ ReportsInv
    /\ JobsInv

-----------------------------------------------------------------------------
(* Every step keeps the shelf's promises: what the archive storage and the *)
(* reports do to it are calls of its own.                                  *)
LEMMA ShelfStep ==
    ASSUME Inv, [ReportingNext]_reportingVars
    PROVE  [ShelfNext]_shelfVars
<1>1. CASE UNCHANGED reportingVars
  BY <1>1 DEF reportingVars
<1>2. CASE up /\ Others
  BY <1>2 DEF Others, ShelfNext
<1>3. ASSUME up, NEW j \in Jobs, job[j].at # "idle"
      PROVE  job[j].id \in Ids
  BY <1>3 DEF Inv, ReportingTypeOK, ArchiveTypeOK, Job, JobsInv, JobInv
<1>4. CASE up /\ ArchiveNext
  <2>1. ASSUME NEW j \in Jobs, NEW compress \in BOOLEAN, NEW i \in Ids, NEW ready \in BOOLEAN,
               Ask(j, compress, i, ready)
        PROVE  ShelfNext
    BY <1>4, <2>1 DEF Ask, ShelfNext
  <2>2. ASSUME NEW j \in Jobs, PathMade(j)
        PROVE  ShelfNext
    BY <1>3, <1>4, <2>2 DEF PathMade, ShelfNext
  <2>3. ASSUME NEW j \in Jobs, Opened(j)
        PROVE  ShelfNext
    BY <1>3, <1>4, <2>3 DEF Opened, ShelfNext
  <2>4. ASSUME NEW j \in Jobs, SourceUnreadable(j)
        PROVE  ShelfNext
    BY <1>4, <2>4 DEF SourceUnreadable, ShelfNext
  <2>5. ASSUME NEW j \in Jobs, Unpack(j)
        PROVE  ShelfNext
    BY <1>3, <1>4, <2>5 DEF Unpack, ShelfNext
  <2>6. ASSUME NEW j \in Jobs, OutputCloses(j)
        PROVE  ShelfNext \/ UNCHANGED shelfVars
    BY <1>3, <1>4, <2>6 DEF OutputCloses, ShelfNext
  <2>7. ASSUME NEW j \in Jobs,
               \/ PathRefused(j)
               \/ \E ok \in BOOLEAN : Walk(j, ok)
               \/ EntryFails(j) \/ Finish(j)
               \/ ExtractFails(j)
               \/ \E normalize \in BOOLEAN : Extracted(j, normalize)
               \/ \E ok, single \in BOOLEAN : Normalized(j, ok, single)
        PROVE  UNCHANGED shelfVars
    BY <2>7 DEF PathRefused, Walk, EntryFails, Finish, ExtractFails, Extracted, Normalized
  <2>8. ASSUME NEW j \in Jobs, WriteAfterEnd(j)
        PROVE  ShelfNext
    BY <1>4, <2>8 DEF WriteAfterEnd, ShelfNext
  <2>9. QED
    BY <1>4, <2>1, <2>2, <2>3, <2>4, <2>5, <2>6, <2>7, <2>8 DEF ArchiveNext
<1>5. CASE up /\ ReportNext
  <2>1. ASSUME NEW r \in Reports, PathFound(r)
        PROVE  ShelfNext \/ UNCHANGED shelfVars
    BY <1>5, <2>1 DEF PathFound, ShelfNext
  <2>2. ASSUME NEW r \in Reports,
               \/ SendReport(r)
               \/ \E ok \in BOOLEAN : IncidentPosted(r, ok)
               \/ FileRead(r)
               \/ \E stored, ok \in BOOLEAN : AttachmentPosted(r, stored, ok)
        PROVE  UNCHANGED shelfVars
    BY <2>2 DEF SendReport, IncidentPosted, FileRead, AttachmentPosted
  <2>3. QED
    BY <1>5, <2>1, <2>2 DEF ReportNext
<1>6. QED
  BY <1>1, <1>2, <1>4, <1>5 DEF ReportingNext

(* What is given away is not opened, and what is opened not given away.    *)
LEMMA NoPartsStep ==
    ASSUME ShelfTypeOK, NoParts, [ShelfNext]_shelfVars
    PROVE  NoParts'
<1>1. CASE UNCHANGED shelfVars \/ Stop
  BY <1>1 DEF NoParts, shelfVars, Stop
<1>2. ASSUME NEW i \in Ids, NEW ready \in BOOLEAN, Begin(i, ready)
      PROVE  NoParts'
  BY <1>2 DEF NoParts, Begin
<1>3. ASSUME NEW i \in Ids, Make(i) \/ Open(i) \/ Give(i) \/ Take(i)
      PROVE  NoParts'
  BY <1>3 DEF ShelfTypeOK, NoParts, Make, Open, Give, Take
<1>4. ASSUME NEW i \in Ids, Release(i)
      PROVE  NoParts'
  BY <1>4 DEF NoParts, Release
<1>5. QED
  BY <1>1, <1>2, <1>3, <1>4 DEF ShelfNext

(* An identifier is not drawn again while a report has it.                 *)
LEMMA AttachmentsStay ==
    ASSUME Inv, [ReportingNext]_reportingVars, NEW i \in uploaded,
           NEW r \in Reports, Contains(report[r].attachments, i)
    PROVE  i \in uploaded'
<1>1. ASSUME NEW k \in Ids, NEW ready \in BOOLEAN, Begin(k, ready), Forgotten(k)
      PROVE  i \in uploaded'
  BY <1>1 DEF Begin, Forgotten
<1>2. ASSUME uploaded \subseteq uploaded'
      PROVE  i \in uploaded'
  BY <1>2
<1>3. CASE UNCHANGED reportingVars
  BY <1>3 DEF reportingVars, shelfVars
<1>4. CASE Others
  BY <1>1, <1>4 DEF Others, Stop, Make, Open, Give, Release, Take
<1>5. ASSUME ArchiveNext, \A j \in Jobs : job'[j].id # job[j].id => Forgotten(job'[j].id)
      PROVE  i \in uploaded'
  <2>1. ASSUME NEW j \in Jobs, NEW compress \in BOOLEAN, NEW k \in Ids, NEW ready \in BOOLEAN,
               Ask(j, compress, k, ready)
        PROVE  i \in uploaded'
    <3>1. job[j].id = NoId /\ Begin(k, ready) /\ job \in [Jobs -> Job]
      BY <2>1 DEF Ask, Inv, JobsInv, JobInv, ReportingTypeOK, ArchiveTypeOK
    <3>2. job'[j].id = k
      BY <2>1, <3>1 DEF Ask, Put, NoJob
    <3>3. Forgotten(k)
      BY <1>5, <3>1, <3>2, NoIdAssumption
    <3>4. QED
      BY <1>1, <3>1, <3>3
  <2>2. ASSUME NEW j \in Jobs,
               \/ PathMade(j) \/ PathRefused(j) \/ Opened(j) \/ SourceUnreadable(j)
               \/ \E ok \in BOOLEAN : Walk(j, ok)
               \/ EntryFails(j) \/ Finish(j) \/ WriteAfterEnd(j) \/ OutputCloses(j) \/ Unpack(j) \/ ExtractFails(j)
               \/ \E normalize \in BOOLEAN : Extracted(j, normalize)
               \/ \E ok, single \in BOOLEAN : Normalized(j, ok, single)
        PROVE  uploaded \subseteq uploaded'
    BY <2>2 DEF PathMade, PathRefused, Opened, SourceUnreadable, Walk, EntryFails, Finish,
                WriteAfterEnd, OutputCloses, Unpack, ExtractFails, Extracted, Normalized, Make, Open, Stop, Give, shelfVars
  <2>3. QED
    BY <1>2, <1>5, <2>1, <2>2 DEF ArchiveNext
<1>6. CASE ReportNext
  <2>1. uploaded' = uploaded
    BY <1>6 DEF ReportNext, SendReport, IncidentPosted, PathFound, FileRead, AttachmentPosted,
                Stop, shelfVars
  <2>2. QED
    BY <2>1
<1>7. QED
  BY <1>3, <1>4, <1>5, <1>6 DEF ReportingNext

-----------------------------------------------------------------------------

(* What the help desk has of one attachment.                               *)
Sent == [id : Ids, whole : BOOLEAN]

(* One report's record changes, and what the help desk has of it.          *)
Becomes(r, q, d) ==
    /\ q \in Report
    /\ d \in Seq(Sent)
    /\ SentInv(q, d)
    /\ report' = [report EXCEPT ![r] = q]
    /\ desk' = [desk EXCEPT ![r] = d]

(* The attachments of a report stay given away.                            *)
LEMMA AttachmentsGiven ==
    ASSUME Inv, [ReportingNext]_reportingVars, NEW r \in Reports
    PROVE  \A k \in DOMAIN report[r].attachments : report[r].attachments[k] \in uploaded'
<1> SUFFICES ASSUME NEW k \in DOMAIN report[r].attachments
             PROVE  report[r].attachments[k] \in uploaded'
  OBVIOUS
<1>1. report[r].attachments \in Seq(Ids)
  BY DEF Inv, ReportingTypeOK, ReportTypeOK, Report
<1>2. Contains(report[r].attachments, report[r].attachments[k])
  BY <1>1 DEF Contains
<1>3. report[r].attachments[k] \in uploaded
  BY DEF Inv, ReportsInv
<1>4. QED
  BY <1>2, <1>3, AttachmentsStay

(* One report's change keeps what all of them are.                         *)
LEMMA BecomesKeeps ==
    ASSUME Inv, [ReportingNext]_reportingVars, NEW r \in Reports, NEW q, NEW d, Becomes(r, q, d),
           \/ q.attachments = report[r].attachments
           \/ \A k \in DOMAIN q.attachments : q.attachments[k] \in uploaded'
    PROVE  ReportTypeOK' /\ ReportsInv'
<1>1. report \in [Reports -> Report] /\ desk \in [Reports -> Seq(Sent)]
  BY DEF Inv, ReportingTypeOK, ReportTypeOK, Sent
<1>2. /\ report' \in [Reports -> Report] /\ desk' \in [Reports -> Seq(Sent)]
      /\ report'[r] = q /\ desk'[r] = d
      /\ \A s \in Reports \ {r} : report'[s] = report[s] /\ desk'[s] = desk[s]
  BY <1>1 DEF Becomes
<1>3. ReportTypeOK'
  BY <1>2 DEF ReportTypeOK, Sent
<1>4. \A s \in Reports : SentInv(report'[s], desk'[s])
  BY <1>2 DEF Inv, ReportsInv, Becomes
<1>5. \A s \in Reports : \A k \in DOMAIN report'[s].attachments : report'[s].attachments[k] \in uploaded'
  BY <1>2, AttachmentsGiven
<1>6. ReportsInv'
  BY <1>4, <1>5 DEF ReportsInv
<1>7. QED
  BY <1>3, <1>6

(* A report that goes on, or ends, is where what was sent says.            *)
LEMMA GoesOn ==
    ASSUME NEW q \in Report, NEW d \in Seq(Sent), SentInv(q, d), Len(d) = q.done,
           NEW at \in {"path", "read", "post", "ok", "error"},
           at \in {"path", "read", "post"} => q.done < Len(q.attachments),
           at = "post" => q.whole,
           at = "ok" => q.done = Len(q.attachments)
    PROVE  /\ [q EXCEPT !.at = at] \in Report
           /\ SentInv([q EXCEPT !.at = at], d)
<1> DEFINE p == [q EXCEPT !.at = at]
<1>1. /\ p \in Report /\ p.at = at /\ p.done = q.done /\ p.whole = q.whole
      /\ p.attachments = q.attachments
  BY DEF Report
<1> HIDE DEF p
<1>2. SentInv(p, d)
  BY <1>1 DEF SentInv
<1>3. QED
  BY <1>1, <1>2 DEF p

(* Every step keeps what reports and help desk agree on.                   *)
LEMMA ReportsStep ==
    ASSUME Inv, [ReportingNext]_reportingVars
    PROVE  ReportTypeOK' /\ ReportsInv'
<1> DEFINE Goal == ReportTypeOK' /\ ReportsInv'
<1>0. /\ report \in [Reports -> Report]
      /\ desk \in [Reports -> Seq(Sent)]
      /\ \A r \in Reports : SentInv(report[r], desk[r])
  BY DEF Inv, ReportingTypeOK, ReportTypeOK, ReportsInv, Sent
<1>1. ASSUME UNCHANGED <<report, desk>>
      PROVE  Goal
  <2>1. ReportTypeOK'
    BY <1>0, <1>1 DEF ReportTypeOK, Sent
  <2>2. ReportsInv'
    BY <1>0, <1>1, AttachmentsGiven DEF ReportsInv
  <2>3. QED
    BY <2>1, <2>2
<1>2. ASSUME NEW r \in Reports, NEW q, NEW d, Becomes(r, q, d), q.attachments = report[r].attachments
      PROVE  Goal
  BY <1>2, BecomesKeeps
<1>3. ASSUME NEW r \in Reports, desk' = desk
      PROVE  desk' = [desk EXCEPT ![r] = desk[r]]
  BY <1>0, <1>3
<1>4. ASSUME NEW r \in Reports, desk' = desk, Len(desk[r]) = report[r].done,
             NEW at \in {"path", "read", "post", "ok", "error"}, Go(r, at),
             at \in {"path", "read", "post"} => report[r].done < Len(report[r].attachments),
             at = "post" => report[r].whole,
             at = "ok" => report[r].done = Len(report[r].attachments)
      PROVE  Goal
  <2> DEFINE q == [report[r] EXCEPT !.at = at]
  <2>0. report[r] \in Report /\ desk[r] \in Seq(Sent) /\ SentInv(report[r], desk[r])
    BY <1>0
  <2>1. /\ q \in Report /\ SentInv(q, desk[r])
        /\ q.attachments = report[r].attachments
    <3>1. q \in Report /\ SentInv(q, desk[r])
      BY <1>4, <2>0, GoesOn
    <3>2. q.attachments = report[r].attachments
      BY <2>0 DEF Report
    <3>3. QED
      BY <3>1, <3>2
  <2>2. report' = [report EXCEPT ![r] = q]
    BY <1>0, <1>4 DEF Go
  <2> HIDE DEF q
  <2>3. Becomes(r, q, desk[r])
    BY <1>0, <1>3, <1>4, <2>1, <2>2 DEF Becomes
  <2>4. QED
    BY <1>2, <2>1, <2>3
<1>5. ASSUME NEW r \in Reports, SendReport(r)
      PROVE  Goal
  <2>1. PICK n \in 0 .. MaxAttachments : \E ids \in [1 .. n -> uploaded] :
            report' = [report EXCEPT ![r] = [NoReport EXCEPT !.at = "incident", !.attachments = ids]]
    BY <1>5 DEF SendReport
  <2>2. PICK ids \in [1 .. n -> uploaded] :
            report' = [report EXCEPT ![r] = [NoReport EXCEPT !.at = "incident", !.attachments = ids]]
    BY <2>1
  <2> DEFINE q == [NoReport EXCEPT !.at = "incident", !.attachments = ids]
  <2>3. n \in Nat /\ ids \in Seq(Ids) /\ DOMAIN ids = 1 .. n /\ Len(ids) = n
    <3>1. n \in Nat /\ uploaded \subseteq Ids
      BY AttachmentsAssumption DEF Inv, ReportingTypeOK, ShelfTypeOK
    <3>2. QED
      BY <3>1
  <2>4. /\ q \in Report /\ q.at = "incident" /\ q.attachments = ids /\ q.done = 0
    <3>1. NoReport \in Report /\ NoReport.done = 0
      BY AttachmentsAssumption DEF NoReport, Report
    <3> HIDE DEF NoReport
    <3>2. QED
      BY <2>3, <3>1 DEF Report
  <2>5. report' = [report EXCEPT ![r] = q]
    BY <2>2
  <2> HIDE DEF q
  <2>6. report[r].at = "idle" /\ desk' = desk /\ uploaded' = uploaded
    BY <1>5 DEF SendReport, shelfVars
  <2>7. desk[r] \in Seq(Sent) /\ Len(desk[r]) = 0 /\ desk[r] = <<>>
    BY <1>0, <2>6 DEF SentInv
  <2>8. SentInv(q, desk[r])
    <3>1. n <= MaxAttachments
      BY AttachmentsAssumption
    <3>2. QED
      BY <2>3, <2>4, <2>7, <3>1 DEF SentInv
  <2>9. Becomes(r, q, desk[r])
    BY <1>3, <2>4, <2>5, <2>6, <2>7, <2>8 DEF Becomes
  <2>10. \A k \in DOMAIN q.attachments : q.attachments[k] \in uploaded'
    BY <2>3, <2>4, <2>6
  <2>11. QED
    BY <2>9, <2>10, BecomesKeeps
<1>6. ASSUME NEW r \in Reports, NEW ok \in BOOLEAN, IncidentPosted(r, ok)
      PROVE  Goal
  <2>1. report[r].at = "incident" /\ desk' = desk
    BY <1>6 DEF IncidentPosted
  <2>2. report[r] \in Report /\ report[r].done = 0 /\ Len(desk[r]) = 0
    BY <1>0, <2>1 DEF SentInv
  <2>3. CASE ~ok
    BY <1>4, <1>6, <2>1, <2>2, <2>3 DEF IncidentPosted
  <2>4. CASE ok
    <3> DEFINE at == IF 0 = Len(report[r].attachments) THEN "ok" ELSE "path"
    <3>1. report' = [report EXCEPT ![r].done = 0, ![r].at = at]
      BY <1>6, <2>4 DEF IncidentPosted, Continue
    <3>2. /\ at \in {"ok", "path"}
          /\ at = "ok" <=> 0 = Len(report[r].attachments)
      OBVIOUS
    <3> HIDE DEF at
    <3>3. report' = [report EXCEPT ![r].at = at]
      <4>1. [report[r] EXCEPT !.done = 0, !.at = at] = [report[r] EXCEPT !.at = at]
        BY <2>2 DEF Report
      <4>2. QED
        BY <1>0, <3>1, <4>1
    <3>4. Len(report[r].attachments) \in Nat
      BY <2>2 DEF Report
    <3>5. Go(r, at)
      BY <3>3 DEF Go
    <3>6. at = "path" => report[r].done < Len(report[r].attachments)
      BY <2>2, <3>2, <3>4
    <3>7. Len(desk[r]) = report[r].done
      BY <2>2
    <3>8. CASE at = "ok"
      BY <1>4, <2>1, <2>2, <3>2, <3>5, <3>7, <3>8
    <3>9. CASE at = "path"
      BY <1>4, <2>1, <3>5, <3>6, <3>7, <3>9
    <3>10. QED
      BY <3>2, <3>8, <3>9
  <2>5. QED
    BY <2>3, <2>4
<1>7. ASSUME NEW r \in Reports, PathFound(r)
      PROVE  Goal
  <2>1. report[r].at = "path" /\ desk' = desk
    BY <1>7 DEF PathFound
  <2>2. Len(desk[r]) = report[r].done /\ report[r].done < Len(report[r].attachments)
    BY <1>0, <2>1 DEF SentInv
  <2>3. Go(r, "error") \/ Go(r, "read") \/ report' = report
    BY <1>7 DEF PathFound
  <2>4. QED
    BY <1>1, <1>4, <2>1, <2>2, <2>3
<1>8. ASSUME NEW r \in Reports, FileRead(r)
      PROVE  Goal
  <2>1. report[r].at = "read" /\ desk' = desk
    BY <1>8 DEF FileRead
  <2>2. Len(desk[r]) = report[r].done /\ report[r].done < Len(report[r].attachments)
    BY <1>0, <2>1 DEF SentInv
  <2>3. CASE place[Current(r)] \in {"none", "empty"}
    BY <1>4, <1>8, <2>1, <2>2, <2>3 DEF FileRead
  <2>4. CASE place[Current(r)] \notin {"none", "empty"}
    <3>1. report[r] \in Report /\ report[r].done \in Nat /\ report[r].attachments \in Seq(Ids)
      BY <1>0 DEF Report
    <3>2. Current(r) \in uploaded
      <4>1. report[r].done + 1 \in DOMAIN report[r].attachments
        BY <2>2, <3>1
      <4>2. QED
        BY <4>1 DEF Current, Inv, ReportsInv
    <3>3. place[Current(r)] = "file"
      BY <2>4, <3>2 DEF Inv, NoParts, ReportingTypeOK, ShelfTypeOK
    <3> DEFINE p == [report[r] EXCEPT !.whole = TRUE]
               q == [p EXCEPT !.at = "post"]
    <3>4. (place[Current(r)] = "file") = TRUE
      BY <3>3
    <3>5. report' = [report EXCEPT ![r].at = "post", ![r].whole = TRUE]
      BY <1>8, <2>4, <3>4 DEF FileRead
    <3>6. /\ p \in Report /\ p.whole /\ p.at = report[r].at /\ p.done = report[r].done
          /\ p.attachments = report[r].attachments
      BY <3>1 DEF Report
    <3>7. report' = [report EXCEPT ![r] = q]
      BY <1>0, <3>5
    <3> HIDE DEF p
    <3>8. SentInv(p, desk[r])
      BY <1>0, <2>1, <3>6 DEF SentInv
    <3>9. q \in Report /\ SentInv(q, desk[r])
      BY <1>0, <2>2, <3>6, <3>8, GoesOn
    <3>10. q.attachments = report[r].attachments
      BY <3>6 DEF Report
    <3> HIDE DEF q
    <3>11. Becomes(r, q, desk[r])
      BY <1>0, <1>3, <2>1, <3>7, <3>9 DEF Becomes
    <3>12. QED
      BY <1>2, <3>10, <3>11
  <2>5. QED
    BY <2>3, <2>4
<1>9. ASSUME NEW r \in Reports, NEW stored \in BOOLEAN, NEW ok \in BOOLEAN, AttachmentPosted(r, stored, ok)
      PROVE  Goal
  <2> DEFINE a == [id |-> Current(r), whole |-> report[r].whole]
             n == report[r].done + 1
             d == IF stored THEN Append(desk[r], a) ELSE desk[r]
  <2>1. report[r].at = "post" /\ (ok => stored)
    BY <1>9 DEF AttachmentPosted
  <2>2. /\ report[r] \in Report /\ report[r].attachments \in Seq(Ids)
        /\ report[r].done \in Nat /\ desk[r] \in Seq(Sent)
        /\ Len(desk[r]) = report[r].done /\ report[r].done < Len(report[r].attachments)
        /\ Len(report[r].attachments) \in Nat
        /\ Len(report[r].attachments) <= MaxAttachments
        /\ report[r].whole
        /\ report[r].whole \in BOOLEAN
    BY <1>0, <2>1 DEF SentInv, Report
  <2>3. Current(r) = report[r].attachments[n] /\ n \in DOMAIN report[r].attachments
    BY <2>2 DEF Current
  <2>4. a \in Sent /\ a.id = report[r].attachments[n] /\ a.whole
    BY <2>2, <2>3 DEF Sent
  <2> HIDE DEF a
  <2>5. desk' = [desk EXCEPT ![r] = d]
    BY <1>0, <1>3, <1>9 DEF AttachmentPosted, a
  <2>6. /\ d \in Seq(Sent)
        /\ stored => Len(d) = n
        /\ ~stored => Len(d) = report[r].done
        /\ \A k \in DOMAIN d : d[k].id = report[r].attachments[k] /\ d[k].whole
    <3>1. \A k \in DOMAIN desk[r] : desk[r][k].id = report[r].attachments[k] /\ desk[r][k].whole
      BY <1>0 DEF SentInv
    <3>2. CASE stored
      <4>1. d = Append(desk[r], a)
        BY <3>2
      <4>2. /\ d \in Seq(Sent) /\ DOMAIN d = 1 .. n /\ d[n] = a /\ Len(d) = n
            /\ \A k \in DOMAIN desk[r] : d[k] = desk[r][k]
        BY <2>2, <2>4, <4>1
      <4>3. \A k \in DOMAIN d : k = n \/ k \in DOMAIN desk[r]
        BY <2>2, <4>2
      <4>4. QED
        BY <2>4, <3>1, <3>2, <4>2, <4>3
    <3>3. CASE ~stored
      BY <2>2, <3>1, <3>3
    <3>4. QED
      BY <3>2, <3>3
  <2> HIDE DEF d
  <2>7. CASE ~ok
    <3> DEFINE q == [report[r] EXCEPT !.at = "error"]
    <3>1. report' = [report EXCEPT ![r] = q]
      BY <1>0, <1>9, <2>7 DEF AttachmentPosted, PostFails, Go
    <3>2. /\ q \in Report /\ q.at = "error" /\ q.attachments = report[r].attachments
          /\ q.done = report[r].done
      BY <2>2 DEF Report
    <3> HIDE DEF q
    <3>3. SentInv(q, d)
      BY <2>2, <2>6, <3>2 DEF SentInv
    <3>4. QED
      BY <1>2, <2>5, <2>6, <3>1, <3>2, <3>3 DEF Becomes
  <2>8. CASE ok
    <3> DEFINE at == IF n = Len(report[r].attachments) THEN "ok" ELSE "path"
               q == [report[r] EXCEPT !.done = n, !.at = at]
    <3>1. report' = [report EXCEPT ![r] = q]
      BY <1>0, <1>9, <2>8 DEF AttachmentPosted, Continue
    <3>2. at \in {"ok", "path"} /\ (at = "ok" <=> n = Len(report[r].attachments))
      OBVIOUS
    <3> HIDE DEF at
    <3>3. report[r].done <= MaxAttachments /\ Len(report[r].attachments) <= MaxAttachments
      BY <1>0, <2>2 DEF SentInv, Report
    <3>4. /\ q \in Report /\ q.at = at /\ q.attachments = report[r].attachments
          /\ q.done = n
      <4>1. n \in 0 .. MaxAttachments
        BY <2>2, <3>3, AttachmentsAssumption
      <4>2. QED
        BY <2>2, <3>2, <4>1 DEF Report
    <3> HIDE DEF q
    <3>5. SentInv(q, d)
      BY <2>1, <2>2, <2>6, <2>8, <3>2, <3>4 DEF SentInv
    <3>6. QED
      BY <1>2, <2>5, <2>6, <3>1, <3>4, <3>5 DEF Becomes
  <2>9. QED
    BY <2>7, <2>8
<1>10. QED
  BY <1>1, <1>5, <1>6, <1>7, <1>8, <1>9 DEF ReportingNext, ReportNext, reportingVars

-----------------------------------------------------------------------------

(* The walk is over, and nothing of the directory was left out: what was   *)
(* read has the root and the folders in it, which are all there are.       *)
LEMMA WalkedWhole ==
    ASSUME NEW q, WalkedInv(q), Unwalked(q)
    PROVE  q.added = Nodes \ Folders
<1>1. PICK D \in SUBSET Folders :
          /\ Root \in D \cup q.readdir
          /\ \A f \in D : \A n \in Tree[f] :
                n \in q.lstat \/ n \in (IF n \in Folders THEN D \cup q.readdir ELSE q.added)
  BY DEF WalkedInv
<1>2. Root \in D /\ \A f \in D : Tree[f] \cap Folders \subseteq D
  BY <1>1 DEF Unwalked
<1>3. D = Folders
  BY <1>2, ReachAssumption
<1>4. \A n \in Nodes \ Folders : n \in q.added
  BY <1>1, <1>3 DEF Unwalked, Nodes
<1>5. QED
  BY <1>4 DEF WalkedInv

(* What a step of the walk makes of its job.                               *)
LEMMA EndingFacts ==
    ASSUME NEW q \in Job, NEW ok \in BOOLEAN
    PROVE  LET e == Ending(q, ok) IN
           /\ e \in Job
           /\ e.at = q.at /\ e.compress = q.compress /\ e.id = q.id /\ e.told = q.told
           /\ e.lstat = q.lstat /\ e.readdir = q.readdir /\ e.added = q.added
           /\ e.bad = q.bad /\ e.late = q.late /\ e.finished = q.finished
           /\ e.ended <=> q.ended \/ ~ok \/ Unwalked(q)
           /\ e.failed <=> q.failed \/ (~ok /\ ~q.ended)
<1>1. PICK b \in BOOLEAN, c \in BOOLEAN :
          /\ b <=> q.ended \/ ~ok \/ Unwalked(q)
          /\ c <=> q.failed \/ (~ok /\ ~q.ended)
          /\ Ending(q, ok) = [q EXCEPT !.ended = b, !.failed = c]
  BY Zenon DEF Ending, Unwalked
<1>2. QED
  BY <1>1 DEF Job

(* Whether the archive is ended after a callback of the walk.              *)
Ended(q, ok, e) ==
    /\ e \in Job
    /\ e.at = q.at /\ e.compress = q.compress /\ e.id = q.id /\ e.told = q.told
    /\ e.bad = q.bad /\ e.finished = q.finished
    /\ e.late # q.late => q.finished
    /\ e.ended <=> q.ended \/ ~ok \/ Unwalked(e)
    /\ e.failed <=> q.failed \/ (~ok /\ ~q.ended)

(* What a folder that was read leaves.                                     *)
FolderRead(q, f, ok, e) ==
    /\ Ended(q, ok, e)
    /\ e.lstat = IF ok THEN q.lstat \cup Tree[f] ELSE q.lstat
    /\ e.readdir = q.readdir \ {f}
    /\ e.added = q.added

(* What a node that was looked at leaves.                                  *)
NodeLooked(q, n, ok, e) ==
    /\ Ended(q, ok, e)
    /\ e.lstat = q.lstat \ {n}
    /\ e.readdir = IF ok /\ n \in Folders THEN q.readdir \cup {n} ELSE q.readdir
    /\ e.added = IF ok /\ n \notin Folders THEN q.added \cup {n} ELSE q.added

(* That is what the two callbacks of the walk do.                          *)
LEMMA DirReadFacts ==
    ASSUME NEW q \in Job, NEW f \in q.readdir, NEW ok \in BOOLEAN
    PROVE  FolderRead(q, f, ok, DirRead(q, f, ok))
<1> DEFINE l == IF ok THEN q.lstat \cup Tree[f] ELSE q.lstat
           p == [q EXCEPT !.readdir = q.readdir \ {f}, !.lstat = l]
           e == DirRead(q, f, ok)
<1>1. e = Ending(p, ok)
  <2>1. [q EXCEPT !.readdir = @ \ {f}, !.lstat = IF ok THEN @ \cup Tree[f] ELSE @] = p
    BY DEF Job
  <2>2. QED
    BY <2>1 DEF DirRead
<1>2. l \in SUBSET Nodes
  <2>1. f \in Folders /\ q.lstat \in SUBSET Nodes
    BY DEF Job
  <2>2. QED
    BY <2>1 DEF Nodes
<1> HIDE DEF l
<1>3. /\ p \in Job
      /\ p.at = q.at /\ p.compress = q.compress /\ p.id = q.id /\ p.told = q.told
      /\ p.lstat = l /\ p.readdir = q.readdir \ {f} /\ p.added = q.added
      /\ p.bad = q.bad /\ p.late = q.late /\ p.finished = q.finished
      /\ p.ended = q.ended /\ p.failed = q.failed
  BY <1>2 DEF Job
<1> HIDE DEF p, e
<1>4. /\ e \in Job
      /\ e.at = p.at /\ e.compress = p.compress /\ e.id = p.id /\ e.told = p.told
      /\ e.lstat = p.lstat /\ e.readdir = p.readdir /\ e.added = p.added
      /\ e.bad = p.bad /\ e.late = p.late /\ e.finished = p.finished
      /\ e.ended <=> p.ended \/ ~ok \/ Unwalked(p)
      /\ e.failed <=> p.failed \/ (~ok /\ ~p.ended)
  BY <1>1, <1>3, EndingFacts
<1>5. Unwalked(e) <=> Unwalked(p)
  BY <1>4 DEF Unwalked
<1>6. e.ended <=> q.ended \/ ~ok \/ Unwalked(e)
  BY <1>3, <1>4, <1>5, Zenon
<1>7. e.failed <=> q.failed \/ (~ok /\ ~q.ended)
  BY <1>3, <1>4, Zenon
<1>8. FolderRead(q, f, ok, e)
  BY <1>3, <1>4, <1>6, <1>7 DEF l, FolderRead, Ended
<1>9. QED
  BY <1>8 DEF e

(* The same for a node.                                                    *)
LEMMA LookedFacts ==
    ASSUME NEW q \in Job, NEW n \in q.lstat, NEW ok \in BOOLEAN
    PROVE  NodeLooked(q, n, ok, Looked(q, n, ok))
<1> DEFINE d == IF ok /\ n \in Folders THEN q.readdir \cup {n} ELSE q.readdir
           a == IF ok /\ n \notin Folders THEN q.added \cup {n} ELSE q.added
           l == IF ok /\ n \notin Folders /\ q.finished THEN q.late \cup {n} ELSE q.late
           p == [q EXCEPT !.lstat = q.lstat \ {n}, !.readdir = d, !.added = a, !.late = l]
           file == IF ok /\ n \notin Folders THEN {n} ELSE {}
           e == Looked(q, n, ok)
<1>1. e = Ending(p, ok)
  <2>1. [q EXCEPT !.lstat = @ \ {n},
                  !.readdir = IF ok /\ n \in Folders THEN @ \cup {n} ELSE @,
                  !.added = @ \cup file,
                  !.late = IF q.finished THEN @ \cup file ELSE @] = p
    <3>1. q.added \cup file = a /\ (IF q.finished THEN q.late \cup file ELSE q.late) = l
      OBVIOUS
    <3> HIDE DEF a, l, file
    <3>2. QED
      BY <3>1 DEF Job
  <2>2. QED
    BY <2>1 DEF Looked
<1>2. /\ d \in SUBSET Folders /\ a \in SUBSET Nodes /\ l \in SUBSET Nodes
      /\ (l # q.late => q.finished)
  BY DEF Job
<1> HIDE DEF d, a, l
<1>3. /\ p \in Job
      /\ p.at = q.at /\ p.compress = q.compress /\ p.id = q.id /\ p.told = q.told
      /\ p.lstat = q.lstat \ {n} /\ p.readdir = d /\ p.added = a
      /\ p.bad = q.bad /\ p.late = l /\ p.finished = q.finished
      /\ p.ended = q.ended /\ p.failed = q.failed
  BY <1>2 DEF Job
<1> HIDE DEF p, e
<1>4. /\ e \in Job
      /\ e.at = p.at /\ e.compress = p.compress /\ e.id = p.id /\ e.told = p.told
      /\ e.lstat = p.lstat /\ e.readdir = p.readdir /\ e.added = p.added
      /\ e.bad = p.bad /\ e.late = p.late /\ e.finished = p.finished
      /\ e.ended <=> p.ended \/ ~ok \/ Unwalked(p)
      /\ e.failed <=> p.failed \/ (~ok /\ ~p.ended)
  BY <1>1, <1>3, EndingFacts
<1>5. Unwalked(e) <=> Unwalked(p)
  BY <1>4 DEF Unwalked
<1>6. e.ended <=> q.ended \/ ~ok \/ Unwalked(e)
  BY <1>3, <1>4, <1>5, Zenon
<1>7. e.failed <=> q.failed \/ (~ok /\ ~q.ended)
  BY <1>3, <1>4, Zenon
<1>8. NodeLooked(q, n, ok, e)
  BY <1>2, <1>3, <1>4, <1>6, <1>7 DEF d, a, NodeLooked, Ended
<1>9. QED
  BY <1>8 DEF e

(* A folder that is read is one of those that were read, ...               *)
LEMMA DirReadWalked ==
    ASSUME NEW q \in Job, NEW f \in q.readdir, NEW ok \in BOOLEAN, ok, WalkedInv(q)
    PROVE  WalkedInv(DirRead(q, f, ok))
<1> DEFINE e == DirRead(q, f, ok)
<1>1. /\ e.lstat = q.lstat \cup Tree[f]
      /\ e.readdir = q.readdir \ {f}
      /\ e.added = q.added
  <2>1. FolderRead(q, f, ok, e)
    BY DirReadFacts, Zenon
  <2>2. QED
    BY <2>1 DEF FolderRead
<1> HIDE DEF e
<1>2. PICK D \in SUBSET Folders :
          /\ Root \in D \cup q.readdir
          /\ \A g \in D : \A n \in Tree[g] :
                n \in q.lstat \/ n \in (IF n \in Folders THEN D \cup q.readdir ELSE q.added)
  BY DEF WalkedInv
<1> DEFINE E == D \cup {f}
<1>3. E \in SUBSET Folders /\ Root \in E \cup e.readdir
  BY <1>1, <1>2 DEF Job
<1>4. ASSUME NEW g \in E, NEW n \in Tree[g]
      PROVE  n \in e.lstat \/ n \in (IF n \in Folders THEN E \cup e.readdir ELSE e.added)
  <2>1. CASE g = f
    BY <1>1, <1>4, <2>1
  <2>2. CASE g # f
    BY <1>1, <1>2, <1>4, <2>2
  <2>3. QED
    BY <2>1, <2>2
<1>5. e.added \subseteq Nodes \ Folders
  BY <1>1 DEF WalkedInv
<1> HIDE DEF E
<1>6. QED
  BY <1>3, <1>4, <1>5 DEF WalkedInv, e

(* ... and a node that was looked at is read or added.                     *)
LEMMA LookedWalked ==
    ASSUME NEW q \in Job, NEW n \in q.lstat, NEW ok \in BOOLEAN, ok, WalkedInv(q)
    PROVE  WalkedInv(Looked(q, n, ok))
<1> DEFINE e == Looked(q, n, ok)
<1>1. /\ e.lstat = q.lstat \ {n}
      /\ e.readdir = IF n \in Folders THEN q.readdir \cup {n} ELSE q.readdir
      /\ e.added = IF n \notin Folders THEN q.added \cup {n} ELSE q.added
  <2>1. NodeLooked(q, n, ok, e)
    BY LookedFacts, Zenon
  <2>2. QED
    BY <2>1 DEF NodeLooked
<1> HIDE DEF e
<1>2. PICK D \in SUBSET Folders :
          /\ Root \in D \cup q.readdir
          /\ \A g \in D : \A m \in Tree[g] :
                m \in q.lstat \/ m \in (IF m \in Folders THEN D \cup q.readdir ELSE q.added)
  BY DEF WalkedInv
<1>3. Root \in D \cup e.readdir
  BY <1>1, <1>2
<1>4. \A g \in D : \A m \in Tree[g] :
         m \in e.lstat \/ m \in (IF m \in Folders THEN D \cup e.readdir ELSE e.added)
  BY <1>1, <1>2
<1>5. n \in Nodes
  BY DEF Job
<1>6. e.added \subseteq Nodes \ Folders
  BY <1>1, <1>5 DEF WalkedInv
<1>7. QED
  BY <1>2, <1>3, <1>4, <1>6 DEF WalkedInv, e

-----------------------------------------------------------------------------

(* One job's record changes.                                               *)
JobBecomes(j, q) ==
    /\ q \in Job
    /\ JobInv(q)
    /\ job' = [job EXCEPT ![j] = q]

(* One job's change keeps what all of them are.                            *)
LEMMA JobBecomesKeeps ==
    ASSUME Inv, NEW j \in Jobs, NEW q, JobBecomes(j, q)
    PROVE  ArchiveTypeOK' /\ JobsInv'
BY DEF JobBecomes, Inv, ReportingTypeOK, ArchiveTypeOK, JobsInv

(* A walk that fails, or goes on, keeps what a job is.                     *)
LEMMA WalkKeeps ==
    ASSUME NEW q \in Job, JobInv(q), NEW e \in Job, NEW ok \in BOOLEAN,
           \/ \E f \in q.readdir : e = DirRead(q, f, ok)
           \/ \E n \in q.lstat : e = Looked(q, n, ok)
    PROVE  JobInv(e)
<1>0. Ended(q, ok, e)
  <2>1. ASSUME NEW f \in q.readdir, e = DirRead(q, f, ok)
        PROVE  Ended(q, ok, e)
    <3>1. FolderRead(q, f, ok, e)
      BY <2>1, DirReadFacts, Zenon
    <3>2. QED
      BY <3>1 DEF FolderRead
  <2>2. ASSUME NEW n \in q.lstat, e = Looked(q, n, ok)
        PROVE  Ended(q, ok, e)
    <3>1. NodeLooked(q, n, ok, e)
      BY <2>2, LookedFacts, Zenon
    <3>2. QED
      BY <3>1 DEF NodeLooked
  <2>3. QED
    BY <2>1, <2>2, Zenon
<1>1. /\ e.at = q.at /\ e.compress = q.compress /\ e.id = q.id /\ e.told = q.told
      /\ e.bad = q.bad /\ e.finished = q.finished
      /\ e.late # q.late => q.finished
      /\ e.ended <=> q.ended \/ ~ok \/ Unwalked(e)
      /\ e.failed <=> q.failed \/ (~ok /\ ~q.ended)
  BY <1>0 DEF Ended
<1>2. ~Unwalked(q)
  BY DEF Unwalked
<1>3. q.at # "idle"
  BY <1>2 DEF JobInv, NoJob, Unwalked
<1>4. q.compress /\ CompressInv(q)
  BY <1>2 DEF JobInv
<1>5. ~e.failed => ok /\ ~q.failed
  <2>1. q.ended => q.failed
    BY <1>2, <1>4 DEF CompressInv
  <2>2. QED
    BY <1>1, <2>1
<1>6. WalkedInv(q) /\ ok => WalkedInv(e)
  BY DirReadWalked, LookedWalked, Zenon
<1>7. ~Contains(e.told, "ok")
  BY <1>1, <1>2, <1>4 DEF CompressInv
<1>8. e.at \in {"opening", "open"} /\ ~e.failed => WalkedInv(e)
  BY <1>1, <1>4, <1>5, <1>6 DEF CompressInv
<1>9. e.ended /\ ~e.failed => Unwalked(e)
  <2>1. q.ended => q.failed
    BY <1>2, <1>4 DEF CompressInv
  <2>2. QED
    BY <1>1, <1>5, <2>1
<1>10. e.at # "path"
  BY <1>1, <1>2, <1>4 DEF CompressInv
<1>11. /\ e.at \in {"idle", "path", "opening", "open", "over"}
       /\ e.at \in {"opening", "open"} =>
             \A k \in DOMAIN e.told : e.told[k] = "error" /\ e.failed
       /\ e.finished => e.ended
       /\ e.bad # {} \/ e.late # {} => e.failed
  <2>1. q.finished => q.failed
    BY <1>2, <1>4 DEF CompressInv
  <2>2. QED
    BY <1>1, <1>4, <2>1 DEF CompressInv
<1>12. CompressInv(e)
  BY <1>7, <1>8, <1>9, <1>10, <1>11 DEF CompressInv
<1>13. QED
  BY <1>1, <1>3, <1>4, <1>12 DEF JobInv

(* Another answer to a call, which may be its last, ...                     *)
LEMMA TellFacts ==
    ASSUME NEW q \in Job, NEW a \in {"ok", "error"}, NEW at \in {"extracting", "over"}
    PROVE  LET t == [Tell(q, a) EXCEPT !.at = at] IN
           /\ t \in Job
           /\ t.at = at /\ t.told = Append(q.told, a)
           /\ t.compress = q.compress /\ t.id = q.id
           /\ t.ended = q.ended /\ t.failed = q.failed
           /\ t.bad = q.bad /\ t.late = q.late /\ t.finished = q.finished
           /\ t.lstat = q.lstat /\ t.readdir = q.readdir /\ t.added = q.added
<1>1. q.told \in Seq({"ok", "error"})
  BY DEF Job
<1>2. Append(q.told, a) \in Seq({"ok", "error"})
  BY <1>1
<1>3. QED
  BY <1>2 DEF Tell, Job

(* ... and one that says that the call has failed.                         *)
LEMMA FailFacts ==
    ASSUME NEW q \in Job, NEW n \in Nodes
    PROVE  LET t == [Tell(q, "error") EXCEPT !.failed = TRUE, !.bad = @ \cup {n}] IN
           /\ t \in Job
           /\ t.at = q.at /\ t.told = Append(q.told, "error") /\ t.failed
           /\ t.compress = q.compress /\ t.id = q.id /\ t.ended = q.ended
           /\ t.late = q.late /\ t.finished = q.finished
           /\ t.lstat = q.lstat /\ t.readdir = q.readdir /\ t.added = q.added
<1>1. q.told \in Seq({"ok", "error"})
  BY DEF Job
<1>2. Append(q.told, "error") \in Seq({"ok", "error"})
  BY <1>1
<1>3. QED
  BY <1>2 DEF Tell, Job

(* An error after errors is no success.                                    *)
LEMMA AppendedTold ==
    ASSUME NEW s \in Seq({"ok", "error"}), NEW a \in {"ok", "error"}
    PROVE  /\ Contains(Append(s, a), "ok") <=> Contains(s, "ok") \/ a = "ok"
           /\ \A k \in DOMAIN Append(s, a) : (k \in DOMAIN s /\ Append(s, a)[k] = s[k]) \/ Append(s, a)[k] = a
<1>1. /\ Len(s) \in Nat /\ DOMAIN s = 1 .. Len(s)
      /\ Append(s, a) \in Seq({"ok", "error"})
      /\ Len(Append(s, a)) = Len(s) + 1
      /\ DOMAIN Append(s, a) = 1 .. Len(s) + 1
      /\ Append(s, a)[Len(s) + 1] = a
      /\ \A k \in 1 .. Len(s) : Append(s, a)[k] = s[k]
  OBVIOUS
<1>2. \A k \in 1 .. Len(s) + 1 : k \in 1 .. Len(s) \/ k = Len(s) + 1
  BY <1>1
<1>3. \A k \in 1 .. Len(s) : k \in 1 .. Len(s) + 1
  BY <1>1
<1>4. Len(s) + 1 \in 1 .. Len(s) + 1
  BY <1>1
<1>5. \A k \in DOMAIN Append(s, a) : (k \in DOMAIN s /\ Append(s, a)[k] = s[k]) \/ Append(s, a)[k] = a
  BY <1>1, <1>2
<1>6. Contains(Append(s, a), "ok") <=> Contains(s, "ok") \/ a = "ok"
  BY <1>1, <1>2, <1>3, <1>4 DEF Contains
<1>7. QED
  BY <1>5, <1>6

(* A job without an identifier has done nothing.                           *)
LEMMA NoJobFacts == NoJob \in Job /\ JobInv(NoJob)
<1>1. /\ NoJob \in Job /\ NoJob.at = "idle" /\ NoJob.id = NoId
      /\ NoJob.lstat = {} /\ NoJob.readdir = {} /\ NoJob.added = {} /\ NoJob.late = {}
  BY DEF NoJob, Job
<1>2. ~NoJob.compress /\ ~NoJob.ended
  BY Zenon DEF NoJob
<1>3. QED
  BY <1>1, <1>2 DEF JobInv, Unwalked

(* Every step keeps what the jobs are.                                     *)
LEMMA JobsStep ==
    ASSUME Inv, [ReportingNext]_reportingVars
    PROVE  ArchiveTypeOK' /\ JobsInv'
<1> DEFINE Goal == ArchiveTypeOK' /\ JobsInv'
<1>0. /\ job \in [Jobs -> Job]
      /\ \A j \in Jobs : JobInv(job[j])
  BY DEF Inv, ReportingTypeOK, ArchiveTypeOK, JobsInv
<1>1. ASSUME UNCHANGED job
      PROVE  Goal
  BY <1>0, <1>1 DEF ArchiveTypeOK, JobsInv
<1>2. ASSUME NEW j \in Jobs, NEW q, q \in Job, JobInv(q), Put(j, q)
      PROVE  Goal
  <2>1. JobBecomes(j, q)
    BY <1>2 DEF JobBecomes, Put
  <2>2. QED
    BY <2>1, JobBecomesKeeps
<1>3. ASSUME NEW j \in Jobs, NEW compress \in BOOLEAN, NEW i \in Ids, NEW ready \in BOOLEAN,
             Ask(j, compress, i, ready)
      PROVE  Goal
  <2> DEFINE q == [NoJob EXCEPT !.at = "path", !.compress = compress, !.id = i]
  <2>1. Put(j, q)
    BY <1>3 DEF Ask
  <2>2. /\ q \in Job /\ q.at = "path" /\ q.compress = compress /\ q.id = i
        /\ q.lstat = {} /\ q.readdir = {} /\ q.added = {} /\ q.told = <<>>
        /\ q.bad = {} /\ q.late = {} /\ ~q.finished
        /\ ~q.ended /\ ~q.failed
    <3>1. /\ NoJob \in Job /\ NoJob.lstat = {} /\ NoJob.readdir = {} /\ NoJob.added = {}
          /\ NoJob.bad = {} /\ NoJob.late = {} /\ NoJob.told = <<>>
      BY NoJobFacts DEF NoJob
    <3>2. ~NoJob.ended /\ ~NoJob.failed /\ ~NoJob.finished
      BY Zenon DEF NoJob
    <3> HIDE DEF NoJob
    <3>3. QED
      BY <3>1, <3>2 DEF Job
  <2> HIDE DEF q
  <2>3. CompressInv(q)
    BY <2>2 DEF CompressInv, Unwalked, Contains
  <2>4. JobInv(q)
    BY <2>2, <2>3, NoIdAssumption DEF JobInv, Unwalked
  <2>5. QED
    BY <1>2, <2>1, <2>2, <2>4
<1>4. ASSUME NEW j \in Jobs, PathMade(j)
      PROVE  Goal
  <2>1. job[j] \in Job /\ JobInv(job[j]) /\ job[j].at = "path"
    BY <1>0, <1>4 DEF PathMade
  <2>2. CASE job[j].compress
    <3> DEFINE q == [job[j] EXCEPT !.at = "opening", !.readdir = {Root}]
    <3>1. Put(j, q)
      BY <1>4, <2>2 DEF PathMade
    <3>2. /\ q \in Job /\ q.at = "opening" /\ q.readdir = {Root} /\ q.compress
          /\ q.id = job[j].id /\ q.added = job[j].added /\ q.told = job[j].told
          /\ q.ended = job[j].ended /\ q.bad = job[j].bad /\ q.late = job[j].late
          /\ q.finished = job[j].finished
      BY <2>1, <2>2, TreeAssumption DEF Job, Folders
    <3> HIDE DEF q
    <3>3. /\ q.added = {} /\ q.told = <<>> /\ ~q.ended
          /\ q.bad = {} /\ q.late = {} /\ ~q.finished
      BY <2>1, <2>2, <3>2 DEF JobInv, CompressInv
    <3>4. WalkedInv(q)
      BY <3>2, <3>3 DEF WalkedInv
    <3>5. CompressInv(q)
      BY <3>2, <3>3, <3>4 DEF CompressInv, Contains
    <3>6. JobInv(q)
      BY <2>1, <3>2, <3>5 DEF JobInv
    <3>7. QED
      BY <1>2, <3>1, <3>2, <3>6
  <2>3. CASE ~job[j].compress
    <3> DEFINE q == [job[j] EXCEPT !.at = "extracting"]
    <3>1. Put(j, q)
      BY <1>4, <2>3 DEF PathMade
    <3>2. /\ q \in Job /\ q.at = "extracting" /\ ~q.compress /\ q.id = job[j].id
          /\ q.lstat = job[j].lstat /\ q.readdir = job[j].readdir
          /\ q.added = job[j].added /\ q.late = job[j].late /\ q.ended = job[j].ended
      BY <2>1, <2>3 DEF Job
    <3> HIDE DEF q
    <3>3. JobInv(q)
      BY <2>1, <2>3, <3>2 DEF JobInv, Unwalked
    <3>4. QED
      BY <1>2, <3>1, <3>2, <3>3
  <2>4. QED
    BY <2>2, <2>3
<1>5. ASSUME NEW j \in Jobs, Opened(j)
      PROVE  Goal
  <2>1. job[j] \in Job /\ JobInv(job[j]) /\ job[j].at = "opening"
    BY <1>0, <1>5 DEF Opened
  <2> DEFINE q == [job[j] EXCEPT !.at = "open"]
  <2>2. /\ q \in Job /\ q.at = "open" /\ q.compress = job[j].compress /\ q.id = job[j].id
        /\ q.lstat = job[j].lstat /\ q.readdir = job[j].readdir /\ q.added = job[j].added
        /\ q.told = job[j].told /\ q.ended = job[j].ended /\ q.failed = job[j].failed
        /\ q.bad = job[j].bad /\ q.late = job[j].late /\ q.finished = job[j].finished
    BY <2>1 DEF Job
  <2>3. job' = job \/ Put(j, q)
    BY <1>5 DEF Opened
  <2> HIDE DEF q
  <2>4. q.compress => CompressInv(q)
    BY <2>1, <2>2 DEF JobInv, CompressInv, Contains, Unwalked, WalkedInv
  <2>5. JobInv(q)
    BY <2>1, <2>2, <2>4 DEF JobInv, Unwalked
  <2>6. QED
    BY <1>1, <1>2, <2>2, <2>3, <2>5
<1>6. ASSUME NEW j \in Jobs, NEW ok \in BOOLEAN, Walk(j, ok)
      PROVE  Goal
  <2>1. job[j] \in Job /\ JobInv(job[j])
    BY <1>0
  <2>2. CASE \E f \in job[j].readdir : Put(j, DirRead(job[j], f, ok))
    <3>1. PICK f \in job[j].readdir : Put(j, DirRead(job[j], f, ok))
      BY <2>2
    <3> DEFINE e == DirRead(job[j], f, ok)
    <3>2. FolderRead(job[j], f, ok, e)
      BY <2>1, DirReadFacts, Zenon
    <3>3. e \in Job
      BY <3>2 DEF FolderRead, Ended
    <3>4. JobInv(e)
      BY <2>1, <3>3, WalkKeeps, Zenon
    <3>5. Put(j, e)
      BY <3>1
    <3> HIDE DEF e
    <3>6. QED
      BY <1>2, <3>3, <3>4, <3>5
  <2>3. CASE \E n \in job[j].lstat : Put(j, Looked(job[j], n, ok))
    <3>1. PICK n \in job[j].lstat : Put(j, Looked(job[j], n, ok))
      BY <2>3
    <3> DEFINE e == Looked(job[j], n, ok)
    <3>2. NodeLooked(job[j], n, ok, e)
      BY <2>1, LookedFacts, Zenon
    <3>3. e \in Job
      BY <3>2 DEF NodeLooked, Ended
    <3>4. JobInv(e)
      BY <2>1, <3>3, WalkKeeps, Zenon
    <3>5. Put(j, e)
      BY <3>1
    <3> HIDE DEF e
    <3>6. QED
      BY <1>2, <3>3, <3>4, <3>5
  <2>4. QED
    BY <1>6, <2>2, <2>3, Zenon DEF Walk
<1>7. ASSUME NEW j \in Jobs, NEW q, q \in Job, ~q.compress, ~job[j].compress, Put(j, q),
             job[j].at # "idle", q.at # "idle", q.id = job[j].id,
             q.lstat = job[j].lstat, q.readdir = job[j].readdir,
             q.added = job[j].added, q.late = job[j].late, q.ended = job[j].ended
      PROVE  Goal
  <2>1. JobInv(q)
    BY <1>0, <1>7 DEF JobInv, Unwalked
  <2>2. QED
    BY <1>2, <1>7, <2>1
<1>8. ASSUME NEW j \in Jobs, PathRefused(j)
      PROVE  Goal
  <2>1. job[j] \in Job /\ JobInv(job[j]) /\ job[j].at = "path"
    BY <1>0, <1>8 DEF PathRefused
  <2> DEFINE q == [Tell(job[j], "error") EXCEPT !.at = "over"]
  <2>2. job[j].ended \in BOOLEAN
    BY <2>1 DEF Job
  <2>3. /\ q \in Job /\ q.at = "over" /\ q.told = Append(job[j].told, "error")
        /\ q.compress = job[j].compress /\ q.id = job[j].id
        /\ q.lstat = job[j].lstat /\ q.readdir = job[j].readdir
        /\ q.added = job[j].added /\ q.bad = job[j].bad /\ q.late = job[j].late
        /\ q.ended = job[j].ended /\ q.failed = job[j].failed /\ q.finished = job[j].finished
    BY <2>1, TellFacts
  <2>4. Put(j, q)
    BY <1>8 DEF PathRefused
  <2> HIDE DEF q
  <2>5. ASSUME job[j].compress
        PROVE  CompressInv(q)
    <3>1. /\ job[j].told = <<>> /\ Unwalked(job[j]) /\ ~job[j].finished
          /\ job[j].bad = {} /\ job[j].late = {}
      BY <2>1, <2>5 DEF JobInv, CompressInv
    <3>2. ~Contains(q.told, "ok")
      BY <2>3, <3>1 DEF Contains
    <3>3. QED
      BY <2>3, <3>1, <3>2 DEF CompressInv, Unwalked
  <2>6. JobInv(q)
    BY <2>1, <2>3, <2>5 DEF JobInv, Unwalked
  <2>7. QED
    BY <1>2, <2>3, <2>4, <2>6
<1>9. ASSUME NEW j \in Jobs, EntryFails(j)
      PROVE  Goal
  <2>1. job[j] \in Job /\ JobInv(job[j])
    BY <1>0
  <2>2. PICK n \in (IF job[j].finished THEN job[j].late ELSE job[j].added) \ job[j].bad :
           Put(j, [Tell(job[j], "error") EXCEPT !.failed = TRUE, !.bad = @ \cup {n}])
    BY <1>9 DEF EntryFails
  <2> DEFINE q == [Tell(job[j], "error") EXCEPT !.failed = TRUE, !.bad = @ \cup {n}]
  <2>3. n \in Nodes
    BY <2>1 DEF Job
  <2>4. /\ q \in Job /\ q.at = job[j].at /\ q.failed /\ q.told = Append(job[j].told, "error")
        /\ q.compress = job[j].compress /\ q.id = job[j].id /\ q.ended = job[j].ended
        /\ q.late = job[j].late /\ q.finished = job[j].finished
        /\ q.lstat = job[j].lstat /\ q.readdir = job[j].readdir
    BY <2>1, <2>3, FailFacts
  <2>5. Put(j, q)
    BY <2>2
  <2> HIDE DEF q
  <2>6. job[j].added # {} \/ job[j].late # {}
    BY <2>2
  <2>7. job[j].compress /\ CompressInv(job[j]) /\ job[j].at # "idle"
    <3>1. NoJob.added = {} /\ NoJob.late = {}
      BY NoJobFacts DEF NoJob
    <3>2. QED
      BY <2>1, <2>6, <3>1 DEF JobInv
  <2>8. job[j].at # "path" /\ ~Contains(job[j].told, "ok")
    BY <2>2, <2>6, <2>7 DEF CompressInv
  <2>9. job[j].told \in Seq({"ok", "error"})
    BY <2>1 DEF Job
  <2>10. ~Contains(q.told, "ok")
    BY <2>4, <2>8, <2>9, AppendedTold
  <2>11. ASSUME q.at \in {"opening", "open"}
         PROVE  \A k \in DOMAIN q.told : q.told[k] = "error" /\ q.failed
    <3>1. \A k \in DOMAIN job[j].told : job[j].told[k] = "error"
      BY <2>4, <2>7, <2>11 DEF CompressInv
    <3>2. QED
      BY <2>4, <2>9, <3>1, AppendedTold
  <2>12. CompressInv(q)
    BY <2>4, <2>7, <2>8, <2>10, <2>11 DEF CompressInv
  <2>13. JobInv(q)
    BY <2>1, <2>4, <2>7, <2>12 DEF JobInv
  <2>14. QED
    BY <1>2, <2>4, <2>5, <2>13
<1>10. ASSUME NEW j \in Jobs, OutputCloses(j)
       PROVE  Goal
  <2>1. job[j] \in Job /\ JobInv(job[j]) /\ job[j].at = "open" /\ job[j].finished
    BY <1>0, <1>10 DEF OutputCloses
  <2> DEFINE a == IF job[j].failed THEN "error" ELSE "ok"
             q == [Tell(job[j], a) EXCEPT !.at = "over"]
  <2>2. job[j].failed \in BOOLEAN /\ job[j].told \in Seq({"ok", "error"})
    BY <2>1 DEF Job
  <2>3. a \in {"ok", "error"} /\ (a = "ok" <=> ~job[j].failed)
    BY <2>2
  <2>4. Put(j, [Tell(job[j], a) EXCEPT !.at = "over"])
    BY <1>10 DEF OutputCloses
  <2> HIDE DEF a
  <2>5. /\ q \in Job /\ q.at = "over" /\ q.told = Append(job[j].told, a)
        /\ q.failed = job[j].failed /\ q.ended = job[j].ended
        /\ q.finished = job[j].finished /\ q.bad = job[j].bad /\ q.late = job[j].late
        /\ q.compress = job[j].compress /\ q.id = job[j].id /\ q.added = job[j].added
        /\ q.lstat = job[j].lstat /\ q.readdir = job[j].readdir
    BY <2>1, <2>3, TellFacts
  <2>6. Put(j, q)
    BY <2>4
  <2> HIDE DEF q
  <2>7. ASSUME job[j].compress
        PROVE  CompressInv(q)
    <3>1. CompressInv(job[j]) /\ job[j].ended
      BY <2>1, <2>7 DEF JobInv, CompressInv
    <3>2. CASE job[j].failed
      <4>1. \A k \in DOMAIN job[j].told : job[j].told[k] = "error"
        BY <2>1, <3>1 DEF CompressInv
      <4>2. ~Contains(q.told, "ok")
        BY <2>2, <2>3, <2>5, <3>2, <4>1, AppendedTold DEF Contains
      <4>3. QED
        BY <2>1, <2>5, <3>1, <3>2, <4>2 DEF CompressInv
    <3>3. CASE ~job[j].failed
      <4>1. WalkedInv(job[j]) /\ Unwalked(job[j])
        BY <2>1, <3>1, <3>3 DEF CompressInv
      <4>2. job[j].added = Nodes \ Folders
        BY <4>1, WalkedWhole
      <4>3. job[j].told = <<>>
        <5>1. DOMAIN job[j].told = {}
          BY <2>1, <3>1, <3>3 DEF CompressInv
        <5>2. QED
          BY <2>2, <5>1
      <4>4. q.told = <<"ok">>
        BY <2>3, <2>5, <3>3, <4>3
      <4>5. QED
        BY <2>1, <2>5, <3>1, <3>3, <4>1, <4>2, <4>4 DEF CompressInv, Unwalked
    <3>4. QED
      BY <3>2, <3>3
  <2>8. JobInv(q)
    BY <2>1, <2>5, <2>7 DEF JobInv, Unwalked
  <2>9. QED
    BY <1>2, <2>5, <2>6, <2>8
<1>11. ASSUME NEW j \in Jobs, job[j].at \in {"extracting", "readdir", "stat"}
       PROVE  job[j] \in Job /\ ~job[j].compress /\ job[j].at # "idle"
  BY <1>0, <1>11 DEF JobInv, CompressInv
<1>12. ASSUME NEW j \in Jobs, job[j].at \in {"extracting", "readdir", "stat"},
              NEW a \in {"ok", "error"}, NEW at \in {"extracting", "over"},
              Put(j, [Tell(job[j], a) EXCEPT !.at = at])
       PROVE  Goal
  <2>1. job[j] \in Job /\ ~job[j].compress /\ job[j].at # "idle"
    BY <1>11, <1>12
  <2> DEFINE p == Tell(job[j], a)
             q == [p EXCEPT !.at = at]
  <2>2. /\ p \in Job /\ p.compress = job[j].compress /\ p.id = job[j].id
        /\ p.lstat = job[j].lstat /\ p.readdir = job[j].readdir
        /\ p.added = job[j].added /\ p.late = job[j].late /\ p.ended = job[j].ended
    <3>1. job[j].told \in Seq({"ok", "error"})
      BY <2>1 DEF Job
    <3>2. Append(job[j].told, a) \in Seq({"ok", "error"})
      BY <1>12, <3>1
    <3>3. QED
      BY <2>1, <3>2 DEF Tell, Job
  <2>3. Put(j, q)
    BY <1>12
  <2> HIDE DEF p
  <2>4. /\ q \in Job /\ q.at = at /\ q.compress = job[j].compress /\ q.id = job[j].id
        /\ q.lstat = job[j].lstat /\ q.readdir = job[j].readdir
        /\ q.added = job[j].added /\ q.late = job[j].late /\ q.ended = job[j].ended
    BY <1>12, <2>2 DEF Job
  <2> HIDE DEF q
  <2>5. QED
    BY <1>7, <1>12, <2>1, <2>3, <2>4
<1>13. ASSUME NEW j \in Jobs, job[j].at \in {"extracting", "readdir", "stat"},
              NEW at \in {"readdir", "stat"}, Put(j, [job[j] EXCEPT !.at = at])
       PROVE  Goal
  <2>1. job[j] \in Job /\ ~job[j].compress /\ job[j].at # "idle"
    BY <1>11, <1>13
  <2> DEFINE q == [job[j] EXCEPT !.at = at]
  <2>2. /\ q \in Job /\ q.at = at /\ q.compress = job[j].compress /\ q.id = job[j].id
        /\ q.lstat = job[j].lstat /\ q.readdir = job[j].readdir
        /\ q.added = job[j].added /\ q.late = job[j].late /\ q.ended = job[j].ended
    BY <2>1 DEF Job
  <2>3. Put(j, q)
    BY <1>13
  <2> HIDE DEF q
  <2>4. QED
    BY <1>7, <2>1, <2>2, <2>3
<1>14. ASSUME NEW j \in Jobs, ExtractFails(j)
       PROVE  Goal
  <2>1. job[j].at = "extracting" /\ job[j] \in Job
    BY <1>0, <1>14 DEF ExtractFails
  <2>2. Tell(job[j], "error") = [Tell(job[j], "error") EXCEPT !.at = "extracting"]
    BY <2>1 DEF Tell, Job
  <2>3. Put(j, [Tell(job[j], "error") EXCEPT !.at = "extracting"])
    BY <1>14, <2>2 DEF ExtractFails
  <2>4. QED
    BY <1>12, <2>1, <2>3
<1>15. ASSUME NEW j \in Jobs, NEW normalize \in BOOLEAN, Extracted(j, normalize)
       PROVE  Goal
  <2>1. job[j].at = "extracting"
    BY <1>15 DEF Extracted
  <2>2. CASE normalize
    BY <1>13, <1>15, <2>1, <2>2 DEF Extracted
  <2>3. CASE ~normalize
    BY <1>12, <1>15, <2>1, <2>3 DEF Extracted
  <2>4. QED
    BY <2>2, <2>3
<1>16. ASSUME NEW j \in Jobs, NEW ok \in BOOLEAN, NEW single \in BOOLEAN, Normalized(j, ok, single)
       PROVE  Goal
  <2>1. job[j].at \in {"extracting", "readdir", "stat"}
    BY <1>16 DEF Normalized
  <2>2. \/ Put(j, [Tell(job[j], "error") EXCEPT !.at = "over"])
        \/ Put(j, [job[j] EXCEPT !.at = "stat"])
        \/ Put(j, [Tell(job[j], "ok") EXCEPT !.at = "over"])
    BY <1>16 DEF Normalized
  <2>3. QED
    BY <1>12, <1>13, <2>1, <2>2
<1>17. CASE UNCHANGED job
  BY <1>1, <1>17
<1>18. ASSUME NEW j \in Jobs, SourceUnreadable(j) \/ WriteAfterEnd(j) \/ Unpack(j)
       PROVE  Goal
  BY <1>1, <1>18 DEF SourceUnreadable, WriteAfterEnd, Unpack
<1>19. ASSUME NEW j \in Jobs, Finish(j)
       PROVE  Goal
  <2>1. job[j] \in Job /\ JobInv(job[j]) /\ job[j].ended /\ job[j].bad = {}
    BY <1>0, <1>19 DEF Finish
  <2> DEFINE q == [job[j] EXCEPT !.finished = TRUE]
  <2>2. /\ q \in Job /\ q.at = job[j].at /\ q.finished /\ q.compress = job[j].compress
        /\ q.id = job[j].id /\ q.lstat = job[j].lstat /\ q.readdir = job[j].readdir
        /\ q.added = job[j].added /\ q.bad = job[j].bad /\ q.late = job[j].late
        /\ q.ended = job[j].ended /\ q.failed = job[j].failed /\ q.told = job[j].told
    BY <2>1 DEF Job
  <2>3. Put(j, q)
    BY <1>19 DEF Finish
  <2> HIDE DEF q
  <2>4. ~NoJob.ended
    BY Zenon DEF NoJob
  <2>5. job[j].compress /\ CompressInv(job[j]) /\ job[j].at # "idle"
    BY <2>1, <2>4 DEF JobInv
  <2>6. CompressInv(q)
    BY <2>1, <2>2, <2>5 DEF CompressInv, WalkedInv, Unwalked
  <2>7. JobInv(q)
    BY <2>1, <2>2, <2>5, <2>6 DEF JobInv
  <2>8. QED
    BY <1>2, <2>2, <2>3, <2>7
<1>20. CASE ArchiveNext
  BY <1>3, <1>4, <1>5, <1>6, <1>8, <1>9, <1>10, <1>14, <1>15, <1>16, <1>18, <1>19, <1>20 DEF ArchiveNext
<1>21. QED
  BY <1>17, <1>20 DEF ReportingNext, reportingVars

-----------------------------------------------------------------------------

(* Nothing is reported or compressed at first.                             *)
LEMMA InitInv == ReportingInit => Inv
<1> SUFFICES ASSUME ReportingInit
             PROVE  Inv
  OBVIOUS
<1>1. ShelfTypeOK /\ UploadKept /\ NoParts
  BY DEF ReportingInit, ShelfInit, ShelfTypeOK, UploadKept, NoParts
<1>2. ArchiveTypeOK /\ JobsInv
  BY NoJobFacts DEF ReportingInit, ArchiveInit, ArchiveTypeOK, JobsInv
<1>3. /\ NoReport \in Report /\ NoReport.done = 0 /\ NoReport.at = "idle"
      /\ NoReport.attachments = <<>>
  BY AttachmentsAssumption DEF NoReport, Report
<1>4. /\ \A r \in Reports : report[r] = NoReport /\ desk[r] = <<>>
      /\ report \in [Reports -> Report] /\ desk \in [Reports -> Seq(Sent)]
  BY <1>3 DEF ReportingInit, ReportInit
<1>5. ReportTypeOK
  BY <1>4 DEF ReportTypeOK, Sent
<1>6. ReportsInv
  BY <1>3, <1>4, AttachmentsAssumption DEF ReportsInv, SentInv
<1>7. QED
  BY <1>1, <1>2, <1>5, <1>6 DEF Inv, ReportingTypeOK

(* The conjunction is inductive.                                           *)
LEMMA InvStep == Inv /\ [ReportingNext]_reportingVars => Inv'
<1> SUFFICES ASSUME Inv, [ReportingNext]_reportingVars
             PROVE  Inv'
  OBVIOUS
<1>1. [ShelfNext]_shelfVars
  BY ShelfStep
<1>2. ShelfTypeOK' /\ UploadKept' /\ NoParts'
  BY <1>1, ShelfTypeStep, UploadKeptStep, NoPartsStep DEF Inv, ReportingTypeOK
<1>3. ReportTypeOK' /\ ReportsInv'
  BY ReportsStep
<1>4. ArchiveTypeOK' /\ JobsInv'
  BY JobsStep
<1>5. QED
  BY <1>2, <1>3, <1>4 DEF Inv, ReportingTypeOK

(* Every reachable state satisfies the inductive invariant.                *)
LEMMA Invariance == ReportingSpec => []Inv
BY InitInv, InvStep, PTL DEF ReportingSpec

(* Every reachable state is of its type.                                   *)
THEOREM TypeCorrect == ReportingSpec => []ReportingTypeOK
BY Invariance, PTL DEF Inv

(* The archive storage and the reports are users of a Shelf: whatever they *)
(* do to it is a step of its own, so that it keeps its promises.           *)
THEOREM ReportingUsesShelf == ReportingSpec => ShelfSpec
<1>1. ReportingInit => ShelfInit
  BY DEF ReportingInit
<1>2. Inv /\ [ReportingNext]_reportingVars => [ShelfNext]_shelfVars
  BY ShelfStep
<1>3. QED
  BY <1>1, <1>2, Invariance, PTL DEF ReportingSpec, ShelfSpec

(* An upload is there in full until it may be removed, archives that are   *)
(* made of directories meanwhile included.                                 *)
THEOREM UploadsKept == ReportingSpec => []UploadKept
BY Invariance, PTL DEF Inv

(* The help desk has the attachments of a report in order, each once and   *)
(* in full, and all of them when sendReport() is answered without error.   *)
THEOREM ReportsAttached == ReportingSpec => []Attached
<1>1. Inv => Attached
  <2> SUFFICES ASSUME Inv, NEW r \in Reports
               PROVE  LET ids == [k \in DOMAIN desk[r] |-> desk[r][k].id] IN
                      /\ IsPrefix(ids, report[r].attachments)
                      /\ report[r].at = "ok" => ids = report[r].attachments
                      /\ \A k \in DOMAIN desk[r] : desk[r][k].whole
    BY DEF Attached
  <2> DEFINE d == desk[r]
             t == report[r].attachments
             ids == [k \in DOMAIN d |-> d[k].id]
  <2>1. d \in Seq(Sent) /\ t \in Seq(Ids) /\ report[r].done \in Nat /\ SentInv(report[r], d)
    <3>1. report[r] \in Report /\ d \in Seq(Sent)
      BY DEF Inv, ReportingTypeOK, ReportTypeOK, Sent
    <3>2. SentInv(report[r], d)
      BY DEF Inv, ReportsInv
    <3>3. QED
      BY <3>1, <3>2 DEF Report
  <2>2. Len(d) \in Nat /\ DOMAIN d = 1 .. Len(d) /\ Len(t) \in Nat /\ DOMAIN t = 1 .. Len(t)
    BY <2>1
  <2>3. \A k \in DOMAIN d : d[k] \in Sent /\ d[k].id \in Ids
    <3>1. \A k \in DOMAIN d : d[k] \in Sent
      BY <2>1
    <3>2. QED
      BY <3>1 DEF Sent
  <2>4. ids \in Seq(Ids) /\ Len(ids) = Len(d) /\ \A k \in 1 .. Len(d) : ids[k] = t[k]
    BY <2>1, <2>2, <2>3 DEF SentInv
  <2>5. Len(d) <= Len(t) /\ (report[r].at = "ok" => Len(d) = Len(t))
    BY <2>1, <2>2 DEF SentInv
  <2>6. \A k \in DOMAIN d : d[k].whole
    BY <2>1 DEF SentInv
  <2> HIDE DEF ids, d, t
  <2>7. SubSeq(ids, 1, Len(ids)) = SubSeq(t, 1, Len(ids))
    <3>1. \A k \in 1 .. Len(d) : 1 <= k /\ k <= Len(d) /\ 1 + k - 1 = k
      BY <2>2
    <3>2. /\ SubSeq(ids, 1, Len(d)) \in Seq(Ids) /\ Len(SubSeq(ids, 1, Len(d))) = Len(d)
          /\ \A k \in 1 .. Len(d) : SubSeq(ids, 1, Len(d))[k] = ids[k]
      BY <2>2, <2>4, <3>1, SubSeqProperties
    <3>3. /\ SubSeq(t, 1, Len(d)) \in Seq(Ids) /\ Len(SubSeq(t, 1, Len(d))) = Len(d)
          /\ \A k \in 1 .. Len(d) : SubSeq(t, 1, Len(d))[k] = t[k]
      <4>1. \A k \in 1 .. Len(d) : t[k] \in Ids
        <5>1. \A k \in DOMAIN t : t[k] \in Ids
          BY <2>1
        <5>2. 1 .. Len(d) \subseteq 1 .. Len(t)
          <6>1. Len(d) \in Nat /\ Len(t) \in Nat /\ Len(d) <= Len(t)
            BY <2>2, <2>5
          <6>2. QED
            BY <6>1
        <5>3. QED
          BY <2>2, <5>1, <5>2
      <4>2. QED
        BY <2>2, <3>1, <4>1, SubSeqProperties
    <3>4. QED
      BY <2>2, <2>4, <3>2, <3>3, SeqEqual
  <2>8. IsPrefix(ids, t)
    BY <2>4, <2>5, <2>7 DEF IsPrefix
  <2>9. report[r].at = "ok" => ids = t
    BY <2>1, <2>2, <2>4, <2>5
  <2>10. QED
    BY <2>6, <2>8, <2>9 DEF ids, d, t
<1>2. QED
  BY <1>1, Invariance, PTL

(* A compress() that is answered with success is answered once, and has    *)
(* every file of the directory in its archive.                             *)
THEOREM ArchivesWhole == ReportingSpec => []SuccessIsWhole
<1>1. Inv => SuccessIsWhole
  BY DEF Inv, JobsInv, JobInv, CompressInv, SuccessIsWhole
<1>2. QED
  BY <1>1, Invariance, PTL
=============================================================================

----------------------------- MODULE FileUploads -----------------------------
(***************************************************************************)
(* Files of records (core/file_uploads.go, core/files.go,                  *)
(* core/object_storage.go, apis/file_uploads.go, apis/files.go): uploads   *)
(* in one request, and resumable ones whose chunks are stored in a         *)
(* temporary directory and recorded in a table, then assembled into an     *)
(* object that the record's field refers to.                               *)
(*                                                                         *)
(* A completion claims its session in a transaction and works on after it. *)
(* Requests that store a chunk of the same index share a temporary file:   *)
(* what comes of them when they overlap is any of their contents, or a     *)
(* mixture.  A file is named by its session or its upload.                 *)
(***************************************************************************)
EXTENDS Naturals, SequencesExt, FiniteSets

CONSTANTS
  Uploads, Directs,      \* resumable uploads, uploads in one request
  FileRecords,           \* records of a collection with one file field
  Chunks, Contents,      \* indexes, and contents a client may send for a chunk
  Mixed, Nothing,
  Declared,              \* the content the declared checksum is of
  ChunkRequests

Files == Uploads \cup Directs

ASSUME FilesAssumption ==
  /\ Uploads \cap Directs = {}
  /\ Declared \in Contents /\ {Mixed, Nothing} \cap Contents = {} /\ Mixed # Nothing

VARIABLES
  objectStore,   \* "local" or "s3"
  uploads,       \* rows of _dbo.file_upload_sessions
  chunkRows,     \* rows of _dbo.file_upload_chunks: the content received
  parts,         \* the part files of a session
  chunkRequests, \* requests between opening their session and recording the chunk
  work,          \* work[f]: what the request that completes a session, or uploads f, did last
  fileField,     \* fileField[r]: the files of a record; <<"deleted">>: it is gone
  objects,       \* objects stored
  cleaning,      \* expired sessions a clean-up read
  deleting,      \* records deleted whose storage is still to be removed
  (* history *)
  disturbed,     \* sessions whose chunks were overwritten by requests that overlapped
  assembled,     \* assembled[u]: contents of the parts its object was made of
  unsure         \* files whose update committed with nobody told

uploadRows == <<uploads, chunkRows>>
filesVars == <<objectStore, uploadRows, parts, chunkRequests, work, fileField, objects, cleaning,
               deleting, disturbed, assembled, unsure>>

Deleted == <<"deleted">>
NoParts == [i \in Chunks |-> Nothing]
NoUpload == [status |-> "none"]
Modes == {"replace", "append"}
Idle == [step |-> "idle"]

FilesTypeOK ==
  /\ \A u \in Uploads :
       /\ uploads[u] = NoUpload
          \/ uploads[u] \in [status : {"open", "completing", "completed", "canceled"},
                             record : FileRecords, mode : Modes, declared : BOOLEAN,
                             expired : BOOLEAN]
       /\ chunkRows[u] \in [Chunks -> Contents \cup {Nothing}]
       /\ parts[u] \in [Chunks -> Contents \cup {Mixed, Nothing}]
  /\ \A r \in FileRecords : fileField[r] = Deleted \/ Range(fileField[r]) \subseteq Files
  /\ objects \subseteq Files /\ cleaning \subseteq Uploads /\ deleting \subseteq FileRecords
  /\ \A f \in Files : work[f].step \in {"idle", "claimed", "stored", "updated"}

FilesInit(store) ==
  /\ objectStore = store
  /\ uploads = [u \in Uploads |-> NoUpload]
  /\ chunkRows = [u \in Uploads |-> NoParts]
  /\ parts = [u \in Uploads |-> NoParts]
  /\ chunkRequests = [w \in ChunkRequests |-> Idle]
  /\ work = [f \in Files |-> Idle]
  /\ fileField = [r \in FileRecords |-> <<>>]
  /\ objects = {} /\ cleaning = {} /\ deleting = {}
  /\ disturbed = {} /\ assembled = [u \in Uploads |-> NoParts] /\ unsure = {}

------------------------------------------------------------------------------
(* Object storage *)

RecordOf(f) == work[f].record

\* On a local disk the directory above the prefix goes with it: of a file, the field's; of a
\* record, the collection's.
RemoveStoredFiles(S) ==
  IF S # {} /\ objectStore = "local"
  THEN {g \in objects : \A f \in S : RecordOf(g) # RecordOf(f)}
  ELSE objects \ S
RemoveRecordStorage(r) ==
  IF objectStore = "local" THEN {} ELSE {f \in objects : RecordOf(f) # r}

------------------------------------------------------------------------------
(* Sessions and chunks *)

CreateFileUploadSession(u, r, mode, declared) ==
  /\ uploads[u] = NoUpload /\ fileField[r] # Deleted
  /\ uploads' = [uploads EXCEPT ![u] = [status |-> "open", record |-> r, mode |-> mode,
                                        declared |-> declared, expired |-> FALSE]]
  /\ UNCHANGED <<objectStore, chunkRows, parts, chunkRequests, work, fileField, objects, cleaning,
                 deleting, disturbed, assembled, unsure>>

Expire(u) ==
  /\ uploads[u] # NoUpload /\ ~uploads[u].expired
  /\ uploads' = [uploads EXCEPT ![u].expired = TRUE]
  /\ UNCHANGED <<objectStore, chunkRows, parts, chunkRequests, work, fileField, objects, cleaning,
                 deleting, disturbed, assembled, unsure>>

Open(u) == uploads[u].status = "open" /\ ~uploads[u].expired

InFlight(u, S) ==
  {w \in ChunkRequests : /\ chunkRequests[w] # Idle
                         /\ chunkRequests[w].upload = u /\ chunkRequests[w].index \in S}
Writing(u, i) == {w \in InFlight(u, {i}) : chunkRequests[w].step = "writing"}

\* The session is open when the request arrives.
GetOpenFileUploadSession(w, u, i, c) ==
  /\ chunkRequests[w] = Idle /\ Open(u)
  /\ chunkRequests' = [v \in ChunkRequests |->
       IF v = w THEN [step |-> "writing", upload |-> u, index |-> i, content |-> c,
                      overlaps |-> Writing(u, i) # {}]
       ELSE IF v \in Writing(u, i) THEN [chunkRequests[v] EXCEPT !.overlaps = TRUE]
       ELSE chunkRequests[v]]
  /\ disturbed' = IF InFlight(u, {i}) # {} THEN disturbed \cup {u} ELSE disturbed
  /\ UNCHANGED <<objectStore, uploadRows, parts, work, fileField, objects, cleaning, deleting,
                 assembled, unsure>>

ChunkFails(w) ==
  /\ chunkRequests[w] # Idle
  /\ disturbed' = disturbed \cup {chunkRequests[w].upload}
  /\ chunkRequests' = [chunkRequests EXCEPT ![w] = Idle]
  /\ UNCHANGED <<objectStore, uploadRows, parts, work, fileField, objects, cleaning, deleting,
                 assembled, unsure>>

\* Renamed to its part.  Of those that overlapped one finds its file gone, or another's.
StoreFileUploadChunk(w) ==
  LET r == chunkRequests[w]
  IN /\ r.step = "writing"
     /\ \E c \in IF r.overlaps THEN Contents \cup {Mixed} ELSE {r.content} :
          parts' = [parts EXCEPT ![r.upload][r.index] = c]
     /\ chunkRequests' = [chunkRequests EXCEPT ![w].step = "stored"]
     /\ UNCHANGED <<objectStore, uploadRows, work, fileField, objects, cleaning, deleting,
                    disturbed, assembled, unsure>>

\* Recorded while the session is open still; otherwise, or when that fails, the part is removed.
RecordFileUploadChunk(w) ==
  LET r == chunkRequests[w]
  IN /\ r.step = "stored"
     /\ \/ /\ Open(r.upload)
           /\ chunkRows' = [chunkRows EXCEPT ![r.upload][r.index] = r.content]
           /\ UNCHANGED parts
        \/ /\ parts' = [parts EXCEPT ![r.upload][r.index] = Nothing]
           /\ UNCHANGED chunkRows
     /\ chunkRequests' = [chunkRequests EXCEPT ![w] = Idle]
     /\ UNCHANGED <<objectStore, uploads, work, fileField, objects, cleaning, deleting, disturbed,
                    assembled, unsure>>

CancelFileUploadSession(u) ==
  /\ Open(u)
  /\ uploads' = [uploads EXCEPT ![u].status = "canceled"]
  /\ parts' = [parts EXCEPT ![u] = NoParts]
  /\ UNCHANGED <<objectStore, chunkRows, chunkRequests, work, fileField, objects, cleaning,
                 deleting, disturbed, assembled, unsure>>

\* Every new session begins with a clean-up of those that expired, in the status read.
CleanupRead ==
  /\ cleaning = {}
  /\ cleaning' = {u \in Uploads : uploads[u].status \in {"open", "completing"}
                                  /\ uploads[u].expired}
  /\ cleaning' # {}
  /\ UNCHANGED <<objectStore, uploadRows, parts, chunkRequests, work, fileField, objects,
                 deleting, disturbed, assembled, unsure>>

CleanupCancel(u) ==
  /\ u \in cleaning
  /\ uploads' = [uploads EXCEPT ![u].status =
                   IF @ \in {"open", "completing"} THEN "canceled" ELSE @]
  /\ parts' = [parts EXCEPT ![u] = NoParts]
  /\ cleaning' = cleaning \ {u}
  /\ UNCHANGED <<objectStore, chunkRows, chunkRequests, work, fileField, objects, deleting,
                 disturbed, assembled, unsure>>

------------------------------------------------------------------------------
(* Completing a session, and uploading in one request *)

ClaimFileUploadSessionForComplete_Unclaimed(u) ==
  /\ Open(u) /\ \A i \in Chunks : chunkRows[u][i] # Nothing
  /\ work[u].step = "idle"
  /\ uploads' = uploads
  /\ work' = [work EXCEPT ![u] = [step |-> "claimed", record |-> uploads[u].record]]
  /\ disturbed' = IF InFlight(u, Chunks) # {} THEN disturbed \cup {u} ELSE disturbed
  /\ UNCHANGED <<objectStore, chunkRows, parts, chunkRequests, fileField, objects, cleaning,
                 deleting, assembled, unsure>>

ClaimFileUploadSessionForComplete(u) ==
  /\ Open(u) /\ \A i \in Chunks : chunkRows[u][i] # Nothing
  /\ work[u].step = "idle"
  /\ uploads' = [uploads EXCEPT ![u].status = "completing"]
  /\ work' = [work EXCEPT ![u] = [step |-> "claimed", record |-> uploads[u].record]]
  /\ disturbed' = IF InFlight(u, Chunks) # {} THEN disturbed \cup {u} ELSE disturbed
  /\ UNCHANGED <<objectStore, chunkRows, parts, chunkRequests, fileField, objects, cleaning,
                 deleting, assembled, unsure>>

Ended(f) == work' = [work EXCEPT ![f].step = "idle"]

\* Which itself may fail, unnoticed.
Reopen(f) ==
  IF f \in Uploads /\ uploads[f].status = "completing"
  THEN \E status \in {"open", "completing"} : uploads' = [uploads EXCEPT ![f].status = status]
  ELSE UNCHANGED uploads

AssembleFails(u) ==
  /\ work[u].step = "claimed"
  /\ Reopen(u)
  /\ Ended(u)
  /\ UNCHANGED <<objectStore, chunkRows, parts, chunkRequests, fileField, objects, cleaning,
                 deleting, disturbed, assembled, unsure>>

\* The parts there are, whatever the table says of them; the checksum is the whole file's.
AssembleFileUploadSession(u) ==
  /\ work[u].step = "claimed"
  /\ \A i \in Chunks : /\ parts[u][i] # Nothing
                       /\ uploads[u].declared => parts[u][i] = Declared
  /\ objects' = objects \cup {u}
  /\ assembled' = [assembled EXCEPT ![u] = parts[u]]
  /\ work' = [work EXCEPT ![u].step = "stored"]
  /\ UNCHANGED <<objectStore, uploadRows, parts, chunkRequests, fileField, cleaning, deleting,
                 disturbed, unsure>>

StoreUploadedFile(f, r) ==
  /\ work[f] = Idle /\ f \in Directs \ objects /\ fileField[r] # Deleted
  /\ objects' = objects \cup {f}
  /\ work' = [work EXCEPT ![f] = [step |-> "stored", record |-> r]]
  /\ UNCHANGED <<objectStore, uploadRows, parts, chunkRequests, fileField, cleaning, deleting,
                 disturbed, assembled, unsure>>

ModeOf(f) == IF f \in Uploads THEN {uploads[f].mode} ELSE Modes
Readable(r) == fileField[r] # Deleted /\ IsInjective(fileField[r]) \* no file id twice

RemovedBy_AnyMode(f, mode) == Range(fileField[RecordOf(f)])
RemovedBy(f, mode) == IF mode = "append" THEN {} ELSE Range(fileField[RecordOf(f)])

\* The new list, under the record's lock.
FieldWith(f, mode) == IF mode = "append" THEN Append(fileField[RecordOf(f)], f) ELSE <<f>>

UpdateRecordFileField(f) ==
  /\ work[f].step = "stored" /\ Readable(RecordOf(f))
  /\ \E mode \in ModeOf(f) :
       /\ fileField' = [fileField EXCEPT ![RecordOf(f)] = FieldWith(f, mode)]
       /\ work' = [work EXCEPT ![f] =
            [step |-> "updated", record |-> @.record,
             removed |-> RemovedBy(f, mode)]]
  /\ UNCHANGED <<objectStore, uploadRows, parts, chunkRequests, objects, cleaning, deleting,
                 disturbed, assembled, unsure>>

\* The new object is removed; the update may have committed all the same.
UpdateFails(f) ==
  /\ work[f].step = "stored"
  /\ \/ UNCHANGED <<fileField, unsure>>
     \/ /\ Readable(RecordOf(f))
        /\ \E mode \in ModeOf(f) :
             fileField' = [fileField EXCEPT ![RecordOf(f)] = FieldWith(f, mode)]
        /\ unsure' = unsure \cup {f}
  /\ objects' = RemoveStoredFiles({f})
  /\ Reopen(f)
  /\ Ended(f)
  /\ UNCHANGED <<objectStore, chunkRows, parts, chunkRequests, cleaning, deleting, disturbed,
                 assembled>>

\* Removes what was replaced, marks the session and removes its directory, each only tried.
Finish(f) ==
  /\ work[f].step = "updated"
  /\ objects' \in {objects, RemoveStoredFiles(work[f].removed)}
  /\ IF f \in Directs THEN UNCHANGED <<uploads, parts>>
     ELSE /\ \E status \in {"completed", "completing"} :
               uploads' = IF uploads[f].status = "completing"
                          THEN [uploads EXCEPT ![f].status = status] ELSE uploads
          /\ parts' = [parts EXCEPT ![f] = NoParts]
  /\ Ended(f)
  /\ UNCHANGED <<objectStore, chunkRows, chunkRequests, fileField, cleaning, deleting, disturbed,
                 assembled, unsure>>

RequestDies(f) ==
  /\ work[f].step # "idle"
  /\ Ended(f)
  /\ UNCHANGED <<objectStore, uploadRows, parts, chunkRequests, fileField, objects, cleaning,
                 deleting, disturbed, assembled, unsure>>

------------------------------------------------------------------------------
(* Deleting a record, and then its files *)

DeleteRecord(r) ==
  /\ fileField[r] # Deleted
  /\ fileField' = [fileField EXCEPT ![r] = Deleted]
  /\ deleting' = deleting \cup {r}
  /\ UNCHANGED <<objectStore, uploadRows, parts, chunkRequests, work, objects, cleaning,
                 disturbed, assembled, unsure>>

RemoveDeleted(r) ==
  /\ r \in deleting
  /\ objects' = RemoveRecordStorage(r)
  /\ deleting' = deleting \ {r}
  /\ UNCHANGED <<objectStore, uploadRows, parts, chunkRequests, work, fileField, cleaning,
                 disturbed, assembled, unsure>>

FilesNext ==
  \/ \E u \in Uploads :
       \/ \E r \in FileRecords, mode \in Modes, declared \in BOOLEAN :
            CreateFileUploadSession(u, r, mode, declared)
       \/ \E w \in ChunkRequests, i \in Chunks, c \in Contents : GetOpenFileUploadSession(w, u, i, c)
       \/ Expire(u) \/ CancelFileUploadSession(u) \/ CleanupCancel(u)
       \/ ClaimFileUploadSessionForComplete(u) \/ AssembleFileUploadSession(u) \/ AssembleFails(u)
  \/ \E w \in ChunkRequests : StoreFileUploadChunk(w) \/ RecordFileUploadChunk(w) \/ ChunkFails(w)
  \/ CleanupRead
  \/ \E f \in Files : UpdateRecordFileField(f) \/ UpdateFails(f) \/ Finish(f) \/ RequestDies(f)
  \/ \E f \in Directs, r \in FileRecords : StoreUploadedFile(f, r)
  \/ \E r \in FileRecords : DeleteRecord(r) \/ RemoveDeleted(r)

FilesSpec == (\E store \in {"local", "s3"} : FilesInit(store)) /\ [][FilesNext]_filesVars

------------------------------------------------------------------------------
(* Properties *)

Referenced == {f \in Files : \E r \in FileRecords : fileField[r] # Deleted
                                                    /\ f \in Range(fileField[r])}

\* A file that a record refers to can be downloaded: whatever uploads, completions and deletions
\* of records run side by side, its object is there, unless an update was taken to have failed.
\* On S3.
ReferencedIsStored == objectStore = "s3" /\ unsure = {} => Referenced \subseteq objects

\* The same on a local disk, where a replacement or a deletion removes what it replaced or deleted
\* and, as the tests have it, leaves the rest.
ReferencedIsOnDisk == objectStore = "local" /\ unsure = {} => Referenced \subseteq objects

\* What is assembled is what the table recorded, chunk for chunk, unless requests for the same
\* chunk overlapped, one died, or one was under way when the session was claimed.
AssembledAsRecorded ==
  \A u \in Uploads : work[u].step = "stored" /\ u \notin disturbed => assembled[u] = chunkRows[u]
==============================================================================

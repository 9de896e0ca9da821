---------------------------------- MODULE MediaFile ----------------------------------
(***************************************************************************)
(* The life of one uploaded video (src/src/file/): its File row, its bytes *)
(* on the server's disk and in the R2 object store, the posts that take it *)
(* into use, its trailer, the nightly clean-up of orphaned files, and the  *)
(* video-transcode queue.                                                  *)
(*                                                                         *)
(* Row, disk and object store change one after the other, with awaits in   *)
(* between, by several actors, and a restart can come at any point.        *)
(***************************************************************************)
EXTENDS Naturals, FiniteSets

CONSTANTS
  Posters,       \* createPost requests that use the file
  Backfills,     \* runs of the trailer backfill (cron or CLI)
  UploadRun,     \* the trailer run that follows the upload
  NoTrailer,
  MaxRestarts,   \* bound: restarts of the process
  Attempts       \* attempts of a transcode job, 2 in the code

ASSUME MediaAssumption ==
  /\ MaxRestarts \in Nat /\ Attempts \in Nat \ {0}
  /\ UploadRun \notin Posters \cup Backfills /\ Posters \cap Backfills = {}
  /\ NoTrailer \notin Posters \cup Backfills \cup {UploadRun}

\* A run of ensureVideoTrailerForFileId writes a file with a name of its own.
Runs == Posters \cup Backfills \cup {UploadRun}

VARIABLES
  r2,        \* the R2 pipeline is configured
  row,       \* the File row
  source, trailers,   \* on disk: the uploaded bytes, and trailers
  objects,   \* the playback and HLS objects are in R2
  pc, wants, \* createPost requests, and whether one saw a transcode to be done
  run,       \* trailer runs: how far, whether they override, what they replace
  cron,      \* the clean-up: how far, and the row as it was read
  job, failures,  \* transcode jobs, with their failed attempts
  skipped,   \* the jobs that ended without an outcome
  restarts,
  secured    \* put to use while all its bytes were there and no clean-up was on

diskVars == <<source, trailers, objects>>
postVars == <<pc, wants>>
jobVars == <<job, failures, skipped>>
vars == <<r2, row, diskVars, postVars, run, cron, jobVars, restarts, secured>>

Active == {"check", "access", "put", "ready", "unlink"}
NoCron == [at |-> "idle", trailer |-> NoTrailer]
NoRun == [at |-> "new", override |-> FALSE, previous |-> NoTrailer]
RunDone == [NoRun EXCEPT !.at = "done"]

TypeOK ==
  /\ r2 \in BOOLEAN /\ secured \in BOOLEAN
  /\ row \in [status: {"none", "PENDING", "UPLOADED", "DELETED"},
              transcode: {"NOT_APPLICABLE", "PENDING", "READY", "FAILED"},
              path: BOOLEAN, key: BOOLEAN, trailer: Runs \cup {NoTrailer}]
  /\ source \in BOOLEAN /\ objects \in BOOLEAN /\ trailers \subseteq Runs
  /\ pc \in [Posters -> {"new", "mark", "probe", "trailer", "done"}]
  /\ wants \in [Posters -> BOOLEAN]
  /\ run \in [Runs -> [at: {"new", "read", "encode", "save", "replace", "done"},
                       override: BOOLEAN, previous: Runs \cup {NoTrailer}]]
  /\ cron \in [at: {"idle", "trailer", "source", "update"},
               trailer: Runs \cup {NoTrailer}]
  /\ job \in [Posters -> {"none", "waiting", "done"} \cup Active]
  /\ skipped \subseteq Posters
  /\ failures \in [Posters -> 0..Attempts]
  /\ restarts \in 0..MaxRestarts

Init ==
  /\ r2 \in BOOLEAN
  /\ row = [status |-> "none", transcode |-> "NOT_APPLICABLE", path |-> FALSE,
            key |-> FALSE, trailer |-> NoTrailer]
  /\ source = FALSE /\ trailers = {} /\ objects = FALSE
  /\ pc = [p \in Posters |-> "new"] /\ wants = [p \in Posters |-> FALSE]
  /\ run = [x \in Runs |-> NoRun]
  /\ cron = NoCron
  /\ job = [p \in Posters |-> "none"] /\ failures = [p \in Posters |-> 0] /\ skipped = {}
  /\ restarts = 0 /\ secured = FALSE

\* streamMedia: R2 for a READY and UPLOADED file, otherwise the path on disk.
Playable(file) ==
  IF file.key /\ file.transcode = "READY" /\ file.status = "UPLOADED"
  THEN objects
  ELSE file.path /\ source

---------------------------------------------------------------------------
(* Upload, and the createPost requests that use the file.                  *)

Start(x, override) ==
  /\ run[x].at = "new"
  /\ run' = [run EXCEPT ![x] = [at |-> "read", override |-> override, previous |-> NoTrailer]]

\* create.  Without the R2 pipeline a trailer run follows once the video is
\* probed, unless the probe fails.
Upload ==
  /\ row.status = "none"
  /\ row' = [row EXCEPT !.status = "PENDING", !.path = TRUE,
                        !.transcode = IF r2 THEN "PENDING" ELSE "NOT_APPLICABLE"]
  /\ source' = TRUE
  /\ IF r2 THEN UNCHANGED run ELSE Start(UploadRun, FALSE) \/ UNCHANGED run
  /\ UNCHANGED <<r2, trailers, objects, postVars, cron, jobVars, restarts, secured>>

Goto(p, label) == pc' = [pc EXCEPT ![p] = label]
Leave(p) == Goto(p, "done") /\ wants' = [wants EXCEPT ![p] = FALSE]

\* getFilesUrls: the file may be PENDING or UPLOADED.
GetFilesUrls(p) ==
  /\ pc[p] = "new" /\ row.status \in {"PENDING", "UPLOADED"}
  /\ Goto(p, "mark")
  /\ UNCHANGED <<r2, row, diskVars, wants, run, cron, jobVars, restarts, secured>>

\* markFileAsUploaded, after the post was stored: whatever the status is now.
MarkFileAsUploaded(p) ==
  /\ pc[p] = "mark"
  /\ row' = [row EXCEPT !.status = "UPLOADED"]
  /\ secured' = (secured \/ /\ cron.at = "idle" /\ row.status # "DELETED"
                            /\ Playable(row') /\ row.trailer \in trailers \cup {NoTrailer})
  /\ wants' = [wants EXCEPT ![p] = r2 /\ row.path /\ row.transcode = "PENDING"]
  /\ Goto(p, IF row.path THEN "probe" ELSE "done")
  /\ UNCHANGED <<r2, diskVars, run, cron, jobVars, restarts>>

\* probeAndPersistVideoMetadata; then the trailer, which only the R2 pipeline
\* waits for.
Probe(p) ==
  /\ pc[p] = "probe" /\ source
  /\ Start(p, FALSE)
  /\ Goto(p, IF wants[p] THEN "trailer" ELSE "done")
  /\ UNCHANGED <<r2, row, diskVars, wants, cron, jobVars, restarts, secured>>

\* The video cannot be probed, or an await throws: the request ends, or goes
\* on without trailer and transcoding.
PosterFails(p) ==
  /\ pc[p] \in {"mark", "probe", "trailer"}
  /\ Leave(p)
  /\ UNCHANGED <<r2, row, diskVars, run, cron, jobVars, restarts, secured>>

Enqueue(p) ==
  /\ pc[p] = "trailer" /\ run[p].at = "done"
  /\ job' = [job EXCEPT ![p] = "waiting"]
  /\ Leave(p)
  /\ UNCHANGED <<r2, row, diskVars, run, cron, failures, skipped, restarts, secured>>

---------------------------------------------------------------------------
(* ensureVideoTrailerForFileId.                                            *)

RunTo(x, label) == run' = [run EXCEPT ![x].at = label]
RunEnds(x) == run' = [run EXCEPT ![x] = RunDone]

\* runTrailerBackfillJob: the hourly cron, or the CLI with the override.
Backfill(x, override) ==
  /\ x \in Backfills
  /\ row.status \in {"PENDING", "UPLOADED"} /\ (override \/ row.trailer = NoTrailer)
  /\ Start(x, override)
  /\ UNCHANGED <<r2, row, diskVars, postVars, cron, jobVars, restarts, secured>>

\* Nothing to do, no source on disk, or an error on the way.
TrailerStops(x) ==
  /\ run[x].at \in {"read", "encode", "save", "replace"}
  /\ RunEnds(x)
  /\ UNCHANGED <<r2, row, diskVars, postVars, cron, jobVars, restarts, secured>>

TrailerRead(x) ==
  /\ run[x].at = "read"
  /\ row.status # "DELETED" /\ (run[x].override \/ row.trailer = NoTrailer)
  /\ row.path /\ source
  /\ run' = [run EXCEPT ![x].at = "encode",
                        ![x].previous = IF run[x].override THEN row.trailer ELSE NoTrailer]
  /\ UNCHANGED <<r2, row, diskVars, postVars, cron, jobVars, restarts, secured>>

TrailerEncode(x) ==
  /\ run[x].at = "encode" /\ source
  /\ trailers' = trailers \cup {x}
  /\ RunTo(x, "save")
  /\ UNCHANGED <<r2, row, source, objects, postVars, cron, jobVars, restarts, secured>>

\* Mutant: the run that comes second removes the trailer in use.
TrailerSaveRemovesOther(x) ==
  /\ run[x].at = "save"
  /\ IF run[x].override \/ row.trailer = NoTrailer
     THEN /\ row' = [row EXCEPT !.trailer = x]
          /\ IF run[x].previous = NoTrailer THEN RunEnds(x) ELSE RunTo(x, "replace")
          /\ UNCHANGED trailers
     ELSE /\ trailers' = trailers \ {row.trailer}
          /\ RunEnds(x)
          /\ UNCHANGED row
  /\ UNCHANGED <<r2, source, objects, postVars, cron, jobVars, restarts, secured>>

\* updateMany: without the override only a row that has no trailer; a run that
\* comes second removes its own file.
TrailerSave(x) ==
  /\ run[x].at = "save"
  /\ IF run[x].override \/ row.trailer = NoTrailer
     THEN /\ row' = [row EXCEPT !.trailer = x]
          /\ IF run[x].previous = NoTrailer THEN RunEnds(x) ELSE RunTo(x, "replace")
          /\ UNCHANGED trailers
     ELSE /\ trailers' = trailers \ {x}
          /\ RunEnds(x)
          /\ UNCHANGED row
  /\ UNCHANGED <<r2, source, objects, postVars, cron, jobVars, restarts, secured>>

\* The override removes the trailer it read before.
TrailerReplace(x) ==
  /\ run[x].at = "replace"
  /\ trailers' = trailers \ {run[x].previous}
  /\ RunEnds(x)
  /\ UNCHANGED <<r2, row, source, objects, postVars, cron, jobVars, restarts, secured>>

---------------------------------------------------------------------------
(* handleCron: the files that are PENDING after 24 hours, a moment that may *)
(* come at any point.                                                      *)

CronTo(label) == cron' = [cron EXCEPT !.at = label]

CronFind ==
  /\ cron.at = "idle" /\ row.status = "PENDING"
  /\ cron' = [at |-> "trailer", trailer |-> row.trailer]
  /\ UNCHANGED <<r2, row, diskVars, postVars, run, jobVars, restarts, secured>>

CronUnlinkTrailer ==
  /\ cron.at = "trailer"
  /\ trailers' = trailers \ {cron.trailer}
  /\ CronTo("source")
  /\ UNCHANGED <<r2, row, source, objects, postVars, run, jobVars, restarts, secured>>

\* A row that is PENDING has its path; without the bytes the unlink throws, and
\* the row stays as it is.
CronUnlinkSource ==
  /\ cron.at = "source"
  /\ source' = FALSE
  /\ IF source THEN CronTo("update") ELSE cron' = NoCron
  /\ UNCHANGED <<r2, row, trailers, objects, postVars, run, jobVars, restarts, secured>>

\* The update is for a row that is still PENDING, or throws.
CronUpdate ==
  /\ cron.at = "update"
  /\ row' = IF row.status = "PENDING" THEN [row EXCEPT !.status = "DELETED"] ELSE row
  /\ cron' = NoCron
  /\ UNCHANGED <<r2, diskVars, postVars, run, jobVars, restarts, secured>>

CronFails ==
  /\ cron.at = "update"
  /\ cron' = NoCron
  /\ UNCHANGED <<r2, row, diskVars, postVars, run, jobVars, restarts, secured>>

---------------------------------------------------------------------------
(* VideoTranscodeProcessor.  One process, one job at a time.               *)

JobTo(p, label) == job' = [job EXCEPT ![p] = label]

JobStart(p) ==
  /\ job[p] = "waiting" /\ \A q \in Posters : job[q] \notin Active
  /\ JobTo(p, "check")
  /\ UNCHANGED <<r2, row, diskVars, postVars, run, cron, failures, skipped, restarts, secured>>

\* The flag is off, or R2 is no longer configured: the job completes.
JobSwitchedOff(p) ==
  /\ job[p] = "check"
  /\ JobTo(p, "done") /\ skipped' = skipped \cup {p}
  /\ UNCHANGED <<r2, row, diskVars, postVars, run, cron, failures, restarts, secured>>

\* The row is read: deleted, or not PENDING for transcoding, means no work.
JobCheck(p) ==
  /\ job[p] = "check"
  /\ JobTo(p, IF row.status # "DELETED" /\ row.transcode = "PENDING" THEN "access" ELSE "done")
  /\ UNCHANGED <<r2, row, diskVars, postVars, run, cron, failures, skipped, restarts, secured>>

\* Mutant: the job throws, and the queue holds it back for another attempt.
JobFailsDelayed(p) ==
  /\ job[p] \in {"access", "put", "ready"}
  /\ job[p] = "access" => ~source
  /\ row' = [row EXCEPT !.transcode = "FAILED"]
  /\ JobTo(p, "delayed")
  /\ UNCHANGED <<r2, diskVars, postVars, run, cron, failures, skipped, restarts, secured>>

\* Mutant: the failure is only logged.
JobFailsSilently(p) ==
  /\ job[p] \in {"access", "put", "ready"}
  /\ job[p] = "access" => ~source
  /\ JobTo(p, "done")
  /\ UNCHANGED <<r2, row, diskVars, postVars, run, cron, failures, skipped, restarts, secured>>

\* No source on disk, or an error while encoding, storing or updating: FAILED,
\* and the job completes, so the queue does not try again.
JobFails(p) ==
  /\ job[p] \in {"access", "put", "ready"}
  /\ job[p] = "access" => ~source
  /\ row' = [row EXCEPT !.transcode = "FAILED"]
  /\ JobTo(p, "done")
  /\ UNCHANGED <<r2, diskVars, postVars, run, cron, failures, skipped, restarts, secured>>

\* An error outside the try block, or in the catch: the job throws, and the
\* queue makes the next attempt while there is one left.
JobThrows(p) ==
  /\ job[p] \in {"check", "access", "put", "ready"}
  /\ failures' = [failures EXCEPT ![p] = @ + 1]
  /\ IF failures'[p] < Attempts
     THEN JobTo(p, "waiting") /\ UNCHANGED skipped
     ELSE JobTo(p, "done") /\ skipped' = skipped \cup {p}
  /\ UNCHANGED <<r2, row, diskVars, postVars, run, cron, restarts, secured>>

JobAccess(p) ==
  /\ job[p] = "access" /\ source
  /\ JobTo(p, "put")
  /\ UNCHANGED <<r2, row, diskVars, postVars, run, cron, failures, skipped, restarts, secured>>

\* Mutant: the source is removed as soon as the objects are stored.
JobPutUnlinks(p) ==
  /\ job[p] = "put" /\ source
  /\ objects' = TRUE /\ source' = FALSE
  /\ JobTo(p, "ready")
  /\ UNCHANGED <<r2, row, trailers, postVars, run, cron, failures, skipped, restarts, secured>>

\* Both encodings, and the uploads to R2.
JobPut(p) ==
  /\ job[p] = "put" /\ source
  /\ objects' = TRUE
  /\ JobTo(p, "ready")
  /\ UNCHANGED <<r2, row, source, trailers, postVars, run, cron, failures, skipped, restarts, secured>>

JobReady(p) ==
  /\ job[p] = "ready"
  /\ row' = [row EXCEPT !.transcode = "READY", !.key = TRUE, !.path = FALSE]
  /\ JobTo(p, "unlink")
  /\ UNCHANGED <<r2, diskVars, postVars, run, cron, failures, skipped, restarts, secured>>

\* A source that cannot be removed stays.
JobUnlink(p) ==
  /\ job[p] = "unlink"
  /\ source' \in {FALSE, source}
  /\ JobTo(p, "done")
  /\ UNCHANGED <<r2, row, trailers, objects, postVars, run, cron, failures, skipped, restarts, secured>>

---------------------------------------------------------------------------
\* The process restarts.  Requests, trailer runs and the clean-up are gone with
\* it; the queue delivers a job that was active once more, unless it stalled too
\* often.
ServerRestart ==
  /\ restarts < MaxRestarts
  /\ restarts' = restarts + 1
  /\ pc' = [p \in Posters |-> IF pc[p] = "new" THEN "new" ELSE "done"]
  /\ run' = [x \in Runs |-> IF run[x].at = "new" THEN NoRun ELSE RunDone]
  /\ cron' = NoCron
  /\ LET active == {p \in Posters : job[p] \in Active}
     IN \E redo \in SUBSET active :
          /\ job' = [p \in Posters |-> IF p \in redo THEN "waiting"
                                      ELSE IF p \in active THEN "done" ELSE job[p]]
          /\ skipped' = skipped \cup (active \ redo)
  /\ wants' = [p \in Posters |-> FALSE]
  /\ UNCHANGED <<r2, row, diskVars, failures, secured>>

JobStep(p) ==
  \/ JobStart(p) \/ JobSwitchedOff(p) \/ JobCheck(p) \/ JobAccess(p) \/ JobFails(p)
  \/ JobThrows(p)
  \/ JobPut(p) \/ JobReady(p) \/ JobUnlink(p)

Next ==
  \/ Upload
  \/ \E p \in Posters :
       \/ GetFilesUrls(p) \/ MarkFileAsUploaded(p) \/ Probe(p) \/ PosterFails(p)
       \/ Enqueue(p) \/ JobStep(p)
  \/ \E x \in Runs :
       \/ \E override \in BOOLEAN : Backfill(x, override)
       \/ TrailerRead(x) \/ TrailerStops(x) \/ TrailerEncode(x) \/ TrailerSave(x)
       \/ TrailerReplace(x)
  \/ CronFind \/ CronUnlinkTrailer \/ CronUnlinkSource \/ CronUpdate \/ CronFails
  \/ ServerRestart

Spec == Init /\ [][Next]_vars

\* The worker takes waiting jobs and finishes the one it has; nothing else is
\* assumed to happen.
FairSpec == Spec /\ \A p \in Posters : WF_vars(JobStep(p))

---------------------------------------------------------------------------
(* Properties.                                                             *)

\* A file that a post put to use, while its bytes were there and no clean-up
\* had it on its list, stays UPLOADED and can be streamed from then on, through
\* every clean-up, transcode, redelivery, restart and trailer.
PublishedPlayable == secured => row.status = "UPLOADED" /\ Playable(row)

\* The trailer of such a file is on disk, whichever of the runs that raced for
\* it won.
TrailerOnDisk == secured /\ row.trailer # NoTrailer => row.trailer \in trailers

\* No transcode job is left behind: time and again there is none under way, and
\* each of them left the file READY or FAILED, unless it found the transcoding
\* switched off or the file deleted, or used up its attempts or redeliveries.
JobsSettle ==
  []<>(\A p \in Posters :
         \/ job[p] = "none"
         \/ /\ job[p] = "done"
            /\ \/ row.transcode \in {"READY", "FAILED"}
               \/ row.status = "DELETED" \/ p \in skipped)
=============================================================================

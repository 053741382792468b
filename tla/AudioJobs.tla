----------------------------- MODULE AudioJobs -----------------------------
(***************************************************************************)
(* Audio analysis jobs of Core: the upload handler (nivelle_core/app.py)   *)
(* and AudioAnalysisManager (nivelle_core/audio_analysis.py).              *)
(*                                                                         *)
(* A job is named after the upload that created it.  start(), cancel() and *)
(* the code of _run between two awaits run on the event loop without       *)
(* interruption; the analysis and the write of the cache run in a thread.  *)
(* What the analysis computes is left out, where it may stop is not.       *)
(***************************************************************************)
EXTENDS Naturals, FiniteSets

CONSTANTS
  Uploads,         \* uploads that may arrive
  ContentOf,       \* content hash of each
  NeedsDecoder,    \* uploads that are no PCM WAV: FFmpeg decodes them first
  NoJob,           \* of a content without an entry in _jobs_by_hash
  MaxRetainedJobs, \* MAX_RETAINED_JOBS
  MaxStops         \* bound: shutdowns and crashes

ASSUME AudioAssumption ==
  /\ NeedsDecoder \subseteq Uploads
  /\ NoJob \notin Uploads
  /\ IsFiniteSet(Uploads) /\ MaxRetainedJobs \in Nat \ {0}
  /\ MaxStops \in Nat

Hashes == {ContentOf[u] : u \in Uploads}

VARIABLES
  work,       \* where the upload, or the task of its job, stands
  jobStatus,  \* status of the job an upload created, "none" if it joined one
  flagged,    \* jobs whose cancellation event is set
  jobs,       \* _jobs
  created,    \* the order of their created_at, 0 for an upload without a job
  jobOf,      \* _jobs_by_hash
  cached,     \* contents with a result in the cache directory
  files,      \* uploaded files in the upload directory
  decoded,    \* uploads with a temporary PCM file of the decoder
  orphans,    \* uploads cut off by a crash: nobody removes their files
  stopping,   \* shutdown() has begun
  stops       \* shutdowns and crashes so far

resultVars == <<cached, files, decoded, orphans>>
indexVars == <<jobs, created, jobOf>>
processVars == <<stopping, stops>>
audioVars == <<work, jobStatus, flagged, indexVars, resultVars, processVars>>

LiveStatus == {"queued", "running", "cancelling"}
EndStatus == {"completed", "failed", "cancelled"}

AudioTypeOK ==
  /\ work \in [Uploads -> {"none", "uploading", "waiting", "decoding",
                           "measuring", "storing", "done"}]
  /\ jobStatus \in [Uploads -> LiveStatus \cup EndStatus \cup {"none"}]
  /\ jobs \subseteq {u \in Uploads : jobStatus[u] # "none"}
  /\ \A u \in Uploads : created[u] = 0 <=> jobStatus[u] = "none"
  /\ \A k \in Hashes : jobOf[k] = NoJob \/ ContentOf[jobOf[k]] = k
  /\ cached \subseteq Hashes
  /\ decoded \subseteq files \cup orphans
  /\ \A u \in Uploads : work[u] = "none" => u \notin files \cup flagged
  /\ stops \in 0 .. MaxStops

AudioInit ==
  /\ work = [u \in Uploads |-> "none"]
  /\ jobStatus = [u \in Uploads |-> "none"]
  /\ flagged = {}
  /\ jobs = {}
  /\ created = [u \in Uploads |-> 0]
  /\ jobOf = [k \in Hashes |-> NoJob]
  /\ cached = {} /\ files = {} /\ decoded = {} /\ orphans = {}
  /\ stopping = FALSE /\ stops = 0

Move(u, stage) == work' = [work EXCEPT ![u] = stage]
SetStatus(u, status) == jobStatus' = [jobStatus EXCEPT ![u] = status]

-----------------------------------------------------------------------------
(* The upload.                                                             *)

BeginUpload(u) ==
  /\ ~stopping /\ work[u] = "none"
  /\ Move(u, "uploading")
  /\ files' = files \cup {u}
  /\ UNCHANGED <<jobStatus, flagged, indexVars, cached, decoded, orphans, processVars>>

\* Empty, too large, broken off by the client, or not written.
RefuseUpload(u) ==
  /\ work[u] = "uploading"
  /\ Move(u, "done")
  /\ files' = files \ {u}
  /\ UNCHANGED <<jobStatus, flagged, indexVars, cached, decoded, orphans, processVars>>

Ended(u) == jobStatus[u] \in EndStatus

\* _prune_jobs: of the jobs that ended, as many of the oldest as make room.
Pruned ==
  LET over  == Cardinality(jobs) - MaxRetainedJobs + 1
      ended == {u \in jobs : Ended(u)}
  IN  IF Cardinality(jobs) < MaxRetainedJobs THEN {}
      ELSE {u \in ended : Cardinality({v \in ended : created[v] < created[u]}) < over}

Created == {u \in Uploads : jobStatus[u] # "none"}

\* An entry of the index goes with its job, unless a later job replaced it.
PrunedIndex ==
  [k \in Hashes |-> IF jobOf[k] \in Pruned THEN NoJob ELSE jobOf[k]]

\* Variant: a job that is being cancelled is no longer joined.
JoinsUncancelled(u) ==
  LET current == PrunedIndex[ContentOf[u]]
  IN  current # NoJob /\ jobStatus[current] \in LiveStatus \ {"cancelling"}

Joins(u) ==
  LET current == PrunedIndex[ContentOf[u]]
  IN  current # NoJob /\ jobStatus[current] \in LiveStatus

\* start(): the upload joins the live job of its content, even one that is
\* being cancelled; else a job answers from the cache or is queued.
StartJob(u) ==
  /\ ~stopping /\ work[u] = "uploading"
  /\ \/ /\ Joins(u)
        /\ jobs' = jobs \ Pruned /\ jobOf' = PrunedIndex
        /\ files' = files \ {u}
        /\ Move(u, "done") /\ UNCHANGED <<jobStatus, created>>
     \/ /\ ~Joins(u)
        /\ jobs' = (jobs \ Pruned) \cup {u}
        /\ created' = [created EXCEPT ![u] = Cardinality(Created) + 1]
        /\ jobOf' = [PrunedIndex EXCEPT ![ContentOf[u]] = u]
        /\ IF ContentOf[u] \in cached
           THEN Move(u, "done") /\ SetStatus(u, "completed") /\ files' = files \ {u}
           ELSE Move(u, "waiting") /\ SetStatus(u, "queued") /\ UNCHANGED files
  /\ UNCHANGED <<flagged, cached, decoded, orphans, processVars>>

-----------------------------------------------------------------------------
(* _run.                                                                   *)

\* Variant: the file is removed only after a success.
FinishJobOrKeep(u, status) ==
  /\ SetStatus(u, status)
  /\ Move(u, "done")
  /\ files' = IF status = "completed" THEN files \ {u} ELSE files
  /\ decoded' = decoded \ {u}

FinishJob(u, status) ==
  /\ SetStatus(u, status)
  /\ Move(u, "done")
  /\ files' = files \ {u}
  /\ decoded' = decoded \ {u}

InThread == {"decoding", "measuring", "storing"}
SlotIsFree == \A u \in Uploads : work[u] \notin InThread

\* _worker_slot; the cancellation is looked at before the work begins.
TakeWorker(u) ==
  /\ work[u] = "waiting" /\ SlotIsFree
  /\ \/ u \in flagged /\ FinishJob(u, "cancelled")
     \/ /\ u \notin flagged
        /\ SetStatus(u, "running")
        /\ Move(u, IF u \in NeedsDecoder THEN "decoding" ELSE "measuring")
        /\ UNCHANGED <<files, decoded>>
  /\ UNCHANGED <<flagged, indexVars, cached, orphans, processVars>>

\* _decode_with_ffmpeg: the temporary file is kept for the analysis only if
\* the decoder succeeded.
Decode(u) ==
  /\ work[u] = "decoding"
  /\ \/ /\ decoded' = decoded \cup {u}
        /\ Move(u, "measuring")
        /\ UNCHANGED <<jobStatus, files>>
     \/ u \in flagged /\ FinishJob(u, "cancelled")
     \/ FinishJob(u, "failed")
  /\ UNCHANGED <<flagged, indexVars, cached, orphans, processVars>>

\* _analyze_pcm_wave looks at the cancellation per block and per column; a
\* result that is there is not given up any more.
Measure(u) ==
  /\ work[u] = "measuring"
  /\ \/ /\ Move(u, "storing")
        /\ decoded' = decoded \ {u}
        /\ UNCHANGED <<jobStatus, files>>
     \/ u \in flagged /\ FinishJob(u, "cancelled")
     \/ FinishJob(u, "failed")
  /\ UNCHANGED <<flagged, indexVars, cached, orphans, processVars>>

StoreResult(u) ==
  /\ work[u] = "storing"
  /\ \/ cached' = cached \cup {ContentOf[u]} /\ FinishJob(u, "completed")
     \/ UNCHANGED cached /\ FinishJob(u, "failed")
  /\ UNCHANGED <<flagged, indexVars, orphans, processVars>>

CancelJob(u) ==
  /\ u \in jobs /\ jobStatus[u] \in LiveStatus /\ u \notin flagged
  /\ flagged' = flagged \cup {u}
  /\ SetStatus(u, "cancelling")
  /\ UNCHANGED <<work, indexVars, resultVars, processVars>>

-----------------------------------------------------------------------------
(* The process.                                                            *)

\* shutdown() at the end of the lifespan, when no request is served any more:
\* every retained job is flagged and its task awaited.
Shutdown ==
  /\ ~stopping /\ stops < MaxStops
  /\ \A u \in Uploads : work[u] # "uploading"
  /\ stopping' = TRUE /\ stops' = stops + 1
  /\ flagged' = flagged \cup jobs
  /\ UNCHANGED <<work, jobStatus, indexVars, resultVars>>

NewProcess ==
  /\ jobs' = {} /\ jobOf' = [k \in Hashes |-> NoJob]
  /\ flagged' = {}
  /\ stopping' = FALSE

StartAgain ==
  /\ stopping /\ \A u \in Uploads : work[u] \in {"none", "done"}
  /\ NewProcess
  /\ UNCHANGED <<work, jobStatus, created, resultVars, stops>>

\* Nothing of a job is persistent but its files.
CoreCrashes ==
  /\ stops < MaxStops /\ stops' = stops + 1
  /\ NewProcess
  /\ orphans' = orphans \cup files
  /\ work' = [u \in Uploads |-> IF work[u] = "none" THEN "none" ELSE "done"]
  /\ UNCHANGED <<jobStatus, created, cached, files, decoded>>

-----------------------------------------------------------------------------
JobStep(u) == TakeWorker(u) \/ Decode(u) \/ Measure(u) \/ StoreResult(u)

AudioNext ==
  \/ \E u \in Uploads :
       \/ BeginUpload(u) \/ RefuseUpload(u) \/ StartJob(u) \/ CancelJob(u)
       \/ JobStep(u)
  \/ Shutdown \/ StartAgain \/ CoreCrashes

\* The thread pool works off its one job, which has a time limit, and the
\* semaphore of asyncio serves its waiters in turn.
AudioFairness ==
  \A u \in Uploads : WF_audioVars(JobStep(u)) /\ SF_audioVars(TakeWorker(u))

AudioSpec == AudioInit /\ [][AudioNext]_audioVars /\ AudioFairness

-----------------------------------------------------------------------------
(* Properties.                                                             *)

Busy(u) == work[u] \in {"waiting"} \cup InThread

\* audio_analysis.py:782-788: a content is analysed by one job at a time, and
\* that job can be found, joined and cancelled while it lives.
OneJobPerContent ==
  \A u, v \in Uploads :
    Busy(u) /\ Busy(v) /\ ContentOf[u] = ContentOf[v] =>
      u = v /\ u \in jobs /\ jobOf[ContentOf[u]] = u

\* docs/AUDIO_ANALYSIS.md:19-20: after success, failure or cancellation the
\* uploaded file is removed; only a crash leaves it behind.
FilesAreRemoved ==
  \A u \in Uploads :
    (u \in files /\ work[u] # "uploading") ~> (u \notin files \/ u \in orphans)
=============================================================================

------------------------------ MODULE Transcode ------------------------------
(***************************************************************************)
(* Transcoding: internal/transcode/worker.go, the upload that publishes a  *)
(* task (internal/api/upload.go) and the worker's wiring in cmd/server and *)
(* cmd/transcode.  Tasks come from a queue that keeps the contract of      *)
(* Delivery; an XADD that was executed twice makes two tasks of one        *)
(* upload, which two workers may handle at once.                           *)
(*                                                                         *)
(* What ffmpeg and the object storage do is external: ffmpeg -y truncates  *)
(* its output and fills it; a put stores what the file holds then.         *)
(***************************************************************************)
EXTENDS Integers, FiniteSets

CONSTANTS
    Videos,
    Tasks, VideoOf,   \* the queue entries there may be, and the video of each
    Workers,
    Resolutions,      \* how many DefaultResolutions there are, the smallest first
    Fitting,          \* how many of them may fit into an uploaded video
    MaxRetry,         \* calls of the handler for one entry
    MaxCrashes        \* bound: workers that die while handling a task

ASSUME TranscodeAssumption ==
    /\ IsFiniteSet(Tasks) /\ VideoOf \in [Tasks -> Videos]
    /\ Resolutions \in Nat /\ Fitting \subseteq 0 .. Resolutions
    /\ MaxRetry \in Nat /\ MaxCrashes \in Nat

VARIABLES
    delivery, tries,   \* of each task, see Delivery
    local,    \* no object storage is configured: files are served from disk
    video,    \* the row: status, playURL and playURLs; the URL 0 is the upload
    fits,     \* how many resolutions do not exceed the uploaded video's
    worker,   \* where each worker is
    file,     \* the outputs on disk that are whole, as pairs <<video, resolution>>
    stored,   \* the objects in the storage that are whole
    spared,   \* history: videos of which no write was dropped, no worker died and
              \* no directory was refused
    crashes

queueVars == <<delivery, tries>>
vars == <<queueVars, local, video, fits, worker, file, stored, spared, crashes>>

Queue == INSTANCE Delivery WITH Msgs <- Tasks, status <- delivery

Heights == 1 .. Resolutions
Cover == 0   \* uploaded beside the resolutions
NoVideo == [status |-> "none", playURL |-> 0, playURLs |-> {}]
Idle == [pc |-> "idle"]
Busy == [pc : {"stat", "mkdir", "encode", "writing", "put", "urls", "ready"}, t : Tasks,
         next : 1 .. Resolutions + 1, ok : SUBSET Heights, put : SUBSET (Heights \cup {Cover})]

TypeOK ==
    /\ delivery \in [Tasks -> {"unsent", "pending", "trying", "done", "dead"}]
    /\ tries \in [Tasks -> 0 .. MaxRetry]
    /\ local \in BOOLEAN
    /\ video \in [Videos -> [status : {"none", "transcoding", "ready", "failed"},
                             playURL : 0 .. Resolutions, playURLs : SUBSET Heights]]
    /\ fits \in [Videos -> Fitting]
    /\ worker \in [Workers -> {Idle, [pc |-> "dead"]} \cup Busy]
    /\ \A w \in Workers : worker[w].pc = "writing" => worker[w].next \in Heights
    /\ file \subseteq Videos \X Heights
    /\ stored \subseteq Videos \X (Heights \cup {Cover})
    /\ spared \subseteq Videos
    /\ crashes \in 0 .. MaxCrashes

Init ==
    /\ Queue!Init
    /\ local \in BOOLEAN
    /\ video = [v \in Videos |-> NoVideo]
    /\ fits \in [Videos -> Fitting]
    /\ worker = [w \in Workers |-> Idle]
    /\ file = {} /\ stored = {}
    /\ spared = Videos
    /\ crashes = 0

-----------------------------------------------------------------------------
Tasked(w) == worker[w].t
Subject(w) == VideoOf[worker[w].t]
At(w, pc) == worker[w].pc = pc
GoOn(w, pc) == worker' = [worker EXCEPT ![w].pc = pc]

\* Upload: the row is ready at once and plays the uploaded file (URL 0, the only
\* one there is); the task is published once, or twice, or not at all, which is
\* only logged.  The fan-out it also publishes is the business of Fanout.
Upload(v) ==
    /\ video[v].status = "none"
    /\ video' = [video EXCEPT ![v].status = "ready"]
    /\ \E sent \in SUBSET {t \in Tasks : VideoOf[t] = v} :
          delivery' = [t \in Tasks |-> IF t \in sent THEN "pending" ELSE delivery[t]]
    /\ UNCHANGED <<tries, local, fits, worker, file, stored, spared, crashes>>

\* The queue hands a task to an idle worker.
Take(w, t) ==
    /\ worker[w] = Idle
    /\ Queue!Try(t)
    /\ worker' = [worker EXCEPT ![w] = [pc |-> "stat", t |-> t, next |-> 1, ok |-> {}, put |-> {}]]
    /\ UNCHANGED <<local, video, fits, file, stored, spared, crashes>>

Bury(t) ==
    /\ Queue!Bury(t)
    /\ UNCHANGED <<local, video, fits, worker, file, stored, spared, crashes>>

\* Handle returns an error.
ReturnError(w) ==
    /\ Queue!Fail(Tasked(w))
    /\ worker' = [worker EXCEPT ![w] = Idle]

\* UpdateStatus, whose error is dropped.
UpdateStatus(v, s) ==
    \/ video' = [video EXCEPT ![v].status = s] /\ UNCHANGED spared
    \/ UNCHANGED video /\ spared' = spared \ {v}

\* os.Stat does not find the source, as on a machine other than the one that took
\* the upload.
SourceMissing(w) ==
    /\ At(w, "stat")
    /\ ReturnError(w)
    /\ UNCHANGED <<local, video, fits, file, stored, spared, crashes>>

Begin(w) ==
    /\ At(w, "stat")
    /\ UpdateStatus(Subject(w), "transcoding")
    /\ GoOn(w, "mkdir")
    /\ UNCHANGED <<queueVars, local, fits, file, stored, crashes>>

\* MkdirAll fails, and the status stays what it is.
MkdirFails(w) ==
    /\ At(w, "mkdir")
    /\ ReturnError(w)
    /\ spared' = spared \ {Subject(w)}
    /\ UNCHANGED <<local, video, fits, file, stored, crashes>>

Mkdir(w) ==
    /\ At(w, "mkdir")
    /\ GoOn(w, "encode")
    /\ UNCHANGED <<queueVars, local, video, fits, file, stored, spared, crashes>>

-----------------------------------------------------------------------------
(* BatchTranscodeWithResize: one ffmpeg after the other, up to the size of the video,
   or to the largest if it could not be probed; which of the two, is seen when all
   that fit are done. *)

Encode(w) ==
    /\ At(w, "encode") /\ worker[w].next \in Heights
    /\ file' = file \ {<<Subject(w), worker[w].next>>}
    /\ GoOn(w, "writing")
    /\ UNCHANGED <<queueVars, local, video, fits, stored, spared, crashes>>

Encoded(w) ==
    /\ At(w, "writing")
    /\ LET r == worker[w].next
       IN /\ file' = file \cup {<<Subject(w), r>>}
          /\ worker' = [worker EXCEPT ![w].pc = "encode", ![w].next = r + 1, ![w].ok = @ \cup {r}]
    /\ UNCHANGED <<queueVars, local, video, fits, stored, spared, crashes>>

\* One resolution's failure does not affect the others.
EncodeFails(w) ==
    /\ At(w, "writing")
    /\ file' = file \ {<<Subject(w), worker[w].next>>}
    /\ worker' = [worker EXCEPT ![w].pc = "encode", ![w].next = @ + 1]
    /\ UNCHANGED <<queueVars, local, video, fits, stored, spared, crashes>>

Writers(v, r) ==
    {w \in Workers : At(w, "writing") /\ Subject(w) = v /\ worker[w].next = r}
OnDisk(v, r) == <<v, r>> \in file /\ Writers(v, r) = {}

AllEncoded(w) == At(w, "encode") /\ worker[w].next - 1 \in {fits[Subject(w)], Resolutions}

\* No resolution at all: among others, every video narrower than the smallest.
NothingEncoded(w) ==
    /\ AllEncoded(w) /\ worker[w].ok = {}
    /\ UpdateStatus(Subject(w), "failed")
    /\ ReturnError(w)
    /\ UNCHANGED <<local, fits, file, stored, crashes>>

\* Mutant of Collect: the upload is left out and the rows point into the
\* storage all the same.
CollectOnly(w) ==
    /\ AllEncoded(w) /\ worker[w].ok # {}
    /\ worker' = [worker EXCEPT ![w].pc = "urls"]
    /\ UNCHANGED <<queueVars, local, video, fits, file, stored, spared, crashes>>

\* Mutant of Collect: the cover counts as a resolution.
CollectCover(w) ==
    /\ AllEncoded(w) /\ worker[w].ok # {}
    /\ \E cover \in SUBSET {Cover} :
          worker' = [worker EXCEPT ![w].pc = IF local THEN "urls" ELSE "put",
                                   ![w].ok = @ \cup cover, ![w].put = worker[w].ok \cup cover]
    /\ UNCHANGED <<queueVars, local, video, fits, file, stored, spared, crashes>>

\* What is to be uploaded, the cover with it if it could be made.
Collect(w) ==
    /\ AllEncoded(w) /\ worker[w].ok # {}
    /\ IF local THEN GoOn(w, "urls")
       ELSE \E cover \in SUBSET {Cover} :
               worker' = [worker EXCEPT ![w].pc = "put", ![w].put = worker[w].ok \cup cover]
    /\ UNCHANGED <<queueVars, local, video, fits, file, stored, spared, crashes>>

-----------------------------------------------------------------------------
(* uploadToOSS *)

Put(w, r) ==
    /\ At(w, "put") /\ r \in worker[w].put
    /\ r = Cover => worker[w].put = {Cover}
    /\ stored' = IF r = Cover \/ OnDisk(Subject(w), r) THEN stored \cup {<<Subject(w), r>>}
                 ELSE stored \ {<<Subject(w), r>>}
    /\ worker' = [worker EXCEPT ![w].put = @ \ {r},
                                ![w].pc = IF worker[w].put = {r} THEN "urls" ELSE "put"]
    /\ UNCHANGED <<queueVars, local, video, fits, file, spared, crashes>>

\* Mutant of PutFails: the status is not set.
PutFailsSilently(w) ==
    /\ At(w, "put")
    /\ ReturnError(w)
    /\ UNCHANGED <<local, video, fits, file, stored, spared, crashes>>

\* One upload that fails fails the attempt; what was uploaded before stays.
PutFails(w) ==
    /\ At(w, "put")
    /\ UpdateStatus(Subject(w), "failed")
    /\ ReturnError(w)
    /\ UNCHANGED <<local, fits, file, stored, crashes>>

-----------------------------------------------------------------------------
\* UpdatePlayURLs: the smallest resolution if there is one, else any; the error
\* is dropped.
UpdatePlayURLs(w) ==
    /\ At(w, "urls")
    /\ LET ok == worker[w].ok
           v == Subject(w)
       IN \/ /\ \E r \in ok :
                   /\ 1 \in ok => r = 1
                   /\ video' = [video EXCEPT ![v].playURL = r, ![v].playURLs = ok]
             /\ UNCHANGED spared
          \/ UNCHANGED video /\ spared' = spared \ {v}
    /\ GoOn(w, "ready")
    /\ UNCHANGED <<queueVars, local, fits, file, stored, crashes>>

\* Handle returns nil.
Finish(w) ==
    /\ At(w, "ready")
    /\ UpdateStatus(Subject(w), "ready")
    /\ Queue!Succeed(Tasked(w))
    /\ worker' = [worker EXCEPT ![w] = Idle]
    /\ UNCHANGED <<local, fits, file, stored, crashes>>

\* The process dies under a task.  The queue does not hand out again what it
\* held (RedisStreamBus), or was lost with it (ChanBus).
Crash(w) ==
    /\ crashes < MaxCrashes
    /\ ~ At(w, "idle") /\ ~ At(w, "dead")
    /\ crashes' = crashes + 1
    /\ worker' = [worker EXCEPT ![w] = [pc |-> "dead"]]
    /\ file' = IF At(w, "writing") THEN file \ {<<Subject(w), worker[w].next>>} ELSE file
    /\ spared' = spared \ {Subject(w)}
    /\ UNCHANGED <<queueVars, local, video, fits, stored>>

Step(w) ==
    \/ SourceMissing(w) \/ Begin(w) \/ Mkdir(w) \/ MkdirFails(w)
    \/ Encode(w) \/ Encoded(w) \/ EncodeFails(w) \/ NothingEncoded(w) \/ Collect(w)
    \/ (\E r \in Heights \cup {Cover} : Put(w, r)) \/ PutFails(w)
    \/ UpdatePlayURLs(w) \/ Finish(w)

Next ==
    \/ \E v \in Videos : Upload(v)
    \/ \E t \in Tasks : Bury(t)
    \/ \E w \in Workers : Step(w) \/ Crash(w) \/ \E t \in Tasks : Take(w, t)

\* ffmpeg, the storage and the database answer, one way or the other, and a worker
\* that is idle reads the queue.
Spec == Init /\ [][Next]_vars
FairSpec ==
    /\ Spec
    /\ \A w \in Workers : WF_vars(Step(w))
    /\ \A t \in Tasks : WF_vars(Bury(t) \/ \E w \in Workers : Take(w, t))

-----------------------------------------------------------------------------
(* Properties. *)

Copies(v) == {t \in Tasks : VideoOf[t] = v /\ delivery[t] # "unsent"}
Settled(v) == \A t \in Copies(v) : delivery[t] \in {"done", "dead"}

Plays(v, r) ==
    r = 0 \/ IF local THEN OnDisk(v, r) ELSE <<v, r>> \in stored

\* Every URL in a row names a whole file or object, in every state of every
\* attempt, however many resolutions, uploads, writes or attempts failed before
\* (worker.go:99-116), as long as the task is in the queue once: a second copy
\* would encode over the files the first one published.
PublishedURLsPlay ==
    \A v \in Videos :
        Cardinality(Copies(v)) < 2 =>
            /\ Plays(v, video[v].playURL)
            /\ \A r \in video[v].playURLs : Plays(v, r)

\* Once nobody works on a video any more its status is not "transcoding", it is
\* "failed" only if a task of it was given up, and a row with transcoded URLs
\* only exists if a task of it was accepted (worker.go:94-116) - two copies or
\* one, and unless a write was dropped, a worker died or a directory was refused.
StatusTellsOutcome ==
    \A v \in spared :
        Settled(v) =>
            /\ video[v].status # "transcoding"
            /\ video[v].status = "failed" => \E t \in Copies(v) : delivery[t] = "dead"
            /\ video[v].playURLs # {} => \E t \in Copies(v) : delivery[t] = "done"

\* No video stays in transcoding, through failed attempts and retries, unless a
\* write was dropped, a worker died or a directory was refused.
LeavesTranscoding ==
    \A v \in Videos : [](v \in spared) => []<>(video[v].status # "transcoding")
=============================================================================

--------------------------- MODULE TranscodeProofs ---------------------------
(***************************************************************************)
(* Proofs about Transcode, for any videos, any number of copies of a task, *)
(* any number of workers and resolutions, and any bounds on retries and    *)
(* crashes.                                                                *)
(***************************************************************************)
EXTENDS Transcode, FiniteSetTheorems, TLAPS

Phases == {"stat", "mkdir", "encode", "writing", "put", "urls", "ready"}
Active(w) == worker[w].pc \in Phases

\* The fields of a worker that handles a task.
LEMMA ActiveWorker ==
    ASSUME TypeOK, NEW w \in Workers, Active(w)
    PROVE  /\ worker[w] \in Busy
           /\ worker[w].t \in Tasks /\ Subject(w) \in Videos
           /\ worker[w].next \in 1 .. Resolutions + 1
           /\ worker[w].ok \in SUBSET Heights
           /\ worker[w].put \in SUBSET (Heights \cup {Cover})
<1>1. worker[w] \in {Idle, [pc |-> "dead"]} \cup Busy
    BY DEF TypeOK
<1>2. worker[w] \in Busy
    BY <1>1 DEF Active, Phases, Idle
<1> QED
    BY <1>2, TranscodeAssumption DEF Busy, Subject

\* A worker that is not active has none.
LEMMA OtherWorker ==
    ASSUME TypeOK, NEW w \in Workers, ~ Active(w)
    PROVE  worker[w] = Idle \/ worker[w] = [pc |-> "dead"]
    BY DEF TypeOK, Busy, Active, Phases

\* Moving one worker on to a well typed state keeps the workers' types.
LEMMA WorkersTyped ==
    ASSUME TypeOK, NEW w \in Workers, NEW new,
           new \in {Idle, [pc |-> "dead"]} \cup Busy,
           new.pc = "writing" => new.next \in Heights,
           worker' = [worker EXCEPT ![w] = new]
    PROVE  /\ worker' \in [Workers -> {Idle, [pc |-> "dead"]} \cup Busy]
           /\ \A x \in Workers : worker'[x].pc = "writing" => worker'[x].next \in Heights
    BY DEF TypeOK

\* The row of one video is changed, and a write may be recorded as dropped.
LEMMA StatusIsTyped ==
    ASSUME TypeOK, NEW v \in Videos, NEW s \in {"transcoding", "ready", "failed"},
           UpdateStatus(v, s)
    PROVE  /\ video' \in [Videos -> [status : {"none", "transcoding", "ready", "failed"},
                                     playURL : 0 .. Resolutions, playURLs : SUBSET Heights]]
           /\ spared' \subseteq Videos
    BY DEF TypeOK, UpdateStatus

\* An error returned by Handle puts the task back and frees the worker.
LEMMA ReturnIsTyped ==
    ASSUME TypeOK, NEW w \in Workers, Active(w), ReturnError(w)
    PROVE  /\ delivery' \in [Tasks -> {"unsent", "pending", "trying", "done", "dead"}]
           /\ tries' = tries
           /\ worker' \in [Workers -> {Idle, [pc |-> "dead"]} \cup Busy]
           /\ \A x \in Workers : worker'[x].pc = "writing" => worker'[x].next \in Heights
<1>1. delivery' \in [Tasks -> {"unsent", "pending", "trying", "done", "dead"}] /\ tries' = tries
    BY DEF TypeOK, ReturnError, Queue!Fail, Queue!Move
<1>2. worker' = [worker EXCEPT ![w] = Idle] /\ Idle.pc # "writing"
    BY DEF ReturnError, Idle
<1> QED
    BY <1>1, <1>2, WorkersTyped

-----------------------------------------------------------------------------
(* Every step keeps the types. *)

LEMMA QueueStepIsTyped ==
    ASSUME TypeOK,
           \/ \E v \in Videos : Upload(v)
           \/ \E t \in Tasks : Bury(t)
           \/ \E w \in Workers, t \in Tasks : Take(w, t)
    PROVE  TypeOK'
<1>1. ASSUME NEW v \in Videos, Upload(v) PROVE TypeOK'
    BY <1>1 DEF TypeOK, Upload
<1>2. ASSUME NEW t \in Tasks, Bury(t) PROVE TypeOK'
    BY <1>2 DEF TypeOK, Bury, Queue!Bury, Queue!Move
<1>3. ASSUME NEW w \in Workers, NEW t \in Tasks, Take(w, t) PROVE TypeOK'
    <2> DEFINE new == [pc |-> "stat", t |-> t, next |-> 1, ok |-> {}, put |-> {}]
    <2>1. new \in Busy /\ new.pc # "writing"
        BY TranscodeAssumption DEF Busy
    <2>2. /\ worker' \in [Workers -> {Idle, [pc |-> "dead"]} \cup Busy]
          /\ \A x \in Workers : worker'[x].pc = "writing" => worker'[x].next \in Heights
        <3>1. worker' = [worker EXCEPT ![w] = new]
            BY <1>3 DEF Take
        <3> HIDE DEF new
        <3> QED
            BY <2>1, <3>1, WorkersTyped
    <2>3. tries' \in [Tasks -> 0 .. MaxRetry]
        BY <1>3, TranscodeAssumption DEF Take, Queue!Try, TypeOK
    <2>4. delivery' \in [Tasks -> {"unsent", "pending", "trying", "done", "dead"}]
        BY <1>3 DEF Take, Queue!Try, Queue!Move, TypeOK
    <2> QED
        BY <1>3, <2>2, <2>3, <2>4 DEF Take, TypeOK
<1> QED
    BY <1>1, <1>2, <1>3

\* The type of what a step of a worker at pc "from" leaves behind, given that only
\* its worker record changes.
LEMMA WorkerStepIsTyped ==
    ASSUME TypeOK, NEW w \in Workers, NEW new \in Busy,
           new.pc = "writing" => new.next \in Heights,
           worker' = [worker EXCEPT ![w] = new],
           delivery' = delivery, tries' = tries, local' = local, fits' = fits,
           crashes' = crashes,
           video' \in [Videos -> [status : {"none", "transcoding", "ready", "failed"},
                                  playURL : 0 .. Resolutions, playURLs : SUBSET Heights]],
           file' \subseteq Videos \X Heights,
           stored' \subseteq Videos \X (Heights \cup {Cover}),
           spared' \subseteq Videos
    PROVE  TypeOK'
<1>1. /\ worker' \in [Workers -> {Idle, [pc |-> "dead"]} \cup Busy]
      /\ \A x \in Workers : worker'[x].pc = "writing" => worker'[x].next \in Heights
    BY WorkersTyped
<1> QED
    BY <1>1 DEF TypeOK

LEMMA EndingIsTyped ==
    ASSUME TypeOK, NEW w \in Workers,
           \/ SourceMissing(w) \/ MkdirFails(w) \/ NothingEncoded(w) \/ PutFails(w)
           \/ Finish(w) \/ Crash(w)
    PROVE  TypeOK'
<1>1. CASE SourceMissing(w)
    <2>1. Active(w)
        BY <1>1 DEF SourceMissing, At, Active, Phases
    <2> QED
        BY <1>1, <2>1, ReturnIsTyped DEF SourceMissing, TypeOK
<1>2. CASE MkdirFails(w)
    <2>1. Active(w)
        BY <1>2 DEF MkdirFails, At, Active, Phases
    <2> QED
        BY <1>2, <2>1, ReturnIsTyped DEF MkdirFails, TypeOK
<1>3. CASE NothingEncoded(w)
    <2>1. Active(w)
        BY <1>3 DEF NothingEncoded, AllEncoded, At, Active, Phases
    <2> QED
        BY <1>3, <2>1, ActiveWorker, ReturnIsTyped, StatusIsTyped DEF NothingEncoded, TypeOK
<1>4. CASE PutFails(w)
    <2>1. Active(w)
        BY <1>4 DEF PutFails, At, Active, Phases
    <2> QED
        BY <1>4, <2>1, ActiveWorker, ReturnIsTyped, StatusIsTyped DEF PutFails, TypeOK
<1>5. CASE Finish(w)
    <2>1. Active(w)
        BY <1>5 DEF Finish, At, Active, Phases
    <2>2. delivery' \in [Tasks -> {"unsent", "pending", "trying", "done", "dead"}] /\ tries' = tries
        BY <1>5 DEF TypeOK, Finish, Queue!Succeed, Queue!Move
    <2>3. worker' = [worker EXCEPT ![w] = Idle] /\ Idle.pc # "writing"
        BY <1>5 DEF Finish, Idle
    <2>4. /\ worker' \in [Workers -> {Idle, [pc |-> "dead"]} \cup Busy]
          /\ \A x \in Workers : worker'[x].pc = "writing" => worker'[x].next \in Heights
        BY <2>3, WorkersTyped
    <2> QED
        BY <1>5, <2>1, <2>2, <2>4, ActiveWorker, StatusIsTyped DEF Finish, TypeOK
<1>6. CASE Crash(w)
    <2> DEFINE new == [pc |-> "dead"]
    <2>1. worker' = [worker EXCEPT ![w] = new] /\ new.pc # "writing"
        BY <1>6 DEF Crash
    <2>2. /\ worker' \in [Workers -> {Idle, [pc |-> "dead"]} \cup Busy]
          /\ \A x \in Workers : worker'[x].pc = "writing" => worker'[x].next \in Heights
        BY <2>1, WorkersTyped
    <2>3. crashes' \in 0 .. MaxCrashes
        BY <1>6, TranscodeAssumption DEF Crash, TypeOK
    <2> QED
        BY <1>6, <2>2, <2>3 DEF Crash, TypeOK, queueVars
<1> QED
    BY <1>1, <1>2, <1>3, <1>4, <1>5, <1>6

LEMMA GoingOnIsTyped ==
    ASSUME TypeOK, NEW w \in Workers,
           \/ Begin(w) \/ Mkdir(w) \/ Encode(w) \/ Encoded(w) \/ EncodeFails(w)
           \/ Collect(w) \/ UpdatePlayURLs(w)
           \/ \E r \in Heights \cup {Cover} : Put(w, r)
    PROVE  TypeOK'
<1>1. Active(w)
    BY DEF Begin, Mkdir, Encode, Encoded, EncodeFails, Collect, AllEncoded, UpdatePlayURLs, Put,
           At, Active, Phases
<1>2. /\ worker[w] \in Busy
      /\ worker[w].t \in Tasks /\ Subject(w) \in Videos
      /\ worker[w].next \in 1 .. Resolutions + 1
      /\ worker[w].ok \in SUBSET Heights
      /\ worker[w].put \in SUBSET (Heights \cup {Cover})
    BY <1>1, ActiveWorker
<1>3. \A pc \in Phases : [worker[w] EXCEPT !.pc = pc] \in Busy
                         /\ [worker[w] EXCEPT !.pc = pc].pc = pc
    BY <1>2 DEF Busy, Phases
<1>4. worker \in [Workers -> {Idle, [pc |-> "dead"]} \cup Busy]
    BY DEF TypeOK
<1>5. CASE Begin(w)
    <2> DEFINE new == [worker[w] EXCEPT !.pc = "mkdir"]
    <2>1. worker' = [worker EXCEPT ![w] = new]
        BY <1>4, <1>5 DEF Begin, GoOn
    <2>2. new \in Busy /\ new.pc # "writing"
        BY <1>3 DEF Phases
    <2> HIDE DEF new
    <2> QED
        BY <1>2, <1>5, <2>1, <2>2, StatusIsTyped, WorkerStepIsTyped DEF Begin, queueVars, TypeOK
<1>6. CASE Mkdir(w)
    <2> DEFINE new == [worker[w] EXCEPT !.pc = "encode"]
    <2>1. worker' = [worker EXCEPT ![w] = new]
        BY <1>4, <1>6 DEF Mkdir, GoOn
    <2>2. new \in Busy /\ new.pc # "writing"
        BY <1>3 DEF Phases
    <2> HIDE DEF new
    <2> QED
        BY <1>2, <1>6, <2>1, <2>2, WorkerStepIsTyped DEF Mkdir, queueVars, TypeOK
<1>7. CASE Encode(w)
    <2> DEFINE new == [worker[w] EXCEPT !.pc = "writing"]
    <2>1. worker' = [worker EXCEPT ![w] = new]
        BY <1>4, <1>7 DEF Encode, GoOn
    <2>2. new \in Busy
        BY <1>3 DEF Phases
    <2>3. new.next = worker[w].next
        BY <1>2 DEF Busy
    <2>4. worker[w].next \in Heights
        BY <1>2, <1>7, TranscodeAssumption DEF Encode, TypeOK, Heights
    <2> HIDE DEF new
    <2> QED
        BY <1>2, <1>7, <2>1, <2>2, <2>3, <2>4, WorkerStepIsTyped DEF Encode, queueVars, TypeOK
<1>8. CASE Encoded(w)
    <2> DEFINE new == [worker[w] EXCEPT !.pc = "encode", !.next = worker[w].next + 1,
                                        !.ok = @ \cup {worker[w].next}]
    <2>1. worker' = [worker EXCEPT ![w] = new]
        BY <1>4, <1>8 DEF Encoded
    <2>2. worker[w].next \in Heights /\ worker[w].next + 1 \in 1 .. Resolutions + 1
        BY <1>2, <1>8, TranscodeAssumption DEF Encoded, At, TypeOK, Heights
    <2>3. new \in Busy /\ new.pc # "writing"
        BY <1>2, <2>2 DEF Busy
    <2>4. file' \subseteq Videos \X Heights
        BY <1>2, <1>8, <2>2 DEF Encoded, TypeOK
    <2> HIDE DEF new
    <2> QED
        BY <1>2, <1>8, <2>1, <2>3, <2>4, WorkerStepIsTyped DEF Encoded, queueVars, TypeOK
<1>9. CASE EncodeFails(w)
    <2> DEFINE new == [worker[w] EXCEPT !.pc = "encode", !.next = @ + 1]
    <2>1. worker' = [worker EXCEPT ![w] = new]
        BY <1>4, <1>9 DEF EncodeFails
    <2>2. worker[w].next + 1 \in 1 .. Resolutions + 1
        BY <1>2, <1>9, TranscodeAssumption DEF EncodeFails, At, TypeOK, Heights
    <2>3. new \in Busy /\ new.pc # "writing"
        BY <1>2, <2>2 DEF Busy
    <2> HIDE DEF new
    <2> QED
        BY <1>2, <1>9, <2>1, <2>3, WorkerStepIsTyped DEF EncodeFails, queueVars, TypeOK
<1>10. CASE Collect(w)
    <2>1. PICK cover \in SUBSET {Cover} :
              worker' = [worker EXCEPT ![w] =
                  IF local THEN [worker[w] EXCEPT !.pc = "urls"]
                  ELSE [worker[w] EXCEPT !.pc = "put", !.put = worker[w].ok \cup cover]]
        BY <1>4, <1>10 DEF Collect, GoOn
    <2> DEFINE new == IF local THEN [worker[w] EXCEPT !.pc = "urls"]
                      ELSE [worker[w] EXCEPT !.pc = "put", !.put = worker[w].ok \cup cover]
    <2>2. new \in Busy /\ new.pc # "writing"
        BY <1>2 DEF Busy
    <2> HIDE DEF new
    <2>3. worker' = [worker EXCEPT ![w] = new]
        BY <2>1 DEF new
    <2> QED
        BY <1>2, <1>10, <2>2, <2>3, WorkerStepIsTyped DEF Collect, queueVars, TypeOK
<1>11. ASSUME NEW r \in Heights \cup {Cover}, Put(w, r) PROVE TypeOK'
    <2> DEFINE new == [worker[w] EXCEPT !.put = @ \ {r},
                                        !.pc = IF worker[w].put = {r} THEN "urls" ELSE "put"]
    <2>1. worker' = [worker EXCEPT ![w] = new]
        BY <1>4, <1>11 DEF Put
    <2>2. new \in Busy /\ new.pc # "writing"
        BY <1>2 DEF Busy
    <2>3. stored' \subseteq Videos \X (Heights \cup {Cover})
        <3>1. <<Subject(w), r>> \in Videos \X (Heights \cup {Cover})
            BY <1>2
        <3>2. stored' \subseteq stored \cup {<<Subject(w), r>>}
            BY <1>11 DEF Put
        <3> QED
            BY <3>1, <3>2 DEF TypeOK
    <2> HIDE DEF new
    <2> QED
        BY <1>2, <1>11, <2>1, <2>2, <2>3, WorkerStepIsTyped DEF Put, queueVars, TypeOK
<1>12. CASE UpdatePlayURLs(w)
    <2> DEFINE new == [worker[w] EXCEPT !.pc = "ready"]
    <2>1. worker' = [worker EXCEPT ![w] = new]
        BY <1>4, <1>12 DEF UpdatePlayURLs, GoOn
    <2>2. new \in Busy /\ new.pc # "writing"
        BY <1>3 DEF Phases
    <2>3. video' \in [Videos -> [status : {"none", "transcoding", "ready", "failed"},
                                 playURL : 0 .. Resolutions, playURLs : SUBSET Heights]]
        <3> DEFINE V == [status : {"none", "transcoding", "ready", "failed"},
                         playURL : 0 .. Resolutions, playURLs : SUBSET Heights]
                   v == Subject(w)
                   ok == worker[w].ok
        <3>1. video \in [Videos -> V] /\ v \in Videos /\ ok \in SUBSET Heights
            BY <1>2 DEF TypeOK
        <3>2. CASE UNCHANGED video
            BY <3>1, <3>2
        <3>3. ASSUME NEW r \in ok,
                     video' = [video EXCEPT ![v].playURL = r, ![v].playURLs = ok]
              PROVE  video' \in [Videos -> V]
            <4>1. r \in 0 .. Resolutions
                BY <3>1, TranscodeAssumption DEF Heights
            <4> QED
                BY <3>1, <3>3, <4>1
        <3> QED
            BY <1>12, <3>2, <3>3 DEF UpdatePlayURLs
    <2> HIDE DEF new
    <2> QED
        BY <1>2, <1>12, <2>1, <2>2, <2>3, WorkerStepIsTyped DEF UpdatePlayURLs, queueVars, TypeOK
<1> QED
    BY <1>5, <1>6, <1>7, <1>8, <1>9, <1>10, <1>11, <1>12

LEMMA StepIsTyped == TypeOK /\ [Next]_vars => TypeOK'
<1> SUFFICES ASSUME TypeOK, [Next]_vars PROVE TypeOK'
    OBVIOUS
<1>1. CASE UNCHANGED vars
    BY <1>1 DEF vars, queueVars, TypeOK
<1> QED
    BY <1>1, QueueStepIsTyped, EndingIsTyped, GoingOnIsTyped DEF Next, Step

\* The queue, the rows, the files and the workers stay well typed (worker.go).
THEOREM TypeCorrect == Spec => []TypeOK
<1>1. Init => TypeOK
    BY TranscodeAssumption DEF Init, Queue!Init, TypeOK, NoVideo, Idle
<1> QED
    BY <1>1, StepIsTyped, PTL DEF Spec
-----------------------------------------------------------------------------
(* Who works on what. *)

\* A task that is tried is in one worker's hands, and only uploaded videos have
\* tasks in the queue.
OneHandEach ==
    /\ \A w \in Workers : Active(w) => delivery[worker[w].t] = "trying"
    /\ \A w, x \in Workers : Active(w) /\ Active(x) /\ worker[w].t = worker[x].t => w = x
    /\ \A t \in Tasks : delivery[t] # "unsent" => video[VideoOf[t]].status # "none"

GoesOn(w) ==
    \/ Begin(w) \/ Mkdir(w) \/ Encode(w) \/ Encoded(w) \/ EncodeFails(w)
    \/ Collect(w) \/ UpdatePlayURLs(w)
    \/ \E r \in Heights \cup {Cover} : Put(w, r)

GivesUp(w) == SourceMissing(w) \/ MkdirFails(w) \/ NothingEncoded(w) \/ PutFails(w)

\* A step within an attempt keeps the task and the queue.
LEMMA GoesOnKeepsTask ==
    ASSUME TypeOK, NEW w \in Workers, GoesOn(w)
    PROVE  /\ Active(w) /\ worker[w].pc # "ready"
           /\ worker'[w].t = worker[w].t
           /\ worker'[w].pc \in Phases \ {"stat"}
           /\ \A x \in Workers \ {w} : worker'[x] = worker[x]
           /\ delivery' = delivery /\ local' = local /\ fits' = fits
<1>1. Active(w) /\ worker[w].pc # "ready"
    BY DEF GoesOn, Begin, Mkdir, Encode, Encoded, EncodeFails, Collect, AllEncoded,
           UpdatePlayURLs, Put, At, Active, Phases
<1>2. worker[w] \in Busy
    BY <1>1, ActiveWorker
<1>3. worker \in [Workers -> {Idle, [pc |-> "dead"]} \cup Busy]
    BY DEF TypeOK
<1>4. worker'[w].t = worker[w].t /\ worker'[w].pc \in Phases \ {"stat"}
    <2>1. worker[w] \in [pc : Phases, t : Tasks, next : 1 .. Resolutions + 1, ok : SUBSET Heights,
                          put : SUBSET (Heights \cup {Cover})]
        BY <1>2 DEF Busy, Phases
    <2>2. ASSUME NEW pc \in Phases \ {"stat"}, GoOn(w, pc)
          PROVE  worker'[w].t = worker[w].t /\ worker'[w].pc \in Phases \ {"stat"}
        BY <1>3, <2>1, <2>2 DEF GoOn
    <2>3. CASE Begin(w) \/ Mkdir(w) \/ Encode(w) \/ UpdatePlayURLs(w)
        BY <2>2, <2>3 DEF Begin, Mkdir, Encode, UpdatePlayURLs, Phases
    <2>4. CASE Encoded(w)
        BY <1>3, <2>1, <2>4 DEF Encoded, Phases
    <2>5. CASE EncodeFails(w)
        BY <1>3, <2>1, <2>5 DEF EncodeFails, Phases
    <2>6. CASE Collect(w)
        BY <1>3, <2>1, <2>6 DEF Collect, GoOn, Phases
    <2>7. ASSUME NEW r \in Heights \cup {Cover}, Put(w, r)
          PROVE  worker'[w].t = worker[w].t /\ worker'[w].pc \in Phases \ {"stat"}
        BY <1>3, <2>1, <2>7 DEF Put, Phases
    <2> QED
        BY <2>3, <2>4, <2>5, <2>6, <2>7 DEF GoesOn
<1>5. \A x \in Workers \ {w} : worker'[x] = worker[x]
    BY <1>3 DEF GoesOn, Begin, Mkdir, Encode, Encoded, EncodeFails, Collect, UpdatePlayURLs,
                Put, GoOn
<1>6. delivery' = delivery /\ local' = local /\ fits' = fits
    BY DEF GoesOn, Begin, Mkdir, Encode, Encoded, EncodeFails, Collect, UpdatePlayURLs,
           Put, queueVars
<1> QED
    BY <1>1, <1>4, <1>5, <1>6

\* A step that returns an error puts the task back and frees the worker.
LEMMA GivesUpReturns ==
    ASSUME TypeOK, NEW w \in Workers, GivesUp(w)
    PROVE  /\ Active(w) /\ worker[w].pc # "ready"
           /\ delivery[worker[w].t] = "trying"
           /\ delivery' = [delivery EXCEPT ![worker[w].t] = "pending"]
           /\ worker' = [worker EXCEPT ![w] = Idle]
           /\ local' = local /\ fits' = fits /\ file' = file /\ stored' = stored
    BY DEF GivesUp, SourceMissing, MkdirFails, NothingEncoded, PutFails, AllEncoded, At, Active,
           Phases, ReturnError, Queue!Fail, Queue!Move, Tasked

\* A status that is written, or the write is dropped and the video is not spared.
LEMMA StatusWritten ==
    ASSUME TypeOK, NEW u \in Videos, NEW s, UpdateStatus(u, s)
    PROVE  /\ spared' \subseteq spared
           /\ u \in spared' => video'[u].status = s
           /\ \A v \in Videos : /\ v # u => video'[v] = video[v]
                               /\ video'[v].playURLs = video[v].playURLs
                               /\ video'[v].playURL = video[v].playURL
    BY DEF TypeOK, UpdateStatus

\* Publishing the URLs keeps the status.
LEMMA URLsWritten ==
    ASSUME TypeOK, NEW w \in Workers, Subject(w) \in Videos, UpdatePlayURLs(w)
    PROVE  /\ spared' \subseteq spared
           /\ \A v \in Videos : /\ v # Subject(w) => video'[v] = video[v]
                               /\ video'[v].status = video[v].status
<1> DEFINE u == Subject(w)
<1>1. CASE UNCHANGED video
    BY <1>1 DEF UpdatePlayURLs
<1>2. ASSUME NEW r, video' = [video EXCEPT ![u].playURL = r, ![u].playURLs = worker[w].ok]
      PROVE  \A v \in Videos : /\ v # u => video'[v] = video[v]
                             /\ video'[v].status = video[v].status
    BY <1>2 DEF TypeOK
<1>3. spared' \subseteq spared
    BY DEF UpdatePlayURLs
<1> QED
    BY <1>1, <1>2, <1>3 DEF UpdatePlayURLs

\* What a step of a worker may do to the rows: it never makes one new again.
LEMMA StepKeepsUploaded ==
    ASSUME TypeOK, NEW w \in Workers, Step(w), NEW v \in Videos, video[v].status # "none"
    PROVE  video'[v].status # "none"
<1>0. Active(w) /\ Subject(w) \in Videos
    <2>1. Active(w)
        BY DEF Step, SourceMissing, Begin, Mkdir, MkdirFails, Encode, Encoded, EncodeFails, AllEncoded,
               NothingEncoded, Collect, Put, PutFails, UpdatePlayURLs, Finish, At, Active, Phases
    <2> QED
        BY <2>1, ActiveWorker
<1>1. CASE UNCHANGED video
    BY <1>1
<1>2. CASE UpdatePlayURLs(w)
    BY <1>0, <1>2, URLsWritten
<1>3. ASSUME NEW s \in {"transcoding", "ready", "failed"}, UpdateStatus(Subject(w), s)
      PROVE  video'[v].status # "none"
    BY <1>0, <1>3 DEF UpdateStatus, TypeOK
<1> QED
    BY <1>1, <1>2, <1>3 DEF Step, SourceMissing, Begin, Mkdir, MkdirFails, Encode, Encoded,
        EncodeFails, NothingEncoded, Collect, Put, PutFails, Finish

LEMMA StepSplit ==
    ASSUME NEW w \in Workers, Step(w)
    PROVE  GoesOn(w) \/ GivesUp(w) \/ Finish(w)
    BY DEF Step, GoesOn, GivesUp

LEMMA StepKeepsHands == TypeOK /\ OneHandEach /\ [Next]_vars => OneHandEach'
<1> SUFFICES ASSUME TypeOK, OneHandEach, [Next]_vars PROVE OneHandEach'
    OBVIOUS
<1>0. /\ worker \in [Workers -> {Idle, [pc |-> "dead"]} \cup Busy]
      /\ delivery \in [Tasks -> {"unsent", "pending", "trying", "done", "dead"}]
      /\ VideoOf \in [Tasks -> Videos]
      /\ \A x \in Workers : Active(x) => worker[x].t \in Tasks
      /\ ~ (Idle.pc \in Phases)
    BY TranscodeAssumption, ActiveWorker DEF TypeOK, Idle, Phases
<1>1. ASSUME NEW v \in Videos, Upload(v) PROVE OneHandEach'
    <2>1. \A t \in Tasks : VideoOf[t] = v => delivery[t] = "unsent"
        BY <1>1 DEF Upload, OneHandEach
    <2>2. worker' = worker /\ \A t \in Tasks : VideoOf[t] # v => delivery'[t] = delivery[t]
        BY <1>0, <1>1 DEF Upload
    <2>3. \A w \in Workers : Active(w) => delivery'[worker[w].t] = "trying"
        BY <1>0, <2>1, <2>2 DEF OneHandEach
    <2>4. \A x \in Videos : x # v => video'[x] = video[x]
        BY <1>1 DEF Upload, TypeOK
    <2>5. video'[v].status = "ready"
        BY <1>1 DEF Upload, TypeOK
    <2>6. \A t \in Tasks : delivery'[t] # "unsent" => video'[VideoOf[t]].status # "none"
        BY <1>0, <2>2, <2>4, <2>5 DEF OneHandEach
    <2> QED
        BY <2>2, <2>3, <2>6 DEF OneHandEach, Active
<1>2. ASSUME NEW t \in Tasks, Bury(t) PROVE OneHandEach'
    BY <1>0, <1>2 DEF Bury, Queue!Bury, Queue!Move, OneHandEach, Active
<1>3. ASSUME NEW w \in Workers, NEW t \in Tasks, Take(w, t) PROVE OneHandEach'
    <2>1. /\ delivery[t] = "pending" /\ delivery' = [delivery EXCEPT ![t] = "trying"]
          /\ worker[w] = Idle /\ worker'[w].t = t
          /\ \A x \in Workers \ {w} : worker'[x] = worker[x]
          /\ video' = video
        BY <1>0, <1>3 DEF Take, Queue!Try, Queue!Move
    <2>2. \A x \in Workers : Active(x) => worker[x].t # t /\ x # w
        BY <1>0, <2>1 DEF OneHandEach, Active
    <2> QED
        BY <1>0, <2>1, <2>2 DEF OneHandEach, Active
<1>4. ASSUME NEW w \in Workers, Crash(w) PROVE OneHandEach'
    BY <1>0, <1>4 DEF Crash, queueVars, OneHandEach, Active, Phases
<1>5. ASSUME NEW w \in Workers, GoesOn(w), Step(w) PROVE OneHandEach'
    <2>1. \A t \in Tasks : delivery'[t] # "unsent" => video'[VideoOf[t]].status # "none"
        BY <1>0, <1>5, GoesOnKeepsTask, StepKeepsUploaded DEF OneHandEach
    <2> QED
        BY <1>0, <1>5, <2>1, GoesOnKeepsTask DEF OneHandEach, Active, Phases
<1>6. ASSUME NEW w \in Workers, GivesUp(w), Step(w) PROVE OneHandEach'
    <2>1. \A t \in Tasks : delivery'[t] # "unsent" => video'[VideoOf[t]].status # "none"
        BY <1>0, <1>6, GivesUpReturns, StepKeepsUploaded DEF OneHandEach
    <2>2. \A x \in Workers \ {w} : Active(x) => worker[x].t # worker[w].t
        BY <1>6, GivesUpReturns DEF OneHandEach
    <2> QED
        BY <1>0, <1>6, <2>1, <2>2, GivesUpReturns DEF OneHandEach, Active, Phases
<1>7. ASSUME NEW w \in Workers, Finish(w), Step(w) PROVE OneHandEach'
    <2>1. /\ Active(w) /\ delivery[worker[w].t] = "trying"
          /\ delivery' = [delivery EXCEPT ![worker[w].t] = "done"]
          /\ worker' = [worker EXCEPT ![w] = Idle]
        BY <1>7 DEF Finish, Queue!Succeed, Queue!Move, At, Active, Phases, Tasked
    <2>2. \A t \in Tasks : delivery'[t] # "unsent" => video'[VideoOf[t]].status # "none"
        BY <1>0, <1>7, <2>1, StepKeepsUploaded DEF OneHandEach
    <2>3. \A x \in Workers \ {w} : Active(x) => worker[x].t # worker[w].t
        BY <2>1 DEF OneHandEach
    <2> QED
        BY <1>0, <2>1, <2>2, <2>3 DEF OneHandEach, Active, Phases
<1>8. CASE UNCHANGED vars
    BY <1>8 DEF vars, queueVars, OneHandEach, Active
<1> QED
    BY <1>1, <1>2, <1>3, <1>4, <1>5, <1>6, <1>7, <1>8, StepSplit DEF Next

-----------------------------------------------------------------------------
(* What a row owes its status to. *)

OnItsWay(v) ==
    video[v].status = "transcoding" =>
        \E w \in Workers : Active(w) /\ worker[w].pc # "stat" /\ Subject(w) = v
StillToSucceed(v) ==
    video[v].status = "failed" =>
        \E t \in Tasks : VideoOf[t] = v /\ delivery[t] \in {"pending", "trying", "dead"}
Accepted(v) ==
    video[v].playURLs # {} =>
        \E t \in Tasks : /\ VideoOf[t] = v
                         /\ \/ delivery[t] = "done"
                            \/ \E w \in Workers : worker[w].pc = "ready" /\ worker[w].t = t
RowsAccounted == \A v \in spared : OnItsWay(v) /\ StillToSucceed(v) /\ Accepted(v)

\* With nobody at work, what a row owes its status to is the queue.
LEMMA AccountedTells ==
    TypeOK /\ OneHandEach /\ RowsAccounted => StatusTellsOutcome
<1> SUFFICES ASSUME TypeOK, OneHandEach, RowsAccounted, NEW v \in spared, Settled(v)
             PROVE  /\ video[v].status # "transcoding"
                    /\ video[v].status = "failed" => \E t \in Copies(v) : delivery[t] = "dead"
                    /\ video[v].playURLs # {} => \E t \in Copies(v) : delivery[t] = "done"
    BY DEF StatusTellsOutcome
<1>1. \A t \in Tasks : VideoOf[t] = v => delivery[t] \in {"unsent", "done", "dead"}
    BY DEF Settled, Copies
<1>2. \A w \in Workers : Active(w) => worker[w].t \in Tasks /\ delivery[worker[w].t] = "trying"
    BY ActiveWorker DEF OneHandEach
<1>3. video[v].status # "transcoding"
    BY <1>1, <1>2 DEF RowsAccounted, OnItsWay, Subject
<1>4. video[v].status = "failed" => \E t \in Copies(v) : delivery[t] = "dead"
    BY <1>1 DEF RowsAccounted, StillToSucceed, Copies
<1>5. video[v].playURLs # {} => \E t \in Copies(v) : delivery[t] = "done"
    BY <1>1, <1>2 DEF RowsAccounted, Accepted, Copies, Active, Phases
<1> QED
    BY <1>3, <1>4, <1>5

LEMMA QueueKeepsAccount ==
    ASSUME TypeOK, OneHandEach, RowsAccounted,
           \/ \E v \in Videos : Upload(v)
           \/ \E t \in Tasks : Bury(t)
           \/ \E w \in Workers, t \in Tasks : Take(w, t)
           \/ \E w \in Workers : Crash(w)
    PROVE  RowsAccounted'
<1>0. /\ worker \in [Workers -> {Idle, [pc |-> "dead"]} \cup Busy]
      /\ delivery \in [Tasks -> {"unsent", "pending", "trying", "done", "dead"}]
      /\ VideoOf \in [Tasks -> Videos] /\ spared \subseteq Videos
      /\ \A x \in Workers : Active(x) => worker[x].t \in Tasks
    BY TranscodeAssumption, ActiveWorker DEF TypeOK
<1>1. ASSUME NEW u \in Videos, Upload(u), NEW v \in spared
      PROVE  (OnItsWay(v) /\ StillToSucceed(v) /\ Accepted(v))'
    <2>1. worker' = worker
        BY <1>1 DEF Upload
    <2>2. CASE v # u
        <3>1. video'[v] = video[v] /\ \A t \in Tasks : VideoOf[t] = v => delivery'[t] = delivery[t]
            BY <1>0, <1>1, <2>2 DEF Upload, TypeOK
        <3> QED
            BY <2>1, <3>1 DEF RowsAccounted, OnItsWay, StillToSucceed, Accepted, Active, Subject
    <2>3. CASE v = u
        <3>1. video'[v].status = "ready" /\ video'[v].playURLs = video[v].playURLs
            BY <1>1, <2>3 DEF Upload, TypeOK
        <3>2. \A t \in Tasks : VideoOf[t] = v => delivery[t] = "unsent"
            BY <1>1, <2>3 DEF Upload, OneHandEach
        <3>3. video[v].playURLs = {}
            BY <3>2 DEF RowsAccounted, Accepted, OneHandEach, Active, Phases
        <3> QED
            BY <3>1, <3>3 DEF OnItsWay, StillToSucceed, Accepted
    <2> QED
        BY <2>2, <2>3
<1>2. ASSUME NEW t \in Tasks, Bury(t) PROVE RowsAccounted'
    BY <1>0, <1>2 DEF Bury, Queue!Bury, Queue!Move, RowsAccounted, OnItsWay, StillToSucceed,
                      Accepted, Active, Subject
<1>3. ASSUME NEW w \in Workers, NEW t \in Tasks, Take(w, t) PROVE RowsAccounted'
    <2>1. /\ delivery[t] = "pending" /\ delivery' = [delivery EXCEPT ![t] = "trying"]
          /\ worker[w] = Idle
          /\ \A x \in Workers \ {w} : worker'[x] = worker[x]
          /\ video' = video /\ spared' = spared
        BY <1>0, <1>3 DEF Take, Queue!Try, Queue!Move
    <2>2. ~ Active(w)
        BY <2>1 DEF Active, Phases, Idle
    <2>3. \A v \in spared : OnItsWay(v)'
        BY <2>1, <2>2 DEF RowsAccounted, OnItsWay, Active, Subject
    <2>4. \A v \in spared : StillToSucceed(v)'
        BY <1>0, <2>1 DEF RowsAccounted, StillToSucceed
    <2>5. \A v \in spared : Accepted(v)'
        BY <1>0, <2>1, <2>2 DEF RowsAccounted, Accepted, Active, Phases
    <2> QED
        BY <2>1, <2>3, <2>4, <2>5 DEF RowsAccounted
<1>4. ASSUME NEW w \in Workers, Crash(w) PROVE RowsAccounted'
    <2>1. /\ Active(w) /\ delivery' = delivery /\ video' = video
          /\ spared' = spared \ {Subject(w)}
          /\ \A x \in Workers \ {w} : worker'[x] = worker[x]
        BY <1>0, <1>4, OtherWorker DEF Crash, At, queueVars, Idle
    <2>2. \A v \in spared' : OnItsWay(v)'
        BY <2>1 DEF RowsAccounted, OnItsWay, Active, Subject
    <2>3. \A v \in spared' : StillToSucceed(v)'
        BY <2>1 DEF RowsAccounted, StillToSucceed
    <2>4. \A v \in spared' : Accepted(v)'
        BY <2>1 DEF RowsAccounted, Accepted, Subject
    <2> QED
        BY <2>2, <2>3, <2>4 DEF RowsAccounted
<1>5. ASSUME NEW u \in Videos, Upload(u) PROVE RowsAccounted'
    <2>1. spared' = spared
        BY <1>5 DEF Upload
    <2> QED
        BY <1>1, <1>5, <2>1 DEF RowsAccounted
<1> QED
    BY <1>2, <1>3, <1>4, <1>5

LEMMA WorkKeepsAccount ==
    ASSUME TypeOK, OneHandEach, RowsAccounted, NEW w \in Workers, Step(w)
    PROVE  RowsAccounted'
<1>0. /\ worker \in [Workers -> {Idle, [pc |-> "dead"]} \cup Busy]
      /\ delivery \in [Tasks -> {"unsent", "pending", "trying", "done", "dead"}]
      /\ VideoOf \in [Tasks -> Videos] /\ spared \subseteq Videos
      /\ \A x \in Workers : Active(x) => worker[x].t \in Tasks
    BY TranscodeAssumption, ActiveWorker DEF TypeOK
<1> DEFINE u == Subject(w)
           t == worker[w].t
<1>1. ASSUME GoesOn(w) PROVE RowsAccounted'
    <2>1. /\ Active(w) /\ worker[w].pc # "ready"
          /\ worker'[w].t = t /\ worker'[w].pc \in Phases \ {"stat"}
          /\ \A x \in Workers \ {w} : worker'[x] = worker[x]
          /\ delivery' = delivery /\ t \in Tasks /\ u \in Videos
        BY <1>0, <1>1, GoesOnKeepsTask DEF Subject
    <2>2. /\ spared' \subseteq spared
          /\ \A v \in Videos : v # u => video'[v] = video[v]
          /\ u \in spared' => \/ video'[u].status = "transcoding"
                             \/ video'[u].status = video[u].status
        <3>1. CASE UpdatePlayURLs(w)
            BY <2>1, <3>1, URLsWritten
        <3>2. CASE Begin(w)
            BY <2>1, <3>2, StatusWritten DEF Begin
        <3>3. CASE ~ Begin(w) /\ ~ UpdatePlayURLs(w)
            BY <1>1, <3>3 DEF GoesOn, Mkdir, Encode, Encoded, EncodeFails, Collect, Put
        <3> QED
            BY <3>1, <3>2, <3>3
    <2>3. \/ video'[u].playURLs = video[u].playURLs
          \/ worker'[w].pc = "ready"
        <3>1. CASE UpdatePlayURLs(w)
            BY <1>0, <2>1, <3>1, ActiveWorker DEF UpdatePlayURLs, GoOn, Busy
        <3>2. CASE Begin(w)
            BY <2>1, <3>2, StatusWritten DEF Begin
        <3>3. CASE ~ Begin(w) /\ ~ UpdatePlayURLs(w)
            BY <1>1, <3>3 DEF GoesOn, Mkdir, Encode, Encoded, EncodeFails, Collect, Put
        <3> QED
            BY <3>1, <3>2, <3>3
    <2>5. \A v \in spared' : OnItsWay(v)'
        BY <1>0, <2>1, <2>2 DEF RowsAccounted, OnItsWay, Active, Subject
    <2>6. \A v \in spared' : StillToSucceed(v)'
        BY <1>0, <2>1, <2>2 DEF RowsAccounted, StillToSucceed
    <2>7. \A v \in spared' : Accepted(v)'
        <3> SUFFICES ASSUME NEW v \in spared' PROVE Accepted(v)'
            OBVIOUS
        <3>1. CASE video'[v].playURLs = video[v].playURLs
            BY <2>1, <2>2, <3>1 DEF RowsAccounted, Accepted
        <3>2. CASE v = u /\ worker'[w].pc = "ready"
            BY <2>1, <3>2 DEF Accepted, Subject
        <3> QED
            BY <1>0, <2>2, <2>3, <3>1, <3>2
    <2> QED
        BY <2>5, <2>6, <2>7 DEF RowsAccounted
<1>2. ASSUME GivesUp(w) PROVE RowsAccounted'
    <2>1. /\ Active(w) /\ worker[w].pc # "ready" /\ delivery[t] = "trying"
          /\ delivery' = [delivery EXCEPT ![t] = "pending"]
          /\ worker'[w] = Idle /\ \A x \in Workers \ {w} : worker'[x] = worker[x]
          /\ t \in Tasks /\ u \in Videos /\ VideoOf[t] = u
        BY <1>0, <1>2, GivesUpReturns DEF Subject
    <2>2. /\ spared' \subseteq spared
          /\ \A v \in Videos : /\ v # u => video'[v] = video[v]
                              /\ video'[v].playURLs = video[v].playURLs
        BY <1>2, <2>1, StatusWritten DEF GivesUp, SourceMissing, MkdirFails, NothingEncoded, PutFails
    <2>3. u \in spared' => \/ video'[u].status = "failed"
                           \/ video' = video /\ worker[w].pc = "stat"
        BY <1>2, <2>1, StatusWritten DEF GivesUp, SourceMissing, MkdirFails, NothingEncoded, PutFails, At
    <2>4. \A v \in spared' : OnItsWay(v)'
        BY <1>0, <2>1, <2>2, <2>3 DEF RowsAccounted, OnItsWay, Active, Subject
    <2>5. \A v \in spared' : StillToSucceed(v)'
        BY <1>0, <2>1, <2>2, <2>3 DEF RowsAccounted, StillToSucceed
    <2>6. \A v \in spared' : Accepted(v)'
        BY <1>0, <2>1, <2>2 DEF RowsAccounted, Accepted
    <2> QED
        BY <2>4, <2>5, <2>6 DEF RowsAccounted
<1>3. ASSUME Finish(w) PROVE RowsAccounted'
    <2>1. /\ Active(w) /\ delivery[t] = "trying"
          /\ delivery' = [delivery EXCEPT ![t] = "done"]
          /\ worker'[w] = Idle /\ \A x \in Workers \ {w} : worker'[x] = worker[x]
        BY <1>0, <1>3 DEF Finish, Queue!Succeed, Queue!Move, At, Active, Phases, Tasked
    <2>2. t \in Tasks /\ u \in Videos /\ VideoOf[t] = u /\ delivery'[t] = "done"
        BY <1>0, <2>1 DEF Subject
    <2>3. /\ spared' \subseteq spared
          /\ u \in spared' => video'[u].status = "ready"
          /\ \A v \in Videos : /\ v # u => video'[v] = video[v]
                              /\ video'[v].playURLs = video[v].playURLs
        BY <1>3, <2>2, StatusWritten DEF Finish
    <2>4. \A v \in spared' : OnItsWay(v)'
        BY <1>0, <2>1, <2>2, <2>3 DEF RowsAccounted, OnItsWay, Active, Subject
    <2>5. \A v \in spared' : StillToSucceed(v)'
        BY <1>0, <2>1, <2>2, <2>3 DEF RowsAccounted, StillToSucceed
    <2>6. \A v \in spared' : Accepted(v)'
        BY <1>0, <2>1, <2>2, <2>3 DEF RowsAccounted, Accepted
    <2> QED
        BY <2>4, <2>5, <2>6 DEF RowsAccounted
<1> QED
    BY <1>1, <1>2, <1>3, StepSplit

LEMMA StepKeepsAccount ==
    TypeOK /\ OneHandEach /\ RowsAccounted /\ [Next]_vars => RowsAccounted'
<1> SUFFICES ASSUME TypeOK, OneHandEach, RowsAccounted, [Next]_vars PROVE RowsAccounted'
    OBVIOUS
<1>1. CASE UNCHANGED vars
    BY <1>1 DEF vars, queueVars, RowsAccounted, OnItsWay, StillToSucceed, Accepted, Active, Subject
<1> QED
    BY <1>1, QueueKeepsAccount, WorkKeepsAccount DEF Next

\* However many copies of a task, workers, attempts and failures there are: when
\* nobody works on a video any more its status says what became of its tasks,
\* unless a write was dropped, a worker died or a directory was refused
\* (worker.go:44-122).
THEOREM StatusTruthful == Spec => []StatusTellsOutcome
<1>1. Init => OneHandEach /\ RowsAccounted
    BY TranscodeAssumption DEF Init, Queue!Init, OneHandEach, RowsAccounted, OnItsWay, StillToSucceed,
                               Accepted, Active, Phases, Idle, NoVideo
<1>2. Spec => []TypeOK
    BY TypeCorrect
<1> QED
    BY <1>1, <1>2, StepKeepsHands, StepKeepsAccount, AccountedTells, PTL DEF Spec
-----------------------------------------------------------------------------
(* Why a published URL plays. *)

Lone(v) == \A s, t \in Copies(v) : s = t
Published(v) == video[v].playURL # 0 \/ video[v].playURLs # {}
Whole(v, r) == IF local THEN <<v, r>> \in file ELSE <<v, r>> \in stored

\* What an attempt has made is there, and it may still be working only if nothing
\* is published.
WorkSound(w) ==
    LET v == Subject(w)
    IN /\ \A r \in worker[w].ok : <<v, r>> \in file /\ r < worker[w].next
       /\ ~ local /\ worker[w].pc = "put" =>
             \A r \in worker[w].ok : r \in worker[w].put \/ <<v, r>> \in stored
       /\ ~ local /\ worker[w].pc \in {"urls", "ready"} =>
             \A r \in worker[w].ok : <<v, r>> \in stored
       /\ Published(v) => worker[w].pc = "ready"

\* What is published is whole, and no attempt at it can begin any more.
RowSound(v) ==
    Published(v) => /\ video[v].playURL # 0 => Whole(v, video[v].playURL)
                    /\ \A r \in video[v].playURLs : Whole(v, r)
                    /\ \A t \in Copies(v) : delivery[t] \in {"trying", "done"}

LonesSound ==
    /\ \A v \in Videos : Published(v) => video[v].status # "none"
    /\ \A v \in Videos : Lone(v) => RowSound(v)
    /\ \A w \in Workers : Active(w) /\ Lone(Subject(w)) => WorkSound(w)

\* A set with fewer than two elements has at most one.
LEMMA FewerThanTwo ==
    ASSUME NEW S, IsFiniteSet(S), Cardinality(S) < 2, NEW a \in S, NEW b \in S
    PROVE  a = b
<1> SUFFICES ASSUME a # b PROVE FALSE
    OBVIOUS
<1>1. IsFiniteSet({a}) /\ Cardinality({a}) = 1
    BY FS_Singleton
<1>2. IsFiniteSet({a} \cup {b}) /\ Cardinality({a} \cup {b}) = Cardinality({a}) + 1
    BY <1>1, FS_AddElement
<1>3. {a} \cup {b} \subseteq S
    OBVIOUS
<1>4. Cardinality({a} \cup {b}) <= Cardinality(S) /\ Cardinality(S) \in Nat
    BY <1>3, FS_Subset, FS_CardinalityType
<1> QED
    BY <1>1, <1>2, <1>4

\* A video with one copy of its task has one worker at most.
LEMMA LoneWorker ==
    ASSUME TypeOK, OneHandEach, NEW w \in Workers, NEW x \in Workers, Active(w), Active(x),
           Subject(w) = Subject(x), Lone(Subject(w))
    PROVE  w = x
<1>1. worker[w].t \in Tasks /\ worker[x].t \in Tasks
    BY ActiveWorker
<1>2. worker[w].t \in Copies(Subject(w)) /\ worker[x].t \in Copies(Subject(w))
    BY <1>1 DEF OneHandEach, Copies, Subject
<1> QED
    BY <1>2 DEF OneHandEach, Lone

LEMMA SoundPlays == TypeOK /\ OneHandEach /\ LonesSound => PublishedURLsPlay
<1> SUFFICES ASSUME TypeOK, OneHandEach, LonesSound, NEW v \in Videos, Cardinality(Copies(v)) < 2
             PROVE  /\ Plays(v, video[v].playURL)
                    /\ \A r \in video[v].playURLs : Plays(v, r)
    BY DEF PublishedURLsPlay
<1>1. Lone(v)
    <2>1. IsFiniteSet(Copies(v))
        BY FS_Subset, TranscodeAssumption DEF Copies
    <2> QED
        BY <2>1, FewerThanTwo DEF Lone
<1>2. Published(v) => \A r : Writers(v, r) = {}
    BY <1>1 DEF LonesSound, WorkSound, Writers, At, Active, Phases
<1>3. Published(v) => \A r : Whole(v, r) => Plays(v, r)
    BY <1>2 DEF Whole, Plays, OnDisk
<1> QED
    BY <1>1, <1>3 DEF LonesSound, RowSound, Published, Plays

\* Only what concerns a video's row, copies, files and objects decides whether it
\* is sound.
LEMMA RowUntouched ==
    ASSUME NEW v, RowSound(v), local' = local,
           video'[v].playURL = video[v].playURL, video'[v].playURLs = video[v].playURLs,
           \A r : <<v, r>> \in file => <<v, r>> \in file',
           \A r : <<v, r>> \in stored => <<v, r>> \in stored',
           \A t \in Tasks : VideoOf[t] = v => delivery'[t] = delivery[t]
    PROVE  RowSound(v)'
    BY DEF RowSound, Published, Whole, Copies

LEMMA WorkUntouched ==
    ASSUME NEW w, WorkSound(w), local' = local, worker'[w] = worker[w],
           video'[Subject(w)].playURL = video[Subject(w)].playURL,
           video'[Subject(w)].playURLs = video[Subject(w)].playURLs,
           \A r : <<Subject(w), r>> \in file => <<Subject(w), r>> \in file',
           \A r : <<Subject(w), r>> \in stored => <<Subject(w), r>> \in stored'
    PROVE  WorkSound(w)'
    BY DEF WorkSound, Published, Subject

\* A step of the queue, or a crash, makes nothing unsound: what it changes belongs
\* to a video of which nothing is published.
LEMMA QueueKeepsSound ==
    ASSUME TypeOK, OneHandEach, LonesSound,
           \/ \E v \in Videos : Upload(v)
           \/ \E t \in Tasks : Bury(t)
           \/ \E w \in Workers, t \in Tasks : Take(w, t)
           \/ \E w \in Workers : Crash(w)
    PROVE  LonesSound'
<1>0. /\ worker \in [Workers -> {Idle, [pc |-> "dead"]} \cup Busy]
      /\ delivery \in [Tasks -> {"unsent", "pending", "trying", "done", "dead"}]
      /\ VideoOf \in [Tasks -> Videos]
      /\ \A x \in Workers : Active(x) => worker[x].t \in Tasks /\ Subject(x) \in Videos
      /\ ~ (Idle.pc \in Phases)
    BY TranscodeAssumption, ActiveWorker DEF TypeOK, Idle, Phases
<1>1. ASSUME NEW u \in Videos, Upload(u) PROVE LonesSound'
    <2>1. /\ worker' = worker /\ file' = file /\ stored' = stored /\ local' = local
          /\ video[u].status = "none"
          /\ \A t \in Tasks : VideoOf[t] = u => delivery[t] = "unsent"
          /\ \A t \in Tasks : VideoOf[t] # u => delivery'[t] = delivery[t]
          /\ \A v \in Videos : v # u => video'[v] = video[v]
          /\ video'[u].playURL = video[u].playURL /\ video'[u].playURLs = video[u].playURLs
        BY <1>0, <1>1 DEF Upload, OneHandEach, TypeOK
    <2>2. ~ Published(u) /\ ~ Published(u)'
        BY <2>1 DEF LonesSound, Published
    <2>3. \A v \in Videos : v # u => Copies(v)' = Copies(v)
        BY <2>1 DEF Copies
    <2>4. \A w \in Workers : Active(w) => Subject(w) # u
        BY <1>0, <2>1 DEF OneHandEach, Subject
    <2>5. \A v \in Videos : Published(v)' => video'[v].status # "none"
        BY <2>1, <2>2 DEF LonesSound, Published
    <2>6. \A v \in Videos : Lone(v)' => RowSound(v)'
        <3> SUFFICES ASSUME NEW v \in Videos, Lone(v)', v # u PROVE RowSound(v)'
            BY <2>2 DEF RowSound
        <3>1. RowSound(v)
            BY <2>3 DEF LonesSound, Lone
        <3> QED
            BY <2>1, <3>1, RowUntouched
    <2>7. \A w \in Workers : Active(w)' /\ Lone(Subject(w))' => WorkSound(w)'
        <3> SUFFICES ASSUME NEW w \in Workers, Active(w)', Lone(Subject(w))' PROVE WorkSound(w)'
            OBVIOUS
        <3>1. Active(w) /\ Subject(w)' = Subject(w) /\ Subject(w) # u /\ Subject(w) \in Videos
            BY <1>0, <2>1, <2>4 DEF Active, Subject
        <3>2. Lone(Subject(w))
            BY <2>3, <3>1 DEF Lone, Copies
        <3>3. WorkSound(w)
            BY <3>1, <3>2 DEF LonesSound
        <3> QED
            BY <2>1, <3>1, <3>3, WorkUntouched
    <2> QED
        BY <2>5, <2>6, <2>7 DEF LonesSound
<1>2. ASSUME NEW t \in Tasks, delivery[t] = "pending",
             delivery' = [delivery EXCEPT ![t] = "dead"] \/ delivery' = [delivery EXCEPT ![t] = "trying"],
             video' = video, file' = file, stored' = stored, local' = local
      PROVE  /\ \A v \in Videos : Copies(v)' = Copies(v)
             /\ \A v \in Videos : Published(v)' => video'[v].status # "none"
             /\ \A v \in Videos : Lone(v)' => RowSound(v)'
             /\ Lone(VideoOf[t]) => ~ Published(VideoOf[t])
    <2>1. \A v \in Videos : Copies(v)' = Copies(v)
        BY <1>0, <1>2 DEF Copies
    <2>2. Lone(VideoOf[t]) => ~ Published(VideoOf[t])
        BY <1>0, <1>2 DEF LonesSound, RowSound, Copies
    <2>3. \A v \in Videos : Published(v)' => video'[v].status # "none"
        BY <1>2 DEF LonesSound, Published
    <2>4. ASSUME NEW v \in Videos, Lone(v)' PROVE RowSound(v)'
        <3>1. Lone(v) /\ RowSound(v)
            BY <2>1, <2>4 DEF LonesSound, Lone
        <3>2. CASE v = VideoOf[t]
            BY <1>2, <2>2, <3>1, <3>2 DEF RowSound, Published
        <3>3. CASE v # VideoOf[t]
            BY <1>0, <1>2, <3>1, <3>3, RowUntouched
        <3> QED
            BY <3>2, <3>3
    <2> QED
        BY <2>1, <2>2, <2>3, <2>4
<1>3. ASSUME NEW t \in Tasks, Bury(t) PROVE LonesSound'
    <2>1. /\ delivery[t] = "pending" /\ delivery' = [delivery EXCEPT ![t] = "dead"]
          /\ video' = video /\ file' = file /\ stored' = stored /\ local' = local
          /\ worker' = worker
        BY <1>3 DEF Bury, Queue!Bury, Queue!Move
    <2>2. \A w \in Workers : Active(w)' /\ Lone(Subject(w))' => WorkSound(w)'
        <3> SUFFICES ASSUME NEW w \in Workers, Active(w)', Lone(Subject(w))' PROVE WorkSound(w)'
            OBVIOUS
        <3>1. Active(w) /\ Subject(w)' = Subject(w) /\ Subject(w) \in Videos
            BY <1>0, <2>1 DEF Active, Subject
        <3>2. Copies(Subject(w))' = Copies(Subject(w))
            BY <1>0, <2>1, <3>1 DEF Copies
        <3>3. Lone(Subject(w))
            BY <3>2 DEF Lone
        <3> QED
            BY <2>1, <3>1, <3>3, WorkUntouched DEF LonesSound
    <2> QED
        BY <1>2, <2>1, <2>2 DEF LonesSound
<1>4. ASSUME NEW w \in Workers, NEW t \in Tasks, Take(w, t) PROVE LonesSound'
    <2>1. /\ delivery[t] = "pending" /\ delivery' = [delivery EXCEPT ![t] = "trying"]
          /\ video' = video /\ file' = file /\ stored' = stored /\ local' = local
          /\ \A x \in Workers \ {w} : worker'[x] = worker[x]
          /\ worker'[w] = [pc |-> "stat", t |-> t, next |-> 1, ok |-> {}, put |-> {}]
        BY <1>0, <1>4 DEF Take, Queue!Try, Queue!Move
    <2>2. ASSUME NEW x \in Workers, Active(x)', Lone(Subject(x))', x # w PROVE WorkSound(x)'
        <3>1. Active(x) /\ worker'[x] = worker[x] /\ Subject(x)' = Subject(x)
            BY <2>1, <2>2 DEF Active, Subject
        <3>2. Lone(Subject(x))
            BY <1>0, <1>2, <2>1, <2>2, <3>1 DEF Lone
        <3> QED
            BY <2>1, <3>1, <3>2, WorkUntouched DEF LonesSound
    <2>3. ASSUME Lone(Subject(w))' PROVE WorkSound(w)'
        <3>1. Subject(w)' = VideoOf[t] /\ VideoOf[t] \in Videos
            BY <1>0, <2>1 DEF Subject
        <3>2. Lone(VideoOf[t])'
            BY <2>3, <3>1 DEF Lone, Copies
        <3>3. Lone(VideoOf[t])
            BY <1>2, <2>1, <3>1, <3>2 DEF Lone
        <3>4. ~ Published(VideoOf[t])'
            BY <1>2, <2>1, <3>3 DEF Published
        <3> QED
            BY <2>1, <3>1, <3>4 DEF WorkSound, Published, Subject
    <2> QED
        BY <1>2, <2>1, <2>2, <2>3 DEF LonesSound
<1>5. ASSUME NEW w \in Workers, Crash(w) PROVE LonesSound'
    <2> DEFINE u == Subject(w)
    <2>1. /\ Active(w) /\ delivery' = delivery /\ video' = video
          /\ stored' = stored /\ local' = local
          /\ \A x \in Workers \ {w} : worker'[x] = worker[x]
          /\ worker'[w].pc = "dead"
          /\ worker[w].pc # "writing" => file' = file
          /\ \A v, r : v # u /\ <<v, r>> \in file => <<v, r>> \in file'
        BY <1>0, <1>5, OtherWorker DEF Crash, At, queueVars, Idle
    <2>2. \A v : Copies(v)' = Copies(v)
        BY <2>1 DEF Copies
    <2>3. ASSUME NEW v \in Videos, Lone(v)' PROVE RowSound(v)'
        <3>1. Lone(v) /\ RowSound(v)
            BY <2>2, <2>3 DEF LonesSound, Lone
        <3>2. CASE v # u \/ file' = file
            BY <2>1, <3>1, <3>2, RowUntouched
        <3>3. CASE v = u /\ worker[w].pc = "writing"
            <4>1. ~ Published(v)
                BY <2>1, <3>1, <3>3 DEF LonesSound, WorkSound
            <4> QED
                BY <2>1, <4>1 DEF RowSound, Published
        <3> QED
            BY <2>1, <3>2, <3>3
    <2>4. ASSUME NEW x \in Workers, Active(x)', Lone(Subject(x))' PROVE WorkSound(x)'
        <3>1. x # w
            BY <2>1, <2>4 DEF Active, Phases
        <3>2. Active(x) /\ worker'[x] = worker[x] /\ Subject(x)' = Subject(x)
            BY <2>1, <2>4, <3>1 DEF Active, Subject
        <3>3. Lone(Subject(x))
            BY <2>2, <2>4, <3>2 DEF Lone
        <3>4. Subject(x) # u
            BY <2>1, <3>1, <3>2, <3>3, LoneWorker
        <3>5. WorkSound(x)
            BY <3>2, <3>3 DEF LonesSound
        <3> QED
            BY <2>1, <3>2, <3>4, <3>5, WorkUntouched
    <2>5. \A v \in Videos : Published(v)' => video'[v].status # "none"
        BY <2>1 DEF LonesSound, Published
    <2> QED
        BY <2>3, <2>4, <2>5 DEF LonesSound
<1> QED
    BY <1>1, <1>3, <1>4, <1>5

\* A step of a worker changes the row, the files and the objects of its own video
\* only.
LEMMA StepStaysAtHome ==
    ASSUME TypeOK, NEW w \in Workers, Step(w)
    PROVE  /\ Active(w) /\ local' = local
           /\ \A v \in Videos : v # Subject(w) => video'[v] = video[v]
           /\ \A v, r : v # Subject(w) /\ <<v, r>> \in file => <<v, r>> \in file'
           /\ \A v, r : v # Subject(w) /\ <<v, r>> \in stored => <<v, r>> \in stored'
<1>1. Active(w)
    BY DEF Step, SourceMissing, Begin, Mkdir, MkdirFails, Encode, Encoded, EncodeFails, AllEncoded,
           NothingEncoded, Collect, Put, PutFails, UpdatePlayURLs, Finish, At, Active, Phases
<1>2. Subject(w) \in Videos
    BY <1>1, ActiveWorker
<1>3. local' = local
    BY DEF Step, SourceMissing, Begin, Mkdir, MkdirFails, Encode, Encoded, EncodeFails, AllEncoded,
           NothingEncoded, Collect, Put, PutFails, UpdatePlayURLs, Finish
<1>4. \A v \in Videos : v # Subject(w) => video'[v] = video[v]
    <2>1. CASE UNCHANGED video
        BY <2>1
    <2>2. CASE UpdatePlayURLs(w)
        BY <1>2, <2>2, URLsWritten
    <2>3. ASSUME NEW s, UpdateStatus(Subject(w), s)
          PROVE  \A v \in Videos : v # Subject(w) => video'[v] = video[v]
        BY <1>2, <2>3, StatusWritten
    <2> QED
        BY <2>1, <2>2, <2>3 DEF Step, SourceMissing, Begin, Mkdir, MkdirFails, Encode, Encoded,
            EncodeFails, NothingEncoded, Collect, Put, PutFails, Finish
<1>5. \A v, r : v # Subject(w) /\ <<v, r>> \in file => <<v, r>> \in file'
    BY DEF Step, SourceMissing, Begin, Mkdir, MkdirFails, Encode, Encoded, EncodeFails, AllEncoded,
           NothingEncoded, Collect, Put, PutFails, UpdatePlayURLs, Finish
<1>6. \A v, r : v # Subject(w) /\ <<v, r>> \in stored => <<v, r>> \in stored'
    BY DEF Step, SourceMissing, Begin, Mkdir, MkdirFails, Encode, Encoded, EncodeFails, AllEncoded,
           NothingEncoded, Collect, Put, PutFails, UpdatePlayURLs, Finish
<1> QED
    BY <1>1, <1>3, <1>4, <1>5, <1>6

\* A step within a sound attempt leaves a sound attempt, and a sound row.
LEMMA GoesOnKeepsSound ==
    ASSUME TypeOK, OneHandEach, LonesSound, NEW w \in Workers, GoesOn(w),
           NEW u, u = Subject(w), Lone(u)
    PROVE  WorkSound(w)' /\ RowSound(u)'
<1> DEFINE b == worker[w]
<1>0. /\ Active(w) /\ b.pc # "ready" /\ b \in Busy /\ u \in Videos /\ b.t \in Tasks
      /\ VideoOf[b.t] = u /\ delivery[b.t] = "trying"
      /\ delivery' = delivery /\ local' = local /\ Subject(w)' = u
      /\ worker \in [Workers -> {Idle, [pc |-> "dead"]} \cup Busy]
    BY GoesOnKeepsTask, ActiveWorker DEF TypeOK, OneHandEach, Subject
<1>1. WorkSound(w) /\ ~ Published(u)
    BY <1>0 DEF LonesSound, WorkSound
<1>2. ASSUME ~ UpdatePlayURLs(w)
      PROVE  ~ Published(u)' /\ RowSound(u)'
    <2>1. video'[u].playURL = video[u].playURL /\ video'[u].playURLs = video[u].playURLs
        <3>1. CASE Begin(w)
            BY <1>0, <3>1, StatusWritten DEF Begin
        <3>2. CASE ~ Begin(w)
            BY <1>2, <3>2 DEF GoesOn, Mkdir, Encode, Encoded, EncodeFails, Collect, Put
        <3> QED
            BY <3>1, <3>2
    <2> QED
        BY <1>1, <2>1 DEF RowSound, Published
<1>3. /\ \A r \in b.ok : <<u, r>> \in file /\ r < b.next
      /\ ~ local /\ b.pc = "put" => \A r \in b.ok : r \in b.put \/ <<u, r>> \in stored
      /\ ~ local /\ b.pc = "urls" => \A r \in b.ok : <<u, r>> \in stored
    BY <1>1 DEF WorkSound
<1>4. b.ok \in SUBSET Heights /\ b.next \in 1 .. Resolutions + 1 /\ \A r \in Heights : r \in Int
    BY <1>0, TranscodeAssumption DEF Busy, Heights
<1>5. ASSUME NEW pc \in Phases, GoOn(w, pc)
      PROVE  worker'[w].pc = pc /\ worker'[w].ok = b.ok /\ worker'[w].next = b.next
    BY <1>0, <1>5 DEF GoOn, Busy
<1>6. CASE Begin(w)
    <2>1. worker'[w].pc = "mkdir" /\ worker'[w].ok = b.ok /\ worker'[w].next = b.next /\ file' = file
        BY <1>5, <1>6 DEF Begin, Phases
    <2> QED
        BY <1>0, <1>2, <1>3, <1>6, <2>1 DEF WorkSound, Begin, UpdatePlayURLs, At
<1>7. CASE Mkdir(w)
    <2>1. worker'[w].pc = "encode" /\ worker'[w].ok = b.ok /\ worker'[w].next = b.next /\ file' = file
        BY <1>5, <1>7 DEF Mkdir, Phases
    <2> QED
        BY <1>0, <1>2, <1>3, <1>7, <2>1 DEF WorkSound, Mkdir, UpdatePlayURLs, At
<1>8. CASE Encode(w)
    <2>1. /\ worker'[w].pc = "writing" /\ worker'[w].ok = b.ok /\ worker'[w].next = b.next
          /\ file' = file \ {<<u, b.next>>}
        BY <1>5, <1>8 DEF Encode, Phases
    <2>2. \A r \in b.ok : <<u, r>> \in file'
        BY <1>3, <1>4, <2>1
    <2> QED
        BY <1>0, <1>2, <1>3, <1>8, <2>1, <2>2 DEF WorkSound, Encode, UpdatePlayURLs, At
<1>9. CASE Encoded(w)
    <2>1. /\ worker'[w].pc = "encode" /\ worker'[w].ok = b.ok \cup {b.next}
          /\ worker'[w].next = b.next + 1
          /\ file' = file \cup {<<u, b.next>>}
        BY <1>0, <1>9 DEF Encoded, Busy
    <2>2. \A r \in b.ok \cup {b.next} : <<u, r>> \in file' /\ r < b.next + 1
        BY <1>3, <1>4, <2>1
    <2> QED
        BY <1>0, <1>2, <1>9, <2>1, <2>2 DEF WorkSound, Encoded, UpdatePlayURLs, At
<1>10. CASE EncodeFails(w)
    <2>1. /\ worker'[w].pc = "encode" /\ worker'[w].ok = b.ok /\ worker'[w].next = b.next + 1
          /\ file' = file \ {<<u, b.next>>}
        BY <1>0, <1>10 DEF EncodeFails, Busy
    <2>2. \A r \in b.ok : <<u, r>> \in file' /\ r < b.next + 1
        BY <1>3, <1>4, <2>1
    <2> QED
        BY <1>0, <1>2, <1>10, <2>1, <2>2 DEF WorkSound, EncodeFails, UpdatePlayURLs, At
<1>11. CASE Collect(w)
    <2>1. /\ worker'[w].ok = b.ok /\ worker'[w].next = b.next /\ file' = file
          /\ local => worker'[w].pc = "urls"
          /\ ~ local => worker'[w].pc = "put" /\ b.ok \subseteq worker'[w].put
        BY <1>0, <1>11 DEF Collect, GoOn, Busy
    <2> QED
        BY <1>0, <1>2, <1>3, <1>11, <2>1 DEF WorkSound, Collect, AllEncoded, UpdatePlayURLs, At
<1>12. ASSUME NEW x \in Heights \cup {Cover}, Put(w, x) PROVE WorkSound(w)' /\ RowSound(u)'
    <2>1. /\ worker'[w].ok = b.ok /\ worker'[w].next = b.next /\ file' = file
          /\ worker'[w].put = b.put \ {x} /\ b.pc = "put"
          /\ worker'[w].pc = IF b.put = {x} THEN "urls" ELSE "put"
        BY <1>0, <1>12 DEF Put, Busy, At
    <2>2. Writers(u, x) = {}
        <3>1. \A y \in Workers : Active(y) /\ Subject(y) = u => y = w
            BY <1>0, LoneWorker
        <3> QED
            BY <2>1, <3>1 DEF Writers, At, Active, Phases
    <2>3. x \in b.ok => stored' = stored \cup {<<u, x>>}
        BY <1>3, <1>12, <2>2 DEF Put, OnDisk
    <2>4. x \notin b.ok => \A r \in b.ok : <<u, r>> \in stored => <<u, r>> \in stored'
        BY <1>12 DEF Put
    <2>5. ~ local => \A r \in b.ok : r \in b.put \ {x} \/ <<u, r>> \in stored'
        BY <1>3, <2>1, <2>3, <2>4
    <2> QED
        BY <1>0, <1>2, <1>3, <1>12, <2>1, <2>5 DEF WorkSound, Put, UpdatePlayURLs, At
<1>13. CASE UpdatePlayURLs(w)
    <2>1. /\ worker'[w].pc = "ready" /\ worker'[w].ok = b.ok /\ worker'[w].next = b.next
          /\ file' = file /\ stored' = stored /\ b.pc = "urls"
        BY <1>5, <1>13 DEF UpdatePlayURLs, Phases, At
    <2>2. WorkSound(w)'
        BY <1>0, <1>3, <2>1 DEF WorkSound
    <2>3. \A r \in b.ok : Whole(u, r)'
        BY <1>0, <1>3, <2>1 DEF Whole
    <2>4. CASE UNCHANGED video
        BY <1>1, <2>2, <2>4 DEF RowSound, Published
    <2>5. ASSUME NEW r \in b.ok, video' = [video EXCEPT ![u].playURL = r, ![u].playURLs = b.ok]
          PROVE  RowSound(u)'
        <3>1. video'[u].playURL = r /\ video'[u].playURLs = b.ok
            BY <1>0, <2>5 DEF TypeOK
        <3>2. \A t \in Copies(u) : t = b.t
            BY <1>0 DEF Lone, Copies
        <3> QED
            BY <1>0, <2>3, <3>1, <3>2 DEF RowSound, Copies
    <2> QED
        BY <1>13, <2>2, <2>4, <2>5 DEF UpdatePlayURLs
<1> QED
    BY <1>6, <1>7, <1>8, <1>9, <1>10, <1>11, <1>12, <1>13 DEF GoesOn

\* An attempt that ends well was the one that published; one that ends in an error
\* has published nothing.
LEMMA EndingKeepsSound ==
    ASSUME TypeOK, OneHandEach, LonesSound, NEW w \in Workers, GivesUp(w) \/ Finish(w),
           NEW u, u = Subject(w), Lone(u)
    PROVE  RowSound(u)'
<1>1. CASE GivesUp(w)
    <2>1. Active(w) /\ worker[w].pc # "ready" /\ u \in Videos
        BY <1>1, GivesUpReturns, ActiveWorker
    <2>2. ~ Published(u)
        BY <2>1 DEF LonesSound, WorkSound
    <2>3. video'[u].playURL = video[u].playURL /\ video'[u].playURLs = video[u].playURLs
        BY <1>1, <2>1, StatusWritten DEF GivesUp, SourceMissing, MkdirFails, NothingEncoded, PutFails
    <2> QED
        BY <2>2, <2>3 DEF RowSound, Published
<1>2. CASE Finish(w)
    <2>1. Active(w) /\ u \in Videos /\ worker[w].t \in Tasks
        BY <1>2, ActiveWorker DEF Finish, At, Active, Phases
    <2>2. /\ delivery' = [delivery EXCEPT ![worker[w].t] = "done"]
          /\ file' = file /\ stored' = stored /\ local' = local
        BY <1>2 DEF Finish, Queue!Succeed, Queue!Move, Tasked
    <2>3. video'[u].playURL = video[u].playURL /\ video'[u].playURLs = video[u].playURLs
        BY <1>2, <2>1, StatusWritten DEF Finish
    <2>4. \A t \in Tasks : delivery'[t] = delivery[t] \/ delivery'[t] = "done"
        BY <2>2 DEF TypeOK
    <2>5. RowSound(u) /\ delivery[worker[w].t] = "trying"
        BY <2>1 DEF LonesSound, OneHandEach
    <2>6. \A t \in Tasks : delivery'[t] # "unsent" => delivery[t] # "unsent"
        BY <2>1, <2>2, <2>5 DEF TypeOK
    <2> QED
        BY <2>2, <2>3, <2>4, <2>5, <2>6 DEF RowSound, Published, Whole, Copies
<1> QED
    BY <1>1, <1>2

LEMMA WorkKeepsSound ==
    ASSUME TypeOK, OneHandEach, LonesSound, NEW w \in Workers, Step(w)
    PROVE  LonesSound'
<1> DEFINE t == worker[w].t
<1> PICK u : u = Subject(w)
    OBVIOUS
<1>0. Active(w) /\ t \in Tasks /\ u \in Videos /\ VideoOf[t] = u /\ delivery[t] = "trying"
    BY StepStaysAtHome, ActiveWorker DEF OneHandEach, Subject
<1>1. /\ \A x \in Workers \ {w} : worker'[x] = worker[x]
      /\ \A y \in Tasks : delivery'[y] # delivery[y] => y = t /\ delivery'[y] # "unsent"
    <2>1. CASE GoesOn(w)
        BY <2>1, GoesOnKeepsTask
    <2>2. CASE GivesUp(w)
        BY <2>2, GivesUpReturns DEF TypeOK
    <2>3. CASE Finish(w)
        BY <2>3 DEF Finish, Queue!Succeed, Queue!Move, Tasked, TypeOK
    <2> QED
        BY <2>1, <2>2, <2>3, StepSplit
<1>2. \A v : Copies(v)' = Copies(v)
    BY <1>0, <1>1 DEF Copies
<1>3. Lone(u) => RowSound(u)'
    BY GoesOnKeepsSound, EndingKeepsSound, StepSplit
<1>4. Lone(u) /\ Active(w)' => WorkSound(w)'
    <2>1. GivesUp(w) \/ Finish(w) => worker'[w] = Idle
        BY GivesUpReturns DEF Finish, TypeOK
    <2>2. ~ (Idle.pc \in Phases)
        BY DEF Idle, Phases
    <2> QED
        BY <2>1, <2>2, GoesOnKeepsSound, StepSplit DEF Active
<1>5. ASSUME NEW v \in Videos, Lone(v)' PROVE RowSound(v)'
    <2>1. Lone(v) /\ RowSound(v)
        BY <1>2, <1>5 DEF LonesSound, Lone
    <2>2. CASE v # u
        <3>1. \A y \in Tasks : VideoOf[y] = v => delivery'[y] = delivery[y]
            BY <1>0, <1>1, <2>2
        <3> QED
            BY <2>1, <2>2, <3>1, RowUntouched, StepStaysAtHome
    <2> QED
        BY <1>3, <2>1, <2>2
<1>6. ASSUME NEW x \in Workers, Active(x)', Lone(Subject(x))' PROVE WorkSound(x)'
    <2>1. CASE x = w
        <3>1. Subject(w)' = u
            BY <1>6, <2>1, GoesOnKeepsTask, GivesUpReturns, StepSplit
               DEF Subject, Finish, Active, Phases, Idle, TypeOK
        <3>2. Lone(u)
            BY <1>2, <1>6, <2>1, <3>1 DEF Lone
        <3> QED
            BY <1>4, <1>6, <2>1, <3>2
    <2>2. CASE x # w
        <3>1. Active(x) /\ worker'[x] = worker[x] /\ Subject(x)' = Subject(x)
            BY <1>1, <1>6, <2>2 DEF Active, Subject
        <3>2. Lone(Subject(x)) /\ Subject(x) \in Videos
            BY <1>2, <1>6, <3>1, ActiveWorker DEF Lone
        <3>3. Subject(x) # u
            BY <1>0, <2>2, <3>1, <3>2, LoneWorker
        <3>4. WorkSound(x)
            BY <3>1, <3>2 DEF LonesSound
        <3> QED
            BY <3>1, <3>2, <3>3, <3>4, WorkUntouched, StepStaysAtHome
    <2> QED
        BY <2>1, <2>2
<1>7. ASSUME NEW v \in Videos, Published(v)' PROVE video'[v].status # "none"
    <2>1. CASE v = u
        BY <1>0, <2>1, StepKeepsUploaded DEF OneHandEach
    <2>2. CASE v # u
        BY <1>7, <2>2, StepStaysAtHome DEF LonesSound, Published
    <2> QED
        BY <2>1, <2>2
<1> QED
    BY <1>5, <1>6, <1>7 DEF LonesSound

LEMMA StepKeepsSound == TypeOK /\ OneHandEach /\ LonesSound /\ [Next]_vars => LonesSound'
<1> SUFFICES ASSUME TypeOK, OneHandEach, LonesSound, [Next]_vars PROVE LonesSound'
    OBVIOUS
<1>1. CASE UNCHANGED vars
    BY <1>1 DEF vars, queueVars, LonesSound, Lone, Copies, RowSound, WorkSound, Published, Whole,
                Active, Subject
<1> QED
    BY <1>1, QueueKeepsSound, WorkKeepsSound DEF Next

\* However many workers, resolutions, failures, crashes and retries there are, a URL
\* in a row of a video whose task is in the queue once names a whole file or
\* object (worker.go:70-116).
THEOREM PublishedPlays == Spec => []PublishedURLsPlay
<1>1. Init => OneHandEach /\ LonesSound
    BY TranscodeAssumption DEF Init, Queue!Init, OneHandEach, LonesSound, RowSound, WorkSound,
                               Published, Active, Phases, Idle, NoVideo
<1>2. Spec => []TypeOK
    BY TypeCorrect
<1> QED
    BY <1>1, <1>2, StepKeepsHands, StepKeepsSound, SoundPlays, PTL DEF Spec
=============================================================================

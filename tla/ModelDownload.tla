---------------------------- MODULE ModelDownload ----------------------------
(***************************************************************************)
(* The download manager (src/src/models/download.rs) with the event        *)
(* streams of its API (src/src/api/model_download.rs): one worker per      *)
(* task, a semaphore, the directory of a model on disk, a watch channel    *)
(* per watched task, and a server that may crash and start again.          *)
(*                                                                         *)
(* Of a task the status counts: an update of its progress repeats the      *)
(* status Downloading.  A model is a directory, with or without all files. *)
(* The channel of a task is named after the stream that created it.        *)
(***************************************************************************)
EXTENDS Naturals, FiniteSets

CONSTANTS
  Tasks, Models, ModelOf,     \* ModelOf[t]: the model that task t downloads
  Streams,                    \* connections to get_download_events ...
  Followed,                   \* ... and the tasks they ask for
  MaxConcurrent,              \* max_concurrent_downloads
  None

ASSUME DownloadAssumption ==
  /\ ModelOf \in [Tasks -> Models] /\ IsFiniteSet(Tasks)
  /\ MaxConcurrent \in Nat \ {0}
  /\ None \notin Tasks /\ None \notin Streams
  /\ None \notin {"Pending", "Downloading", "Completed", "Failed", "partial", "complete",
                  "queued", "starting", "fetching", "listing", "failing", "done", "panicked"}

VARIABLES
  tasks,      \* the task map: status by id, None if there is no such task
  worker,     \* per task: where its worker is
  note,       \* per task: the update that is still to reach the channel
  permits,
  disk,       \* per model: None, "partial" or "complete"
  models,     \* the models that are listed
  removing,   \* models whose entry delete_model has removed, not yet the directory
  table,      \* task_channels: per task the channel that is registered
  value,      \* per task and channel: the task it was last sent
  stream      \* per stream: where it is, the task, channel, unseen change, last event

taskVars   == <<tasks, worker, note, permits>>
diskVars   == <<disk, models, removing>>
streamVars == <<table, value, stream>>
vars == <<taskVars, diskVars, streamVars>>

Terminal == {"Completed", "Failed"}

Connection(pc, t, c, last) ==
  [pc |-> pc, task |-> t, chan |-> c, fresh |-> FALSE, last |-> last]

NoStream == Connection("idle", None, None, None)

Nowhere == [t \in Tasks |-> None]
NoValue == [t \in Tasks |-> [c \in Streams |-> None]]

Init ==
  /\ tasks = Nowhere /\ worker = Nowhere /\ note = Nowhere
  /\ permits = MaxConcurrent
  /\ disk = [m \in Models |-> None] /\ models = {} /\ removing = {}
  /\ table = Nowhere /\ value = NoValue
  /\ stream = [s \in Streams |-> NoStream]

\* Planted defect: the cache directory is not scanned.
ScanCacheNot == models' = {}

\* initialize(): whatever directory is found is listed, complete or not.
ScanCache == models' = {m \in Models : disk[m] # None}

\* The process dies, and its clients lose their connections; it starts again.
Crash ==
  /\ tasks' = Nowhere /\ worker' = Nowhere /\ note' = Nowhere
  /\ permits' = MaxConcurrent
  /\ ScanCache /\ removing' = {}
  /\ table' = Nowhere /\ value' = NoValue
  /\ stream' = [s \in Streams |-> NoStream]
  /\ UNCHANGED disk

-----------------------------------------------------------------------------
\* An update of the task map; the channel is looked up in a step of its own.
Update(t, s) == tasks' = [tasks EXCEPT ![t] = s] /\ note' = [note EXCEPT ![t] = s]

\* A step of t's worker, whose previous update has reached the channel.
Go(t, from, to) ==
  /\ worker[t] = from /\ note[t] = None
  /\ worker' = [worker EXCEPT ![t] = to]

DownloadModel(t) ==
  /\ tasks[t] = None
  /\ tasks'  = [tasks  EXCEPT ![t] = "Pending"]
  /\ worker' = [worker EXCEPT ![t] = "queued"]
  /\ UNCHANGED <<note, permits, diskVars, streamVars>>

AcquirePermit(t) ==
  /\ Go(t, "queued", "starting")
  /\ permits > 0 /\ permits' = permits - 1
  /\ Update(t, "Downloading")
  /\ UNCHANGED <<diskVars, streamVars>>

CreateDir(t) ==
  /\ Go(t, "starting", "fetching")
  /\ disk' = [disk EXCEPT ![ModelOf[t]] = IF @ = None THEN "partial" ELSE @]
  /\ UNCHANGED <<tasks, note, permits, models, removing, streamVars>>

\* Planted defect: the progress is written with the copy of the task that was taken
\* before it started.
ChunkOfCopy(t) ==
  /\ Go(t, "fetching", "fetching")
  /\ Update(t, "Pending")
  /\ UNCHANGED <<permits, diskVars, streamVars>>

\* A file is created, which truncates an older one, or a chunk is written; what
\* is written into a deleted directory is lost.
Chunk(t) ==
  /\ Go(t, "fetching", "fetching")
  /\ Update(t, "Downloading")
  /\ disk' = [disk EXCEPT ![ModelOf[t]] = IF @ = None THEN @ ELSE "partial"]
  /\ UNCHANGED <<permits, models, removing, streamVars>>

\* The source has been downloaded: a file that was answered with an error status
\* has been skipped.
Fetched(t) ==
  /\ Go(t, "fetching", "listing")
  /\ Update(t, "Completed")
  /\ \E d \in {"partial", "complete"} :
       disk' = [disk EXCEPT ![ModelOf[t]] = IF @ = None THEN @ ELSE d]
  /\ UNCHANGED <<permits, models, removing, streamVars>>

\* calculate_dir_size, which fails where there is no directory, and the listing.
ListModel(t) ==
  /\ Go(t, "listing", "done")
  /\ disk[ModelOf[t]] # None
  /\ models' = models \cup {ModelOf[t]}
  /\ permits' = permits + 1
  /\ UNCHANGED <<tasks, note, disk, removing, streamVars>>

\* Planted defect: the subscribers hear of the failure before the map does.
AbortNotifies(t) ==
  /\ \E pc \in {"starting", "fetching", "listing"} : Go(t, pc, "failing")
  /\ note' = [note EXCEPT ![t] = "Failed"]
  /\ permits' = permits + 1
  /\ UNCHANGED <<tasks, diskVars, streamVars>>

\* An error of a file, a request or a source returns from execute_download, and
\* with it the permit, ...
Abort(t) ==
  /\ \E pc \in {"starting", "fetching", "listing"} : Go(t, pc, "failing")
  /\ permits' = permits + 1
  /\ UNCHANGED <<tasks, note, diskVars, streamVars>>

\* ... and update_task_error records it.
TaskError(t) ==
  /\ Go(t, "failing", "done")
  /\ Update(t, "Failed")
  /\ UNCHANGED <<permits, diskVars, streamVars>>

\* Planted defect: the permit of a worker that panics is lost.
PanicKeepsPermit(t) ==
  /\ Go(t, "fetching", "panicked")
  /\ UNCHANGED <<tasks, note, permits, diskVars, streamVars>>

\* spawn_logged: a panic unwinds the worker and is logged; the task keeps its
\* status.
Panic(t) ==
  /\ Go(t, "fetching", "panicked")
  /\ permits' = permits + 1
  /\ UNCHANGED <<tasks, note, diskVars, streamVars>>

-----------------------------------------------------------------------------
DeleteEntry(m) ==
  /\ m \in models
  /\ models' = models \ {m}
  /\ removing' = removing \cup {m}
  /\ UNCHANGED <<taskVars, disk, streamVars>>

\* remove_dir_all, which may fail half-way.
RemoveDir(m) ==
  /\ m \in removing
  /\ \E d \in {None, "partial"} : disk' = [disk EXCEPT ![m] = IF @ = None THEN None ELSE d]
  /\ removing' = removing \ {m}
  /\ UNCHANGED <<taskVars, models, streamVars>>

-----------------------------------------------------------------------------
Attached(t, c) == {s \in Streams : /\ stream[s].pc \in {"created", "sending", "waiting"}
                                   /\ stream[s].task = t /\ stream[s].chan = c}

\* notify_task_subscribers: a watch channel without a receiver refuses the value.
Notify(t) ==
  LET heard == Attached(t, table[t]) IN
  /\ note[t] # None
  /\ note' = [note EXCEPT ![t] = None]
  /\ value' = IF heard = {} THEN value ELSE [value EXCEPT ![t][table[t]] = note[t]]
  /\ stream' = [s \in Streams |-> IF s \in heard THEN [stream[s] EXCEPT !.fresh = TRUE]
                                  ELSE stream[s]]
  /\ UNCHANGED <<tasks, worker, permits, diskVars, table>>

\* subscribe_task, for a first stream of this connection or the next one: look
\* the channel up, ...
Lookup(s, t) ==
  /\ t \in Followed
  /\ stream[s].pc \in {"idle", "ended"} /\ tasks[t] # None
  /\ stream' = [stream EXCEPT ![s] =
       Connection(IF table[t] = None THEN "missed" ELSE "sending", t, table[t], None)]
  /\ UNCHANGED <<taskVars, diskVars, table, value>>

\* ... else create one with a copy of the task ...
CreateChannel(s) ==
  LET t == stream[s].task IN
  /\ stream[s].pc = "missed"
  /\ value' = [value EXCEPT ![t][s] = tasks[t]]
  /\ stream' = [stream EXCEPT ![s].pc = "created", ![s].chan = s]
  /\ UNCHANGED <<taskVars, diskVars, table>>

\* ... and insert it; the sender of a channel that is replaced is dropped.
InsertChannel(s) ==
  /\ stream[s].pc = "created"
  /\ table' = [table EXCEPT ![stream[s].task] = s]
  /\ stream' = [stream EXCEPT ![s].pc = "sending"]
  /\ UNCHANGED <<taskVars, diskVars, value>>

Ended(s, event) == Connection("ended", stream[s].task, None, event)

\* The writer's loop: send what the channel has; end if it is terminal, or if
\* the client has gone, which only sending reveals.
Send(s) ==
  LET event == value[stream[s].task][stream[s].chan] IN
  /\ stream[s].pc = "sending"
  /\ \/ stream' = [stream EXCEPT ![s] = Ended(s, stream[s].last)]
     \/ stream' = [stream EXCEPT ![s] = IF event \in Terminal THEN Ended(s, event)
                                        ELSE [@ EXCEPT !.pc = "waiting", !.last = event]]
  /\ UNCHANGED <<taskVars, diskVars, table, value>>

Changed(s) ==
  /\ stream[s].pc = "waiting" /\ stream[s].fresh
  /\ stream' = [stream EXCEPT ![s].pc = "sending", ![s].fresh = FALSE]
  /\ UNCHANGED <<taskVars, diskVars, table, value>>

SenderDropped(s) ==
  /\ stream[s].pc = "waiting" /\ ~stream[s].fresh
  /\ table[stream[s].task] # stream[s].chan
  /\ stream' = [stream EXCEPT ![s] = Ended(s, @.last)]
  /\ UNCHANGED <<taskVars, diskVars, table, value>>

-----------------------------------------------------------------------------
Worker(t) == \/ CreateDir(t) \/ Chunk(t) \/ Fetched(t) \/ ListModel(t)
             \/ Abort(t) \/ TaskError(t) \/ Panic(t)

Subscribe(s) == CreateChannel(s) \/ InsertChannel(s)
Writer(s)    == Send(s) \/ Changed(s) \/ SenderDropped(s)

Next == \/ \E t \in Tasks : DownloadModel(t) \/ AcquirePermit(t) \/ Worker(t) \/ Notify(t)
        \/ \E m \in Models : DeleteEntry(m) \/ RemoveDir(m)
        \/ \E s \in Streams : \/ \E t \in Tasks : Lookup(s, t)
                              \/ Subscribe(s) \/ Writer(s)
        \/ Crash

Spec == Init /\ [][Next]_vars

\* Workers and stream writers run when they can; a download ends, because a
\* request has a time limit.
FairSpec ==
  /\ Spec
  /\ \A t \in Tasks : /\ WF_vars(AcquirePermit(t)) /\ WF_vars(Worker(t) \/ Notify(t))
                      /\ SF_vars(Fetched(t) \/ Abort(t) \/ Panic(t))
  /\ \A s \in Streams : WF_vars(Subscribe(s) \/ Writer(s))

-----------------------------------------------------------------------------
Statuses == {"Pending", "Downloading"} \cup Terminal
Holders  == {t \in Tasks : worker[t] \in {"starting", "fetching", "listing"}}

Connections ==
  [pc : {"idle", "missed", "created", "sending", "waiting", "ended"},
   task : Tasks \cup {None}, chan : Streams \cup {None},
   fresh : BOOLEAN, last : Statuses \cup {None}]

Typed ==
  /\ tasks \in [Tasks -> Statuses \cup {None}]
  /\ worker \in [Tasks -> {None, "queued", "starting", "fetching", "listing",
                           "failing", "done", "panicked"}]
  /\ note \in [Tasks -> Statuses \cup {None}]
  /\ disk \in [Models -> {None, "partial", "complete"}]
  /\ models \subseteq Models /\ removing \subseteq Models
  /\ table \in [Tasks -> Streams \cup {None}]
  /\ value \in [Tasks -> [Streams -> Statuses \cup {None}]]
  /\ stream \in [Streams -> Connections]

\* The types, and that a permit is held by each running download and by nothing
\* else, whichever way downloads end (248-296).
TypeOK == Typed /\ permits \in Nat /\ permits + Cardinality(Holders) = MaxConcurrent

\* A client is told that a download is over only if it is, although the task map
\* and the channel are written one after the other and the channel may be an old
\* one (528-580, 587-598).
NoFalseEnd ==
  \A s \in Streams :
    LET t == stream[s].task IN
    /\ stream[s].last = "Completed" => tasks[t] \in Terminal
    /\ stream[s].last = "Failed" => tasks[t] = "Failed"

Rank(s) == CASE s = None -> 0 [] s = "Pending" -> 1 [] s = "Downloading" -> 2 [] OTHER -> 3

\* The events of one stream never go back, whatever it subscribed to (135-163 of
\* api/model_download.rs).
EventsInOrder ==
  [][\A s \in Streams : stream'[s].last \notin {None, stream[s].last}
       => Rank(stream[s].last) < Rank(stream'[s].last)]_vars

\* When nothing works on a model whose files are all there, it is listed, unless
\* one of its tasks has failed; a restart lists it in any case (153-198, 278-293,
\* 612-624).
Busy(m) == \/ m \in removing
           \/ \E t \in Tasks : ModelOf[t] = m /\ worker[t] \in {"starting", "fetching", "listing", "failing"}

CompleteIsListed ==
  \A m \in Models : disk[m] = "complete" /\ ~Busy(m) =>
    \/ m \in models
    \/ \E t \in Tasks : ModelOf[t] = m /\ (tasks[t] = "Failed" \/ worker[t] = "panicked")

\* Claim of get_download_events' doc (api/model_download.rs:119-122): the stream
\* closes once the task has reached a terminal status.
StreamCloses ==
  \A s \in Streams, t \in Tasks :
    (stream[s].task = t /\ tasks[t] \in Terminal) ~> (stream[s].pc \in {"idle", "ended"})

-----------------------------------------------------------------------------
\* What the order of the events rests on: a task only goes on, ...
NotAfter(a, b) ==
  \/ a = None \/ a = b
  \/ a = "Pending" /\ b \in {"Downloading"} \cup Terminal
  \/ a = "Downloading" /\ b \in Terminal
  \/ a = "Completed" /\ b = "Failed"

\* ... with the worker that carries it, ...
Carried(t) ==
  /\ (tasks[t] = None) = (worker[t] = None)
  /\ worker[t] = "queued" => tasks[t] = "Pending"
  /\ worker[t] \in {"starting", "fetching", "panicked"} => tasks[t] = "Downloading"
  /\ worker[t] = "listing" => tasks[t] = "Completed"
  /\ worker[t] = "failing" => tasks[t] \in {"Downloading", "Completed"}
  /\ worker[t] = "done" => tasks[t] \in Terminal

\* ... its channels are sent nothing that is not so, ...
Told(t) ==
  /\ note[t] \in {None, tasks[t]}
  /\ \A c \in Streams : NotAfter(value[t][c], tasks[t])

\* ... and a stream passes on what its channel has, up to an end.
Heard(s) ==
  LET t == stream[s].task IN
  /\ stream[s].pc \in {"idle", "missed"} => stream[s].last = None
  /\ stream[s].pc # "idle" => t \in Tasks /\ NotAfter(stream[s].last, tasks[t])
  /\ stream[s].pc \in {"created", "sending", "waiting"} =>
       /\ stream[s].chan \in Streams
       /\ stream[s].last \notin Terminal
       /\ NotAfter(stream[s].last, value[t][stream[s].chan])

DownloadIInv == /\ TypeOK /\ CompleteIsListed
                /\ \A t \in Tasks : Carried(t) /\ Told(t)
                /\ \A s \in Streams : Heard(s)
=============================================================================

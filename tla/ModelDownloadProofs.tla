--------------------------- MODULE ModelDownloadProofs ---------------------------
(***************************************************************************)
(* Proofs about ModelDownload, for any number of tasks, models, streams    *)
(* and permits: permits are exact, no stream tells of an end that is not   *)
(* so or goes back, and complete files that nothing works on are listed.   *)
(***************************************************************************)
EXTENDS ModelDownload, FiniteLemmas

-----------------------------------------------------------------------------
\* The order of the statuses.
LEMMA NotAfterTrans ==
  ASSUME NEW a, NEW b, NEW c, NotAfter(a, b), NotAfter(b, c)
  PROVE  NotAfter(a, c)
BY DownloadAssumption DEF NotAfter, Terminal

LEMMA NotAfterEnds ==
  ASSUME NEW a, NEW b, NotAfter(a, b)
  PROVE  /\ a = "Completed" => b \in Terminal
         /\ a = "Failed" => b = "Failed"
BY DownloadAssumption DEF NotAfter, Terminal

\* Rank as NotAfter orders it, below an end.
LEMMA NotAfterRank ==
  ASSUME NEW a, NEW b \in Statuses \cup {None}, NotAfter(a, b), a # b, a \notin Terminal
  PROVE  Rank(a) < Rank(b)
<1>1. None \notin {"Pending", "Downloading", "Completed", "Failed"}
  BY DownloadAssumption
<1>2. CASE a = None
  <2>1. Rank(a) = 0
    BY <1>1, <1>2 DEF Rank
  <2>2. Rank(b) \in {1, 2, 3}
    BY <1>1, <1>2 DEF Rank
  <2>3. QED
    BY <2>1, <2>2
<1>3. CASE a = "Pending"
  <2>1. Rank(a) = 1 /\ b \in {"Downloading", "Completed", "Failed"}
    BY <1>1, <1>3 DEF Rank, NotAfter, Terminal
  <2>2. Rank(b) \in {2, 3}
    BY <1>1, <2>1 DEF Rank
  <2>3. QED
    BY <2>1, <2>2
<1>4. CASE a = "Downloading"
  <2>1. Rank(a) = 2 /\ b \in {"Completed", "Failed"}
    BY <1>1, <1>4 DEF Rank, NotAfter, Terminal
  <2>2. Rank(b) = 3
    BY <1>1, <2>1 DEF Rank
  <2>3. QED
    BY <2>1, <2>2
<1>5. QED
  BY <1>2, <1>3, <1>4 DEF NotAfter, Terminal

-----------------------------------------------------------------------------
\* Every step keeps the types, action by action.
Places == {None, "queued", "starting", "fetching", "listing", "failing", "done", "panicked"}

LEMMA WorkerTyped ==
  ASSUME Typed, NEW t \in Tasks, DownloadModel(t) \/ AcquirePermit(t) \/ Worker(t)
  PROVE  Typed'
<1> USE DEF Typed, Statuses, Terminal
<1>1. ModelOf[t] \in Models
  BY DownloadAssumption
<1>2. CASE DownloadModel(t)
  BY <1>2 DEF DownloadModel, diskVars, streamVars
<1>3. CASE AcquirePermit(t)
  BY <1>3 DEF AcquirePermit, Go, Update, diskVars, streamVars
<1>4. CASE CreateDir(t)
  BY <1>1, <1>4 DEF CreateDir, Go, streamVars
<1>5. CASE Chunk(t)
  BY <1>1, <1>5 DEF Chunk, Go, Update, streamVars
<1>6. CASE Fetched(t)
  BY <1>1, <1>6 DEF Fetched, Go, Update, streamVars
<1>7. CASE ListModel(t)
  BY <1>1, <1>7 DEF ListModel, Go, streamVars
<1>8. CASE Abort(t) \/ Panic(t)
  BY <1>8 DEF Abort, Panic, Go, diskVars, streamVars
<1>9. CASE TaskError(t)
  BY <1>9 DEF TaskError, Go, Update, diskVars, streamVars
<1>10. QED
  BY <1>2, <1>3, <1>4, <1>5, <1>6, <1>7, <1>8, <1>9 DEF Worker

LEMMA DirTyped ==
  ASSUME Typed, NEW m \in Models, DeleteEntry(m) \/ RemoveDir(m)
  PROVE  Typed'
BY DEF Typed, DeleteEntry, RemoveDir, taskVars, streamVars

\* Only the connection s changes, and perhaps a channel.
OnlyAt(s) == /\ DOMAIN stream' = Streams /\ stream' = [x \in Streams |-> stream'[x]]
             /\ \A x \in Streams \ {s} : stream'[x] = stream[x]
             /\ UNCHANGED <<taskVars, diskVars>>

LEMMA ConnectionMoves ==
  ASSUME Typed, NEW s \in Streams, OnlyAt(s), stream'[s] \in Connections,
         table' \in [Tasks -> Streams \cup {None}],
         value' \in [Tasks -> [Streams -> Statuses \cup {None}]]
  PROVE  Typed'
<1>1. stream' \in [Streams -> Connections]
  BY DEF Typed, OnlyAt
<1>2. QED
  BY <1>1 DEF Typed, OnlyAt, taskVars, diskVars

\* The places of a writer that an EXCEPT may put in a connection.
LEMMA ConnectionAt ==
  ASSUME NEW k \in Connections, NEW pc \in {"created", "sending", "waiting"},
         NEW c \in Streams, NEW e \in Statuses \cup {None}
  PROVE  /\ [k EXCEPT !.pc = pc] \in Connections
         /\ [k EXCEPT !.pc = pc, !.chan = c] \in Connections
         /\ [k EXCEPT !.pc = pc, !.fresh = FALSE] \in Connections
         /\ [k EXCEPT !.pc = pc, !.last = e] \in Connections
<1>1. [k EXCEPT !.pc = pc] \in Connections
  BY DEF Connections
<1>2. [k EXCEPT !.pc = pc, !.chan = c] \in Connections
  BY DEF Connections
<1>3. [k EXCEPT !.pc = pc, !.fresh = FALSE] \in Connections
  BY DEF Connections
<1>4. [k EXCEPT !.pc = pc, !.last = e] \in Connections
  BY DEF Connections
<1>5. QED
  BY <1>1, <1>2, <1>3, <1>4

LEMMA StreamTyped ==
  ASSUME Typed, NEW s \in Streams, Heard(s),
         (\E t \in Tasks : Lookup(s, t)) \/ Subscribe(s) \/ Writer(s)
  PROVE  Typed'
<1> DEFINE k == stream[s]
<1>1. /\ k \in Connections /\ table \in [Tasks -> Streams \cup {None}]
      /\ value \in [Tasks -> [Streams -> Statuses \cup {None}]] /\ tasks \in [Tasks -> Statuses \cup {None}]
      /\ DOMAIN stream = Streams
  BY DEF Typed
<1>2. k.task \in Tasks \cup {None} /\ k.last \in Statuses \cup {None}
  BY <1>1 DEF Connections
<1>3. ASSUME OnlyAt(s), stream'[s] \in Connections, table' = table, value' = value
      PROVE  Typed'
  BY <1>1, <1>3, ConnectionMoves
<1>4. ASSUME NEW t \in Tasks, Lookup(s, t)
      PROVE  Typed'
  <2>1. PICK pc \in {"missed", "sending"} : stream'[s] = Connection(pc, t, table[t], None)
    BY <1>1, <1>4 DEF Lookup
  <2>2. OnlyAt(s)
    BY <1>1, <1>4 DEF Lookup, OnlyAt
  <2>3. Connection(pc, t, table[t], None) \in Connections
    BY <1>1 DEF Connection, Connections
  <2>4. QED
    BY <1>3, <1>4, <2>1, <2>2, <2>3 DEF Lookup
<1>5. CASE CreateChannel(s)
  <2>1. k.task \in Tasks
    BY <1>5 DEF CreateChannel, Heard
  <2>2. value' \in [Tasks -> [Streams -> Statuses \cup {None}]] /\ table' = table
    <3>1. /\ value' = [value EXCEPT ![k.task][s] = tasks[k.task]] /\ table' = table
          /\ tasks[k.task] \in Statuses \cup {None}
      BY <1>1, <1>5, <2>1 DEF CreateChannel
    <3>2. QED
      BY <1>1, <2>1, <3>1
  <2>3. /\ stream' = [stream EXCEPT ![s].pc = "created", ![s].chan = s]
        /\ UNCHANGED <<taskVars, diskVars>>
    BY <1>5 DEF CreateChannel
  <2>4. stream'[s] \in Connections /\ OnlyAt(s)
    <3>1. stream'[s] = [k EXCEPT !.pc = "created", !.chan = s]
      BY <1>1, <2>3
    <3>2. [k EXCEPT !.pc = "created", !.chan = s] \in Connections
      BY <1>1, <1>2, ConnectionAt
    <3>3. OnlyAt(s)
      BY <1>1, <2>3 DEF OnlyAt
    <3>4. QED
      BY <3>1, <3>2, <3>3
  <2>5. QED
    BY <1>1, <2>2, <2>3, <2>4, ConnectionMoves
<1>6. CASE InsertChannel(s)
  <2>1. table' \in [Tasks -> Streams \cup {None}] /\ value' = value
    BY <1>1, <1>6 DEF InsertChannel
  <2>2. stream'[s] = [k EXCEPT !.pc = "sending"] /\ OnlyAt(s)
    BY <1>1, <1>6 DEF InsertChannel, OnlyAt
  <2>3. stream'[s] \in Connections
    BY <1>1, <1>2, <2>2, ConnectionAt
  <2>4. QED
    BY <1>1, <2>1, <2>2, <2>3, ConnectionMoves
<1>7. \A e \in Statuses \cup {None} : Ended(s, e) \in Connections
  BY <1>2 DEF Ended, Connection, Connections
<1>8. CASE Send(s)
  <2> DEFINE event == value[k.task][k.chan]
  <2>1. k.task \in Tasks /\ k.chan \in Streams
    BY <1>8 DEF Send, Heard
  <2>2. event \in Statuses \cup {None}
    BY <1>1, <2>1
  <2>3. /\ \/ stream'[s] = Ended(s, k.last) \/ stream'[s] = Ended(s, event)
           \/ stream'[s] = [k EXCEPT !.pc = "waiting", !.last = event]
        /\ OnlyAt(s)
    BY <1>1, <1>8 DEF Send, OnlyAt
  <2>4. [k EXCEPT !.pc = "waiting", !.last = event] \in Connections
    BY <1>1, <2>2, ConnectionAt
  <2>5. stream'[s] \in Connections
    BY <1>2, <1>7, <2>2, <2>3, <2>4
  <2>6. QED
    BY <1>3, <1>8, <2>3, <2>5 DEF Send
<1>9. CASE Changed(s)
  <2>1. stream'[s] = [k EXCEPT !.pc = "sending", !.fresh = FALSE] /\ OnlyAt(s)
    BY <1>1, <1>9 DEF Changed, OnlyAt
  <2>2. stream'[s] \in Connections
    BY <1>1, <1>2, <2>1, ConnectionAt
  <2>3. QED
    BY <1>3, <1>9, <2>1, <2>2 DEF Changed
<1>10. CASE SenderDropped(s)
  <2>1. stream'[s] = Ended(s, k.last) /\ OnlyAt(s)
    BY <1>1, <1>10 DEF SenderDropped, OnlyAt
  <2>2. QED
    BY <1>2, <1>3, <1>7, <1>10, <2>1 DEF SenderDropped
<1>11. QED
  BY <1>4, <1>5, <1>6, <1>8, <1>9, <1>10 DEF Subscribe, Writer

LEMMA NotifyTyped ==
  ASSUME Typed, NEW t \in Tasks, Notify(t)
  PROVE  Typed'
<1>1. note[t] \in Statuses \cup {None} /\ note' = [note EXCEPT ![t] = None]
  BY DEF Typed, Notify
<1>2. note' \in [Tasks -> Statuses \cup {None}]
  BY <1>1 DEF Typed
<1>3. value' \in [Tasks -> [Streams -> Statuses \cup {None}]]
  BY <1>1 DEF Typed, Notify
<1>4. stream' \in [Streams -> Connections]
  <2>1. \A k \in Connections : [k EXCEPT !.fresh = TRUE] \in Connections
    BY DEF Connections
  <2>2. QED
    BY <2>1 DEF Typed, Notify
<1>5. QED
  BY <1>2, <1>3, <1>4 DEF Typed, Notify, diskVars

-----------------------------------------------------------------------------
\* What a worker's step makes of its task: the status goes on, and what is still
\* to be said of it is so.
Onward(t) ==
  /\ UNCHANGED streamVars
  /\ \A u \in Tasks \ {t} : tasks'[u] = tasks[u] /\ worker'[u] = worker[u] /\ note'[u] = note[u]
  /\ Carried(t)' /\ NotAfter(tasks[t], tasks'[t])
  /\ note'[t] \in {None, tasks'[t]}

LEMMA WorkerGoesOn ==
  ASSUME Typed, NEW t \in Tasks, Carried(t), Told(t),
         DownloadModel(t) \/ AcquirePermit(t) \/ Worker(t)
  PROVE  Onward(t)
<1> USE DownloadAssumption DEF Typed, Carried, NotAfter, Terminal, Onward
<1>1. CASE DownloadModel(t)
  BY <1>1 DEF DownloadModel, Told
<1>2. CASE AcquirePermit(t)
  BY <1>2 DEF AcquirePermit, Go, Update
<1>3. CASE CreateDir(t)
  BY <1>3 DEF CreateDir, Go
<1>4. CASE Chunk(t)
  BY <1>4 DEF Chunk, Go, Update
<1>5. CASE Fetched(t)
  BY <1>5 DEF Fetched, Go, Update
<1>6. CASE ListModel(t)
  BY <1>6 DEF ListModel, Go
<1>7. CASE Abort(t) \/ Panic(t)
  BY <1>7 DEF Abort, Panic, Go
<1>8. CASE TaskError(t)
  BY <1>8 DEF TaskError, Go, Update
<1>9. QED
  BY <1>1, <1>2, <1>3, <1>4, <1>5, <1>6, <1>7, <1>8 DEF Worker

Faithful == /\ \A t \in Tasks : Carried(t) /\ Told(t)
            /\ \A s \in Streams : Heard(s)

\* What was so of a task's past stays so when the task goes on.
LEMMA OnwardKeeps ==
  ASSUME Typed, Faithful, NEW t \in Tasks, Onward(t)
  PROVE  Faithful'
<1>1. \A u \in Tasks : \A a : NotAfter(a, tasks[u]) => NotAfter(a, tasks'[u])
  <2>1. \A u \in Tasks : NotAfter(tasks[u], tasks'[u])
    BY DEF Onward, NotAfter
  <2>2. QED
    BY <2>1, NotAfterTrans
<1>2. ASSUME NEW u \in Tasks PROVE Carried(u)' /\ Told(u)'
  <2>1. Carried(u)'
    BY DEF Onward, Faithful, Carried
  <2>2. Told(u)'
    BY <1>1 DEF Onward, streamVars, Faithful, Told
  <2>3. QED
    BY <2>1, <2>2
<1>3. ASSUME NEW s \in Streams PROVE Heard(s)'
  BY <1>1 DEF Onward, streamVars, Faithful, Heard
<1>4. QED
  BY <1>2, <1>3 DEF Faithful

\* A channel is told what is so, which is not before anything it was told earlier.
LEMMA NotifyKeeps ==
  ASSUME Typed, Faithful, NEW t \in Tasks, Notify(t)
  PROVE  Faithful'
<1>1. /\ tasks' = tasks /\ worker' = worker
      /\ note[t] = tasks[t] /\ note' = [note EXCEPT ![t] = None]
  BY DEF Notify, Faithful, Told
<1>2. \A u \in Tasks, c \in Streams : value'[u][c] \in {value[u][c], tasks[u]}
  BY <1>1 DEF Notify, Attached, Typed, Connections
<1>3. \A s \in Streams : /\ stream'[s].pc = stream[s].pc /\ stream'[s].task = stream[s].task
                         /\ stream'[s].chan = stream[s].chan /\ stream'[s].last = stream[s].last
  BY DEF Notify, Typed, Connections
<1>4. ASSUME NEW u \in Tasks PROVE Carried(u)' /\ Told(u)'
  <2>1. Carried(u)'
    BY <1>1 DEF Faithful, Carried
  <2>2. Told(u)'
    BY <1>1, <1>2 DEF Faithful, Told, NotAfter, Typed
  <2>3. QED
    BY <2>1, <2>2
<1>5. ASSUME NEW s \in Streams PROVE Heard(s)'
  <2>1. Heard(s)
    BY DEF Faithful
  <2>2. QED
    BY <1>1, <1>2, <1>3, <2>1 DEF Heard
<1>6. QED
  BY <1>4, <1>5 DEF Faithful

\* A stream takes what its channel was told, and nothing after an end.
LEMMA StreamKeeps ==
  ASSUME Typed, Faithful, NEW s \in Streams,
         (\E t \in Tasks : Lookup(s, t)) \/ Subscribe(s) \/ Writer(s)
  PROVE  /\ Faithful'
         /\ stream'[s].last \in {None, stream[s].last}
            \/ /\ stream[s].last \notin Terminal /\ NotAfter(stream[s].last, stream'[s].last)
               /\ stream'[s].last \in Statuses
         /\ \A u \in Streams \ {s} : stream'[u] = stream[u]
<1> DEFINE t == stream[s].task
           event == value[t][stream[s].chan]
<1>1. tasks' = tasks /\ worker' = worker /\ note' = note
  BY DEF Lookup, Subscribe, CreateChannel, InsertChannel, Writer, Send, Changed, SenderDropped, taskVars
<1>2. \A u \in Streams \ {s} : stream'[u] = stream[u]
  BY DEF Lookup, Subscribe, CreateChannel, InsertChannel, Writer, Send, Changed, SenderDropped, Typed
<1>3. stream[s] \in Connections /\ Heard(s)
  BY DEF Typed, Faithful
<1>4. \A u \in Tasks, c \in Streams : value'[u][c] \in {value[u][c], tasks[u]}
  BY DEF Lookup, Subscribe, CreateChannel, InsertChannel, Writer, Send, Changed, SenderDropped, Typed
<1>5. \A u \in Tasks : Carried(u)' /\ Told(u)'
  BY <1>1, <1>4 DEF Faithful, Carried, Told, NotAfter
<1>6. \A u \in Streams \ {s} : Heard(u)'
  BY <1>1, <1>2, <1>4 DEF Faithful, Heard, NotAfter
<1> DEFINE Goes == /\ Heard(s)'
                   /\ stream'[s].last \in {None, stream[s].last}
                      \/ /\ stream[s].last \notin Terminal
                         /\ NotAfter(stream[s].last, stream'[s].last)
                         /\ stream'[s].last \in Statuses
<1>7. Goes
  <2>1. CASE \E u \in Tasks : Lookup(s, u)
    <3>1. PICK u \in Tasks : Lookup(s, u)
      BY <2>1
    <3>2. /\ stream'[s] = Connection(IF table[u] = None THEN "missed" ELSE "sending", u, table[u], None)
          /\ table[u] \in Streams \cup {None}
      BY <3>1 DEF Lookup, Typed
    <3>3. QED
      BY <1>3, <3>2, DownloadAssumption DEF Heard, Connection, NotAfter, Terminal
  <2>2. CASE CreateChannel(s)
    <3>1. /\ stream'[s] = [stream[s] EXCEPT !.pc = "created", !.chan = s] /\ stream[s].pc = "missed"
      BY <2>2 DEF CreateChannel, Typed
    <3>2. QED
      BY <1>1, <1>3, <3>1, DownloadAssumption DEF Heard, Connections, NotAfter, Terminal
  <2>3. CASE InsertChannel(s)
    <3>1. stream'[s] = [stream[s] EXCEPT !.pc = "sending"] /\ stream[s].pc = "created"
          /\ value' = value
      BY <2>3 DEF InsertChannel, Typed
    <3>2. QED
      BY <1>1, <1>3, <3>1 DEF Heard, Connections
  <2>4. CASE Send(s)
    <3>1. /\ stream[s].pc = "sending" /\ value' = value
          /\ \/ stream'[s] = Connection("ended", t, None, stream[s].last)
             \/ event \in Terminal /\ stream'[s] = Connection("ended", t, None, event)
             \/ event \notin Terminal
                /\ stream'[s] = [stream[s] EXCEPT !.pc = "waiting", !.last = event]
      BY <2>4 DEF Send, Ended, Typed
    <3>2. /\ t \in Tasks /\ stream[s].chan \in Streams /\ stream[s].last \notin Terminal
          /\ NotAfter(stream[s].last, event) /\ NotAfter(stream[s].last, tasks[t])
      BY <1>3, <3>1 DEF Heard
    <3>3. NotAfter(event, tasks[t]) /\ event \in Statuses \cup {None}
      BY <3>2 DEF Faithful, Told, Typed
    <3>4. NotAfter(event, event)
      BY DEF NotAfter
    <3>5. CASE stream'[s] = Connection("ended", t, None, stream[s].last)
      BY <1>1, <3>2, <3>5 DEF Heard, Connection
    <3>6. CASE event \in Terminal /\ stream'[s] = Connection("ended", t, None, event)
      <4>1. /\ stream'[s].pc = "ended" /\ stream'[s].task = t /\ stream'[s].last = event
        BY <3>6 DEF Connection
      <4>2. "ended" \notin {"idle", "missed", "created", "sending", "waiting"}
        OBVIOUS
      <4>3. QED
        BY <1>1, <3>2, <3>3, <4>1, <4>2 DEF Heard
    <3>7. CASE event \notin Terminal
               /\ stream'[s] = [stream[s] EXCEPT !.pc = "waiting", !.last = event]
      <4>1. /\ stream'[s].pc = "waiting" /\ stream'[s].last = event /\ stream'[s].task = t
            /\ stream'[s].chan = stream[s].chan
        BY <1>3, <3>7 DEF Connections
      <4>2. value'[t][stream[s].chan] = event
        BY <3>1
      <4>3. Heard(s)'
        BY <1>1, <3>2, <3>3, <3>4, <3>7, <4>1, <4>2 DEF Heard
      <4>4. QED
        BY <3>2, <3>3, <4>1, <4>3
    <3>8. QED
      BY <3>1, <3>5, <3>6, <3>7
  <2>5. CASE Changed(s)
    <3>1. stream'[s] = [stream[s] EXCEPT !.pc = "sending", !.fresh = FALSE]
          /\ stream[s].pc = "waiting" /\ value' = value
      BY <2>5 DEF Changed, Typed
    <3>2. QED
      BY <1>1, <1>3, <3>1 DEF Heard, Connections
  <2>6. CASE SenderDropped(s)
    <3>1. stream'[s] = Connection("ended", t, None, stream[s].last) /\ stream[s].pc = "waiting"
      BY <2>6 DEF SenderDropped, Ended, Typed
    <3>2. QED
      BY <1>1, <1>3, <3>1 DEF Heard, Connection
  <2>7. QED
    BY <2>1, <2>2, <2>3, <2>4, <2>5, <2>6 DEF Subscribe, Writer
<1>8. QED
  BY <1>2, <1>5, <1>6, <1>7 DEF Faithful

-----------------------------------------------------------------------------
\* Complete files are listed, as long as nothing works on them.
Working == {"starting", "fetching", "listing", "failing"}
GivenUp(u) == tasks[u] = "Failed" \/ worker[u] = "panicked"
Listed(m) == disk[m] = "complete" /\ ~Busy(m)
             => m \in models \/ \E u \in Tasks : ModelOf[u] = m /\ GivenUp(u)

\* A step of a task that downloads another model.
LEMMA OtherListed ==
  ASSUME NEW m \in Models, Listed(m), NEW t \in Tasks, ModelOf[t] # m,
         disk'[m] = disk[m], removing' = removing, models \subseteq models',
         \A u \in Tasks \ {t} : tasks'[u] = tasks[u] /\ worker'[u] = worker[u]
  PROVE  Listed(m)'
BY DEF Listed, Busy, GivenUp

LEMMA WorkerListed ==
  ASSUME Typed, \A u \in Tasks : Carried(u), NEW m \in Models, Listed(m), NEW t \in Tasks,
         DownloadModel(t) \/ AcquirePermit(t) \/ Worker(t)
  PROVE  Listed(m)'
<1>1. /\ removing' = removing /\ models \subseteq models'
      /\ \A u \in Tasks \ {t} : tasks'[u] = tasks[u] /\ worker'[u] = worker[u]
  BY DEF Typed, DownloadModel, AcquirePermit, Worker, CreateDir, Chunk, Fetched, ListModel, Abort,
         TaskError, Panic, Go, Update, diskVars
<1>2. CASE ModelOf[t] # m
  <2>1. disk'[m] = disk[m]
    BY <1>2 DEF Typed, DownloadModel, AcquirePermit, Worker, CreateDir, Chunk, Fetched, ListModel,
         Abort, TaskError, Panic, diskVars
  <2>2. QED
    BY <1>1, <1>2, <2>1, OtherListed
<1>3. CASE ModelOf[t] = m
  <2>1. CASE worker'[t] \in Working
    BY <1>3, <2>1 DEF Working, Listed, Busy
  <2>2. CASE DownloadModel(t)
    <3>1. worker[t] = None /\ tasks[t] = None /\ worker'[t] = "queued" /\ UNCHANGED diskVars
      BY <2>2 DEF DownloadModel, Carried, Typed
    <3>2. ~GivenUp(t) /\ \A u \in Tasks \ {t} : GivenUp(u)' = GivenUp(u)
      BY <1>1, <3>1, DownloadAssumption DEF GivenUp
    <3>3. Busy(m)' = Busy(m)
      BY <1>1, <3>1, DownloadAssumption DEF Busy, diskVars
    <3>4. QED
      BY <3>1, <3>2, <3>3 DEF Listed, diskVars
  <2>3. CASE ListModel(t)
    BY <1>3, <2>3 DEF ListModel, Listed
  <2>4. CASE TaskError(t)
    BY <1>3, <2>4 DEF TaskError, Update, Typed, Listed, GivenUp
  <2>5. CASE Panic(t)
    BY <1>3, <2>5 DEF Panic, Go, Typed, Listed, GivenUp
  <2>6. CASE AcquirePermit(t) \/ CreateDir(t) \/ Chunk(t) \/ Fetched(t) \/ Abort(t)
    <3>1. worker'[t] \in Working
      BY <2>6 DEF AcquirePermit, CreateDir, Chunk, Fetched, Abort, Go, Typed, Working
    <3>2. QED
      BY <2>1, <3>1
  <2>7. QED
    BY <2>2, <2>3, <2>4, <2>5, <2>6 DEF Worker
<1>4. QED
  BY <1>2, <1>3

LEMMA DirListed ==
  ASSUME Typed, NEW m \in Models, Listed(m), NEW n \in Models, DeleteEntry(n) \/ RemoveDir(n)
  PROVE  Listed(m)'
<1>1. tasks' = tasks /\ worker' = worker
  BY DEF DeleteEntry, RemoveDir, taskVars
<1>2. CASE n # m
  <2>1. /\ disk'[m] = disk[m] /\ (m \in models' <=> m \in models)
        /\ (m \in removing' <=> m \in removing)
    BY <1>2 DEF DeleteEntry, RemoveDir, Typed
  <2>2. QED
    BY <1>1, <2>1 DEF Listed, Busy, GivenUp
<1>3. CASE DeleteEntry(m)
  BY <1>3 DEF DeleteEntry, Listed, Busy
<1>4. CASE RemoveDir(m)
  <2>1. disk'[m] \in {None, "partial"}
    BY <1>4 DEF RemoveDir, Typed
  <2>2. QED
    BY <2>1, DownloadAssumption DEF Listed
<1>5. QED
  BY <1>2, <1>3, <1>4

-----------------------------------------------------------------------------
\* Permits: those available and those in use are as many as there were.
Using == {"starting", "fetching", "listing"}
InUse == CountOf(Tasks, worker, Using)
Permits == permits \in Nat /\ permits + InUse = MaxConcurrent

LEMMA UseStep ==
  ASSUME Typed, NEW t \in Tasks, NEW pl, worker' = [worker EXCEPT ![t] = pl]
  PROVE  /\ pl \in Using /\ worker[t] \notin Using => InUse' = InUse + 1
         /\ pl \notin Using /\ worker[t] \in Using => InUse' = InUse - 1
         /\ (pl \in Using <=> worker[t] \in Using) => InUse' = InUse
         /\ InUse \in Nat
<1>1. IsFiniteSet(Tasks) /\ DOMAIN worker = Tasks /\ worker = [x \in Tasks |-> worker[x]]
  BY DownloadAssumption DEF Typed
<1>2. CountOf(Tasks, worker', Using) = CountOf(Tasks, worker, Using)
            + (IF pl \in Using THEN 1 ELSE 0) - (IF worker[t] \in Using THEN 1 ELSE 0)
  BY <1>1, CountExcept
<1>3. InUse' = CountOf(Tasks, worker', Using)
  BY DEF InUse, CountOf, Using
<1>4. CountOf(Tasks, worker, Using) \in 0..Cardinality(Tasks)
  BY DownloadAssumption, CountType
<1>5. CountOf(Tasks, worker, Using) \in Nat
  BY <1>4
<1>6. QED
  BY <1>2, <1>3, <1>5 DEF InUse

LEMMA PermitsKept ==
  ASSUME Typed, Permits, NEW t \in Tasks, DownloadModel(t) \/ AcquirePermit(t) \/ Worker(t),
         Carried(t)
  PROVE  Permits'
<1>1. PICK pl : worker' = [worker EXCEPT ![t] = pl]
  BY DEF DownloadModel, AcquirePermit, Worker, CreateDir, Chunk, Fetched, ListModel, Abort,
         TaskError, Panic, Go
<1>2. /\ MaxConcurrent \in Nat /\ permits \in Nat /\ permits + InUse = MaxConcurrent
      /\ InUse \in Nat
  BY <1>1, UseStep, DownloadAssumption DEF Permits
<1>3. worker'[t] = pl
  BY <1>1 DEF Typed
<1>4. \/ permits' = permits /\ (pl \in Using <=> worker[t] \in Using)
      \/ permits' = permits - 1 /\ permits > 0 /\ pl \in Using /\ worker[t] \notin Using
      \/ permits' = permits + 1 /\ pl \notin Using /\ worker[t] \in Using
  <2>1. None \notin Using
    BY DownloadAssumption DEF Using
  <2>2. CASE DownloadModel(t)
    BY <1>3, <2>1, <2>2 DEF DownloadModel, Carried, Typed, Using
  <2>3. CASE AcquirePermit(t)
    BY <1>3, <2>3 DEF AcquirePermit, Go, Typed, Using
  <2>4. CASE CreateDir(t) \/ Chunk(t) \/ Fetched(t)
    BY <1>3, <2>4 DEF CreateDir, Chunk, Fetched, Go, Typed, Using
  <2>5. CASE ListModel(t) \/ Abort(t) \/ Panic(t)
    BY <1>3, <2>5 DEF ListModel, Abort, Panic, Go, Typed, Using
  <2>6. CASE TaskError(t)
    BY <1>3, <2>6 DEF TaskError, Go, Typed, Using
  <2>7. QED
    BY <2>2, <2>3, <2>4, <2>5, <2>6 DEF Worker
<1>5. \/ permits' = permits /\ InUse' = InUse
      \/ permits' = permits - 1 /\ permits > 0 /\ InUse' = InUse + 1
      \/ permits' = permits + 1 /\ InUse' = InUse - 1
  BY <1>1, <1>4, UseStep
<1>6. permits' \in Nat /\ permits' + InUse' = MaxConcurrent
  BY <1>2, <1>5
<1>7. QED
  BY <1>6 DEF Permits

-----------------------------------------------------------------------------
IInv == Typed /\ Permits /\ Faithful /\ \A m \in Models : Listed(m)

LEMMA InitHolds == Init => IInv
<1> SUFFICES ASSUME Init PROVE IInv
  OBVIOUS
<1>1. Typed
  BY DEF Init, Typed, Nowhere, NoValue, NoStream, Connection, Connections
<1>2. Permits
  <2>1. {t \in Tasks : worker[t] \in Using} = {}
    BY DownloadAssumption DEF Init, Nowhere, Using
  <2>2. InUse = 0
    BY <2>1, FS_EmptySet DEF InUse, CountOf
  <2>3. QED
    BY <2>2, DownloadAssumption DEF Init, Permits
<1>3. Faithful
  BY DownloadAssumption
     DEF Init, Faithful, Carried, Told, Heard, Nowhere, NoValue, NoStream, Connection, NotAfter
<1>4. \A m \in Models : Listed(m)
  BY DownloadAssumption DEF Init, Listed
<1>5. QED
  BY <1>1, <1>2, <1>3, <1>4 DEF IInv

\* A crash leaves what a start finds, but for the disk, which is scanned.
LEMMA CrashHolds ==
  ASSUME IInv, Crash
  PROVE  IInv'
<1>1. Typed'
  BY DEF IInv, Crash, ScanCache, Typed, Nowhere, NoValue, NoStream, Connection, Connections
<1>2. Permits'
  <2>1. {t \in Tasks : worker'[t] \in Using} = {}
    BY DownloadAssumption DEF Crash, Nowhere, Using
  <2>2. InUse' = 0
    BY <2>1, FS_EmptySet DEF InUse, CountOf, Using
  <2>3. QED
    BY <2>2, DownloadAssumption DEF Crash, Permits
<1>3. Faithful'
  BY DownloadAssumption
     DEF Crash, Faithful, Carried, Told, Heard, Nowhere, NoValue, NoStream, Connection, NotAfter
<1>4. \A m \in Models : Listed(m)'
  BY DownloadAssumption DEF Crash, ScanCache, Listed
<1>5. QED
  BY <1>1, <1>2, <1>3, <1>4 DEF IInv

LEMMA NextHolds == IInv /\ [Next]_vars => IInv'
<1> SUFFICES ASSUME IInv, [Next]_vars PROVE IInv'
  OBVIOUS
<1>0. Typed /\ Permits /\ Faithful /\ \A m \in Models : Listed(m)
  BY DEF IInv
<1>1. CASE \E t \in Tasks : DownloadModel(t) \/ AcquirePermit(t) \/ Worker(t)
  <2>1. PICK t \in Tasks : DownloadModel(t) \/ AcquirePermit(t) \/ Worker(t)
    BY <1>1
  <2>2. Carried(t) /\ Told(t) /\ \A u \in Tasks : Carried(u)
    BY <1>0 DEF Faithful
  <2>3. Faithful'
    BY <1>0, <2>1, <2>2, WorkerGoesOn, OnwardKeeps
  <2>4. QED
    BY <1>0, <2>1, <2>2, <2>3, WorkerTyped, PermitsKept, WorkerListed DEF IInv
<1>2. CASE UNCHANGED <<permits, worker>> /\ Typed' /\ Faithful' /\ \A m \in Models : Listed(m)'
  <2>1. Permits'
    BY <1>0, <1>2 DEF Permits, InUse, CountOf, Using
  <2>2. QED
    BY <1>2, <2>1 DEF IInv
<1>3. CASE \E t \in Tasks : Notify(t)
  <2>1. \A m \in Models : Listed(m)'
    BY <1>0, <1>3 DEF Notify, diskVars, Listed, Busy, GivenUp
  <2>2. QED
    BY <1>0, <1>2, <1>3, <2>1, NotifyTyped, NotifyKeeps DEF Notify
<1>4. CASE \E m \in Models : DeleteEntry(m) \/ RemoveDir(m)
  <2>1. UNCHANGED taskVars /\ UNCHANGED streamVars
    BY <1>4 DEF DeleteEntry, RemoveDir
  <2>2. Faithful'
    BY <1>0, <2>1 DEF taskVars, streamVars, Faithful, Carried, Told, Heard
  <2>3. QED
    BY <1>0, <1>2, <1>4, <2>1, <2>2, DirTyped, DirListed DEF taskVars
<1>5. CASE \E s \in Streams : (\E t \in Tasks : Lookup(s, t)) \/ Subscribe(s) \/ Writer(s)
  <2>1. PICK s \in Streams : (\E t \in Tasks : Lookup(s, t)) \/ Subscribe(s) \/ Writer(s)
    BY <1>5
  <2>2. UNCHANGED taskVars /\ UNCHANGED diskVars
    BY <2>1 DEF Lookup, Subscribe, CreateChannel, InsertChannel, Writer, Send, Changed, SenderDropped
  <2>3. Heard(s)
    BY <1>0 DEF Faithful
  <2>4. \A m \in Models : Listed(m)'
    BY <1>0, <2>2 DEF taskVars, diskVars, Listed, Busy, GivenUp
  <2>5. Typed' /\ Faithful'
    BY <1>0, <2>1, <2>3, StreamTyped, StreamKeeps
  <2>6. QED
    BY <1>2, <2>2, <2>4, <2>5 DEF taskVars
<1>6. CASE Crash
  BY <1>6, CrashHolds
<1>7. CASE UNCHANGED vars
  <2>1. Typed'
    BY <1>0, <1>7 DEF vars, taskVars, diskVars, streamVars, Typed
  <2>2. Faithful' /\ \A m \in Models : Listed(m)'
    BY <1>0, <1>7 DEF vars, taskVars, diskVars, streamVars, Faithful, Carried, Told, Heard, Listed,
                      Busy, GivenUp
  <2>3. QED
    BY <1>2, <1>7, <2>1, <2>2 DEF vars, taskVars
<1>8. QED
  BY <1>1, <1>3, <1>4, <1>5, <1>6, <1>7 DEF Next

LEMMA Inductive == Spec => []IInv
BY InitHolds, NextHolds, PTL DEF Spec

-----------------------------------------------------------------------------
\* The permits are neither lost nor invented, whichever way a download ends.
THEOREM TypeCorrect == Spec => []TypeOK
<1>1. IInv => TypeOK
  <2> SUFFICES ASSUME IInv PROVE TypeOK
    OBVIOUS
  <2>1. InUse = Cardinality(Holders)
    BY DEF InUse, CountOf, Using, Holders
  <2>2. QED
    BY <2>1 DEF IInv, Permits, TypeOK
<1>2. QED
  BY <1>1, Inductive, PTL

\* A client is told that a download is over only if it is.
THEOREM EndsAreTrue == Spec => []NoFalseEnd
<1>1. IInv => NoFalseEnd
  <2> SUFFICES ASSUME IInv, NEW s \in Streams
               PROVE  /\ stream[s].last = "Completed" => tasks[stream[s].task] \in Terminal
                      /\ stream[s].last = "Failed" => tasks[stream[s].task] = "Failed"
    BY DEF NoFalseEnd
  <2>1. Heard(s)
    BY DEF IInv, Faithful
  <2>2. stream[s].pc = "idle" => stream[s].last \notin Terminal
    BY <2>1, DownloadAssumption DEF Heard, Terminal
  <2>3. QED
    BY <2>1, <2>2, NotAfterEnds DEF Heard, Terminal
<1>2. QED
  BY <1>1, Inductive, PTL

\* The events of a stream never go back.
THEOREM EventsGoOn == Spec => EventsInOrder
<1> DEFINE Later(s) == stream'[s].last \notin {None, stream[s].last}
                       => Rank(stream[s].last) < Rank(stream'[s].last)
<1>1. IInv /\ [Next]_vars => [\A s \in Streams : Later(s)]_vars
  <2> SUFFICES ASSUME IInv, Next, NEW s \in Streams,
                      stream'[s].last \notin {None, stream[s].last}
               PROVE  Rank(stream[s].last) < Rank(stream'[s].last)
    OBVIOUS
  <2>0. Typed /\ Faithful
    BY DEF IInv
  <2>1. PICK u \in Streams : (\E t \in Tasks : Lookup(u, t)) \/ Subscribe(u) \/ Writer(u)
    <3>1. stream' # stream /\ ~Crash
      BY DEF Crash, NoStream, Connection
    <3>2. ASSUME NEW t \in Tasks, Notify(t) PROVE FALSE
      BY <2>0, <3>2 DEF Notify, Typed, Connections
    <3>3. ASSUME NEW t \in Tasks, DownloadModel(t) \/ AcquirePermit(t) \/ Worker(t) PROVE FALSE
      <4>1. UNCHANGED streamVars
        BY <2>0, <3>3, WorkerGoesOn DEF Onward, Faithful
      <4>2. QED
        BY <3>1, <4>1 DEF streamVars
    <3>4. ASSUME NEW m \in Models, DeleteEntry(m) \/ RemoveDir(m) PROVE FALSE
      BY <3>1, <3>4 DEF DeleteEntry, RemoveDir, streamVars
    <3>5. QED
      BY <3>1, <3>2, <3>3, <3>4 DEF Next
  <2>2. u = s
    BY <2>0, <2>1, StreamKeeps
  <2>3. /\ stream[s].last \notin Terminal /\ NotAfter(stream[s].last, stream'[s].last)
        /\ stream'[s].last \in Statuses
    BY <2>0, <2>1, <2>2, StreamKeeps
  <2>4. QED
    BY <2>3, NotAfterRank
<1>2. QED
  BY <1>1, Inductive, PTL DEF Spec, EventsInOrder

\* Complete files that nothing works on, and no failed task left, are listed, also
\* after a crash.
THEOREM FilesAreListed == Spec => []CompleteIsListed
<1>1. IInv => CompleteIsListed
  BY DEF IInv, Listed, GivenUp, CompleteIsListed
<1>2. QED
  BY <1>1, Inductive, PTL

\* The invariant that was checked on the small instance is that of the proof.
THEOREM IInvHolds == Spec => []DownloadIInv
<1>1. IInv /\ TypeOK /\ CompleteIsListed => DownloadIInv
  BY DEF IInv, Faithful, DownloadIInv
<1>2. QED
  BY <1>1, Inductive, TypeCorrect, FilesAreListed, PTL
=============================================================================

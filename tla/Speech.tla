-------------------------------- MODULE Speech --------------------------------
(***************************************************************************)
(* Speech over a WebSocket (src/src/api/ws_audio.rs): the session's state  *)
(* machine, the pipeline that synthesizes a text sentence by sentence in a *)
(* task of its own and sends the chunks over a bounded channel             *)
(* (src/src/core/tts_pipeline.rs), and the sessions of the engine, which   *)
(* pipelines share with other callers (SessionPool).                       *)
(***************************************************************************)
EXTENDS SessionPool, Sequences

CONSTANTS
  Pipelines,     \* the callers that are pipelines
  Conns,         \* WebSocket connections
  Sentences,     \* sentences of every text
  Depth          \* channel_depth

ASSUME SpeechAssumption ==
  /\ Pipelines \subseteq Callers
  /\ Sentences \in Nat \ {0} /\ Depth \in Nat \ {0}

VARIABLES
  ws,       \* per connection: SessionState, the wait for a transcript, or closed
  rx,       \* per connection: the pipeline whose channel it reads, as a set
  heard,    \* per connection: chunks sent of the current text
  told,     \* per connection: how its last text ended
  at,       \* per pipeline: its sentence; 0: no task; past the last: it has ended
  result,   \* per pipeline: what the synthesis of the sentence gave
  chan      \* per pipeline: the chunks in its channel

connVars   == <<ws, rx, heard, told>>
pipeVars   == <<at, result, chan>>
speechVars == <<vars, connVars, pipeVars>>

SpeechInit ==
  /\ Init
  /\ ws = [w \in Conns |-> "idle"]   /\ rx = [w \in Conns |-> {}]
  /\ heard = [w \in Conns |-> 0]     /\ told = [w \in Conns |-> "none"]
  /\ at = [p \in Pipelines |-> 0]    /\ result = [p \in Pipelines |-> "none"]
  /\ chan = [p \in Pipelines |-> <<>>]

Ended(p) == at[p] > Sentences
Read(p)  == \E w \in Conns : p \in rx[w]

-----------------------------------------------------------------------------
\* The pipeline: one sentence after the other, each with a session of the pool.
\* No session, or a synthesis that fails, gives an error for the sentence.
Synthesize(p) ==
  /\ at[p] \in 1..Sentences /\ (result[p] = "none" \/ pc[p] # "idle")
  /\ \/ /\ Request(p) \/ AcquirePermit(p) \/ Lock(p) \/ TryLock(p) \/ Push(p)
           \/ Discard(p) \/ Release(p)
        /\ UNCHANGED result
     \/ Pop(p) /\ \E x \in {"ok", "error"} : result' = [result EXCEPT ![p] = x]
     \/ PopNothing(p) /\ result' = [result EXCEPT ![p] = "error"]
  /\ UNCHANGED <<connVars, at, chan>>

\* Planted defect: a task that waits for room does not notice that its reader left.
SendBlocks(p) ==
  /\ result[p] # "none" /\ pc[p] = "idle"
  /\ Read(p) /\ Len(chan[p]) < Depth
  /\ chan' = [chan EXCEPT ![p] = Append(@, [n |-> at[p], ok |-> result[p] = "ok"])]
  /\ at' = [at EXCEPT ![p] = @ + 1]
  /\ result' = [result EXCEPT ![p] = "none"]
  /\ UNCHANGED <<vars, connVars>>

\* It waits for room in the channel, and stops when nobody reads it any more.
Send(p) ==
  /\ result[p] # "none" /\ pc[p] = "idle"
  /\ \/ /\ Read(p) /\ Len(chan[p]) < Depth
        /\ chan' = [chan EXCEPT ![p] = Append(@, [n |-> at[p], ok |-> result[p] = "ok"])]
        /\ at' = [at EXCEPT ![p] = @ + 1]
     \/ /\ ~Read(p) /\ UNCHANGED chan
        /\ at' = [at EXCEPT ![p] = 0]
  /\ result' = [result EXCEPT ![p] = "none"]
  /\ UNCHANGED <<vars, connVars>>

\* Other callers of the engine, the REST handlers.
Elsewhere(c) ==
  /\ c \notin Pipelines
  /\ Request(c) \/ Cancel(c) \/ Acquire(c) \/ Drop(c)
  /\ UNCHANGED <<connVars, pipeVars>>

-----------------------------------------------------------------------------
\* The session goes to state s and drops its receiver, or takes that of p.
Become(w, s, new) ==
  /\ ws' = [ws EXCEPT ![w] = s]
  /\ rx' = [rx EXCEPT ![w] = new]
  /\ chan' = [p \in Pipelines |-> IF p \in rx[w] THEN <<>> ELSE chan[p]]
  /\ at' = [p \in Pipelines |-> IF p \in new THEN 1
                                ELSE IF p \in rx[w] /\ Ended(p) THEN 0 ELSE at[p]]
  /\ UNCHANGED <<vars, result>>

Open(w) == ws[w] \in {"idle", "tts", "stt", "stt with audio"}

\* Planted defect: a text that comes while another is spoken is appended to it.
StartTtsAppends(w) ==
  /\ Open(w)
  /\ \E p \in Pipelines : at[p] = 0 /\ Become(w, "tts", {p})
  /\ UNCHANGED <<heard, told>>

\* start_tts, from any state: the text that was spoken, or the audio that was
\* collected, is given up.  (A text it refuses changes nothing.)
StartTts(w) ==
  /\ Open(w)
  /\ \E p \in Pipelines : at[p] = 0 /\ Become(w, "tts", {p})
  /\ heard' = [heard EXCEPT ![w] = 0]
  /\ told' = [told EXCEPT ![w] = "none"]

\* stt_begin, also in the middle of a text, which is given up without a word.
SttBegin(w) == Open(w) /\ Become(w, "stt", {}) /\ UNCHANGED <<heard, told>>

\* Binary frames count in an STT session only; too many of them end it.
Audio(w) ==
  /\ \/ ws[w] = "stt" /\ Become(w, "stt with audio", {})
     \/ ws[w] = "stt with audio" /\ Become(w, "closed", {})
  /\ UNCHANGED <<heard, told>>

\* stt_end: the session reads no message until the transcript is there.
SttEnd(w) ==
  /\ \/ ws[w] = "stt" /\ Become(w, "idle", {})
     \/ ws[w] = "stt with audio" /\ Become(w, "transcribing", {})
  /\ UNCHANGED <<heard, told>>

Transcribed(w) ==
  ws[w] = "transcribing" /\ Become(w, "idle", {}) /\ UNCHANGED <<heard, told>>

\* The client closes, or is found gone; later there is another one.
Close(w) == Open(w) /\ Become(w, "closed", {}) /\ UNCHANGED <<heard, told>>
Connect(w) == /\ ws[w] = "closed" /\ Become(w, "idle", {})
              /\ heard' = [heard EXCEPT ![w] = 0]
              /\ told' = [told EXCEPT ![w] = "none"]

Tell(w, what) == Become(w, "idle", {}) /\ told' = [told EXCEPT ![w] = what] /\ UNCHANGED heard

\* Planted defect: the text goes on after a sentence that failed.
ChunkAnyway(w) ==
  /\ ws[w] = "tts"
  /\ \E p \in rx[w] :
       /\ chan[p] # <<>> /\ chan' = [chan EXCEPT ![p] = Tail(@)]
       /\ heard' = [heard EXCEPT ![w] = IF Head(chan[p]).ok THEN @ + 1 ELSE @]
  /\ UNCHANGED <<vars, ws, rx, told, at, result>>

\* A chunk goes to the client; an error ends the text.
Chunk(w) ==
  /\ ws[w] = "tts"
  /\ \E p \in rx[w] :
       /\ chan[p] # <<>>
       /\ \/ /\ Head(chan[p]).ok
             /\ chan' = [chan EXCEPT ![p] = Tail(@)]
             /\ heard' = [heard EXCEPT ![w] = @ + 1]
             /\ UNCHANGED <<vars, ws, rx, told, at, result>>
          \/ ~Head(chan[p]).ok /\ Tell(w, "error")

\* tts_done: the channel is empty and its sender is gone.
TtsDone(w) ==
  /\ ws[w] = "tts"
  /\ \E p \in rx[w] : chan[p] = <<>> /\ Ended(p)
  /\ Tell(w, "done")

-----------------------------------------------------------------------------
Stream(w) == Chunk(w) \/ TtsDone(w)

SpeechNext ==
  \/ \E p \in Pipelines : Synthesize(p) \/ Send(p)
  \/ \E c \in Callers : Elsewhere(c)
  \/ \E w \in Conns : \/ StartTts(w) \/ SttBegin(w) \/ Audio(w) \/ SttEnd(w)
                      \/ Transcribed(w) \/ Close(w) \/ Connect(w) \/ Stream(w)

\* Syntheses end; semaphore, mutex and channel serve those who wait in turn; a
\* client takes its chunks.  (Of one task only one of these steps is enabled.)
SpeechSpec ==
  /\ SpeechInit /\ [][SpeechNext]_speechVars
  /\ \A w \in Conns : WF_speechVars(Stream(w))
  /\ \A p \in Pipelines : SF_speechVars(Synthesize(p) \/ Send(p))
  /\ \A c \in Callers \ Pipelines :
       SF_speechVars(Elsewhere(c) /\ pc[c] # "idle" /\ ~ Cancel(c))

-----------------------------------------------------------------------------
\* The chunks on their way to a client are those that come next, in order and
\* without a gap, whatever texts the connection has given up before and whatever
\* their pipelines still do ("received in order", tts_pipeline.rs 151).
InOrder ==
  \A w \in Conns : \A p \in rx[w] :
    \A i \in 1..Len(chan[p]) : chan[p][i].n = heard[w] + i

\* tts_done is said of a text that was sent completely, and of no other.
DoneMeansAll == \A w \in Conns : told[w] = "done" => heard[w] = Sentences

\* Every text comes to its end and every task that synthesizes one is over at some
\* time: when sessions have been lost, when texts that were given up still occupy
\* the engine, and when the channel is full while its reader goes away ("the
\* pipeline task stops after its current sentence").
SpeechEnds == \A p \in Pipelines : (at[p] # 0) ~> (at[p] = 0)

-----------------------------------------------------------------------------
\* What the order rests on: a channel is read by one connection, while it is
\* speaking, and holds the chunks between those that were sent and the sentence
\* its pipeline is at; the channel of a text that was given up is empty.
SpeechTypeOK ==
  /\ ws \in [Conns -> {"idle", "tts", "stt", "stt with audio", "transcribing", "closed"}]
  /\ rx \in [Conns -> SUBSET Pipelines]
  /\ heard \in [Conns -> Nat]
  /\ told \in [Conns -> {"none", "done", "error"}]
  /\ at \in [Pipelines -> 0..Sentences + 1]
  /\ result \in [Pipelines -> {"none", "ok", "error"}]
  /\ chan \in [Pipelines -> Seq([n : Nat, ok : BOOLEAN])]
  /\ \A p \in Pipelines : result[p] # "none" => at[p] \in 1..Sentences

OneReader ==
  /\ \A w \in Conns : \A p, q \in rx[w] : p = q
  /\ \A v, w \in Conns : v # w => rx[v] \cap rx[w] = {}
  /\ \A w \in Conns : rx[w] # {} => ws[w] = "tts" /\ told[w] = "none"
  /\ \A p \in Pipelines : Read(p) \/ chan[p] = <<>>

NoGap == \A w \in Conns : \A p \in rx[w] : at[p] = heard[w] + Len(chan[p]) + 1

SpeechIInv == SpeechTypeOK /\ OneReader /\ NoGap /\ InOrder /\ DoneMeansAll
=============================================================================

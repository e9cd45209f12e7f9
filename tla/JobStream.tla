----------------------------- MODULE JobStream ------------------------------
(***************************************************************************)
(* The events of one job of eserved (cmd/eserved/jobs/jobs.go): its log,   *)
(* its subscribers, and the streams that replay the log and then follow    *)
(* the job live; and what epull and eservectl conclude from a stream.      *)
(*                                                                         *)
(* A step is what the code does under the job's lock, or one read of a     *)
(* subscriber's channel. Whether the job waits or runs is in JobQueue:     *)
(* here it writes progress until Finish.                                   *)
(***************************************************************************)
EXTENDS Naturals, Sequences, FiniteSets

CONSTANTS
    Readers,    \* the streams: one GET of the job's stream each
    SubBuffer,  \* capacity of a subscriber's channel (16 in the code)
    MaxEvents   \* bound: progress events the job writes

ASSUME SubBufferAssumption == SubBuffer \in Nat \ {0}
ASSUME MaxEventsAssumption == MaxEvents \in Nat

VARIABLES
    log,      \* every event the job appended to its log
    over,     \* the job is terminal: the log file is gone, terminal is kept
    subs,     \* keys of job.subs
    chan,     \* what each subscriber's channel holds
    closed,   \* channels that are closed
    rpc,      \* program counter of each Stream call
    offset,   \* log size its Subscribe returned, in events
    got,      \* events written to its client
    dropped   \* history: streams that lost an event to a full channel

streamVars == <<rpc, offset, got>>
vars == <<log, over, subs, chan, closed, streamVars, dropped>>

Outcomes     == {"done", "error", "cancelled"}
Progress(n)  == [type |-> "progress", n |-> n]
EndEvent(o)  == [type |-> o, n |-> MaxEvents + 1]
Events       == {Progress(n) : n \in 1 .. MaxEvents} \cup {EndEvent(o) : o \in Outcomes}
IsEnd(e)     == e.type \in Outcomes

\* The terminal event the job keeps after its log is gone; only when over.
terminal == log[Len(log)]

Active == {"subscribed", "replayed", "live"}

TypeOK ==
    /\ log \in Seq(Events) /\ Len(log) <= MaxEvents + 1
    /\ over \in BOOLEAN
    /\ subs \subseteq Readers
    /\ chan \in [Readers -> Seq(Events)]
    /\ \A r \in Readers : Len(chan[r]) <= SubBuffer
    /\ closed \subseteq Readers
    /\ rpc \in [Readers -> {"idle", "ending", "ended", "leaving", "left"} \cup Active]
    /\ offset \in [Readers -> 0 .. MaxEvents]
    /\ got \in [Readers -> Seq(Events)]
    /\ dropped \subseteq Readers

Init ==
    /\ log = <<>>
    /\ over = FALSE
    /\ subs = {} /\ closed = {} /\ dropped = {}
    /\ chan = [r \in Readers |-> <<>>]
    /\ rpc = [r \in Readers |-> "idle"]
    /\ offset = [r \in Readers |-> 0]
    /\ got = [r \in Readers |-> <<>>]

-----------------------------------------------------------------------------
(* The job writes. *)

\* mutant: the buffer is one longer than the channel
HasRoomOffByOne(r) == Len(chan[r]) <= SubBuffer
HasRoom(r) == Len(chan[r]) < SubBuffer

\* The non-blocking send to every subscriber: a full channel drops the event.
Broadcast(e) ==
    /\ log' = Append(log, e)
    /\ chan' = [r \in Readers |->
                  IF r \in subs /\ HasRoom(r) THEN Append(chan[r], e) ELSE chan[r]]
    /\ dropped' = dropped \cup {r \in subs : ~HasRoom(r)}

\* Job.Write of a job that is not over.
Write ==
    /\ ~over
    /\ Len(log) < MaxEvents
    /\ Broadcast(Progress(Len(log) + 1))
    /\ UNCHANGED <<over, subs, closed, streamVars>>

\* mutant: the channels are left open
FinishOpen(o) ==
    /\ ~over
    /\ over' = TRUE
    /\ Broadcast(EndEvent(o))
    /\ UNCHANGED <<subs, closed, streamVars>>
\* Job.Finish: the terminal event is kept, logged and sent, the log removed, and
\* the subscribers' channels closed.
Finish(o) ==
    /\ ~over
    /\ over' = TRUE
    /\ Broadcast(EndEvent(o))
    /\ closed' = closed \cup subs
    /\ UNCHANGED <<subs, streamVars>>

-----------------------------------------------------------------------------
(* Job.Stream *)

\* mutant: the size of the log is not taken together with the subscription
SubscribeNoOffset(r) ==
    /\ rpc[r] = "idle"
    /\ rpc' = [rpc EXCEPT ![r] = "subscribed"]
    /\ IF over THEN closed' = closed \cup {r} /\ UNCHANGED subs
               ELSE subs' = subs \cup {r} /\ UNCHANGED closed
    /\ offset' = [offset EXCEPT ![r] = MaxEvents]
    /\ UNCHANGED <<log, over, chan, got, dropped>>
\* mutant: a live subscriber is told to replay nothing
SubscribeNoPast(r) ==
    /\ rpc[r] = "idle"
    /\ rpc' = [rpc EXCEPT ![r] = "subscribed"]
    /\ IF over THEN closed' = closed \cup {r} /\ UNCHANGED subs
               ELSE subs' = subs \cup {r} /\ UNCHANGED closed
    /\ UNCHANGED <<log, over, chan, offset, got, dropped>>
\* Subscribe: one lock for the subscription and the size of the log. A job that
\* is over gives a closed channel and no offset.
Subscribe(r) ==
    /\ rpc[r] = "idle"
    /\ rpc' = [rpc EXCEPT ![r] = "subscribed"]
    /\ IF over
       THEN /\ closed' = closed \cup {r}
            /\ UNCHANGED <<subs, offset>>
       ELSE /\ subs' = subs \cup {r}
            /\ offset' = [offset EXCEPT ![r] = Len(log)]
            /\ UNCHANGED closed
    /\ UNCHANGED <<log, over, chan, got, dropped>>

\* The events up to n, or all there are: what a reader limited to n reads.
Prefix(n) == SubSeq(log, 1, IF n < Len(log) THEN n ELSE Len(log))

\* Replay opens the log and emits it up to the offset; when the log is gone it
\* emits the terminal event instead. The log only grows, and an open file
\* outlives its name, so what it emits is settled when it opens the file.
Replay(r) ==
    /\ rpc[r] = "subscribed"
    /\ got' = [got EXCEPT ![r] = IF over THEN <<terminal>> ELSE Prefix(offset[r])]
    /\ rpc' = [rpc EXCEPT ![r] = "replayed"]
    /\ UNCHANGED <<log, over, subs, chan, closed, offset, dropped>>

\* A job that is over by now ends the stream, whatever its channel holds.
CheckFinished(r) ==
    /\ rpc[r] = "replayed"
    /\ rpc' = [rpc EXCEPT ![r] = IF over THEN "ending" ELSE "live"]
    /\ UNCHANGED <<log, over, subs, chan, closed, offset, got, dropped>>

Receive(r) ==
    /\ rpc[r] = "live"
    /\ chan[r] # <<>>
    /\ got' = [got EXCEPT ![r] = Append(@, Head(chan[r]))]
    /\ chan' = [chan EXCEPT ![r] = Tail(@)]
    /\ UNCHANGED <<log, over, subs, closed, rpc, offset, dropped>>

\* The channel is drained and closed: the job is over.
EndOfStream(r) ==
    /\ rpc[r] = "live"
    /\ chan[r] = <<>>
    /\ r \in closed
    /\ rpc' = [rpc EXCEPT ![r] = "ending"]
    /\ UNCHANGED <<log, over, subs, chan, closed, offset, got, dropped>>

\* The client goes away: its context ends or a write to it fails.
Leave(r) ==
    /\ rpc[r] \in Active
    /\ rpc' = [rpc EXCEPT ![r] = "leaving"]
    /\ UNCHANGED <<log, over, subs, chan, closed, offset, got, dropped>>

\* The deferred Unsubscribe; then the response ends.
Unsubscribe(r) ==
    /\ rpc[r] \in {"ending", "leaving"}
    /\ subs' = subs \ {r}
    /\ rpc' = [rpc EXCEPT ![r] = IF @ = "ending" THEN "ended" ELSE "left"]
    /\ UNCHANGED <<log, over, chan, closed, offset, got, dropped>>

-----------------------------------------------------------------------------
StreamStep(r) ==
    \/ Replay(r) \/ CheckFinished(r) \/ Receive(r) \/ EndOfStream(r) \/ Unsubscribe(r)

Next ==
    \/ Write
    \/ \E o \in Outcomes : Finish(o)
    \/ \E r \in Readers : Subscribe(r) \/ Leave(r) \/ StreamStep(r)

Spec == Init /\ [][Next]_vars

\* A stream's handler runs when it can: its client reads what it is sent.
FairSpec == Spec /\ \A r \in Readers : WF_vars(StreamStep(r))

-----------------------------------------------------------------------------
(* What a client concludes once the response has ended. *)

\* readJobStream of epull: the first terminal event decides, and a stream that
\* ends without one is no error.
EpullVerdict(r) ==
    IF \E i \in DOMAIN got[r] : IsEnd(got[r][i]) THEN got[r][Len(got[r])].type ELSE "done"

\* mutant: eservectl forgets the stream that ended without a terminal event
CtlVerdictLenient(r) == EpullVerdict(r)
\* PostJobStream of eservectl: a stream without a terminal event is an error.
CtlVerdict(r) ==
    IF \E i \in DOMAIN got[r] : IsEnd(got[r][i]) THEN got[r][Len(got[r])].type ELSE "error"

-----------------------------------------------------------------------------
(* Properties *)

\* A client never gets an event twice or out of order, and gets nothing after
\* the terminal event: the replayed and the live part meet at the offset.
InOrderOnce ==
    \A r \in Readers : \A i, k \in DOMAIN got[r] : i < k => got[r][i].n < got[r][k].n

\* What a following stream wrote and what its channel holds are the whole log,
\* with no event missing, unless its channel overflowed.
NothingMissing ==
    \A r \in Readers : rpc[r] = "live" /\ r \notin dropped => got[r] \o chan[r] = log

\* eservectl reports how a job really ended, or an error.
CtlVerdictSound ==
    \A r \in Readers : rpc[r] = "ended" => CtlVerdict(r) \in {terminal.type, "error"}

\* Every stream of a job that is over ends, and its channel leaves job.subs.
StreamsEnd ==
    \A r \in Readers :
        (over /\ rpc[r] # "idle") ~> (rpc[r] \in {"ended", "left"} /\ r \notin subs)

\* "the job's error has to come back out, or a failed provision looks like a
\* success to the caller": epull takes a job for done only if it is. A job that
\* ends while its log is being replayed ends the stream without the event.
EpullVerdictSound ==
    \A r \in Readers : rpc[r] = "ended" => EpullVerdict(r) = terminal.type
=============================================================================

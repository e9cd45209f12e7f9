-------------------------- MODULE JobStreamProofs ---------------------------
(***************************************************************************)
(* What a stream of a job delivers, for any number of streams, any channel *)
(* capacity and any number of events.                                      *)
(***************************************************************************)
EXTENDS JobStream, SequenceTheorems, TLAPS

-----------------------------------------------------------------------------
(* The invariant *)

\* The log numbers its events; its last one is the end of a job that is over.
LogShape ==
    /\ ~over => Len(log) <= MaxEvents
    /\ over => Len(log) >= 1 /\ IsEnd(terminal)
    /\ \A i \in 1 .. Len(log) : /\ IsEnd(log[i]) => over /\ i = Len(log)
                                /\ ~IsEnd(log[i]) => log[i].n = i

Increasing(s) == \A i, k \in 1 .. Len(s) : i < k => s[i].n < s[k].n

\* A stream that will read, or reads, its channel.
Following(r) == rpc[r] = "live" \/ (rpc[r] = "replayed" /\ ~over)
Due(r)       == Following(r) \/ (rpc[r] = "subscribed" /\ ~over)

\* Only a subscriber's channel is filled.
Subscribed ==
    \A r \in Readers : /\ Due(r) => r \in subs
                       /\ rpc[r] = "idle" => chan[r] = <<>> /\ r \notin subs

\* What a channel holds comes after the offset, in the order of the log.
ChanOrder ==
    \A r \in Readers :
        /\ Increasing(chan[r])
        /\ \A i \in 1 .. Len(chan[r]) : /\ chan[r][i].n > offset[r]
                                        /\ ~over => chan[r][i].n <= Len(log)
        /\ r \in subs => offset[r] <= Len(log)

\* What was written comes before what the channel holds.
GotOrder ==
    \A r \in Readers :
        /\ Increasing(got[r])
        /\ Following(r) =>
               /\ ~over => \A i \in 1 .. Len(got[r]) : got[r][i].n <= Len(log)
               /\ \A i \in 1 .. Len(got[r]), k \in 1 .. Len(chan[r]) : got[r][i].n < chan[r][k].n

\* A terminal event is the job's own.
EndsAreTrue ==
    \A r \in Readers :
        /\ \A i \in 1 .. Len(got[r]) : IsEnd(got[r][i]) => over /\ got[r][i] = terminal
        /\ \A i \in 1 .. Len(chan[r]) : IsEnd(chan[r][i]) => over /\ chan[r][i] = terminal

\* The channel of r holds the log after its first n events.
LogAfter(r, n) ==
    /\ Len(chan[r]) = Len(log) - n
    /\ \A i \in 1 .. Len(chan[r]) : chan[r][i] = log[n + i]

\* A stream that lost nothing wrote the log so far and holds the rest of it.
Tracks(r) ==
    /\ rpc[r] = "subscribed" /\ ~over => LogAfter(r, offset[r])
    /\ Following(r) => /\ \A i \in 1 .. Len(got[r]) : got[r][i] = log[i]
                       /\ LogAfter(r, Len(got[r]))

Follows == \A r \in Readers : r \notin dropped => Tracks(r)

Streams == Subscribed /\ ChanOrder /\ GotOrder /\ EndsAreTrue /\ Follows

IInv == TypeOK /\ LogShape /\ Streams

-----------------------------------------------------------------------------
(* Events *)

LEMMA EventNumbers ==
    \A e \in Events : /\ e.n \in Nat /\ e.n >= 1 /\ e.n <= MaxEvents + 1
                      /\ IsEnd(e) <=> e.n = MaxEvents + 1
  BY MaxEventsAssumption DEF Events, Progress, EndEvent, IsEnd, Outcomes

LEMMA Lengths ==
    ASSUME TypeOK
    PROVE  /\ Len(log) \in Nat /\ MaxEvents \in Nat
           /\ \A i \in 1 .. Len(log) : log[i] \in Events
           /\ \A r \in Readers :
                  /\ chan[r] \in Seq(Events) /\ Len(chan[r]) \in Nat
                  /\ got[r] \in Seq(Events) /\ Len(got[r]) \in Nat
                  /\ \A i \in 1 .. Len(chan[r]) : chan[r][i] \in Events
                  /\ \A i \in 1 .. Len(got[r]) : got[r][i] \in Events
                  /\ offset[r] \in Nat
  BY MaxEventsAssumption DEF TypeOK

\* Appending to a sequence.
LEMMA Appended ==
    ASSUME NEW S, NEW s \in Seq(S), NEW e \in S
    PROVE  /\ Append(s, e) \in Seq(S) /\ Len(Append(s, e)) = Len(s) + 1
           /\ Append(s, e)[Len(s) + 1] = e
           /\ \A i \in 1 .. Len(s) : Append(s, e)[i] = s[i]
  OBVIOUS

LEMMA IncreasingAppend ==
    ASSUME NEW s \in Seq(Events), NEW e \in Events, Increasing(s),
           \A i \in 1 .. Len(s) : s[i].n < e.n
    PROVE  Increasing(Append(s, e))
<1>1. /\ Len(Append(s, e)) = Len(s) + 1 /\ Len(s) \in Nat
      /\ Append(s, e)[Len(s) + 1] = e
      /\ \A i \in 1 .. Len(s) : Append(s, e)[i] = s[i]
  BY Appended
<1>2. QED
  BY <1>1 DEF Increasing

-----------------------------------------------------------------------------
(* The job writes. *)

\* What a broadcast of e leaves to a stream.
Sent(r, e) ==
    \/ r \in subs /\ chan'[r] = Append(chan[r], e) /\ (r \in dropped' => r \in dropped)
    \/ chan'[r] = chan[r] /\ (r \in subs => r \in dropped')

LEMMA BroadcastSends ==
    ASSUME TypeOK, NEW e \in Events, Broadcast(e), Len(log) <= MaxEvents
    PROVE  /\ log' \in Seq(Events) /\ Len(log') = Len(log) + 1 /\ log'[Len(log) + 1] = e
           /\ \A i \in 1 .. Len(log) : log'[i] = log[i]
           /\ \A r \in Readers : Sent(r, e)
           /\ dropped \subseteq dropped' /\ dropped' \subseteq Readers
           /\ chan' \in [Readers -> Seq(Events)]
           /\ \A r \in Readers : Len(chan'[r]) <= SubBuffer
<1>1. log \in Seq(Events) /\ log' = Append(log, e)
  BY DEF TypeOK, Broadcast
<1>2. \A r \in Readers : chan'[r] = IF r \in subs /\ HasRoom(r) THEN Append(chan[r], e) ELSE chan[r]
  BY DEF Broadcast
<1>3. \A r \in Readers : chan[r] \in Seq(Events) /\ Append(chan[r], e) \in Seq(Events)
                         /\ Len(Append(chan[r], e)) = Len(chan[r]) + 1 /\ Len(chan[r]) \in Nat
  BY Appended DEF TypeOK
<1>4. chan' \in [Readers -> Seq(Events)]
  BY <1>2, <1>3 DEF Broadcast
<1>5. \A r \in Readers : Len(chan'[r]) <= SubBuffer
  <2> TAKE r \in Readers
  <2>1. CASE r \in subs /\ HasRoom(r)
    <3>1. Len(chan'[r]) = Len(chan[r]) + 1 /\ Len(chan[r]) < SubBuffer /\ Len(chan[r]) \in Nat
      BY <1>2, <1>3, <2>1 DEF HasRoom
    <3>2. QED
      BY <3>1, SubBufferAssumption
  <2>2. CASE ~(r \in subs /\ HasRoom(r))
    <3>1. chan'[r] = chan[r]
      BY <1>2, <2>2
    <3>2. QED
      BY <3>1 DEF TypeOK
  <2>3. QED
    BY <2>1, <2>2
<1>6. dropped' = dropped \cup {r \in subs : ~HasRoom(r)}
  BY DEF Broadcast
<1>7. \A r \in Readers : Sent(r, e)
  BY <1>2, <1>6 DEF Sent
<1>8. QED
  BY <1>1, <1>4, <1>5, <1>6, <1>7, Appended DEF TypeOK

\* A write or the end of the job, as the streams see it.
LEMMA BroadcastKeeps ==
    ASSUME IInv, ~over, NEW e \in Events, Broadcast(e), UNCHANGED <<subs, rpc, offset, got>>,
           over' = IsEnd(e), IsEnd(e) \/ e.n = Len(log) + 1, IsEnd(e) \/ Len(log) < MaxEvents
    PROVE  LogShape' /\ Streams'
<1> USE DEF IInv, Streams
<1>1. Len(log) <= MaxEvents /\ Len(log) \in Nat /\ MaxEvents \in Nat
  BY Lengths DEF LogShape
<1>2. /\ Len(log') = Len(log) + 1 /\ log'[Len(log) + 1] = e
      /\ \A i \in 1 .. Len(log) : log'[i] = log[i]
      /\ \A r \in Readers : Sent(r, e)
      /\ dropped \subseteq dropped'
  BY <1>1, BroadcastSends
<1>3. e.n >= Len(log) + 1 /\ e.n \in Nat
  BY <1>1, EventNumbers
<1>4. \A r \in Readers :
          /\ chan[r] \in Seq(Events) /\ Len(chan[r]) \in Nat /\ Len(got[r]) \in Nat
          /\ \A i \in 1 .. Len(chan[r]) : chan[r][i] \in Events /\ chan[r][i].n \in Nat
          /\ \A i \in 1 .. Len(got[r]) : got[r][i] \in Events /\ got[r][i].n \in Nat
          /\ offset[r] \in Nat
  BY Lengths, EventNumbers
<1>5. \A r \in Readers : Len(Append(chan[r], e)) = Len(chan[r]) + 1
          /\ Append(chan[r], e)[Len(chan[r]) + 1] = e
          /\ \A i \in 1 .. Len(chan[r]) : Append(chan[r], e)[i] = chan[r][i]
  BY <1>4, Appended
<1>6. \A r \in Readers : /\ Following(r)' => Following(r)
                         /\ Due(r)' => Due(r)
                         /\ got'[r] = got[r] /\ offset'[r] = offset[r] /\ rpc'[r] = rpc[r]
  BY DEF Following, Due
<1>7. LogShape'
  BY <1>1, <1>2 DEF LogShape, terminal
<1>8. ASSUME NEW r \in Readers
      PROVE  /\ Due(r)' => r \in subs'
             /\ rpc'[r] = "idle" => chan'[r] = <<>> /\ r \notin subs'
  BY <1>2, <1>6 DEF Subscribed, Sent
<1>9. ASSUME NEW r \in Readers
      PROVE  /\ Increasing(chan'[r])
             /\ \A i \in 1 .. Len(chan'[r]) : /\ chan'[r][i].n > offset'[r]
                                              /\ ~over' => chan'[r][i].n <= Len(log')
             /\ r \in subs' => offset'[r] <= Len(log')
  <2>1. CASE chan'[r] = chan[r]
    BY <1>1, <1>2, <1>4, <1>6, <2>1 DEF ChanOrder
  <2>2. CASE r \in subs /\ chan'[r] = Append(chan[r], e)
    <3>1. \A i \in 1 .. Len(chan[r]) : chan[r][i].n < e.n
      BY <1>1, <1>3, <1>4 DEF ChanOrder
    <3>2. Increasing(chan'[r])
      BY <1>4, <2>2, <3>1, IncreasingAppend DEF ChanOrder
    <3>3. e.n > offset[r] /\ (~over' => e.n <= Len(log'))
      BY <1>1, <1>2, <1>3, <1>4, <2>2 DEF ChanOrder
    <3>4. QED
      BY <1>1, <1>2, <1>4, <1>5, <1>6, <2>2, <3>2, <3>3 DEF ChanOrder
  <2>3. QED
    BY <1>2, <2>1, <2>2 DEF Sent
<1>10. ASSUME NEW r \in Readers
       PROVE  /\ Increasing(got'[r])
              /\ Following(r)' =>
                   /\ ~over' => \A i \in 1 .. Len(got'[r]) : got'[r][i].n <= Len(log')
                   /\ \A i \in 1 .. Len(got'[r]), k \in 1 .. Len(chan'[r]) :
                          got'[r][i].n < chan'[r][k].n
  <2>1. Increasing(got'[r])
    BY <1>6 DEF GotOrder
  <2>2. ASSUME Following(r)'
        PROVE  /\ \A i \in 1 .. Len(got[r]) : got[r][i].n <= Len(log)
               /\ \A i \in 1 .. Len(got[r]), k \in 1 .. Len(chan[r]) : got[r][i].n < chan[r][k].n
    BY <1>6, <2>2 DEF GotOrder
  <2>3. ASSUME Following(r)', NEW i \in 1 .. Len(got[r]), NEW k \in 1 .. Len(chan'[r])
        PROVE  got[r][i].n < chan'[r][k].n
    <3>1. CASE chan'[r] = chan[r]
      BY <2>2, <2>3, <3>1
    <3>2. CASE chan'[r] = Append(chan[r], e)
      BY SMTT(20), <1>1, <1>3, <1>4, <1>5, <2>2, <2>3, <3>2
    <3>3. QED
      BY <1>2, <3>1, <3>2 DEF Sent
  <2>4. QED
    BY <1>1, <1>2, <1>4, <1>6, <2>1, <2>2, <2>3
<1>11. ASSUME NEW r \in Readers
       PROVE  /\ \A i \in 1 .. Len(got'[r]) : IsEnd(got'[r][i]) => over' /\ got'[r][i] = terminal'
              /\ \A i \in 1 .. Len(chan'[r]) : IsEnd(chan'[r][i]) => over' /\ chan'[r][i] = terminal'
  <2>1. terminal' = e
    BY <1>2 DEF terminal
  <2>2. CASE chan'[r] = chan[r]
    BY <1>6, <2>2 DEF EndsAreTrue
  <2>3. CASE chan'[r] = Append(chan[r], e)
    BY <1>4, <1>5, <1>6, <2>1, <2>3 DEF EndsAreTrue
  <2>4. QED
    BY <1>2, <2>2, <2>3 DEF Sent
<1>12. ASSUME NEW r \in Readers, r \notin dropped', NEW n \in Nat, n <= Len(log), r \in subs,
              LogAfter(r, n)
       PROVE  /\ Len(chan'[r]) = Len(log') - n
              /\ \A i \in 1 .. Len(chan'[r]) : chan'[r][i] = log'[n + i]
  <2>1. chan'[r] = Append(chan[r], e)
    BY <1>2, <1>12 DEF Sent
  <2>2. Len(chan[r]) = Len(log) - n /\ \A i \in 1 .. Len(chan[r]) : chan[r][i] = log[n + i]
    BY <1>12 DEF LogAfter
  <2>3. n + (Len(chan[r]) + 1) = Len(log) + 1
    BY <1>1, <1>4, <2>2
  <2>4. \A i \in 1 .. Len(chan[r]) : chan'[r][i] = log'[n + i]
    BY <1>1, <1>2, <1>4, <1>5, <2>1, <2>2
  <2>5. chan'[r][Len(chan[r]) + 1] = log'[n + (Len(chan[r]) + 1)]
    BY <1>2, <1>5, <2>1, <2>3
  <2>6. QED
    BY <1>1, <1>2, <1>4, <1>5, <2>1, <2>2, <2>4, <2>5
<1>13. ASSUME NEW r \in Readers, r \notin dropped'
       PROVE  /\ rpc'[r] = "subscribed" /\ ~over' => LogAfter(r, offset[r])'
              /\ Following(r)' => /\ \A i \in 1 .. Len(got'[r]) : got'[r][i] = log'[i]
                                  /\ LogAfter(r, Len(got[r]))'
  <2>1. r \notin dropped
    BY <1>2, <1>13
  <2>2. ASSUME rpc[r] = "subscribed" PROVE LogAfter(r, offset[r])'
    <3>1. LogAfter(r, offset[r]) /\ r \in subs /\ offset[r] <= Len(log)
      BY <2>1, <2>2 DEF Follows, Tracks, Subscribed, Due, ChanOrder
    <3>2. QED
      BY <1>4, <1>6, <1>12, <1>13, <3>1 DEF LogAfter
  <2>3. ASSUME Following(r)
        PROVE  (\A i \in 1 .. Len(got[r]) : got[r][i] = log'[i]) /\ LogAfter(r, Len(got[r]))'
    <3>1. /\ LogAfter(r, Len(got[r])) /\ r \in subs
          /\ \A i \in 1 .. Len(got[r]) : got[r][i] = log[i]
      BY <2>1, <2>3 DEF Follows, Tracks, Subscribed, Due
    <3>2. Len(got[r]) <= Len(log)
      <4>1. Len(chan[r]) = Len(log) - Len(got[r])
        BY <3>1 DEF LogAfter
      <4>2. Len(chan[r]) \in Nat /\ Len(got[r]) \in Nat
        BY <1>4
      <4>3. QED
        BY <1>1, <4>1, <4>2
    <3>3. LogAfter(r, Len(got[r]))'
      BY <1>4, <1>6, <1>12, <1>13, <3>1, <3>2 DEF LogAfter
    <3>4. \A i \in 1 .. Len(got[r]) : got[r][i] = log'[i]
      <4>1. \A i \in 1 .. Len(got[r]) : i \in 1 .. Len(log)
        BY <1>1, <1>4, <3>2
      <4>2. QED
        BY <1>2, <3>1, <4>1
    <3>5. QED
      BY <3>3, <3>4
  <2>4. QED
    BY <1>6, <2>2, <2>3
<1>14. Subscribed' /\ ChanOrder'
  BY <1>8, <1>9 DEF Subscribed, ChanOrder
<1>15. GotOrder' /\ EndsAreTrue'
  BY <1>10, <1>11 DEF GotOrder, EndsAreTrue
<1>16. Follows'
  BY <1>13 DEF Follows, Tracks
<1>17. QED
  BY <1>7, <1>14, <1>15, <1>16 DEF Streams

-----------------------------------------------------------------------------
(* The streams *)

\* A step that leaves the log and what a stream has got.
LEMMA TracksKept ==
    ASSUME NEW q \in Readers, Tracks(q), UNCHANGED <<log, over>>,
           chan'[q] = chan[q], got'[q] = got[q],
           Following(q)' => Following(q),
           rpc'[q] = "subscribed" /\ ~over => rpc[q] = "subscribed" /\ offset'[q] = offset[q]
    PROVE  Tracks(q)'
<1>1. log' = log /\ over' = over
  OBVIOUS
<1>2. ASSUME rpc'[q] = "subscribed", ~over PROVE LogAfter(q, offset[q])'
  BY <1>1, <1>2 DEF Tracks, LogAfter
<1>3. ASSUME Following(q)'
      PROVE  (\A i \in 1 .. Len(got'[q]) : got'[q][i] = log'[i]) /\ LogAfter(q, Len(got[q]))'
  BY <1>1, <1>3 DEF Tracks, LogAfter
<1>4. QED
  BY <1>1, <1>2, <1>3 DEF Tracks

\* A step of r that leaves the log, the channels and what was written.
LEMMA StepKeeps ==
    ASSUME IInv, NEW r \in Readers, NEW pc,
           rpc' = [rpc EXCEPT ![r] = pc], pc # "idle", pc # "subscribed", pc # "replayed",
           pc = "live" => Following(r),
           \A q \in Readers \ {r} : q \in subs' <=> q \in subs,
           r \in subs' => r \in subs, pc = "live" => r \in subs',
           UNCHANGED <<log, over, chan, offset, got, dropped>>
    PROVE  LogShape' /\ Streams'
<1> USE DEF IInv, Streams
<1>1. \A q \in Readers : rpc'[q] = IF q = r THEN pc ELSE rpc[q]
  BY DEF TypeOK
<1>2. \A q \in Readers : /\ Following(q)' => Following(q)
                         /\ Due(q)' => Due(q) /\ q \in subs'
                         /\ rpc'[q] \in {"idle", "subscribed"} => rpc'[q] = rpc[q] /\ q # r
  BY <1>1 DEF Following, Due, Subscribed
<1>3. LogShape'
  BY DEF LogShape, terminal
<1>4. Subscribed'
  BY <1>2 DEF Subscribed
<1>5. ChanOrder'
  BY <1>2 DEF ChanOrder
<1>6. GotOrder' /\ EndsAreTrue'
  BY <1>2 DEF GotOrder, EndsAreTrue, terminal
<1>7. Follows'
  BY <1>2, TracksKept DEF Follows
<1>8. QED
  BY <1>3, <1>4, <1>5, <1>6, <1>7

LEMMA SubscribeKeeps ==
    ASSUME IInv, NEW r \in Readers, Subscribe(r)
    PROVE  LogShape' /\ Streams'
<1> USE DEF IInv, Streams
<1>1. /\ rpc[r] = "idle" /\ UNCHANGED <<log, over, chan, got, dropped>>
      /\ rpc'[r] = "subscribed" /\ \A q \in Readers \ {r} : rpc'[q] = rpc[q]
  BY DEF Subscribe, TypeOK
<1>2. /\ chan[r] = <<>> /\ Len(chan[r]) = 0
      /\ \A q \in Readers \ {r} : offset'[q] = offset[q] /\ (q \in subs' <=> q \in subs)
      /\ ~over => r \in subs' /\ offset'[r] = Len(log)
      /\ over => offset'[r] = offset[r] /\ (r \in subs' <=> r \in subs)
  BY <1>1 DEF Subscribe, TypeOK, Subscribed
<1>3. Len(log) \in Nat
  BY Lengths
<1>4. \A q \in Readers : /\ Following(q)' => Following(q) /\ q # r
                         /\ Due(q)' => q \in subs'
  BY <1>1, <1>2 DEF Following, Due, Subscribed
<1>5. LogShape'
  BY <1>1 DEF LogShape, terminal
<1>6. Subscribed'
  BY <1>1, <1>2, <1>4 DEF Subscribed
<1>7. ChanOrder'
  BY <1>1, <1>2, <1>3 DEF ChanOrder
<1>8. GotOrder' /\ EndsAreTrue'
  BY <1>1, <1>4 DEF GotOrder, EndsAreTrue, terminal
<1>9. Follows'
  <2>1. \A q \in Readers \ {r} : q \notin dropped' => Tracks(q)'
    BY <1>1, <1>2, <1>4, TracksKept DEF Follows
  <2>2. ~over => LogAfter(r, Len(log))
    <3>1. Len(log) - Len(log) = 0
      BY <1>3
    <3>2. QED
      BY <1>2, <3>1 DEF LogAfter
  <2>3. ~over => LogAfter(r, offset[r])'
    <3>1. chan' = chan /\ log' = log
      BY <1>1
    <3>2. QED
      BY <1>2, <2>2, <3>1 DEF LogAfter
  <2>4. Tracks(r)'
    BY <1>1, <1>4, <2>3 DEF Tracks
  <2>5. QED
    BY <2>1, <2>4 DEF Follows
<1>10. QED
  BY <1>5, <1>6, <1>7, <1>8, <1>9

\* What Replay emits of a job that is not over.
LEMMA PrefixIs ==
    ASSUME TypeOK, NEW n \in Nat, n <= Len(log)
    PROVE  /\ Prefix(n) \in Seq(Events) /\ Len(Prefix(n)) = n
           /\ \A i \in 1 .. n : Prefix(n)[i] = log[i]
<1>1. Len(log) \in Nat /\ \A i \in 1 .. Len(log) : log[i] \in Events
  BY Lengths
<1>2. Prefix(n) = SubSeq(log, 1, n)
  BY <1>1 DEF Prefix
<1>3. \A i \in 1 .. n : log[i] \in Events
  BY <1>1
<1>4. /\ SubSeq(log, 1, n) \in Seq(Events)
      /\ Len(SubSeq(log, 1, n)) = IF 1 <= n THEN n - 1 + 1 ELSE 0
      /\ \A i \in 1 .. n - 1 + 1 : SubSeq(log, 1, n)[i] = log[1 + i - 1]
  BY <1>3, SubSeqProperties
<1>5. QED
  BY <1>2, <1>4

LEMMA ReplayKeeps ==
    ASSUME IInv, NEW r \in Readers, Replay(r)
    PROVE  LogShape' /\ Streams' /\ got' \in [Readers -> Seq(Events)]
<1> USE DEF IInv, Streams
<1> DEFINE wrote == IF over THEN <<terminal>> ELSE Prefix(offset[r])
<1>1. /\ rpc[r] = "subscribed" /\ UNCHANGED <<log, over, subs, chan, offset, dropped>>
      /\ rpc'[r] = "replayed" /\ \A q \in Readers \ {r} : rpc'[q] = rpc[q]
      /\ got'[r] = wrote /\ \A q \in Readers \ {r} : got'[q] = got[q]
      /\ got' = [got EXCEPT ![r] = wrote]
  BY DEF Replay, TypeOK
<1>2. /\ Len(log) \in Nat /\ offset[r] \in Nat
      /\ \A i \in 1 .. Len(log) : log[i] \in Events /\ log[i].n \in Nat
  BY Lengths, EventNumbers
<1>3. CASE over
  <2>1. /\ wrote = <<terminal>> /\ terminal \in Events /\ wrote \in Seq(Events)
        /\ Len(wrote) = 1 /\ wrote[1] = terminal
    BY <1>2, <1>3 DEF LogShape, terminal
  <2> HIDE DEF wrote
  <2>2. got' \in [Readers -> Seq(Events)]
    BY <1>1, <2>1 DEF TypeOK
  <2>3. \A q \in Readers : /\ Following(q)' => Following(q) /\ q # r
                           /\ ~Due(q)' \/ Due(q)
    BY <1>1, <1>3 DEF Following, Due
  <2>4. LogShape' /\ ChanOrder'
    BY <1>1 DEF LogShape, ChanOrder, terminal
  <2>5. Subscribed'
    BY <1>1, <2>3 DEF Subscribed
  <2>6. GotOrder'
    <3>1. Increasing(got'[r])
      BY <1>1, <2>1 DEF Increasing
    <3>2. QED
      BY <1>1, <2>3, <3>1 DEF GotOrder
  <2>7. EndsAreTrue'
    <3>1. \A i \in 1 .. Len(got'[r]) : got'[r][i] = terminal
      BY <1>1, <2>1
    <3>2. QED
      BY <1>1, <1>3, <3>1 DEF EndsAreTrue, terminal
  <2>8. Follows'
    <3>1. \A q \in Readers \ {r} : q \notin dropped' => Tracks(q)'
      BY <1>1, <2>3, TracksKept DEF Follows
    <3>2. Tracks(r)'
      BY <1>1, <1>3, <2>3 DEF Tracks
    <3>3. QED
      BY <3>1, <3>2 DEF Follows
  <2>9. QED
    BY <2>2, <2>4, <2>5, <2>6, <2>7, <2>8
<1>4. CASE ~over
  <2>1. r \in subs /\ offset[r] <= Len(log)
    BY <1>1, <1>4 DEF Subscribed, Due, ChanOrder
  <2>2. /\ wrote \in Seq(Events) /\ Len(wrote) = offset[r]
        /\ \A i \in 1 .. offset[r] : wrote[i] = log[i]
    BY <1>2, <1>4, <2>1, PrefixIs
  <2> HIDE DEF wrote
  <2>3. got' \in [Readers -> Seq(Events)]
    BY <1>1, <2>2 DEF TypeOK
  <2>4. \A i \in 1 .. Len(wrote) : wrote[i].n = i /\ ~IsEnd(wrote[i])
    BY <1>2, <1>4, <2>1, <2>2 DEF LogShape
  <2>5. \A q \in Readers \ {r} : Following(q)' => Following(q)
    BY <1>1 DEF Following
  <2>6. \A q \in Readers : Due(q)' => Due(q)
    BY <1>1, <1>4 DEF Following, Due
  <2>7. LogShape' /\ ChanOrder'
    BY <1>1 DEF LogShape, ChanOrder, terminal
  <2>8. Subscribed'
    BY <1>1, <2>6 DEF Subscribed
  <2>9. GotOrder'
    <3>1. Increasing(wrote)
      BY <1>2, <2>2, <2>4 DEF Increasing
    <3>2. \A i \in 1 .. Len(wrote) : wrote[i].n <= Len(log)
      BY <1>2, <2>1, <2>2, <2>4
    <3>3. \A i \in 1 .. Len(wrote), k \in 1 .. Len(chan[r]) : wrote[i].n < chan[r][k].n
      <4>1. \A k \in 1 .. Len(chan[r]) : chan[r][k].n > offset[r] /\ chan[r][k].n \in Nat
        BY Lengths, EventNumbers DEF ChanOrder
      <4>2. QED
        BY <1>2, <2>2, <2>4, <4>1
    <3>4. QED
      BY <1>1, <2>5, <3>1, <3>2, <3>3 DEF GotOrder
  <2>10. EndsAreTrue'
    BY SMTT(20), <1>1, <2>4 DEF EndsAreTrue, terminal
  <2>11. Follows'
    <3>1. r \notin dropped => LogAfter(r, Len(wrote))
      BY <1>1, <1>4, <2>2 DEF Follows, Tracks
    <3>2. \A i \in 1 .. Len(wrote) : wrote[i] = log[i]
      BY <2>2
    <3>3. \A q \in Readers \ {r} : q \notin dropped' => Tracks(q)'
      BY <1>1, <2>5, TracksKept DEF Follows
    <3>4. r \notin dropped => LogAfter(r, Len(got[r]))'
      BY <1>1, <3>1 DEF LogAfter
    <3>5. r \notin dropped => Tracks(r)'
      BY <1>1, <3>2, <3>4 DEF Tracks
    <3>6. QED
      BY <1>1, <3>3, <3>5 DEF Follows
  <2>12. QED
    BY <2>3, <2>7, <2>8, <2>9, <2>10, <2>11
<1>5. QED
  BY <1>3, <1>4

\* One event moves from a channel to what was written.
LEMMA OneMoved ==
    /\ \A g, i \in Nat : g + (i + 1) = (g + 1) + i
    /\ \A c, g, n \in Nat : c + 1 = n - g => c = n - (g + 1)
  OBVIOUS

LEMMA Regained == \A c, g, n \in Nat : c = n - g => g + c = n
  OBVIOUS

\* An index of a concatenation is in its first or its second part.
LEMMA Split ==
    \A g, c \in Nat : \A i \in 1 .. g + c :
        IF i <= g THEN i \in 1 .. g ELSE i - g \in 1 .. c /\ g + (i - g) = i
  OBVIOUS

LEMMA ReceiveKeeps ==
    ASSUME IInv, NEW r \in Readers, Receive(r)
    PROVE  /\ LogShape' /\ Streams'
           /\ got' \in [Readers -> Seq(Events)] /\ chan' \in [Readers -> Seq(Events)]
           /\ \A q \in Readers : Len(chan'[q]) <= SubBuffer
<1> USE DEF IInv, Streams
<1> DEFINE e == Head(chan[r])
           rest == Tail(chan[r])
           wrote == Append(got[r], e)
<1>1. /\ rpc[r] = "live" /\ UNCHANGED <<log, over, subs, rpc, offset, dropped>>
      /\ got' = [got EXCEPT ![r] = wrote] /\ chan' = [chan EXCEPT ![r] = rest]
      /\ chan[r] # <<>>
  BY DEF Receive
<1>2. /\ chan[r] \in Seq(Events) /\ Len(chan[r]) \in Nat /\ Len(chan[r]) # 0
      /\ got[r] \in Seq(Events) /\ Len(got[r]) \in Nat /\ Len(log) \in Nat
      /\ \A i \in 1 .. Len(chan[r]) : chan[r][i] \in Events /\ chan[r][i].n \in Nat
      /\ \A i \in 1 .. Len(got[r]) : got[r][i] \in Events /\ got[r][i].n \in Nat
      /\ offset[r] \in Nat
  <2>1. chan[r] \in Seq(Events) /\ Len(chan[r]) # 0
    BY <1>1, EmptySeq DEF TypeOK
  <2>2. QED
    BY <2>1, Lengths, EventNumbers
<1>3. /\ e = chan[r][1] /\ e \in Events /\ rest \in Seq(Events) /\ Len(rest) = Len(chan[r]) - 1
      /\ \A i \in 1 .. Len(rest) : rest[i] = chan[r][i + 1]
  BY <1>1, <1>2, HeadTailProperties
<1> HIDE DEF e, rest
<1>17. /\ Len(rest) \in Nat /\ Len(chan[r]) \in Nat /\ Len(got[r]) \in Nat /\ Len(log) \in Nat
       /\ Len(chan[r]) = Len(rest) + 1 /\ 1 \in 1 .. Len(chan[r])
       /\ e.n \in Nat
       /\ \A i \in 1 .. Len(rest) : i \in 1 .. Len(chan[r])
  BY <1>2, <1>3, EventNumbers
<1>4. /\ wrote \in Seq(Events) /\ Len(wrote) = Len(got[r]) + 1 /\ wrote[Len(got[r]) + 1] = e
      /\ \A i \in 1 .. Len(got[r]) : wrote[i] = got[r][i]
  BY <1>2, <1>3, Appended
<1>5. /\ got'[r] = wrote /\ chan'[r] = rest
      /\ \A q \in Readers \ {r} : got'[q] = got[q] /\ chan'[q] = chan[q]
  BY <1>1 DEF TypeOK
<1>6. /\ \A i \in 1 .. Len(got[r]) : got[r][i].n < e.n
      /\ Increasing(got[r]) /\ Increasing(chan[r])
      /\ \A i \in 1 .. Len(chan[r]) : chan[r][i].n > offset[r] /\ (~over => chan[r][i].n <= Len(log))
      /\ ~over => \A i \in 1 .. Len(got[r]) : got[r][i].n <= Len(log)
  BY <1>1, <1>2, <1>3 DEF GotOrder, ChanOrder, Following
<1>7. Increasing(wrote)
  BY <1>2, <1>3, <1>6, IncreasingAppend
<1> HIDE DEF wrote
<1>8. \A i \in 1 .. Len(rest) : i + 1 \in 1 .. Len(chan[r]) /\ rest[i].n \in Nat
  BY <1>2, <1>3
<1>9. \A q \in Readers : (Following(q)' <=> Following(q)) /\ (Due(q)' <=> Due(q))
  BY <1>1 DEF Following, Due
<1>10. LogShape' /\ Subscribed'
  <2>1. rpc[r] # "idle"
    BY <1>1
  <2>2. QED
    BY <1>1, <1>5, <1>9, <2>1 DEF LogShape, terminal, Subscribed
<1>11. ChanOrder'
  <2>1. Increasing(rest)
    <3> SUFFICES ASSUME NEW i \in 1 .. Len(rest), NEW k \in 1 .. Len(rest), i < k
                 PROVE  rest[i].n < rest[k].n
      BY DEF Increasing
    <3>1. i + 1 \in 1 .. Len(chan[r]) /\ k + 1 \in 1 .. Len(chan[r]) /\ i + 1 < k + 1
      BY <1>8
    <3>2. rest[i] = chan[r][i + 1] /\ rest[k] = chan[r][k + 1]
      BY <1>3
    <3>3. QED
      BY <1>6, <3>1, <3>2 DEF Increasing
  <2>2. \A i \in 1 .. Len(rest) : rest[i].n > offset[r] /\ (~over => rest[i].n <= Len(log))
    BY <1>3, <1>6, <1>8
  <2>3. QED
    BY <1>1, <1>5, <2>1, <2>2 DEF ChanOrder
<1>12. GotOrder'
  <2>1. \A k \in 1 .. Len(rest) : e.n < rest[k].n
    <3> SUFFICES ASSUME NEW k \in 1 .. Len(rest) PROVE e.n < rest[k].n
      OBVIOUS
    <3>1. k + 1 \in 1 .. Len(chan[r]) /\ 1 \in 1 .. Len(chan[r]) /\ 1 < k + 1
      BY <1>8, <1>17
    <3>2. rest[k] = chan[r][k + 1] /\ e = chan[r][1]
      BY <1>3
    <3>3. QED
      BY <1>6, <3>1, <3>2 DEF Increasing
  <2>2. \A i \in 1 .. Len(wrote), k \in 1 .. Len(rest) : wrote[i].n < rest[k].n
    <3> TAKE i \in 1 .. Len(wrote), k \in 1 .. Len(rest)
    <3>1. e.n \in Nat /\ e.n < rest[k].n /\ rest[k].n \in Nat
      BY <1>3, <1>8, <2>1, EventNumbers
    <3>2. CASE i \in 1 .. Len(got[r])
      <4>1. wrote[i] = got[r][i] /\ got[r][i].n < e.n /\ got[r][i].n \in Nat
        BY <1>2, <1>4, <1>6, <3>2
      <4>2. QED
        BY <3>1, <4>1
    <3>3. CASE i = Len(got[r]) + 1
      BY <1>4, <3>1, <3>3
    <3>4. QED
      BY <1>4, <1>17, <3>2, <3>3
  <2>3. ~over => \A i \in 1 .. Len(wrote) : wrote[i].n <= Len(log)
    <3> SUFFICES ASSUME ~over, NEW i \in 1 .. Len(wrote) PROVE wrote[i].n <= Len(log)
      OBVIOUS
    <3>1. CASE i \in 1 .. Len(got[r])
      BY <1>4, <1>6, <3>1
    <3>2. CASE i = Len(got[r]) + 1
      BY <1>3, <1>4, <1>6, <1>17, <3>2
    <3>3. QED
      BY <1>4, <1>17, <3>1, <3>2
  <2>4. QED
    BY <1>1, <1>5, <1>7, <1>9, <2>2, <2>3 DEF GotOrder
<1>13. EndsAreTrue'
  <2>1. IsEnd(e) => over /\ e = terminal
    BY <1>2, <1>3 DEF EndsAreTrue
  <2>2. \A i \in 1 .. Len(wrote) : IsEnd(wrote[i]) => over /\ wrote[i] = terminal
    <3> TAKE i \in 1 .. Len(wrote)
    <3>1. CASE i \in 1 .. Len(got[r])
      BY <1>4, <3>1 DEF EndsAreTrue
    <3>2. CASE i = Len(got[r]) + 1
      BY <1>4, <2>1, <3>2
    <3>3. QED
      BY <1>2, <1>4, <3>1, <3>2
  <2>3. \A i \in 1 .. Len(rest) : IsEnd(rest[i]) => over /\ rest[i] = terminal
    BY <1>3, <1>8 DEF EndsAreTrue
  <2>4. QED
    <3>1. terminal' = terminal /\ over' = over
      BY <1>1 DEF terminal
    <3>2. QED
      BY <1>5, <2>2, <2>3, <3>1 DEF EndsAreTrue
<1>14. Follows'
  <2>1. ASSUME r \notin dropped
        PROVE  /\ \A i \in 1 .. Len(wrote) : wrote[i] = log[i]
               /\ Len(rest) = Len(log) - Len(wrote)
               /\ \A i \in 1 .. Len(rest) : rest[i] = log[Len(wrote) + i]
    <3>1. /\ \A i \in 1 .. Len(got[r]) : got[r][i] = log[i]
          /\ Len(chan[r]) = Len(log) - Len(got[r])
          /\ \A i \in 1 .. Len(chan[r]) : chan[r][i] = log[Len(got[r]) + i]
      BY <1>1, <2>1 DEF Follows, Tracks, Following, LogAfter
    <3>2. e = log[Len(got[r]) + 1]
      BY <1>3, <1>17, <3>1
    <3>7. Len(wrote) = Len(got[r]) + 1 /\ Len(wrote) \in Nat
      BY <1>4, <1>17
    <3>3. \A i \in 1 .. Len(wrote) : wrote[i] = log[i]
      <4> TAKE i \in 1 .. Len(wrote)
      <4>1. i \in 1 .. Len(got[r]) \/ i = Len(got[r]) + 1
        BY <1>17, <3>7
      <4>2. QED
        BY <1>4, <3>1, <3>2, <4>1
    <3>4. Len(rest) = Len(log) - Len(wrote)
      <4>1. Len(chan[r]) = Len(log) - Len(got[r])
        BY <3>1
      <4>2. /\ Len(chan[r]) = Len(rest) + 1 /\ Len(rest) \in Nat /\ Len(got[r]) \in Nat
            /\ Len(log) \in Nat
        BY <1>17
      <4>3. Len(rest) + 1 = Len(log) - Len(got[r])
        BY <4>1, <4>2
      <4>4. Len(rest) = Len(log) - (Len(got[r]) + 1)
        BY <4>2, <4>3, OneMoved, Zenon
      <4>5. QED
        BY <3>7, <4>4, Zenon
    <3>5. \A i \in 1 .. Len(rest) : rest[i] = log[Len(wrote) + i]
      <4> TAKE i \in 1 .. Len(rest)
      <4>1. rest[i] = chan[r][i + 1] /\ i + 1 \in 1 .. Len(chan[r]) /\ i \in Nat
        BY <1>3, <1>8
      <4>2. Len(got[r]) + (i + 1) = Len(wrote) + i
        <5>1. Len(got[r]) \in Nat /\ i \in Nat
          BY <1>17, <4>1
        <5>2. Len(got[r]) + (i + 1) = (Len(got[r]) + 1) + i
          BY <5>1, OneMoved, Zenon
        <5>3. QED
          BY <3>7, <5>2, Zenon
      <4>3. QED
        BY <3>1, <4>1, <4>2
    <3>6. QED
      BY <3>3, <3>4, <3>5
  <2>2. r \notin dropped => LogAfter(r, Len(got[r]))'
    <3>1. log' = log
      BY <1>1
    <3>2. QED
      BY <1>5, <2>1, <3>1 DEF LogAfter
  <2>3. r \notin dropped => Tracks(r)'
    BY <1>1, <1>5, <2>1, <2>2 DEF Tracks
  <2>4. \A q \in Readers \ {r} : q \notin dropped => Tracks(q)'
    BY <1>1, <1>5, <1>9, TracksKept DEF Follows
  <2>5. QED
    BY <1>1, <2>3, <2>4 DEF Follows
<1>15. /\ got' \in [Readers -> Seq(Events)] /\ chan' \in [Readers -> Seq(Events)]
       /\ \A q \in Readers : Len(chan'[q]) <= SubBuffer
  <2>1. \A q \in Readers : Len(chan[q]) <= SubBuffer
    BY DEF TypeOK
  <2>2. Len(rest) <= SubBuffer
    BY <1>2, <1>3, <2>1, SubBufferAssumption
  <2>3. QED
    BY <1>1, <1>3, <1>4, <1>5, <2>1, <2>2 DEF TypeOK
<1>16. QED
  BY <1>10, <1>11, <1>12, <1>13, <1>14, <1>15

-----------------------------------------------------------------------------
(* The theorems *)

LEMMA InitIInv == Init => IInv
<1> SUFFICES ASSUME Init PROVE IInv
  OBVIOUS
<1>1. /\ log = <<>> /\ ~over /\ subs = {} /\ Len(log) = 0
      /\ \A r \in Readers : /\ chan[r] = <<>> /\ got[r] = <<>> /\ rpc[r] = "idle"
                            /\ Len(chan[r]) = 0 /\ Len(got[r]) = 0
  BY DEF Init
<1>2. TypeOK
  <2>1. <<>> \in Seq(Events) /\ Len(<<>>) = 0
    BY EmptySeq
  <2>2. 0 \in 0 .. MaxEvents /\ 0 <= SubBuffer /\ 0 <= MaxEvents + 1
    BY SubBufferAssumption, MaxEventsAssumption
  <2>3. log \in Seq(Events) /\ Len(log) <= MaxEvents + 1 /\ over \in BOOLEAN
    BY <1>1, <2>1, <2>2 DEF Init
  <2>4. chan \in [Readers -> Seq(Events)] /\ got \in [Readers -> Seq(Events)]
    BY <2>1 DEF Init
  <2>5. \A r \in Readers : Len(chan[r]) <= SubBuffer
    BY <1>1, <2>2
  <2>6. QED
    BY <2>2, <2>3, <2>4, <2>5 DEF Init, TypeOK, Active
<1>3. LogShape
  BY <1>1, MaxEventsAssumption DEF LogShape
<1>4. Subscribed
  BY <1>1 DEF Subscribed, Due, Following
<1>5. ChanOrder /\ GotOrder /\ EndsAreTrue
  BY <1>1 DEF ChanOrder, GotOrder, EndsAreTrue, Increasing
<1>6. Follows
  BY <1>1 DEF Follows, Tracks, Following
<1>7. QED
  BY <1>2, <1>3, <1>4, <1>5, <1>6 DEF IInv, Streams

LEMMA JobWrites ==
    ASSUME IInv, NEW e \in Events, ~over, Broadcast(e), over' = IsEnd(e),
           IsEnd(e) \/ e.n = Len(log) + 1, IsEnd(e) \/ Len(log) < MaxEvents,
           UNCHANGED <<subs, rpc, offset, got>>, closed' \in {closed, closed \cup subs}
    PROVE  IInv'
<1>1. TypeOK /\ Len(log) <= MaxEvents /\ Len(log) \in Nat /\ MaxEvents \in Nat
  BY Lengths DEF IInv, LogShape
<1>2. LogShape' /\ Streams'
  BY BroadcastKeeps
<1>3. /\ log' \in Seq(Events) /\ Len(log') = Len(log) + 1
      /\ dropped' \subseteq Readers /\ chan' \in [Readers -> Seq(Events)]
      /\ \A r \in Readers : Len(chan'[r]) <= SubBuffer
  BY <1>1, BroadcastSends
<1>4. Len(log') <= MaxEvents + 1
  BY <1>1, <1>3
<1>5. over' \in BOOLEAN
  BY DEF IsEnd
<1>6. TypeOK'
  BY <1>1, <1>3, <1>4, <1>5 DEF TypeOK
<1>7. QED
  BY <1>2, <1>6 DEF IInv

LEMMA StreamMoves ==
    ASSUME IInv, NEW r \in Readers,
           CheckFinished(r) \/ EndOfStream(r) \/ Leave(r) \/ Unsubscribe(r)
    PROVE  IInv'
<1>1. PICK pc \in {"live", "ending", "leaving", "ended", "left"} :
          /\ rpc' = [rpc EXCEPT ![r] = pc]
          /\ pc = "live" => Following(r) /\ r \in subs'
          /\ subs' \in {subs, subs \ {r}}
          /\ UNCHANGED <<log, over, chan, closed, offset, got, dropped>>
  <2>1. CASE CheckFinished(r)
    <3>1. rpc[r] = "replayed" /\ UNCHANGED <<log, over, subs, chan, closed, offset, got, dropped>>
      BY <2>1 DEF CheckFinished
    <3>2. CASE over
      BY <2>1, <3>1, <3>2 DEF CheckFinished
    <3>3. CASE ~over
      <4>1. Following(r) /\ r \in subs
        BY <3>1, <3>3 DEF IInv, Streams, Subscribed, Due, Following
      <4>2. QED
        BY <2>1, <3>1, <3>3, <4>1 DEF CheckFinished
    <3>4. QED
      BY <3>2, <3>3
  <2>2. CASE EndOfStream(r) \/ Leave(r)
    BY <2>2 DEF EndOfStream, Leave
  <2>3. CASE Unsubscribe(r)
    <3>1. rpc' = [rpc EXCEPT ![r] = IF rpc[r] = "ending" THEN "ended" ELSE "left"]
      BY <2>3 DEF Unsubscribe, IInv, TypeOK
    <3>2. QED
      BY <2>3, <3>1 DEF Unsubscribe
  <2>4. QED
    BY <2>1, <2>2, <2>3
<1>2. /\ pc # "idle" /\ pc # "subscribed" /\ pc # "replayed"
      /\ \A q \in Readers \ {r} : q \in subs' <=> q \in subs
      /\ r \in subs' => r \in subs
      /\ UNCHANGED <<log, over, chan, offset, got, dropped>>
  BY <1>1
<1>3. LogShape' /\ Streams'
  BY <1>1, <1>2, StepKeeps
<1>4. TypeOK'
  BY <1>1 DEF IInv, TypeOK, Active
<1>5. QED
  BY <1>3, <1>4 DEF IInv

LEMMA NextIInv == IInv /\ [Next]_vars => IInv'
<1> SUFFICES ASSUME IInv, [Next]_vars PROVE IInv'
  OBVIOUS
<1>0. TypeOK
  BY DEF IInv
<1>1. CASE UNCHANGED vars
  <2>1. UNCHANGED <<log, over, subs, chan, closed, rpc, offset, got, dropped>>
    BY <1>1 DEF vars, streamVars
  <2>2. TypeOK' /\ LogShape'
    BY <2>1 DEF IInv, TypeOK, LogShape, terminal
  <2>3. Subscribed' /\ ChanOrder'
    BY <2>1 DEF IInv, Streams, Subscribed, ChanOrder, Due, Following
  <2>4. GotOrder' /\ EndsAreTrue'
    BY <2>1 DEF IInv, Streams, GotOrder, EndsAreTrue, Following, terminal
  <2>5. Follows'
    BY <2>1 DEF IInv, Streams, Follows, Tracks, LogAfter, Following
  <2>6. QED
    BY <2>2, <2>3, <2>4, <2>5 DEF IInv, Streams
<1>2. CASE Write
  <2> DEFINE e == Progress(Len(log) + 1)
  <2>1. /\ ~over /\ Broadcast(e) /\ over' = over /\ Len(log) < MaxEvents
        /\ UNCHANGED <<subs, rpc, offset, got>> /\ closed' = closed
    BY <1>2 DEF Write, streamVars
  <2>2. Len(log) \in Nat /\ MaxEvents \in Nat /\ over = FALSE
    BY <1>0, <2>1, Lengths DEF TypeOK
  <2>3. e \in Events /\ e.n = Len(log) + 1 /\ IsEnd(e) = FALSE
    <3>1. Len(log) + 1 \in 1 .. MaxEvents
      BY <2>1, <2>2
    <3>2. QED
      BY <3>1 DEF Events, Progress, IsEnd, Outcomes
  <2> HIDE DEF e
  <2>4. over' = IsEnd(e)
    BY <2>1, <2>2, <2>3
  <2>5. QED
    BY <2>1, <2>3, <2>4, JobWrites
<1>3. ASSUME NEW o \in Outcomes, Finish(o) PROVE IInv'
  <2> DEFINE e == EndEvent(o)
  <2>1. /\ ~over /\ Broadcast(e) /\ over' = TRUE
        /\ UNCHANGED <<subs, rpc, offset, got>> /\ closed' = closed \cup subs
    BY <1>3 DEF Finish, streamVars
  <2>2. e \in Events /\ IsEnd(e) = TRUE
    BY DEF Events, EndEvent, IsEnd
  <2> HIDE DEF e
  <2>3. QED
    BY <2>1, <2>2, JobWrites
<1>4. ASSUME NEW r \in Readers, Subscribe(r) PROVE IInv'
  <2>1. Len(log) \in Nat /\ MaxEvents \in Nat /\ (~over => Len(log) <= MaxEvents)
    BY <1>0, Lengths DEF IInv, LogShape
  <2>2. Len(log) \in 0 .. MaxEvents \/ over
    BY <2>1
  <2>3. TypeOK'
    BY <1>0, <1>4, <2>2 DEF Subscribe, TypeOK, Active
  <2>4. QED
    BY <1>4, <2>3, SubscribeKeeps DEF IInv
<1>5. ASSUME NEW r \in Readers, Replay(r) PROVE IInv'
  <2>1. got' \in [Readers -> Seq(Events)] /\ LogShape' /\ Streams'
    BY <1>5, ReplayKeeps
  <2>2. /\ rpc' = [rpc EXCEPT ![r] = "replayed"]
        /\ UNCHANGED <<log, over, subs, chan, closed, offset, dropped>>
    BY <1>5 DEF Replay
  <2>3. TypeOK'
    BY <1>0, <2>1, <2>2 DEF TypeOK, Active
  <2>4. QED
    BY <2>1, <2>3 DEF IInv
<1>6. ASSUME NEW r \in Readers, Receive(r) PROVE IInv'
  <2>1. /\ LogShape' /\ Streams'
        /\ got' \in [Readers -> Seq(Events)] /\ chan' \in [Readers -> Seq(Events)]
        /\ \A q \in Readers : Len(chan'[q]) <= SubBuffer
    BY <1>6, ReceiveKeeps
  <2>2. UNCHANGED <<log, over, subs, closed, rpc, offset, dropped>>
    BY <1>6 DEF Receive
  <2>3. TypeOK'
    BY <1>0, <2>1, <2>2 DEF TypeOK
  <2>4. QED
    BY <2>1, <2>3 DEF IInv
<1>7. QED
  BY <1>1, <1>2, <1>3, <1>4, <1>5, <1>6, StreamMoves DEF Next, StreamStep

\* The inductive invariant of Job.Write, Finish, Subscribe, Replay, Stream and
\* Unsubscribe, in whatever order they take the job's lock.
THEOREM Invariant == Spec => []IInv
<1>1. QED
  BY InitIInv, NextIInv, PTL DEF Spec

\* The log, the channels and what was written to the clients keep their types, and
\* no channel ever holds more than its capacity.
THEOREM StreamTypes == Spec => []TypeOK
<1>1. IInv => TypeOK
  BY DEF IInv
<1>2. QED
  BY <1>1, Invariant, PTL

\* However Write, Finish, Subscribe and Replay interleave, and whatever a full
\* channel drops, a client gets each event at most once and in the log's order.
THEOREM DeliveredInOrder == Spec => []InOrderOnce
<1>1. IInv => InOrderOnce
  <2> SUFFICES ASSUME IInv, NEW r \in Readers PROVE Increasing(got[r]) /\ DOMAIN got[r] = 1 .. Len(got[r])
    BY DEF InOrderOnce, Increasing
  <2>1. got[r] \in Seq(Events)
    BY Lengths DEF IInv
  <2>2. QED
    BY <2>1, LenProperties DEF IInv, Streams, GotOrder
<1>2. QED
  BY <1>1, Invariant, PTL

\* The replayed part ends where the subscription begins: a stream that follows the
\* job and lost nothing to a full channel has written, or has waiting, every event.
THEOREM DeliveredWhole == Spec => []NothingMissing
<1>1. IInv => NothingMissing
  <2> SUFFICES ASSUME IInv, NEW r \in Readers, rpc[r] = "live", r \notin dropped
               PROVE  got[r] \o chan[r] = log
    BY DEF NothingMissing
  <2> DEFINE all == got[r] \o chan[r]
  <2>1. /\ got[r] \in Seq(Events) /\ chan[r] \in Seq(Events) /\ log \in Seq(Events)
        /\ Len(got[r]) \in Nat /\ Len(chan[r]) \in Nat /\ Len(log) \in Nat
    BY Lengths DEF IInv, TypeOK
  <2>2. /\ \A i \in 1 .. Len(got[r]) : got[r][i] = log[i]
        /\ Len(chan[r]) = Len(log) - Len(got[r])
        /\ \A i \in 1 .. Len(chan[r]) : chan[r][i] = log[Len(got[r]) + i]
    BY DEF IInv, Streams, Follows, Tracks, Following, LogAfter
  <2>3. /\ all \in Seq(Events) /\ Len(all) = Len(got[r]) + Len(chan[r])
        /\ \A i \in 1 .. Len(got[r]) + Len(chan[r]) :
               all[i] = IF i <= Len(got[r]) THEN got[r][i] ELSE chan[r][i - Len(got[r])]
    BY <2>1, ConcatProperties
  <2> HIDE DEF all
  <2>4. Len(all) = Len(log)
    BY <2>1, <2>2, <2>3, Regained, Zenon
  <2>5. \A i \in 1 .. Len(all) : all[i] = log[i]
    <3> TAKE i \in 1 .. Len(all)
    <3>0. i \in 1 .. Len(got[r]) + Len(chan[r]) /\ Len(got[r]) \in Nat /\ Len(chan[r]) \in Nat
      BY <2>1, <2>3
    <3>1. CASE i <= Len(got[r])
      <4>1. i \in 1 .. Len(got[r])
        BY <3>0, <3>1, Split
      <4>2. QED
        BY <2>2, <2>3, <3>0, <3>1, <4>1
    <3>2. CASE ~(i <= Len(got[r]))
      <4>1. i - Len(got[r]) \in 1 .. Len(chan[r]) /\ Len(got[r]) + (i - Len(got[r])) = i
        BY <3>0, <3>2, Split
      <4>2. QED
        BY <2>2, <2>3, <3>0, <3>2, <4>1
    <3>3. QED
      BY <3>1, <3>2
  <2>6. QED
    BY <2>1, <2>3, <2>4, <2>5, SeqEqual DEF all
<1>2. QED
  BY <1>1, Invariant, PTL

\* PostJobStream of eservectl never reports an end the job did not have: a
\* terminal event that was written is the job's, and the last one written.
THEOREM CtlReportsTruth == Spec => []CtlVerdictSound
<1>1. IInv => CtlVerdictSound
  <2> SUFFICES ASSUME IInv, NEW r \in Readers, NEW i \in DOMAIN got[r], IsEnd(got[r][i])
               PROVE  got[r][Len(got[r])] = terminal
    BY DEF CtlVerdictSound, CtlVerdict
  <2>1. /\ DOMAIN got[r] = 1 .. Len(got[r]) /\ Len(got[r]) \in Nat
        /\ \A k \in 1 .. Len(got[r]) : got[r][k] \in Events
    BY Lengths, LenProperties DEF IInv
  <2>2. i \in 1 .. Len(got[r]) /\ Len(got[r]) \in 1 .. Len(got[r])
    BY <2>1
  <2>3. got[r][i].n = MaxEvents + 1 /\ got[r][Len(got[r])].n <= MaxEvents + 1
        /\ got[r][Len(got[r])].n \in Nat
    BY <2>1, <2>2, EventNumbers
  <2>4. i = Len(got[r])
    <3>1. i < Len(got[r]) => got[r][i].n < got[r][Len(got[r])].n
      BY <2>2 DEF IInv, Streams, GotOrder, Increasing
    <3>2. QED
      BY <2>1, <2>2, <2>3, <3>1, MaxEventsAssumption
  <2>5. QED
    BY <2>2, <2>4 DEF IInv, Streams, EndsAreTrue
<1>2. QED
  BY <1>1, Invariant, PTL
=============================================================================

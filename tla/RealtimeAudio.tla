--------------------------- MODULE RealtimeAudio ---------------------------
(***************************************************************************)
(* The microphone of Link (realtime_audio.py): Qt delivers chunks of       *)
(* samples, a bounded queue hands them to a thread, and a ring buffer      *)
(* keeps the last of them for the analysis.  A sample is its number in the *)
(* capture; analyses are left out but for when they happen.  Chunks hold   *)
(* whole frames, and stop() is taken to be able to join the worker.        *)
(***************************************************************************)
EXTENDS Integers, Sequences, SequencesExt

CONSTANTS
  RingCapacity, Hop, QueueCapacity, ChunkSizes,
  MaxSamples, MaxCaptures \* bounds

ASSUME RealtimeAssumption ==
  /\ RingCapacity \in Nat \ {0} /\ Hop \in Nat \ {0} /\ QueueCapacity \in Nat \ {0}
  /\ ChunkSizes \subseteq Nat \ {0}
  /\ MaxSamples \in Nat /\ MaxCaptures \in Nat

VARIABLES
  capture,    \* the engine: "off", "on", or "stopping" while it joins the worker
  chunks,     \* chunks for the worker; << >> is the None that ends it
  worker,     \* "none", "waiting", or "busy" with the chunk in hand
  hand,
  ring, writeIndex, ringSize, \* AudioRingBuffer
  sinceAnalysis, \* samples pushed since the last analysis
  captured,   \* samples delivered so far
  pushed,     \* every sample the worker has pushed, in order
  analysed,   \* what the last analysis saw
  captures

queueVars == <<chunks, worker, hand>>
ringVars == <<ring, writeIndex, ringSize, sinceAnalysis, pushed, analysed>>
realtimeVars == <<capture, queueVars, ringVars, captured, captures>>

RealtimeTypeOK ==
  /\ capture \in {"off", "on", "stopping"}
  /\ worker \in {"none", "waiting", "busy"}
  /\ Len(chunks) <= QueueCapacity
  /\ ring \in [0 .. RingCapacity - 1 -> 0 .. MaxSamples]
  /\ writeIndex \in 0 .. RingCapacity - 1 /\ ringSize \in 0 .. RingCapacity
  /\ sinceAnalysis \in 0 .. Hop - 1
  /\ captured \in 0 .. MaxSamples /\ captures \in 0 .. MaxCaptures

Cleared == [i \in 0 .. RingCapacity - 1 |-> 0]

RealtimeInit ==
  /\ capture = "off" /\ captured = 0 /\ captures = 0
  /\ chunks = << >> /\ worker = "none" /\ hand = << >>
  /\ ring = Cleared /\ writeIndex = 0 /\ ringSize = 0
  /\ sinceAnalysis = 0 /\ pushed = << >> /\ analysed = << >>

\* start() with a new worker; a device that does not open stops it again.
StartCapture ==
  /\ capture = "off" /\ captures < MaxCaptures
  /\ captures' = captures + 1
  /\ capture' \in {"on", "stopping"}
  /\ worker' = "waiting" /\ chunks' = IF capture' = "on" THEN << >> ELSE <<<<>>>>
  /\ UNCHANGED <<hand, ringVars, captured>>

\* submit() never waits: a full queue loses its oldest chunk.
Put(chunk) ==
  chunks' = IF Len(chunks) < QueueCapacity THEN Append(chunks, chunk)
           ELSE Append(Tail(chunks), chunk)

DeliverChunk(n) ==
  /\ capture = "on" /\ captured + n <= MaxSamples
  /\ Put([i \in 1 .. n |-> captured + i])
  /\ captured' = captured + n
  /\ UNCHANGED <<capture, worker, hand, ringVars, captures>>

\* The worker takes a chunk, one more perhaps after it was told to stop; then,
\* or when it finds None, it ends.
Take ==
  /\ worker = "waiting"
  /\ \/ /\ chunks # << >> /\ Head(chunks) # << >>
        /\ hand' = Head(chunks) /\ chunks' = Tail(chunks)
        /\ worker' = "busy"
     \/ /\ capture = "stopping"
        /\ worker' = "none" /\ UNCHANGED <<hand, chunks>>
  /\ UNCHANGED <<capture, ringVars, captured, captures>>

\* Variant: a long chunk leaves the write index where it was.
AppendToRingAnywhere(chunk) ==
  IF Len(chunk) >= RingCapacity
  THEN /\ ring' = [i \in DOMAIN ring |-> chunk[Len(chunk) - RingCapacity + 1 + i]]
       /\ ringSize' = RingCapacity
       /\ UNCHANGED writeIndex
  ELSE /\ ring' = [i \in DOMAIN ring |->
                    LET offset == (i - writeIndex) % RingCapacity
                    IN IF offset < Len(chunk) THEN chunk[offset + 1] ELSE ring[i]]
       /\ writeIndex' = (writeIndex + Len(chunk)) % RingCapacity
       /\ ringSize' = IF ringSize + Len(chunk) < RingCapacity
                      THEN ringSize + Len(chunk) ELSE RingCapacity

\* AudioRingBuffer.append: a chunk as long as the buffer replaces it all, any
\* other is written from the write index on and around the end.
AppendToRing(chunk) ==
  IF Len(chunk) >= RingCapacity
  THEN /\ ring' = [i \in DOMAIN ring |-> chunk[Len(chunk) - RingCapacity + 1 + i]]
       /\ writeIndex' = 0 /\ ringSize' = RingCapacity
  ELSE /\ ring' = [i \in DOMAIN ring |->
                    LET offset == (i - writeIndex) % RingCapacity
                    IN IF offset < Len(chunk) THEN chunk[offset + 1] ELSE ring[i]]
       /\ writeIndex' = (writeIndex + Len(chunk)) % RingCapacity
       /\ ringSize' = IF ringSize + Len(chunk) < RingCapacity
                      THEN ringSize + Len(chunk) ELSE RingCapacity

\* AudioRingBuffer.latest, of a buffer in any state.
LatestOf(buffer, index, size, count) ==
  LET n == IF count < size THEN count ELSE size
  IN [i \in 1 .. n |-> buffer[(index - n + i - 1) % RingCapacity]]

\* RealtimeAudioAnalyzer.push; a result is dropped once a stop was asked for.
Push ==
  /\ worker = "busy"
  /\ AppendToRing(hand)
  /\ pushed' = pushed \o hand
  /\ sinceAnalysis' = (sinceAnalysis + Len(hand)) % Hop
  /\ analysed' = IF sinceAnalysis + Len(hand) >= Hop /\ capture = "on"
                 THEN LatestOf(ring', writeIndex', ringSize', RingCapacity) ELSE analysed
  /\ hand' = << >> /\ worker' = "waiting"
  /\ UNCHANGED <<capture, chunks, captured, captures>>

\* stop() by the user, by an error of the source or because the device is
\* gone: the worker is told and given None.
StopCapture ==
  /\ capture = "on"
  /\ capture' = "stopping"
  /\ Put(<<>>)
  /\ UNCHANGED <<worker, hand, ringVars, captured, captures>>

\* The worker has ended: the queue is drained and the analyser reset.
Joined ==
  /\ capture = "stopping" /\ worker = "none"
  /\ capture' = "off" /\ chunks' = << >>
  /\ ring' = Cleared /\ writeIndex' = 0 /\ ringSize' = 0
  /\ sinceAnalysis' = 0 /\ pushed' = << >> /\ analysed' = << >>
  /\ UNCHANGED <<worker, hand, captured, captures>>

RealtimeNext ==
  \/ StartCapture \/ Take \/ Push \/ StopCapture \/ Joined
  \/ \E n \in ChunkSizes : DeliverChunk(n)

RealtimeSpec == RealtimeInit /\ [][RealtimeNext]_realtimeVars

\* realtime_audio.py:82-106: whatever the sizes of the chunks and wherever the
\* buffer wraps, latest(n) is the last n samples pushed, in their order, and
\* nothing of an earlier capture; an analysis saw such a run of samples.
RingKeepsLatest ==
  /\ \A n \in 0 .. RingCapacity :
       LET seen == LatestOf(ring, writeIndex, ringSize, n)
       IN /\ IsSuffix(seen, pushed)
          /\ Len(seen) = n \/ seen = pushed
  /\ \A i, j \in DOMAIN analysed : i < j => analysed[i] < analysed[j]

\* realtime_audio.py:434-463: a stopped capture has no worker and nothing
\* queued, and what is queued is in order with the newest chunk kept.
CaptureStops ==
  /\ capture = "off" => worker = "none" /\ chunks = << >> /\ ringSize = 0
  /\ \A i, j \in DOMAIN chunks :
       i < j /\ chunks[i] # << >> /\ chunks[j] # << >> => chunks[i][1] < chunks[j][1]
  /\ capture = "on" /\ chunks # << >> =>
       LET last == chunks[Len(chunks)] IN last[Len(last)] = captured
=============================================================================

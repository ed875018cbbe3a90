------------------------------ MODULE Reorder ------------------------------
(***************************************************************************)
(* The reorder buffer (src/src/helper/reorder.cpp): LCEVC frames go in in  *)
(* decode order and come out lowest PTS first, once enough of them are     *)
(* held, each paired with the base frame at the front of the frame queue.  *)
(*                                                                         *)
(* The operations are actions for a caller to conjoin.  The caller owns    *)
(* the base frames, frames is every one of them so far; popped counts the  *)
(* ones taken from the front of the queue.                                 *)
(***************************************************************************)
EXTENDS Integers, Sequences, FiniteSets

VARIABLES
  heap,               \* m_data
  requiredQueueSize,  \* m_requiredQueueSize
  endOfStream,        \* m_endOfStream
  popped              \* base frames taken from the frame queue

reorderVars == <<heap, requiredQueueSize, endOfStream, popped>>

ReorderInit ==
  /\ heap = {}
  /\ requiredQueueSize = 0
  /\ endOfStream = FALSE
  /\ popped = 0

\* One call of enqueue for each of the LCEVC frames.
Enqueue(lcevcFrames, maxReorderFrames) ==
  /\ heap' = heap \union lcevcFrames
  /\ requiredQueueSize' =
       IF lcevcFrames = {} THEN requiredQueueSize ELSE maxReorderFrames
  /\ UNCHANGED <<endOfStream, popped>>

SetEndOfStream ==
  /\ endOfStream' = TRUE
  /\ UNCHANGED <<heap, requiredQueueSize, popped>>

-----------------------------------------------------------------------------
(* dequeue                                                                 *)

\* A fault: frames come out in any order.
AnyOfHeap == heap

\* m_data.top(); equal timestamps may come out in any order.
Tops == {l \in heap : \A m \in heap : l.pts <= m.pts}

\* A fault: the end of the stream does not let the last frames out.
CanDequeueFullOnly(frames, hasBase) ==
  /\ requiredQueueSize # 0
  /\ Cardinality(heap) >= requiredQueueSize
  /\ heap # {}
  /\ hasBase => popped < Len(frames)

\* A fault: a frame is let out one too early.
CanDequeueEarly(frames, hasBase) ==
  /\ requiredQueueSize # 0
  /\ endOfStream \/ Cardinality(heap) >= requiredQueueSize - 1
  /\ heap # {}
  /\ hasBase => popped < Len(frames)

\* The early return.  (A raw stream is let past an empty frame queue and
\* then finds no base frame to match, which is the same return.)
CanDequeue(frames, hasBase) ==
  /\ requiredQueueSize # 0
  /\ endOfStream \/ Cardinality(heap) >= requiredQueueSize
  /\ heap # {}
  /\ hasBase => popped < Len(frames)

FrontBase(frames) == frames[popped + 1]

\* The LCEVCWithBase records dequeue may return; base is a set of at most one.
Matches(frames, hasBase) ==
  IF ~CanDequeue(frames, hasBase) THEN {}
  ELSE IF hasBase
  THEN {[lcevc |-> l, base |-> {FrontBase(frames)}] :
          l \in {t \in Tops : t.pts = FrontBase(frames).pts}}
  ELSE {[lcevc |-> l, base |-> {}] : l \in Tops}

\* dequeue returns match.
Dequeue(match, frames, hasBase) ==
  /\ match \in Matches(frames, hasBase)
  /\ heap' = heap \ {match.lcevc}
  /\ popped' = IF hasBase THEN popped + 1 ELSE popped
  /\ UNCHANGED <<requiredQueueSize, endOfStream>>

\* dequeue takes a base frame the head of the heap does not belong to, and
\* returns nothing.
DequeueMismatch(frames, hasBase) ==
  /\ hasBase
  /\ CanDequeue(frames, hasBase)
  /\ Matches(frames, hasBase) = {}
  /\ popped' = popped + 1
  /\ UNCHANGED <<heap, requiredQueueSize, endOfStream>>

DequeueNothing(frames, hasBase) ==
  /\ ~CanDequeue(frames, hasBase)
  /\ UNCHANGED reorderVars
=============================================================================

------------------------- MODULE MCBufferSimulation -------------------------
(***************************************************************************)
(* Runs of up to four frames. A sample interval is two ticks.              *)
(***************************************************************************)
EXTENDS BufferSimulation

Even == [fillPerStep |-> 2, initialFill |-> 4]
Odd == [fillPerStep |-> 2, initialFill |-> 3]
Slow == [fillPerStep |-> 1, initialFill |-> 6]

Usual == [t \in Tanks |-> IF t = "combined" THEN Even ELSE Slow]

\* Timestamps in order and out of it, spaced and not.
PtsSequences ==
  {<<>>, <<5>>, <<0, 4>>, <<0, 3, 6>>, <<0, 3, 7, 10>>, <<0, 4, 9>>,
   <<3, 6, 10, 15>>, <<0, 1, 2>>, <<0, 0, 3>>, <<0, 6, 3>>, <<6, 3, 0>>}

WithBase(p) ==
  [pts |-> p, base |-> {p}, lcevcWireSize |-> 1, remainingWireSize |-> 3,
   totalWireSize |-> 4]

WithoutBase(p) ==
  [pts |-> p, base |-> {}, lcevcWireSize |-> 2, remainingWireSize |-> 0,
   totalWireSize |-> 0]

RunOf(s) ==
  [frames |-> s, simulate |-> TRUE, timebase |-> "positive",
   modelFile |-> "read", model |-> Usual, step |-> 2, late |-> {}, spare |-> FALSE]

FrameSequences ==
  {[i \in DOMAIN p |-> WithBase(p[i])] : p \in PtsSequences}
    \union {[i \in DOMAIN p |-> WithoutBase(p[i])] : p \in PtsSequences}

\* Every way of rounding.
Rounded(r) ==
  {[r EXCEPT !.late = l, !.spare = s] :
     l \in SUBSET DOMAIN r.frames, s \in BOOLEAN}

GoodRuns ==
  {[RunOf(s) EXCEPT !.simulate = b, !.model["combined"] = c] :
     s \in FrameSequences, b \in BOOLEAN, c \in {Even, Odd}}

\* One thing is wrong.
Models == [fillPerStep : {-2, 0, 2}, initialFill : {-4, 0, 4}]

Spoilt(r) ==
  {[r EXCEPT !.timebase = "none"], [r EXCEPT !.timebase = "negative"],
   [r EXCEPT !.modelFile = "unreadable"], [r EXCEPT !.modelFile = "mistyped"],
   [r EXCEPT !.step = 0]}
    \union {[r EXCEPT !.model[t] = m] : t \in Tanks, m \in Models}

SpoiltFrames(s) ==
  {[s EXCEPT ![i].base = {}] : i \in DOMAIN s}
    \union {[s EXCEPT ![i].base = {99}] : i \in DOMAIN s}
    \union {[s EXCEPT ![i].remainingWireSize = 0] : i \in DOMAIN s}
    \union {[s EXCEPT ![i].remainingWireSize = 0, ![i].totalWireSize = 0] :
              i \in DOMAIN s}

AllRuns ==
  UNION ({Rounded(r) : r \in GoodRuns}
           \union {Spoilt(RunOf(s)) : s \in FrameSequences}
           \union {{RunOf(q) : q \in SpoiltFrames(s)} : s \in FrameSequences})

\* Nothing is wrong.
PlainRuns == UNION {Rounded(RunOf(s)) : s \in FrameSequences}

=============================================================================

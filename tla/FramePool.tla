------------------------------ MODULE FramePool -----------------------------
(***************************************************************************)
(* What a physical frame allocator promises its callers: a pool of frames, *)
(* opened once.  A caller asks for a run of a length, below an address;    *)
(* the answer to that request is the lowest run of frames of that length   *)
(* that is free as a whole and ends at or below that address, or nothing   *)
(* when there is no such run.  A frame is in the pool or held by a caller, *)
(* never both, and only a caller that holds a frame returns it.            *)
(***************************************************************************)
EXTENDS Naturals

CONSTANTS
  Frames,     \* the frame numbers that may ever be in the pool
  FrameSize,  \* bytes in a frame
  Requests    \* what callers ask for: records [count, limit]

VARIABLES
  open,     \* the pool has been filled
  free,     \* frames in the pool
  held,     \* frames callers hold
  request,  \* the last request: a number of frames, and the address they lie below
  waiting,  \* it has not been answered yet
  answer    \* its answer: a run [start, count], or NoRun

pool == <<open, free, held>>
vars == <<pool, request, waiting, answer>>

NoRequest == [count |-> 0, limit |-> 0]
NoRun == [start |-> 0, count |-> 0]
Run(start, count) == start .. (start + count - 1)

\* The run from start satisfies the request r.
Fits(r, start) ==
  /\ r.count > 0
  /\ (start + r.count) * FrameSize <= r.limit
  /\ Run(start, r.count) \subseteq free

Init ==
  /\ open = FALSE /\ free = {} /\ held = {}
  /\ request = NoRequest /\ waiting = FALSE /\ answer = NoRun

Open ==
  /\ ~open /\ open' = TRUE
  /\ free' \subseteq Frames
  /\ UNCHANGED <<held, request, waiting, answer>>

Ask(r) ==
  /\ open /\ ~waiting
  /\ request' = r /\ waiting' = TRUE /\ answer' = NoRun
  /\ UNCHANGED pool

Grant ==
  \E start \in free :
    /\ waiting /\ Fits(request, start)
    /\ \A lower \in free : lower < start => ~Fits(request, lower)
    /\ free' = free \ Run(start, request.count)
    /\ held' = held \cup Run(start, request.count)
    /\ waiting' = FALSE /\ answer' = [start |-> start, count |-> request.count]
    /\ UNCHANGED <<open, request>>

Refuse ==
  /\ waiting /\ \A start \in free : ~Fits(request, start)
  /\ waiting' = FALSE /\ answer' = NoRun
  /\ UNCHANGED <<pool, request>>

\* A request that is asked and refused in one step.
RefuseAtOnce(r) ==
  /\ open /\ ~waiting
  /\ \A start \in free : ~Fits(r, start)
  /\ request' = r /\ answer' = NoRun
  /\ UNCHANGED <<pool, waiting>>

Release ==
  /\ ~waiting
  /\ free \subseteq free' /\ free' \subseteq free \cup held
  /\ held' = held \ free'
  /\ UNCHANGED <<open, request, waiting, answer>>

Next ==
  \/ Open
  \/ \E r \in Requests : Ask(r) \/ RefuseAtOnce(r)
  \/ Grant
  \/ Refuse
  \/ Release

Spec == Init /\ [][Next]_vars
=============================================================================

\* Two clients and two test threads, or three clients: calls that a responder answers or a thread
\* waits for, casts that a thread waits for; responders that may raise, frames
\* that are not RPC frames, clients that leave, and a stop() at any time.
CONSTANTS
    Conns = {k1, k2, k3}
    k1 = k1
    k2 = k2
    k3 = k3
    Users = {u1, u2}
    CastSids = {c}
    CallSids = {q, w}
    HandledCasts = {}
    Responders = {q}
    OddKinds = {"short"}
    Raises = TRUE
    MaxFrames = 1
    MaxCloses = 1
    MaxStops = 1
SPECIFICATION MCSpec
INVARIANTS CastsConserved RepliesRouted
PROPERTIES LoopEnds ServedWhileAlive
CHECK_DEADLOCK FALSE

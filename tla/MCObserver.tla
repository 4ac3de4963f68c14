------------------------------ MODULE MCObserver ------------------------------
(* Instances of TraceObserver, CodecLedger and CallAddr: a behaviour is one of  *)
(* any.  The variables of the others have the values they end with, or none.    *)
EXTENDS TraceObserver, CodecLedger, CallAddr

CONSTANTS
    pkg, dep,    \* a package and one that it imports
    ours, other, \* codecs
    v1, v2       \* what a file may hold

MCImports == (pkg :> <<dep>>) @@ (dep :> <<>>)

\* The roots agree, differ in any of their files, or one lacks the import.
MCSources ==
    LET With(f) == (ours :> [p \in Paths |-> v1]) @@ (other :> f)
    IN  {With([p \in Paths |-> IF p \in S THEN v2 ELSE v1]) : S \in SUBSET Paths}
        \cup {With([p \in Paths |-> IF p = dep THEN Absent ELSE v1])}

NoObserver ==
    /\ slow = FALSE /\ kaStop = 0 /\ kaThread = 0 /\ isSet = {} /\ waitsOn = <<>>
    /\ beater = [b \in Beaters |-> "none"] /\ seq = 0 /\ main = "none" /\ starts = 0
    /\ slowDecode = FALSE /\ sessions = 0 /\ asked = 0 /\ reply = Nothing
    /\ members = {} /\ leaves = <<>> /\ disturbed = FALSE /\ group = 0 /\ instance = 0 /\ wanted = <<>>
    /\ receiver = [n \in Sessions |-> "none"] /\ inbox = <<>> /\ records = 0 /\ probeUp = FALSE

NoCodec ==
    /\ source = <<>> /\ compiled = <<>> /\ out = <<>> /\ loaded = <<>>
    /\ modules = [c \in Codecs |-> <<>>] /\ thread = <<>> /\ asks = 0 /\ edits = 0 /\ met = FALSE

NoCall ==
    /\ con = "true" /\ now = 0 /\ t0 = 0 /\ attempts = 0
    /\ ca = "answered" /\ clock = 0 /\ tries = 0 /\ cached = FALSE

MCInit ==
    \/ ObserverInit /\ ~(slow /\ slowDecode) /\ NoCodec /\ NoCall
    \/ CodecInit /\ NoObserver /\ pc = "codec" /\ NoCall
    \/ CallInit /\ NoObserver /\ pc = "call" /\ NoCodec

MCNext ==
    \/ pc \notin {"codec", "call"} /\ ObserverNext /\ UNCHANGED <<codecVars, callVars, connVars>>
    \/ pc = "codec" /\ CodecNext /\ UNCHANGED <<allVars, callVars, connVars>>
    \/ pc = "call" /\ CallNext /\ UNCHANGED <<allVars, codecVars>>

MCSpec ==
    /\ MCInit /\ [][MCNext]_<<allVars, codecVars, callVars, connVars>>
    /\ ObserverFairness
=============================================================================

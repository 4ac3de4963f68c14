----------------------------- MODULE StateChart -----------------------------
(***************************************************************************)
(* What a `statem` block of a .art promises its author (the docstrings of  *)
(* generators/statem.py): a state reacts to a message, and to its own      *)
(* timeout, as the first rule says that its `on` blocks have for it; what  *)
(* it has no rule for leaves it as it is; `after` arms a timeout of the    *)
(* state that is entered; `halt` is the end.  A block that names a state   *)
(* it does not declare, or declares one twice, never runs.                 *)
(***************************************************************************)
EXTENDS Naturals

CONSTANTS
    None,      \* what is not there
    Halted,    \* after `halt`
    Off,       \* before the node is started
    Messages   \* those that the node may be sent

VARIABLES
    block,   \* the `statem` block
    now,     \* the state of the node
    armed,   \* a timeout of that state is running
    heard    \* the message that the node is to answer, or None

vars == <<block, now, armed, heard>>

\* The rules of state s for a trigger, a message or None for the timeout, by
\* their places in the text.
RulesFor(s, trigger) ==
    {p \in UNION {{i} \X DOMAIN block.on_blocks[i].rules : i \in DOMAIN block.on_blocks} :
        /\ block.on_blocks[p[1]].state = s
        /\ block.on_blocks[p[1]].rules[p[2]].event = trigger}

First(places) ==
    CHOOSE p \in places : \A q \in places : p[1] < q[1] \/ (p[1] = q[1] /\ p[2] <= q[2])

Sound ==
    LET declared == {block.states[i] : i \in DOMAIN block.states}
        targets == UNION {{r.target : r \in {b.rules[j] : j \in DOMAIN b.rules}} :
                             b \in {block.on_blocks[i] : i \in DOMAIN block.on_blocks}}
    IN  /\ \A i, j \in DOMAIN block.states : block.states[i] = block.states[j] => i = j
        /\ block.initial \in declared
        /\ \A i \in DOMAIN block.on_blocks : block.on_blocks[i].state \in declared
        /\ \A t \in targets : ~t.halt => t.state \in declared

Init == now = Off /\ armed = FALSE /\ heard = None

Start ==
    /\ now = Off /\ Sound
    /\ now' = block.initial
    /\ UNCHANGED <<block, armed, heard>>

Running == now \notin {Off, Halted}

Hear(m) ==
    /\ Running /\ heard = None
    /\ heard' = m
    /\ UNCHANGED <<block, now, armed>>

\* A target without `after` ends the timeout of the state that is left; whether
\* it does when the state enters itself, the block does not say.
Enter(target) ==
    IF target.halt
    THEN now' = Halted /\ armed' = FALSE
    ELSE /\ now' = target.state
         /\ \/ armed' = (target.timeout # None)
            \/ target.state = now /\ target.timeout = None /\ armed' = armed

\* What a trigger leads to.  A timeout that no rule speaks of just runs out.
React(trigger) ==
    LET found == RulesFor(now, trigger)
    IN  IF found = {} THEN now' = now /\ armed' = IF trigger = None THEN FALSE ELSE armed
        ELSE LET p == First(found)
             IN  Enter(block.on_blocks[p[1]].rules[p[2]].target)

\* The message that was heard is answered, and no other.
Answer ==
    /\ Running /\ heard # None
    /\ React(heard)
    /\ heard' = None
    /\ UNCHANGED block

Timeout ==
    /\ Running /\ armed
    /\ React(None)
    /\ UNCHANGED <<block, heard>>

Next == Start \/ (\E m \in Messages : Hear(m)) \/ Answer \/ Timeout

Spec == Init /\ [][Next]_vars

=============================================================================

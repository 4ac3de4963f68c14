---------------------------- MODULE StateMachine ----------------------------
(***************************************************************************)
(* From the `statem` block of a node to the C++ class that runs it:        *)
(* generators/statem.py lowers the parsed block and checks it, the         *)
(* template Daemon.statem.hh.j2 writes one handle_event per message, a     *)
(* chain of tests on the state, and would write one for the timeout.       *)
(* GenStateM.hh, which calls them and keeps the timer, is in another       *)
(* repository.                                                             *)
(***************************************************************************)
EXTENDS Naturals, FiniteSets, Picks

CONSTANTS
    None,      \* what is not there
    Halted,    \* the state after halt()
    Off,       \* before start_statem()
    Leaf,      \* a function: the name of a message without its package
    Own,       \* the messages of the node's own package
    Blocks     \* the blocks that a model may hold

Factor == [ms |-> 1, s |-> 1000, m |-> 60000, h |-> 3600000]

\* What the parser makes of a .art: lists; no state is called what only the
\* generated class knows; `after` has a number and a unit.
ASSUME BlocksAssumption ==
    /\ Halted # Off /\ None \notin Nat \cup Own
    /\ \A b \in Blocks :
          /\ IsList(b.states) /\ IsList(b.on_blocks)
          /\ {None, Halted, Off} \cap ToSet(b.states) = {}
          /\ \A o \in ToSet(b.on_blocks) :
                /\ IsList(o.rules)
                /\ \A r \in ToSet(o.rules) :
                      /\ r.target.halt \in BOOLEAN
                      /\ r.target.timeout # None =>
                            r.target.timeout.count \in Nat /\ r.target.timeout.unit \in DOMAIN Factor

VARIABLES
    block,     \* the parsed block
    stage,     \* how far the node has come
    code,      \* what the header holds
    now,       \* the state of the node
    armed,     \* GenStateM's timer of that state is running
    heard      \* the message that was posted to the node and is not handled yet, or None

machineVars == <<block, stage, code, now, armed, heard>>

----------------------------------------------------------------------------
(* statem_from_ast                                                          *)

Milliseconds(duration) == duration.count * Factor[duration.unit]

TargetFromAst(t) ==
    [halt |-> t.halt,
     state |-> IF t.halt THEN None ELSE t.state,
     timeout_ms |-> IF t.halt \/ t.timeout = None THEN None ELSE Milliseconds(t.timeout)]

RuleFromAst(r) == [target |-> TargetFromAst(r.target), event_fqn |-> r.event, is_timeout |-> r.event = None]

Lowered(b) ==
    [states |-> b.states, initial |-> b.initial, data_fqn |-> b.data_type,
     blocks |-> [i \in DOMAIN b.on_blocks |->
                    [state |-> b.on_blocks[i].state,
                     rules |-> [j \in DOMAIN b.on_blocks[i].rules |->
                                   RuleFromAst(b.on_blocks[i].rules[j])]]]]

\* The conditions under which a TransitionTarget and a TransitionRule exist.
IsTarget(t) ==
    /\ t.halt <=> t.state = None
    /\ t.halt => t.timeout_ms = None

IsRule(r) == r.is_timeout <=> r.event_fqn = None

\* Nothing raises ValueError, the constructors and validate().
Valid(spec) ==
    LET declared == ToSet(spec.states)
    IN  /\ \A b \in ToSet(spec.blocks) : \A r \in ToSet(b.rules) : IsRule(r) /\ IsTarget(r.target)
        /\ spec.states # <<>>
        /\ IsInjective(spec.states)
        /\ spec.initial \in declared
        /\ \A b \in ToSet(spec.blocks) :
              /\ b.state \in declared
              /\ \A r \in ToSet(b.rules) : r.target.state \in declared \cup {None}

----------------------------------------------------------------------------
(* The template                                                             *)

\* The rules in the order of the text, each with the state of its block.
InTextOrder(spec) ==
    FlattenSeq([i \in DOMAIN spec.blocks |->
                   [j \in DOMAIN spec.blocks[i].rules |->
                       [state |-> spec.blocks[i].state, rule |-> spec.blocks[i].rules[j]]]])

\* The template looks for a rule for the timeout in loops, and sets has_timeout
\* in them; what a loop of a template sets is gone after it.
HasTimeout(spec) == FALSE

Cases(spec) ==
    LET rules == InTextOrder(spec)
    IN  IF HasTimeout(spec) THEN KeptAt(rules, {i \in DOMAIN rules : rules[i].rule.is_timeout})
        ELSE <<>>

\* The rules for messages, and those for the messages of one name.
ForMessages(spec) ==
    LET rules == InTextOrder(spec)
    IN  KeptAt(rules, {i \in DOMAIN rules : ~rules[i].rule.is_timeout})

\* Fault: every message is tested for the rules of all.
ForName_Any(rules, l) == rules

ForName(rules, l) == KeptAt(rules, {i \in DOMAIN rules : Leaf[rules[i].rule.event_fqn] = l})

\* events_by_msg: the tests of each handle_event, in their order.
Overloads(spec) ==
    [l \in {Leaf[e.rule.event_fqn] : e \in ToSet(ForMessages(spec))} |->
        ForName(ForMessages(spec), l)]

Header(spec) ==
    [initial |-> spec.initial, events_by_msg |-> Overloads(spec), cases |-> Cases(spec)]

Compiled == {Leaf[m] : m \in Own}

\* The aliases are of messages of the node's own package, whatever package the
\* block takes them from; no switch has two cases for one state.
HeaderCompiles(header, spec) ==
    /\ DOMAIN header.events_by_msg \subseteq Compiled
    /\ spec.data_fqn # None => Leaf[spec.data_fqn] \in Compiled
    /\ \A i, j \in DOMAIN header.cases : header.cases[i].state = header.cases[j].state => i = j

\* The tests that apply in state s, by their places.
TestsFor(entries, s) == {i \in DOMAIN entries : entries[i].state = s}

\* handle_event, whose first test that applies counts, and what GenStateM does
\* with its result: keep_state(), halt(), transition_to() with a timer, or without
\* one.  A timer that runs when the state enters itself without one is the
\* runtime's affair.
Apply(entries, running) ==
    LET found == TestsFor(entries, now)
        target == entries[CHOOSE i \in found : \A j \in found : i <= j].rule.target
    IN  IF found = {} THEN now' = now /\ armed' = running
        ELSE IF target.halt THEN now' = Halted /\ armed' = FALSE
        ELSE /\ now' = target.state
             /\ \/ armed' = (target.timeout_ms \notin {None, 0})
                \/ target.state = now /\ target.timeout_ms \in {None, 0} /\ armed' = running

----------------------------------------------------------------------------

StateMachineInit ==
    /\ block \in Blocks
    /\ stage = "parsed" /\ code = <<>>
    /\ now = Off /\ armed = FALSE /\ heard = None

\* gen-app; ValueError ends it before a file is written.
GenApp ==
    /\ stage = "parsed"
    /\ LET spec == Lowered(block)
       IN  IF Valid(spec) THEN stage' = "generated" /\ code' = Header(spec)
           ELSE stage' = "refused" /\ code' = code
    /\ UNCHANGED <<block, now, armed, heard>>

Build ==
    /\ stage = "generated"
    /\ stage' = IF HeaderCompiles(code, Lowered(block)) THEN "built" ELSE "broken"
    /\ UNCHANGED <<block, code, now, armed, heard>>

StartStatem ==
    /\ stage = "built"
    /\ stage' = "up"
    /\ now' = code.initial
    /\ UNCHANGED <<block, code, armed, heard>>

\* post_event, of one message at a time.
PostEvent(m) ==
    /\ stage = "up" /\ now # Halted /\ heard = None
    /\ heard' = m
    /\ UNCHANGED <<block, stage, code, now, armed>>

\* C++ takes the handle_event of the message's type, which is one of the node's own
\* package; a message that has none does nothing (it cannot even be posted).
HandleEvent ==
    /\ stage = "up" /\ now # Halted /\ heard # None
    /\ IF Leaf[heard] \in DOMAIN code.events_by_msg
       THEN Apply(code.events_by_msg[Leaf[heard]], armed)
       ELSE UNCHANGED <<now, armed>>
    /\ heard' = None
    /\ UNCHANGED <<block, stage, code>>

\* The timer matures: StateTimeoutMsg.  Without a switch, the base class, which
\* knows no rules, keeps the state.
StateTimeout ==
    /\ stage = "up" /\ armed
    /\ Apply(code.cases, FALSE)
    /\ UNCHANGED <<block, stage, code, heard>>

StateMachineNext ==
    \/ GenApp \/ Build \/ StartStatem
    \/ \E m \in Own : PostEvent(m)
    \/ HandleEvent \/ StateTimeout

----------------------------------------------------------------------------

Chart == INSTANCE StateChart WITH Messages <- Own

\* The blocks that the class does justice to.  It has no rules for the timeout, no timer
\* for `after 0ms`, and knows messages by their names: none of the block's is called
\* like another of the node's own package.
ReadRight(b) ==
    \A o \in ToSet(b.on_blocks) : \A r \in ToSet(o.rules) :
        /\ r.event # None
        /\ r.target.timeout # None => r.target.timeout.count > 0
        /\ \A m \in Own : Leaf[m] = Leaf[r.event] => m = r.event

(* The class that is written message by message answers each message as the   *)
(* block that is written state by state says of that message: with the first  *)
(* rule that the state has for it, in whatever order the `on` blocks and      *)
(* rules are and however often they repeat a state or a message, and not at   *)
(* all if it has none.  A block that does not fit its states is never run.    *)
ImplementsChart == Chart!Spec

(* "handle_event for StateTimeoutMsg covering states with `timeout -> ...`    *)
(* rules" (Daemon.statem.hh.j2): when the timeout of a state with such a rule *)
(* runs out, the node does what the first one says.                           *)
TimeoutTaken ==
    [][StateTimeout /\ Chart!RulesFor(now, None) # {} => Chart!Timeout]_machineVars

StateMachineSpec == StateMachineInit /\ [][StateMachineNext]_machineVars

=============================================================================

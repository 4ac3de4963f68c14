---------------------------- MODULE MCStateMachine ----------------------------
(* An instance of StateMachine: a lamp that goes off by itself.             *)
EXTENDS StateMachine, TLC

CONSTANTS press, on, off

MCBlocks ==
    LET Goto(s, t) == [halt |-> FALSE, state |-> s, timeout |-> t]
        Press == [event |-> press, target |-> Goto(on, [count |-> 30, unit |-> "s"])]
    IN  {[states |-> <<off, on>>, initial |-> off, data_type |-> None,
          on_blocks |-> <<[state |-> off, rules |-> <<Press>>],
                          [state |-> on, rules |-> <<[event |-> None, target |-> t]>>]>>] :
            t \in {Goto(off, None), [halt |-> TRUE, state |-> None, timeout |-> None]}}

MCLeaf == press :> press
=============================================================================

---------------------------- MODULE MCAgentJobs ----------------------------
(* Instances of AgentJobs for TLC.                                         *)
EXTENDS AgentJobs

CONSTANTS p1, p2

Update(p) == [kind |-> "update", file |-> p, target |-> p]
Create(p) == [kind |-> "create", file |-> p, target |-> p]
Move(p, q) == [kind |-> "move", file |-> p, target |-> q]

\* Each kind of operation; a second or third step that cannot follow the one
\* before it, so that a move and two writes roll back.
MCPlans == {<<Update(p1), Update(p2), Update(p2)>>, <<Create(p1), Update(p2)>>,
            <<Move(p1, p2), Update(p1)>>, <<Move(p1, p2)>>}
============================================================================

------------------------------ MODULE MCWorkflow ------------------------------
(* Two alike who may take any step but the last, one who may take the last,    *)
(* and a creator who may review: each can meet the separation of duties.       *)
EXTENDS Workflow, TLC

CONSTANTS c, a, b, d

Profiles == {{"submit", "review"}, {"review", "control", "supervise", "cancel"}, {"approve"}}

StartRights == [u \in {c, a, b, d} |->
                  CASE u = c -> {"submit", "review"}
                    [] u \in {a, b} -> {"review", "control", "supervise", "cancel"}
                    [] u = d -> {"approve"}]

\* People change while the amount is one, bands while nobody does.
PeopleOrBands(n, people, bandsChanged) == people = 0 \/ (n <= 1 /\ bandsChanged = 0)

Symmetry == Permutations({a, b})
===============================================================================

-------------------------- MODULE MCQuestionInbox --------------------------
(* QuestionInbox with values for the model checker.                        *)
EXTENDS QuestionInbox

CONSTANTS w1, w2

\* What a question says matters where it is answered.
MCWordings == [q \in Questions |-> IF q \in Stubborn THEN {w1} ELSE {w1, w2}]
=============================================================================

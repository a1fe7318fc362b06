---------------------------- MODULE MCReporting -----------------------------
(* Instances of Reporting for TLC.                                         *)
EXTENDS Reporting, TLC

\* A spec test and nothing goes wrong.
Calm == [hasSpecFile |-> TRUE, workers |-> Workers,
         mayLosePush |-> FALSE, mayLoseAnswer |-> FALSE,
         maxCrashes |-> 0, maxStoreCrashes |-> 0]

\* It may be redelivered while the first handling still goes on.
Redelivery == [Calm EXCEPT !.maxCrashes = 1]

\* A dummy test of one handler: pushes get lost, worker and store die.
Failures(w) == [Calm EXCEPT !.hasSpecFile = FALSE, !.workers = {w}, !.mayLosePush = TRUE,
                            !.maxCrashes = 1, !.maxStoreCrashes = 1]

\* Answers get lost too, and the handler runs ahead of the store.
Impatience(w) == [Failures(w) EXCEPT !.mayLoseAnswer = TRUE, !.maxCrashes = 0]

Troublesome == {Redelivery} \cup {Failures(w) : w \in Workers}
                 \cup {Impatience(w) : w \in Workers}
OnlyCalm    == {Calm}

\* The invocations of the handler are interchangeable.
Symmetry == Permutations(Workers)
=============================================================================

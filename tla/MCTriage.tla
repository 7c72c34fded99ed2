------------------------------ MODULE MCTriage ------------------------------
(* Triage on small instances. *)
EXTENDS Triage, TLC

\* What the reclassify form offers here: both kinds of bugs, and a second type.
SomeChoices == {[type |-> "bug", subtype |-> "platform-wide"],
                [type |-> "bug", subtype |-> "customer-specific"],
                [type |-> "faq", subtype |-> "needs-article"]}

\* Handler slots are interchangeable, and so are the organisations.
Symmetric == Permutations(Tasks) \cup Permutations(Orgs)
=============================================================================

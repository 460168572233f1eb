-------------------------------- MODULE MCKyc --------------------------------
(***************************************************************************)
(* One customer with one document at a time (its key is free again after a *)
(* deletion), and two workers that serve any number of requests: those     *)
(* about the customer, with or without columns given by hand, or those     *)
(* about the merchant's customer, alike.                                   *)
(***************************************************************************)
EXTENDS Kyc, TLC

CONSTANTS w1, w2, d1

MCWorkers == {w1, w2}
OneDocument == {d1}
Symmetry == Permutations(MCWorkers)

Of(kinds) == {k \in Task : k.kind \in kinds}
NewDocument == {k \in Of({"file"}) : k.arg = "pending"}
NewSubmission == {k \in Of({"enter"}) : k.arg = "pending"}

\* The process of the customer and its reviews.
OfCustomer == Of(OwnKinds \cup {"review", "mark", "edit", "delete"})

\* The same customer, patched: nothing, a verdict, an exemption or the flag.
Patches ==
    {k \in Of({"profile"}) : /\ k.arg \in {"approved", "rejected", "not_required", Nothing}
                             /\ k.also \in {"verified", Nothing}}
OfPatches == NewDocument \cup Of({"personal", "complete", "resubmit", "review"}) \cup Patches

\* Decisions on submissions, and what merchants do with the customer meanwhile.
OfDecisions ==
    NewDocument \cup NewSubmission
    \cup Of({"decide", "bulk", "suspend", "activate", "submit", "delete", "withdraw", "select"})

\* Relations and submissions, patched.
Relations ==
    {k \in Of({"relate"}) : /\ k.arg \in {"approved", "rejected", Nothing}
                            /\ k.also \in {"active", "blocked", Nothing}}
OfRelations ==
    NewDocument \cup NewSubmission \cup Of({"decide", "suspend", "activate"}) \cup Relations
    \cup {k \in Of({"amend"}) : k.arg \in {"approved", "pending", Nothing}}

AllMixes == {OfCustomer, OfPatches, OfDecisions, OfRelations}

\* A resubmission beside a review.
Resubmissions == {NewDocument \cup Of({"resubmit", "review"})}
=============================================================================

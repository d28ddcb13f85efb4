--------------------------- MODULE MCProposal ---------------------------
(***************************************************************************)
(* Instances of Proposal for TLC.                                          *)
(***************************************************************************)
EXTENDS Verification, TLC

CONSTANTS v1, v2, v3, p1, p2, t1, t2

Plain ==
  [voting |-> TRUE, quorum |-> 1, timelock |-> 1, threshold |-> Unset,
   review |-> "override", overrideQuorum |-> Unset, overrideTime |-> Unset]

\* Applied at once, with a higher bar for objections and no review.
Hasty ==
  [voting |-> TRUE, quorum |-> 2, timelock |-> 0, threshold |-> 2,
   review |-> "none", overrideQuorum |-> 1, overrideTime |-> Unset]

\* A window long enough for a round of review to be over before it is.
Patient == [Plain EXCEPT !.timelock = 2]

OneSetting   == {Plain}
LongWindow   == {Patient}
TwoSettings  == {Plain, Hasty}
EveryVoter   == {Voter}
Shrinking    == {Voter, {v1, v2}}
NoDelegation == {{}}
OneDelegate  == {{<<v3, v1>>}}
Delegating   == {{}, {<<v3, v1>>}}

Symmetry == Permutations(Request) \cup Permutations(Voter) \cup Permutations(Text)
RequestSymmetry == Permutations(Request)
=============================================================================

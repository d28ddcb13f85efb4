--------------------------- MODULE Verification ---------------------------
(***************************************************************************)
(* The two offline verifiers, verifyDecision and verifyApplication, run on *)
(* what an honest server exports of one proposal: the community's signed   *)
(* repo, always, and the repos of the members in `given`.  Signatures hold *)
(* and content addresses match, so what is left of a verdict is what the   *)
(* records say.  What is made of the member and role records a vote cites  *)
(* is in Eligibility.                                                      *)
(***************************************************************************)
EXTENDS Proposal

\* loadRepo: what the supplied exports hold of the members' records.
Supplied(given) == {r \in votes : r.voter \in given}

-----------------------------------------------------------------------------
\* verifyDecision.

\* Only a later record in the community's own repo supersedes a decision.
Superseded(i) == \E j \in DOMAIN decisions : decisions[j].supersedes = i

\* The vote that counts for each voter, from the exports alone.
Eligible(given) == tallyFromVoteRecords(proposal, cid, Supplied(given))

Cited(d) == {r.voter : r \in d.votes}

\* A vote the decision cites is checked only against the voter's own repo.
VoteProblems(d, given) ==
  LET countable(r) == countableVote(r, knownProposalCids(proposal, cid), tallyEpoch(proposal))
      beaten(r) == \E e \in Eligible(given) : e.voter = r.voter /\ e # r
  IN  {IF r.voter \notin given THEN "missing-evidence" ELSE "ineligible-vote" :
         r \in {c \in d.votes : c.voter \notin given \/ ~countable(c) \/ beaten(c)}}

\* Nothing eligible is left out; a superseded decision is excused.
MissedVotes(i, given) ==
  {"uncounted-vote" : r \in {e \in Eligible(given) :
                               e.voter \notin Cited(decisions[i]) /\ ~Superseded(i)}}

\* The bar the decision states must not be below the community's present one.
QuorumProblems(d) ==
  LET for == Cardinality(Saying(d.votes, "for"))
      against == Cardinality(Saying(d.votes, "against"))
      bar == Larger(d.quorum, quorumOf(settings))
  IN  IF for + against < d.quorum THEN {"insufficient-quorum"}
      ELSE IF for + against < bar THEN {"quorum-floor-unmet"}
      ELSE IF decideOutcome(for, against, bar) # d.outcome THEN {"wrong-outcome"}
      ELSE {}

DecisionProblems(i, given) ==
  VoteProblems(decisions[i], given) \cup MissedVotes(i, given)
    \cup QuorumProblems(decisions[i])

-----------------------------------------------------------------------------
\* verifyApplication.

\* countObjections: the objectors whose own repos show a countable objection.
Proved(given) ==
  IF proposal.decision # 0 /\ proposal.applyAt # Unset
  THEN Objectors(proposal, {o \in objections : o.objector \in given})
  ELSE {}

Held(given) == Cardinality(Proved(given)) >= objectionThreshold(settings)

\* A listed objector whose own repo is supplied and shows no objection.
Contradicted(given) == ~Held(given) /\ (proposal.objectors \cap given) \ Proved(given) # {}

\* Neither an open, an expired nor a rejected proposal has anything to judge, and
\* one with no window applied in the request that resolved it.
NothingToJudge == proposal.status \notin {"approved", Pending, Objected, Override}
NoWindow == proposal.status = "approved" /\ proposal.applyAt = Unset /\ proposal.appliedAt = Unset

\* The verdict on a change that says it was applied.
AppliedVerdict(given) ==
  IF proposal.applyAt # Unset /\ proposal.appliedAt < proposal.applyAt
  THEN "early-application"
  ELSE IF Held(given) THEN "applied-over-objection" ELSE "applied"

ApplicationVerdict(given, asOf) ==
  CASE NothingToJudge -> "nothing-to-apply"
    [] NoWindow -> "applied"
    [] proposal.status \in {Override, Objected} /\ Contradicted(given) -> "unevidenced-hold"
    [] proposal.status = Override /\ ~Contradicted(given) ->
         IF asOf >= proposal.overrideExpiresAt THEN "override-round-due" ELSE "override-round"
    [] proposal.status = Objected /\ ~Contradicted(given) -> "held"
    [] proposal.status = "approved" /\ ~NoWindow ->
         IF proposal.appliedAt # Unset THEN AppliedVerdict(given) ELSE "closed-unapplied"
    [] proposal.status = Pending ->
         IF asOf < proposal.applyAt THEN "window-open" ELSE "application-due"

-----------------------------------------------------------------------------
\* What an export that was not supplied proves of nobody: missing-evidence
\* "accuses nobody" (verify-application.ts:132).
Accusation(codes) == codes \ {"missing-evidence"}

\* Whatever a server that follows the code exports, and whichever members' repos
\* come with it, and however requests overlapped or died: the decision the proposal
\* cites has the ayes and noes its outcome needs, and its votes are the ones there
\* are; a hold is never called unevidenced nor an application one over an objection.
\* Two findings are left out, which such a server does meet with.  While a round of
\* review is open, or after it ran out, the votes of the decision under review are
\* taken for another epoch's (DecisionStaysSound); and a change that a round carried
\* before the window closed is called early (NeverFoundEarly).  Settings do not
\* change here.
HonestServerIsCleared ==
  LET astray == IF proposal.status = Override \/ proposal.overrideOutcome = "expired"
                THEN {"ineligible-vote", "uncounted-vote"} ELSE {}
      early  == IF proposal.overrideOutcome = "carried" THEN {"early-application"} ELSE {} IN
  /\ proposal.decision # 0 =>
       \A given \in SUBSET Voter :
         Accusation(DecisionProblems(proposal.decision, given)) \subseteq astray
  /\ \A given \in SUBSET Voter :
       ApplicationVerdict(given, now)
         \notin {"applied-over-objection", "unevidenced-hold", "early-application"} \ early

\* verify-application.ts:23 says of early application that "only the inverse is
\* provable dishonesty: a change applied *before* the window it published closed":
\* a server that follows the code is never found to have done so.
NeverFoundEarly == ApplicationVerdict(Voter, now) # "early-application"
=============================================================================

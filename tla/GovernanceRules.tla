------------------------- MODULE GovernanceRules -------------------------
(***************************************************************************)
(* The governance rules that resolution applies online and the verifier    *)
(* re-applies offline (src/governance/decision-rules.ts), as operators on  *)
(* records.  No state: Proposal supplies the proposal, the vote records    *)
(* and the objection records these rules judge.                            *)
(*                                                                         *)
(* Times are natural numbers.  A setting that a community never made is    *)
(* Unset, and every rule below reads it as the code's default.             *)
(***************************************************************************)
EXTENDS Integers, FiniteSets

CONSTANTS
  DefaultTimelock,      \* DEFAULT_TIMELOCK_HOURS, in clock units
  DefaultOverrideTime   \* DEFAULT_OBJECTION_OVERRIDE_DAYS, in clock units

ASSUME DefaultsAssumption ==
  /\ DefaultTimelock \in Nat \ {0}
  /\ DefaultOverrideTime \in Nat \ {0}

Unset == -1
DefaultQuorum == 3
DefaultObjectionThreshold == 1

Positive == Nat \ {0}

\* governanceConfig as checkVotingConfig admits it.  timelock 0 is the one
\* way to ask for immediate application.
Settings ==
  [voting : BOOLEAN, quorum : Positive \cup {Unset},
   timelock : Nat \cup {Unset}, threshold : Positive \cup {Unset},
   review : {"override", "none"}, overrideQuorum : Positive \cup {Unset},
   overrideTime : Positive \cup {Unset}]

Or(configured, default) == IF configured = Unset THEN default ELSE configured

quorumOf(s)              == Or(s.quorum, DefaultQuorum)
timelockHours(s)         == Or(s.timelock, DefaultTimelock)
objectionThreshold(s)    == Or(s.threshold, DefaultObjectionThreshold)
objectionOverrideDays(s) == Or(s.overrideTime, DefaultOverrideTime)

-----------------------------------------------------------------------------
\* Outcomes.  "none" is the code's null: not yet resolvable.

Outcomes == {"none", "approved", "rejected"}

decideOutcome(for, against, quorum) ==
  IF for + against < quorum THEN "none"
  ELSE IF for > against THEN "approved" ELSE "rejected"

decideOverride(for, bar) == IF for >= bar THEN "approved" ELSE "none"

Larger(a, b)  == IF a >= b THEN a ELSE b
Smaller(a, b) == IF a <= b THEN a ELSE b

\* Math.ceil((n * 2) / 3)
TwoThirds(n) == (2 * n + 2) \div 3

\* The bar an override round must reach, frozen when the round opens.
overrideQuorumFrom(s, quorum, eligible) ==
  Or(s.overrideQuorum,
     Larger(1, Smaller(Larger(quorum + 1, TwoThirds(eligible)), eligible)))

-----------------------------------------------------------------------------
\* Which signed records count.

\* Slips the runs must notice: an amendment, or an override round, that does
\* not open an epoch of its own.
tallyEpochOfCreation(q) ==
  IF q.overrideOpenedAt # Unset THEN q.overrideOpenedAt ELSE q.createdAt
tallyEpochOfText(q) ==
  IF q.amendedAt # Unset THEN q.amendedAt ELSE q.createdAt

\* The instant before which a vote belongs to an earlier round or text.
tallyEpoch(q) ==
  IF q.overrideOpenedAt # Unset THEN q.overrideOpenedAt
  ELSE IF q.amendedAt # Unset THEN q.amendedAt ELSE q.createdAt

knownProposalCids(q, current) == q.chain \cup {current}

\* checkVoteRecord, for a record that names this proposal.
countableVote(r, known, epoch) == r.cid \in known /\ r.at >= epoch

\* voteOrderKey: createdAt, then the record key.
NoLater(r, s) == r.at < s.at \/ (r.at = s.at /\ r.rkey <= s.rkey)

\* One vote per voter: the earliest countable record.
tallyFromVoteRecords(q, current, records) ==
  LET countable == {r \in records :
                      countableVote(r, knownProposalCids(q, current),
                                    tallyEpoch(q))}
  IN  {r \in countable :
         \A s \in countable : s.voter = r.voter => NoLater(r, s)}

Saying(records, v) == {r \in records : r.vote = v}

\* checkObjectionRecord: it names the decision being applied, and it was
\* written inside the half-open window [resolvedAt, applyAt).
countableObjection(o, q) ==
  /\ o.decision = q.decision
  /\ q.resolvedAt <= o.at
  /\ o.at < q.applyAt

\* A slip the runs must notice: the objectors the proposal lists, not the
\* signed records.
ObjectorsOnProposal(q, records) == q.objectors

\* countableObjections: one hold per objector.
Objectors(q, records) == {o.objector : o \in {x \in records : countableObjection(x, q)}}
=============================================================================

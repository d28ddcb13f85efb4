--------------------------- MODULE ProposalProofs ---------------------------
(***************************************************************************)
(* Proofs about Proposal for every electorate, settings, text and number   *)
(* of concurrent requests, with faults and deaths, and with no bound on    *)
(* time, requests or faults other than the constants themselves.           *)
(*                                                                         *)
(* First under Spec, with every request free to overlap every other: the   *)
(* type invariant, and that whatever the interleaving, a decision is borne *)
(* out by the signed votes it cites and a change is only ever applied with *)
(* a decision that approved it.                                            *)
(*                                                                         *)
(* Then under SerialSpec, where the two writers that take no lock          *)
(* (amendProposal and createProposal's seed vote) are kept apart from the  *)
(* others: the abstract life cycle is implemented, what is closed stays    *)
(* closed, a decision is about the text its votes were cast on, objections *)
(* bind, an override carries on votes of its own, a closed proposal cites  *)
(* exactly the votes that count, and those who verify the exports find     *)
(* decision, hold and change in order.                                     *)
(***************************************************************************)
EXTENDS Verification, FiniteSetTheorems, TLAPS

-----------------------------------------------------------------------------
(* The governance rules: the override bar is a bar, it is reachable, and it *)
(* asks for more than the vote that was objected to wherever more can be    *)
(* asked, for every settings record and every electorate.                   *)

\* The defaults stand in for what a settings record leaves out: every rule
\* returns a number of its own kind (timelockHours, objectionThreshold,
\* objectionOverrideDays and the quorum never return the marker for "unset").
LEMMA SettingsRules ==
  ASSUME NEW s \in Settings
  PROVE  /\ quorumOf(s) \in Positive
         /\ timelockHours(s) \in Nat
         /\ objectionThreshold(s) \in Positive
         /\ objectionOverrideDays(s) \in Positive
  BY DefaultsAssumption
     DEF Settings, Positive, quorumOf, timelockHours, objectionThreshold,
         objectionOverrideDays, Or, Unset, DefaultQuorum, DefaultObjectionThreshold

LEMMA TwoThirdsBounds ==
  ASSUME NEW n \in Nat
  PROVE  TwoThirds(n) \in Nat /\ 3 * TwoThirds(n) >= 2 * n /\ TwoThirds(n) <= n
  BY DEF TwoThirds

\* overrideQuorumFrom never returns a bar that no votes at all would clear,
\* whatever the settings say and even for an empty electorate.
THEOREM OverrideBarIsPositive ==
  ASSUME NEW s \in Settings, NEW quorum \in Positive, NEW eligible \in Nat
  PROVE  overrideQuorumFrom(s, quorum, eligible) \in Positive
<1>1. TwoThirds(eligible) \in Nat
  BY TwoThirdsBounds
<1>2. s.overrideQuorum \in Positive \cup {Unset}
  BY DEF Settings
<1> QED
  BY <1>1, <1>2
     DEF overrideQuorumFrom, Or, Unset, Larger, Smaller, Positive

\* A bar that the community did not configure can be reached by the electorate
\* it is asked of: an objection is never a permanent veto.
THEOREM OverrideBarIsReachable ==
  ASSUME NEW s \in Settings, NEW quorum \in Positive, NEW eligible \in Positive,
         s.overrideQuorum = Unset
  PROVE  overrideQuorumFrom(s, quorum, eligible) <= eligible
<1>1. TwoThirds(eligible) \in Nat
  BY TwoThirdsBounds DEF Positive
<1> QED
  BY <1>1 DEF overrideQuorumFrom, Or, Larger, Smaller, Positive

\* ...and it asks for more than the ordinary quorum, and for two thirds of the
\* electorate, unless the whole electorate is no more than the quorum, where it
\* asks for all of it: an objection never makes a change easier to pass.
THEOREM OverrideBarIsHigher ==
  ASSUME NEW s \in Settings, NEW quorum \in Positive, NEW eligible \in Positive,
         s.overrideQuorum = Unset
  PROVE  LET bar == overrideQuorumFrom(s, quorum, eligible)
         IN  /\ 3 * bar >= 2 * eligible
             /\ eligible > quorum => bar > quorum
             /\ eligible <= quorum => bar = eligible
<1>1. TwoThirds(eligible) \in Nat /\ 3 * TwoThirds(eligible) >= 2 * eligible
      /\ TwoThirds(eligible) <= eligible
  BY TwoThirdsBounds DEF Positive
<1> QED
  BY <1>1 DEF overrideQuorumFrom, Or, Larger, Smaller, Positive

-----------------------------------------------------------------------------
\* Helpers.

LEMMA LineageType ==
  ASSUME NEW c \in SUBSET Nat, cid \in Nat
  PROVE  Lineage(c) \in SUBSET Nat
  BY DEF Lineage

\* What Put leaves of the record it is given.
LEMMA PutType ==
  ASSUME NEW r \in ProposalRecord, cid \in Nat, Put(r)
  PROVE  /\ proposal' \in ProposalRecord /\ cid' \in Nat /\ cid' # 0
         /\ proposal'.status = r.status /\ proposal'.text = r.text
         /\ proposal'.evidence = r.evidence /\ proposal'.decision = r.decision
<1>1. Lineage(r.chain) \in SUBSET Nat
  BY LineageType DEF ProposalRecord
<1> QED
  BY <1>1 DEF Put, ProposalRecord

LEMMA FinishType ==
  ASSUME RequestType, NEW p \in Request, Finish(p)
  PROVE  RequestType'
<1>1. Blank \in ProposalRecord
  BY DEF Blank, ProposalRecord, Status, Final, Open, Pending, Override, Objected, Unset
<1> QED
  BY <1>1 DEF RequestType, Finish

\* The rules hand the proposal numbers of the right kind.
LEMMA BarType ==
  ProposalAssumption /\ WorldType
    => overrideQuorumFrom(settings, quorumOf(settings), Cardinality(electorate)) \in Positive
<1> SUFFICES ASSUME ProposalAssumption, WorldType
             PROVE  overrideQuorumFrom(settings, quorumOf(settings), Cardinality(electorate))
                      \in Positive
  OBVIOUS
<1>1. settings \in Settings
  BY DEF ProposalAssumption, WorldType
<1>2. Cardinality(electorate) \in Nat
  BY FS_Subset, FS_CardinalityType DEF ProposalAssumption, WorldType
<1> QED
  BY <1>1, <1>2, SettingsRules, OverrideBarIsPositive

LEMMA HeldType ==
  ASSUME WorldType, NEW q \in ProposalRecord, NEW who \in SUBSET Voter, NEW at \in Nat
  PROVE  /\ HeldState(q, who, at) \in ProposalRecord
         /\ HeldState(q, who, at).status \in {Objected, Override}
         /\ HeldState(q, who, at).text = q.text
         /\ HeldState(q, who, at).evidence = q.evidence
<1>1. settings \in Settings
  BY ProposalAssumption DEF ProposalAssumption, WorldType
<1>2. objectionOverrideDays(settings) \in Positive
  BY <1>1, SettingsRules
<1>3. overrideQuorumFrom(settings, quorumOf(settings), Cardinality(electorate)) \in Nat
  BY BarType, ProposalAssumption DEF Positive
<1>4. Override \in Status /\ Objected \in Status
  BY DEF Status, Final
<1>5. at + objectionOverrideDays(settings) \in Int /\ at \in Int /\ {} \in SUBSET Voter
  BY <1>2 DEF Positive
<1>6. CASE settings.review = "none"
  BY <1>4, <1>6 DEF HeldState, ProposalRecord
<1>7. CASE settings.review # "none"
  <2> DEFINE expires == at + objectionOverrideDays(settings)
             bar == overrideQuorumFrom(settings, quorumOf(settings), Cardinality(electorate))
             q1 == [q EXCEPT !.status = Override, !.objectors = who,
                             !.overrideOpenedAt = at]
             q2 == [q1 EXCEPT !.overrideExpiresAt = expires, !.overrideQuorum = bar,
                              !.votesFor = {}, !.votesAgainst = {}]
  <2>1. HeldState(q, who, at) = q2
    BY <1>7 DEF HeldState, ProposalRecord
  <2>2. expires \in Int /\ bar \in Nat
    BY <1>3, <1>5
  <2> HIDE DEF expires, bar
  <2>3. q1 \in ProposalRecord /\ q1.status = Override /\ q1.text = q.text
        /\ q1.evidence = q.evidence
    BY <1>4, <1>5 DEF ProposalRecord
  <2> HIDE DEF q1
  <2>4. q2 \in ProposalRecord /\ q2.status = Override /\ q2.text = q.text
        /\ q2.evidence = q.evidence
    BY <1>5, <2>2, <2>3 DEF ProposalRecord
  <2> HIDE DEF q2
  <2> QED
    BY <2>1, <2>4
<1> QED
  BY <1>6, <1>7

-----------------------------------------------------------------------------
\* What a request at each place knows.  TypeOK alone is not inductive: the vote
\* a request records is typed because its actor is a member and the text it read
\* was a text.

\* What it read of the proposal stays the proposal's for good.
Snapped(p) ==
  cid # 0 /\ snap[p].text \in Text /\ snap[p].evidence = proposal.evidence

RequestMeans(p) ==
  /\ kind[p] # "read" => actor[p] \in Voter
  /\ pc[p] = "seed" => actor[p] \in Voter /\ draft[p] \in Text
  /\ pc[p] \in {"record", "resolve"} =>
       kind[p] = "vote" /\ Snapped(p) /\ snap[p].status \in {Open, Override}
  /\ pc[p] \in {"object", "hold"} => kind[p] = "object" /\ Snapped(p)
  /\ pc[p] = "amend" => draft[p] \in Text /\ Snapped(p) /\ snap[p].status = Open

RequestsMean == \A p \in Request : RequestMeans(p)

ProposalMeans ==
  /\ proposal.status # "none" => proposal.text \in Text
  /\ cid = 0 => proposal.status = "none" /\ effects = <<>>

Knowing == TypeOK /\ RequestsMean /\ ProposalMeans

\* What every step does to the proposal.
EvidenceKept == cid # 0 => cid' # 0 /\ proposal'.evidence = proposal.evidence

LEMMA FinishMeans ==
  ASSUME RequestType, RequestsMean, NEW p \in Request, Finish(p), EvidenceKept
  PROVE  RequestsMean'
  BY DEF RequestType, RequestsMean, RequestMeans, Snapped, Finish, EvidenceKept

LEMMA OnwardMeans ==
  ASSUME RequestType, RequestsMean, NEW p \in Request, NEW k, Onward(p, k), EvidenceKept
  PROVE  RequestType' /\ RequestsMean'
<1>1. CASE k = "read"
  BY <1>1, FinishMeans, FinishType DEF Onward
<1>2. CASE k # "read"
  <2>1. /\ pc' = [pc EXCEPT ![p] = "enter"] /\ seenAt' = [seenAt EXCEPT ![p] = 0]
        /\ UNCHANGED <<lock, kind, actor, choice, draft, snap, snapCid, casting>>
    BY <1>2 DEF Onward, Goto, asked, read
  <2> QED
    BY <2>1 DEF RequestType, RequestsMean, RequestMeans, Snapped, EvidenceKept
<1> QED
  BY <1>1, <1>2

LEMMA ListOverridesMeans ==
  ASSUME RequestType, RequestsMean, NEW p \in Request, NEW q, ListOverrides(p, q),
         now \in Nat, EvidenceKept
  PROVE  RequestType' /\ RequestsMean'
<1>1. CASE Overdue(q, now)
  <2>1. /\ pc' = [pc EXCEPT ![p] = "close"] /\ seenAt' = [seenAt EXCEPT ![p] = now]
        /\ UNCHANGED <<lock, kind, actor, choice, draft, snap, snapCid, casting>>
    BY <1>1 DEF ListOverrides, Goto, asked, read
  <2> QED
    BY <2>1 DEF RequestType, RequestsMean, RequestMeans, Snapped, EvidenceKept
<1>2. CASE ~Overdue(q, now)
  BY <1>2, OnwardMeans DEF ListOverrides
<1> QED
  BY <1>1, <1>2

LEMMA ListDueType ==
  ASSUME RequestType, now \in Nat, NEW p \in Request, ListDue(p)
  PROVE  /\ pc' \in [Request -> {"idle", "seed", "apply", "close", "enter", "record",
                                 "resolve", "object", "hold", "amend"}]
         /\ seenAt' \in [Request -> Nat]
         /\ pc'[p] \in {"apply", "close", "enter"}
         /\ \A q \in Request \ {p} : pc'[q] = pc[q]
  BY DEF RequestType, ListDue, Goto

-----------------------------------------------------------------------------
\* Knowing is inductive: first the pieces of it that many steps share.

\* A step of the sweeps, or a refusal, that leaves the proposal alone.
LEMMA QuietStep ==
  ASSUME Knowing, RequestType', RequestsMean',
         UNCHANGED <<proposal, cid, repos, world, now, requests>>,
         faults' \in Nat
  PROVE  Knowing'
  BY DEF Knowing, TypeOK, ProposalType, RepoType, WorldType, ProposalMeans, repos, world

\* A commit that leaves everything but the proposal and the effects alone.
LEMMA CommitStep ==
  ASSUME Knowing, RequestType', RequestsMean',
         NEW r \in ProposalRecord, Put(r), r.status # "none", r.text \in Text,
         decisions' \in Seq(DecisionRecord), effects' \in Seq(Effect), now' \in Nat,
         UNCHANGED <<votes, objections, tid, world, spent>>
  PROVE  Knowing'
<1>1. proposal' \in ProposalRecord /\ cid' \in Nat /\ cid' # 0
      /\ proposal'.status = r.status /\ proposal'.text = r.text
  BY PutType DEF Knowing, TypeOK, ProposalType
<1> QED
  BY <1>1 DEF Knowing, TypeOK, ProposalType, RepoType, WorldType, ProposalMeans,
              world, spent

LEMMA PutKeepsEvidence ==
  ASSUME ProposalType, NEW r \in ProposalRecord, Put(r), cid # 0 => r.evidence = proposal.evidence
  PROVE  EvidenceKept
  BY PutType DEF ProposalType, EvidenceKept

LEMMA BlankType == Blank \in ProposalRecord
  BY DEF Blank, ProposalRecord, Status, Final, Open, Pending, Override, Objected, Unset

LEMMA InitKnows == Init => Knowing
<1> SUFFICES ASSUME Init PROVE Knowing
  OBVIOUS
<1>1. ProposalType /\ ProposalMeans
  <2>1. CASE proposal = Blank /\ cid = 0
    BY <2>1, BlankType DEF Init, ProposalType, ProposalMeans, Blank
  <2>2. CASE \E t \in Text : /\ proposal = [Blank EXCEPT !.status = Open, !.text = t,
                                         !.createdAt = 0, !.expiresAt = Ttl]
                             /\ cid = 1
    <3>1. PICK t \in Text : /\ proposal = [Blank EXCEPT !.status = Open, !.text = t,
                                         !.createdAt = 0, !.expiresAt = Ttl]
                            /\ cid = 1
      BY <2>2
    <3>2. Open \in Status /\ 0 \in Int /\ Ttl \in Int
      BY ProposalAssumption DEF ProposalAssumption, Status, Positive
    <3>3. proposal \in ProposalRecord /\ proposal.status = Open /\ proposal.text = t
      BY <3>1, <3>2, BlankType DEF ProposalRecord
    <3> QED
      BY <3>1, <3>3 DEF ProposalType, ProposalMeans, Open
  <2> QED
    BY <2>1, <2>2 DEF Init
<1>2. RepoType
  <2>1. decisions = <<>> /\ votes = {} /\ objections = {} /\ effects = <<>> /\ tid = 0
    BY DEF Init
  <2>2. <<>> \in Seq(DecisionRecord) /\ <<>> \in Seq(Effect)
    OBVIOUS
  <2> QED
    BY <2>1, <2>2 DEF RepoType
<1>4. WorldType
  <2>1. /\ settings \in SettingsChoices /\ electorate \in ElectorateChoices
        /\ delegations \in DelegationChoices
        /\ now = 0 /\ requests = 0 /\ faults = 0
    BY DEF Init
  <2> QED
    BY <2>1, ProposalAssumption DEF WorldType, ProposalAssumption
<1>3. RequestType /\ RequestsMean
  BY BlankType DEF Init, RequestType, RequestsMean, RequestMeans
<1> QED
  BY <1>1, <1>2, <1>3, <1>4 DEF Knowing, TypeOK

-----------------------------------------------------------------------------
\* The steps of the sweeps.

LEMMA ReadKnows ==
  ASSUME Knowing, NEW p \in Request, Read(p)
  PROVE  Knowing'
<1>1. RequestType /\ now \in Nat /\ faults \in Nat /\ RequestsMean
  BY DEF Knowing, TypeOK, WorldType
<1>2. ListDue(p) /\ UNCHANGED <<proposal, cid, repos, world, now, lock, asked, read, spent>>
  BY DEF Read
<1>3. RequestType'
  BY <1>1, <1>2, ListDueType DEF RequestType, asked, read
<1>4. RequestsMean'
  BY <1>1, <1>2, ListDueType DEF RequestsMean, RequestMeans, Snapped, asked, read
<1> QED
  BY <1>1, <1>2, <1>3, <1>4, QuietStep DEF spent

LEMMA ApplyNothingKnows ==
  ASSUME Knowing, NEW p \in Request, ApplyNothing(p)
  PROVE  Knowing'
<1>1. RequestType /\ now \in Nat /\ faults \in Nat /\ RequestsMean
  BY DEF Knowing, TypeOK, WorldType
<1>2. ListOverrides(p, proposal) /\ UNCHANGED <<proposal, cid, repos, world, now, spent>>
  BY DEF ApplyNothing
<1> QED
  BY <1>1, <1>2, ListOverridesMeans, QuietStep DEF EvidenceKept, spent

LEMMA CloseNothingKnows ==
  ASSUME Knowing, NEW p \in Request, CloseNothing(p)
  PROVE  Knowing'
<1>1. RequestType /\ now \in Nat /\ faults \in Nat /\ RequestsMean
  BY DEF Knowing, TypeOK, WorldType
<1>2. Onward(p, kind[p]) /\ UNCHANGED <<proposal, cid, repos, world, now, spent>>
  BY DEF CloseNothing
<1> QED
  BY <1>1, <1>2, OnwardMeans, QuietStep DEF EvidenceKept, spent

LEMMA SweepFailsKnows ==
  ASSUME Knowing, NEW p \in Request, SweepFails(p)
  PROVE  Knowing'
<1>1. RequestType /\ now \in Nat /\ faults \in Nat /\ RequestsMean
  BY DEF Knowing, TypeOK, WorldType
<1>2. Onward(p, kind[p]) /\ faults' = faults + 1
      /\ UNCHANGED <<proposal, cid, repos, world, now, requests>>
  BY DEF SweepFails, Fault
<1> QED
  BY <1>1, <1>2, OnwardMeans, QuietStep DEF EvidenceKept

LEMMA CloseExpiredOverrideKnows ==
  ASSUME Knowing, NEW p \in Request, CloseExpiredOverride(p)
  PROVE  Knowing'
<1> DEFINE r == [proposal EXCEPT !.status = "rejected", !.resolvedAt = seenAt[p],
                                 !.overrideOutcome = "expired"]
<1>1. RequestType /\ now \in Nat /\ RequestsMean /\ ProposalType /\ RepoType /\ ProposalMeans
  BY DEF Knowing, TypeOK, WorldType
<1>2. Put(r) /\ Onward(p, kind[p]) /\ UNCHANGED <<repos, world, now, spent>>
      /\ proposal.status = Override
  BY DEF CloseExpiredOverride, Overdue
<1>3. r \in ProposalRecord /\ r.status = "rejected" /\ r.text = proposal.text
      /\ r.evidence = proposal.evidence
  <2>1. "rejected" \in Status /\ seenAt[p] \in Int
    BY <1>1 DEF Status, Final, RequestType
  <2> QED
    BY <1>1, <2>1 DEF ProposalType, ProposalRecord
<1> HIDE DEF r
<1>4. proposal.text \in Text
  BY <1>1, <1>2 DEF ProposalMeans, Override
<1>5. EvidenceKept
  BY <1>1, <1>2, <1>3, PutKeepsEvidence
<1>6. RequestType' /\ RequestsMean'
  BY <1>1, <1>2, <1>5, OnwardMeans
<1> QED
  BY <1>1, <1>2, <1>3, <1>4, <1>6, CommitStep DEF repos, RepoType

LEMMA ObjectorsType ==
  ASSUME RepoType, NEW q
  PROVE  Objectors(q, objections) \in SUBSET Voter
  BY DEF RepoType, Objectors, ObjectionRecord

\* Whatever is committed to the target record is remembered with its decision.
LEMMA AppliedType ==
  ASSUME WorldType, RepoType, NEW q \in ProposalRecord, q.text \in Text,
         NEW d \in Nat, NEW via \in {"vote", "window", "override"}, Applied(q, d, via)
  PROVE  effects' \in Seq(Effect)
<1> DEFINE e == [text |-> q.text, decision |-> d, at |-> now, via |-> via,
                 applyAt |-> q.applyAt, threshold |-> objectionThreshold(settings)]
<1>1. objectionThreshold(settings) \in Positive
  BY SettingsRules, ProposalAssumption DEF ProposalAssumption, WorldType
<1>2. e \in Effect
  BY <1>1 DEF Effect, WorldType, ProposalRecord
<1>3. effects' = Append(effects, e)
  BY DEF Applied
<1> HIDE DEF e
<1> QED
  BY <1>2, <1>3 DEF RepoType

LEMMA ApplyIfDueKnows ==
  ASSUME Knowing, NEW p \in Request, ApplyIfDue(p)
  PROVE  Knowing'
<1> DEFINE who == Objectors(proposal, objections)
           held == HeldState(proposal, who, seenAt[p])
           closed == [proposal EXCEPT !.status = "approved"]
           applied == [proposal EXCEPT !.status = "approved", !.appliedAt = seenAt[p]]
<1>1. /\ RequestType /\ now \in Nat /\ RequestsMean /\ ProposalType /\ RepoType
      /\ ProposalMeans /\ WorldType /\ seenAt[p] \in Nat
  BY DEF Knowing, TypeOK, WorldType, RequestType
<1>2. /\ ListOverrides(p, proposal')
      /\ UNCHANGED <<decisions, votes, objections, tid, world, now, spent>>
      /\ proposal.status = Pending
  BY DEF ApplyIfDue, DueBy
<1>3. proposal.text \in Text /\ proposal.status \in Status
  BY <1>1, <1>2 DEF ProposalMeans, ProposalType, ProposalRecord, Pending
<1>4. \/ Put(held) /\ UNCHANGED effects
      \/ Put(closed) /\ UNCHANGED effects
      \/ Put(applied) /\ Applied(proposal, proposal.decision, "window")
  BY DEF ApplyIfDue
<1>5. held \in ProposalRecord /\ held.status # "none" /\ held.text = proposal.text
      /\ held.evidence = proposal.evidence
  <2>1. who \in SUBSET Voter
    BY <1>1, ObjectorsType
  <2> HIDE DEF who
  <2> QED
    BY <1>1, <2>1, HeldType DEF ProposalType, Objected, Override
<1>6. closed \in ProposalRecord /\ closed.status = "approved" /\ closed.text = proposal.text
      /\ closed.evidence = proposal.evidence
  BY <1>1 DEF ProposalType, ProposalRecord, Status, Final
<1>7. applied \in ProposalRecord /\ applied.status = "approved"
      /\ applied.text = proposal.text /\ applied.evidence = proposal.evidence
  <2>1. "approved" \in Status /\ seenAt[p] \in Int
    BY <1>1 DEF Status, Final
  <2> QED
    BY <1>1, <2>1 DEF ProposalType, ProposalRecord
<1> HIDE DEF held, closed, applied, who
<1>8. PICK r \in {held, closed, applied} : Put(r)
  BY <1>4
<1>9. EvidenceKept
  BY <1>1, <1>5, <1>6, <1>7, <1>8, PutKeepsEvidence
<1>10. RequestType' /\ RequestsMean'
  BY <1>1, <1>2, <1>9, ListOverridesMeans
<1>11. effects' \in Seq(Effect)
  <2>1. CASE UNCHANGED effects
    BY <1>1, <2>1 DEF RepoType
  <2>2. CASE Applied(proposal, proposal.decision, "window")
    BY <1>1, <1>3, <2>2, AppliedType DEF ProposalType, ProposalRecord
  <2> QED
    BY <1>4, <2>1, <2>2
<1>12. r \in ProposalRecord /\ r.status # "none" /\ r.text \in Text
  BY <1>3, <1>5, <1>6, <1>7, <1>8
<1> QED
  BY <1>1, <1>2, <1>8, <1>10, <1>11, <1>12, CommitStep DEF RepoType

-----------------------------------------------------------------------------
\* Requests arriving: createProposal, voteOnProposal, objectToProposal,
\* amendProposal.

LEMMA FreshType ==
  ASSUME now \in Nat, NEW text \in Text, NEW e \in BOOLEAN, NEW seed \in SUBSET Voter
  PROVE  /\ Fresh(text, e, seed) \in ProposalRecord
         /\ Fresh(text, e, seed).status = Open /\ Fresh(text, e, seed).text = text
<1>1. Open \in Status /\ now \in Int /\ now + Ttl \in Int
  BY ProposalAssumption DEF ProposalAssumption, Status, Positive
<1> QED
  BY <1>1, BlankType DEF Fresh, ProposalRecord

LEMMA CreateProposalKnows ==
  ASSUME Knowing, NEW p \in Request, NEW who \in Voter, NEW text \in Text,
         CreateProposal(p, who, text)
  PROVE  Knowing'
<1> DEFINE r == Fresh(text, TRUE, {who} \cap HasRepo)
<1>1. /\ RequestType /\ RequestsMean /\ ProposalType /\ RepoType /\ ProposalMeans
      /\ WorldType /\ now \in Nat
  BY DEF Knowing, TypeOK, WorldType
<1>2. /\ cid = 0 /\ pc[p] = "idle" /\ Put(r)
      /\ UNCHANGED <<repos, world, now, lock, kind, choice, seenAt, snap, casting, spent>>
  BY DEF CreateProposal
<1>3. r \in ProposalRecord /\ r.status = Open /\ r.text = text
  BY <1>1, FreshType
<1> HIDE DEF r
<1>4. EvidenceKept
  BY <1>2 DEF EvidenceKept
<1>5. RequestType' /\ RequestsMean'
  <2>1. CASE who \in HasRepo
    <3>1. /\ pc' = [pc EXCEPT ![p] = "seed"] /\ actor' = [actor EXCEPT ![p] = who]
          /\ draft' = [draft EXCEPT ![p] = text] /\ snapCid' = [snapCid EXCEPT ![p] = 1]
      BY <2>1 DEF CreateProposal, Goto
    <3> QED
      BY <1>1, <1>2, <3>1 DEF RequestType, RequestsMean, RequestMeans, Snapped
  <2>2. CASE who \notin HasRepo
    <3>1. UNCHANGED <<pc, actor, draft, snapCid>>
      BY <2>2 DEF CreateProposal
    <3> QED
      BY <1>1, <1>2, <3>1 DEF RequestType, RequestsMean, RequestMeans, Snapped
  <2> QED
    BY <2>1, <2>2
<1> QED
  BY <1>1, <1>2, <1>3, <1>5, CommitStep DEF RepoType, repos, Open

\* Begin and ListDue set what a vote or an objection brings with it.
LEMMA ArrivalKnows ==
  ASSUME Knowing, NEW p \in Request, NEW who \in Voter, NEW k \in {"vote", "object"},
         Begin(p, k, who), ListDue(p), choice' \in [Request -> {"for", "against"}],
         UNCHANGED <<now, draft, read>>
  PROVE  Knowing'
<1>1. RequestType /\ RequestsMean /\ WorldType
  BY DEF Knowing, TypeOK
<1>2. /\ requests' = requests + 1
      /\ kind' = [kind EXCEPT ![p] = k] /\ actor' = [actor EXCEPT ![p] = who]
      /\ UNCHANGED <<proposal, cid, repos, world, lock, faults>>
  BY DEF Begin
<1>3. /\ pc' \in [Request -> {"idle", "seed", "apply", "close", "enter", "record",
                              "resolve", "object", "hold", "amend"}]
      /\ seenAt' \in [Request -> Nat]
      /\ pc'[p] \in {"apply", "close", "enter"}
      /\ \A q \in Request \ {p} : pc'[q] = pc[q]
  BY <1>1, ListDueType DEF WorldType
<1>4. RequestType'
  BY <1>1, <1>2, <1>3 DEF RequestType, read
<1>5. RequestsMean'
  BY <1>1, <1>2, <1>3 DEF RequestType, RequestsMean, RequestMeans, Snapped, read
<1> QED
  BY <1>2, <1>4, <1>5 DEF Knowing, TypeOK, ProposalType, RepoType, WorldType,
                          ProposalMeans, repos, world

LEMMA VoteKnows ==
  ASSUME Knowing, NEW p \in Request, NEW who \in Voter, NEW v \in {"for", "against"},
         Vote(p, who, v)
  PROVE  Knowing'
<1>1. choice' \in [Request -> {"for", "against"}]
  BY DEF Vote, Knowing, TypeOK, RequestType
<1> QED
  BY <1>1, ArrivalKnows DEF Vote

LEMMA ObjectKnows ==
  ASSUME Knowing, NEW p \in Request, NEW who \in Voter, Object(p, who)
  PROVE  Knowing'
<1>1. choice' \in [Request -> {"for", "against"}]
  BY DEF Object, Knowing, TypeOK, RequestType
<1> QED
  BY <1>1, ArrivalKnows DEF Object

LEMMA AmendKnows ==
  ASSUME Knowing, NEW p \in Request, NEW who \in Voter, NEW text \in Text, Amend(p, who, text)
  PROVE  Knowing'
<1>1. RequestType /\ RequestsMean /\ WorldType /\ ProposalType /\ ProposalMeans
  BY DEF Knowing, TypeOK
<1>2. /\ requests' = requests + 1 /\ now' = now + 1 /\ cid # 0 /\ proposal.status = Open
      /\ kind' = [kind EXCEPT ![p] = "amend"] /\ actor' = [actor EXCEPT ![p] = who]
      /\ pc' = [pc EXCEPT ![p] = "amend"] /\ draft' = [draft EXCEPT ![p] = text]
      /\ seenAt' = [seenAt EXCEPT ![p] = now + 1]
      /\ snap' = [snap EXCEPT ![p] = proposal] /\ snapCid' = [snapCid EXCEPT ![p] = cid]
      /\ UNCHANGED <<proposal, cid, repos, world, lock, faults, choice, casting>>
  BY DEF Amend, Begin, Goto, Remember, Amendable
<1>3. proposal.text \in Text
  BY <1>1, <1>2 DEF ProposalMeans, Open
<1>4. RequestType'
  BY <1>1, <1>2 DEF RequestType, WorldType, ProposalType
<1>5. RequestsMean'
  BY <1>1, <1>2, <1>3 DEF RequestType, RequestsMean, RequestMeans, Snapped
<1> QED
  BY <1>2, <1>4, <1>5 DEF Knowing, TypeOK, ProposalType, RepoType, WorldType,
                          ProposalMeans, repos, world

-----------------------------------------------------------------------------
\* The steps of a request under way.

\* A refusal, an answer, or a death: the request ends and nothing else moves.
LEMMA EndKnows ==
  ASSUME Knowing, NEW p \in Request, Finish(p), faults' \in Nat,
         UNCHANGED <<proposal, cid, repos, world, now, requests>>
  PROVE  Knowing'
<1>1. RequestType' /\ RequestsMean'
  BY FinishType, FinishMeans DEF Knowing, TypeOK, EvidenceKept
<1> QED
  BY <1>1, QuietStep

\* A request ends with a commit that rewrites the proposal.
LEMMA EndWithCommitKnows ==
  ASSUME Knowing, NEW p \in Request, Finish(p),
         NEW r \in ProposalRecord, Put(r), r.status # "none", r.text \in Text,
         r.evidence = proposal.evidence, now' \in Nat,
         decisions' \in Seq(DecisionRecord), effects' \in Seq(Effect),
         UNCHANGED <<votes, objections, tid, world, spent>>
  PROVE  Knowing'
<1>1. EvidenceKept
  BY PutKeepsEvidence DEF Knowing, TypeOK
<1>2. RequestType' /\ RequestsMean'
  BY <1>1, FinishType, FinishMeans DEF Knowing, TypeOK
<1> QED
  BY <1>2, CommitStep

LEMMA VoteRefusedKnows ==
  ASSUME Knowing, NEW p \in Request, VoteRefused(p)
  PROVE  Knowing'
<1>1. Finish(p) /\ UNCHANGED <<proposal, cid, repos, world, now, spent>>
  BY DEF VoteRefused
<1> QED
  BY <1>1, EndKnows DEF spent, Knowing, TypeOK, WorldType

LEMMA ObjectionRefusedKnows ==
  ASSUME Knowing, NEW p \in Request, ObjectionRefused(p)
  PROVE  Knowing'
<1>1. Finish(p) /\ UNCHANGED <<proposal, cid, repos, world, now, spent>>
  BY DEF ObjectionRefused
<1> QED
  BY <1>1, EndKnows DEF spent, Knowing, TypeOK, WorldType

LEMMA DieKnows ==
  ASSUME Knowing, NEW p \in Request, Die(p)
  PROVE  Knowing'
<1>1. Finish(p) /\ faults' = faults + 1
      /\ UNCHANGED <<proposal, cid, repos, world, now, requests>>
  BY DEF Die, Fault
<1> QED
  BY <1>1, EndKnows DEF Knowing, TypeOK, WorldType

LEMMA ExpireProposalKnows ==
  ASSUME Knowing, NEW p \in Request, ExpireProposal(p)
  PROVE  Knowing'
<1> DEFINE r == [proposal EXCEPT !.status = "expired", !.resolvedAt = now]
<1>1. Put(r) /\ Finish(p) /\ proposal.status = Open /\ UNCHANGED <<repos, world, now, spent>>
  BY DEF ExpireProposal, Lapsed
<1>2. ProposalType /\ ProposalMeans /\ RepoType /\ now \in Nat
  BY DEF Knowing, TypeOK, WorldType
<1>3. proposal.text \in Text
  BY <1>1, <1>2 DEF ProposalMeans, Open
<1>4. r \in ProposalRecord /\ r.status = "expired" /\ r.text = proposal.text
      /\ r.evidence = proposal.evidence
  <2>1. "expired" \in Status /\ now \in Int
    BY <1>2 DEF Status, Final
  <2> QED
    BY <1>2, <2>1 DEF ProposalType, ProposalRecord
<1> HIDE DEF r
<1> QED
  BY <1>1, <1>2, <1>3, <1>4, EndWithCommitKnows DEF repos, RepoType

LEMMA SeedVoteKnows ==
  ASSUME Knowing, NEW p \in Request, SeedVote(p)
  PROVE  Knowing'
<1> DEFINE v == [voter |-> actor[p], castBy |-> actor[p], vote |-> "for",
                 cid |-> snapCid[p], text |-> draft[p], at |-> now, rkey |-> tid + 1]
<1>1. /\ pc[p] = "seed" /\ tid' = tid + 1 /\ Finish(p) /\ votes' \subseteq votes \cup {v}
      /\ faults' \in {faults, faults + 1}
      /\ UNCHANGED <<proposal, cid, decisions, objections, effects, world, now, requests>>
  BY DEF SeedVote, Fault
<1>2. RequestType /\ RequestsMean /\ RepoType /\ WorldType
  BY DEF Knowing, TypeOK
<1>3. v \in VoteRecord
  <2>1. actor[p] \in Voter /\ draft[p] \in Text
    BY <1>1, <1>2 DEF RequestsMean, RequestMeans
  <2>2. snapCid[p] \in Nat /\ now \in Nat /\ tid + 1 \in Nat
    BY <1>2 DEF RequestType, RepoType, WorldType
  <2> QED
    BY <2>1, <2>2 DEF VoteRecord
<1> HIDE DEF v
<1>4. RepoType'
  BY <1>1, <1>2, <1>3 DEF RepoType
<1>5. RequestType' /\ RequestsMean'
  BY <1>1, <1>2, FinishType, FinishMeans DEF EvidenceKept
<1> QED
  BY <1>1, <1>4, <1>5 DEF Knowing, TypeOK, ProposalType, WorldType, ProposalMeans, world

LEMMA CountingType ==
  ASSUME NEW who \in Voter, NEW also \in Counting(who)
  PROVE  also \in SUBSET Voter
  BY DEF Counting, Delegators

LEMMA EnterVoteKnows ==
  ASSUME Knowing, NEW p \in Request, EnterVote(p)
  PROVE  Knowing'
<1>1. RequestType /\ RequestsMean /\ ProposalType /\ WorldType /\ ProposalMeans
  BY DEF Knowing, TypeOK
<1>2. /\ pc[p] = "enter" /\ kind[p] = "vote" /\ proposal.status \in {Open, Override}
      /\ lock' = p /\ pc' = [pc EXCEPT ![p] = "record"]
      /\ snap' = [snap EXCEPT ![p] = proposal] /\ snapCid' = [snapCid EXCEPT ![p] = cid]
      /\ UNCHANGED <<proposal, cid, repos, world, now, asked, seenAt, requests>>
  BY DEF EnterVote, AcceptsVotes, Lapsed, Remember, Goto
<1>3. PICK also \in Counting(actor[p]) :
        /\ casting' = [casting EXCEPT ![p] = {actor[p]} \cup also]
        /\ faults' \in {faults, faults + 1}
  BY DEF EnterVote, Fault
<1>4. actor[p] \in Voter
  BY <1>1, <1>2 DEF RequestsMean, RequestMeans
<1>5. {actor[p]} \cup also \in SUBSET Voter
  BY <1>4, CountingType
<1>6. cid # 0 /\ proposal.text \in Text
  BY <1>1, <1>2 DEF ProposalMeans, Open, Override
<1>7. RequestType'
  BY <1>1, <1>2, <1>3, <1>5 DEF RequestType, ProposalType, asked
<1>8. RequestsMean'
  BY <1>1, <1>2, <1>6 DEF RequestType, RequestsMean, RequestMeans, Snapped, asked
<1>9. faults' \in Nat
  BY <1>1, <1>3 DEF WorldType
<1> QED
  BY <1>2, <1>7, <1>8, <1>9, QuietStep

LEMMA RecordVotesKnows ==
  ASSUME Knowing, NEW p \in Request, RecordVotes(p)
  PROVE  Knowing'
<1>1. RequestType /\ RequestsMean /\ RepoType /\ WorldType
  BY DEF Knowing, TypeOK
<1>2. /\ pc[p] = "record" /\ pc' = [pc EXCEPT ![p] = "resolve"] /\ tid' = tid + 1
      /\ UNCHANGED <<proposal, cid, decisions, objections, effects, world, now, lock,
                     asked, seenAt, read, requests>>
  BY DEF RecordVotes, Goto
<1>3. PICK written \in SUBSET (casting[p] \cap HasRepo) :
        /\ faults' \in {faults, faults + 1}
        /\ votes' = votes \cup
             {[voter |-> v, vote |-> choice[p], castBy |-> actor[p],
               cid |-> snapCid[p], text |-> snap[p].text,
               at |-> now, rkey |-> tid + 1] : v \in written}
  BY DEF RecordVotes, Fault
<1>4. actor[p] \in Voter /\ snap[p].text \in Text
  BY <1>1, <1>2 DEF RequestsMean, RequestMeans, Snapped
<1>5. /\ choice[p] \in {"for", "against"} /\ snapCid[p] \in Nat
      /\ now \in Nat /\ tid + 1 \in Nat /\ written \in SUBSET Voter
  BY <1>1 DEF RequestType, RepoType, WorldType
<1>6. votes' \subseteq VoteRecord
  BY <1>1, <1>3, <1>4, <1>5 DEF RepoType, VoteRecord
<1>7. RepoType'
  BY <1>1, <1>2, <1>6 DEF RepoType
<1>8. RequestType'
  BY <1>1, <1>2 DEF RequestType, asked, read
<1>9. RequestsMean'
  BY <1>1, <1>2 DEF RequestType, RequestsMean, RequestMeans, Snapped, asked, read
<1> QED
  BY <1>1, <1>2, <1>3, <1>7, <1>8, <1>9
     DEF Knowing, TypeOK, ProposalType, WorldType, ProposalMeans, world

LEMMA EnterObjectionKnows ==
  ASSUME Knowing, NEW p \in Request, EnterObjection(p)
  PROVE  Knowing'
<1>1. RequestType /\ RequestsMean /\ ProposalType /\ WorldType /\ ProposalMeans
  BY DEF Knowing, TypeOK
<1>2. /\ pc[p] = "enter" /\ kind[p] = "object" /\ proposal.status = Pending
      /\ lock' = p /\ pc' = [pc EXCEPT ![p] = "object"]
      /\ snap' = [snap EXCEPT ![p] = proposal] /\ snapCid' = [snapCid EXCEPT ![p] = cid]
      /\ UNCHANGED <<proposal, cid, repos, world, now, asked, seenAt, casting, spent>>
  BY DEF EnterObjection, Contestable, Remember, Goto
<1>3. cid # 0 /\ proposal.text \in Text
  BY <1>1, <1>2 DEF ProposalMeans, Pending
<1>4. RequestType'
  BY <1>1, <1>2 DEF RequestType, ProposalType, asked
<1>5. RequestsMean'
  BY <1>1, <1>2, <1>3 DEF RequestType, RequestsMean, RequestMeans, Snapped, asked
<1> QED
  BY <1>1, <1>2, <1>4, <1>5, QuietStep DEF spent, WorldType

LEMMA RecordObjectionKnows ==
  ASSUME Knowing, NEW p \in Request, RecordObjection(p)
  PROVE  Knowing'
<1>1. RequestType /\ RequestsMean /\ RepoType /\ WorldType
  BY DEF Knowing, TypeOK
<1>2. /\ pc[p] = "object" /\ pc' = [pc EXCEPT ![p] = "hold"]
      /\ objections' = objections \cup
           {[objector |-> actor[p], decision |-> snap[p].decision, at |-> now]}
      /\ UNCHANGED <<proposal, cid, decisions, votes, effects, tid, world, now, lock,
                     asked, seenAt, read, spent>>
  BY DEF RecordObjection, Goto
<1>3. actor[p] \in Voter /\ snap[p].decision \in Nat /\ now \in Nat
  BY <1>1, <1>2 DEF RequestsMean, RequestMeans, RequestType, ProposalRecord, WorldType
<1>4. RepoType'
  BY <1>1, <1>2, <1>3 DEF RepoType, ObjectionRecord
<1>5. RequestType'
  BY <1>1, <1>2 DEF RequestType, asked, read
<1>6. RequestsMean'
  BY <1>1, <1>2 DEF RequestType, RequestsMean, RequestMeans, Snapped, asked, read
<1> QED
  BY <1>1, <1>2, <1>4, <1>5, <1>6
     DEF Knowing, TypeOK, ProposalType, WorldType, ProposalMeans, world, spent

LEMMA HoldOrLeaveKnows ==
  ASSUME Knowing, NEW p \in Request, HoldOrLeave(p)
  PROVE  Knowing'
<1> DEFINE who == Objectors(snap[p], objections)
           held == HeldState(snap[p], who, now + 1)
<1>1. RequestType /\ RequestsMean /\ RepoType /\ WorldType
  BY DEF Knowing, TypeOK
<1>2. /\ pc[p] = "hold" /\ Finish(p) /\ UNCHANGED <<repos, world, spent>>
      /\ \/ Put(held) /\ now' = now + 1
         \/ UNCHANGED <<proposal, cid, now>>
  BY DEF HoldOrLeave
<1>3. CASE UNCHANGED <<proposal, cid, now>>
  BY <1>1, <1>2, <1>3, EndKnows DEF spent, WorldType
<1>4. CASE Put(held) /\ now' = now + 1
  <2>1. snap[p] \in ProposalRecord /\ now + 1 \in Nat
    BY <1>1 DEF RequestType, WorldType
  <2>2. who \in SUBSET Voter
    BY <1>1, ObjectorsType
  <2> HIDE DEF who
  <2>3. held \in ProposalRecord /\ held.status # "none" /\ held.text = snap[p].text
        /\ held.evidence = snap[p].evidence
    BY <1>1, <2>1, <2>2, HeldType DEF Objected, Override
  <2> HIDE DEF held
  <2>4. snap[p].text \in Text /\ snap[p].evidence = proposal.evidence
    BY <1>1, <1>2 DEF RequestsMean, RequestMeans, Snapped
  <2> QED
    BY <1>1, <1>2, <1>4, <2>1, <2>3, <2>4, EndWithCommitKnows DEF repos, RepoType
<1> QED
  BY <1>2, <1>3, <1>4

LEMMA CommitAmendmentKnows ==
  ASSUME Knowing, NEW p \in Request, CommitAmendment(p)
  PROVE  Knowing'
<1> DEFINE r1 == [snap[p] EXCEPT !.text = draft[p], !.votesFor = {}, !.votesAgainst = {}]
           r == [r1 EXCEPT !.expiresAt = seenAt[p] + Ttl, !.amendedAt = seenAt[p]]
<1>1. RequestType /\ RequestsMean /\ RepoType /\ WorldType
  BY DEF Knowing, TypeOK
<1>2. /\ pc[p] = "amend" /\ Finish(p) /\ UNCHANGED <<repos, world, now, spent>>
      /\ Put([snap[p] EXCEPT !.text = draft[p], !.votesFor = {}, !.votesAgainst = {},
                             !.expiresAt = seenAt[p] + Ttl, !.amendedAt = seenAt[p]])
  BY DEF CommitAmendment
<1>3. /\ draft[p] \in Text /\ snap[p].status = Open /\ snap[p].evidence = proposal.evidence
  BY <1>1, <1>2 DEF RequestsMean, RequestMeans, Snapped
<1>4. snap[p] \in ProposalRecord /\ seenAt[p] \in Int /\ seenAt[p] + Ttl \in Int
  BY <1>1, ProposalAssumption DEF RequestType, ProposalAssumption, Positive
<1>5. Put(r)
  BY <1>2, <1>4 DEF ProposalRecord
<1>6. r1 \in ProposalRecord /\ r1.status = Open /\ r1.text = draft[p]
      /\ r1.evidence = proposal.evidence
  BY <1>3, <1>4 DEF ProposalRecord
<1> HIDE DEF r1
<1>7. r \in ProposalRecord /\ r.status = Open /\ r.text = draft[p]
      /\ r.evidence = proposal.evidence
  BY <1>4, <1>6 DEF ProposalRecord
<1> HIDE DEF r
<1> QED
  BY <1>1, <1>2, <1>3, <1>5, <1>7, EndWithCommitKnows DEF repos, RepoType, WorldType, Open

-----------------------------------------------------------------------------
\* A vote being resolved.

LEMMA CastType ==
  ASSUME RequestType, NEW p \in Request
  PROVE  /\ Cast(p) \in ProposalRecord /\ Cast(p).status = snap[p].status
         /\ Cast(p).text = snap[p].text /\ Cast(p).evidence = snap[p].evidence
         /\ Cast(p).decision = snap[p].decision
<1>1. snap[p] \in ProposalRecord /\ casting[p] \in SUBSET Voter
  BY DEF RequestType
<1> QED
  BY <1>1 DEF Cast, ProposalRecord

\* What is counted are records that exist, one for each voter.
LEMMA CountedType == \A p : Counted(p) \subseteq votes
  BY DEF Counted, tallyFromVoteRecords

LEMMA QuorumAppliedType ==
  ASSUME RequestType, WorldType, NEW p \in Request
  PROVE  QuorumApplied(p) \in Nat
<1>1. settings \in Settings /\ snap[p] \in ProposalRecord
  BY ProposalAssumption DEF ProposalAssumption, WorldType, RequestType
<1>2. quorumOf(settings) \in Nat
  BY <1>1, SettingsRules DEF Positive
<1> QED
  BY <1>1, <1>2 DEF QuorumApplied, ProposalRecord

LEMMA DecisionWriteType ==
  ASSUME RequestType, WorldType, RepoType, NEW p \in Request, snap[p].text \in Text,
         Outcome(p) \in {"approved", "rejected"}
  PROVE  DecisionWrite(p) \in Seq(DecisionRecord) /\ Len(DecisionWrite(p)) \in Nat
<1> DEFINE d == [outcome |-> Outcome(p), votes |-> Counted(p),
                 text |-> snap[p].text, quorum |-> QuorumApplied(p),
                 override |-> snap[p].status = Override,
                 supersedes |-> Len(decisions)]
<1>1. decisions \in Seq(DecisionRecord) /\ votes \subseteq VoteRecord
  BY DEF RepoType
<1>2. d \in DecisionRecord
  <2>1. Counted(p) \in SUBSET VoteRecord
    BY <1>1, CountedType
  <2>2. Len(decisions) \in Nat
    BY <1>1
  <2>3. (snap[p].status = Override) \in BOOLEAN
    OBVIOUS
  <2> QED
    BY <2>1, <2>2, <2>3, QuorumAppliedType DEF DecisionRecord
<1>3. DecisionWrite(p) = decisions \/ DecisionWrite(p) = Append(decisions, d)
  BY DEF DecisionWrite
<1> HIDE DEF d
<1> QED
  BY <1>1, <1>2, <1>3

LEMMA ClosedType ==
  ASSUME RequestType, WorldType, RepoType, NEW p \in Request, snap[p].text \in Text,
         Outcome(p) \in {"approved", "rejected"}, NEW s \in Status
  PROVE  /\ Closed(p, s) \in ProposalRecord /\ Closed(p, s).status = s
         /\ Closed(p, s).text = snap[p].text /\ Closed(p, s).evidence = snap[p].evidence
         /\ snap[p].evidence => Closed(p, s).decision = Len(DecisionWrite(p))
<1> DEFINE c1 == [Cast(p) EXCEPT !.status = s, !.resolvedAt = now]
           dec == IF snap[p].evidence THEN Len(DecisionWrite(p)) ELSE Cast(p).decision
           over == IF snap[p].status = Override THEN "carried" ELSE Cast(p).overrideOutcome
           c == [c1 EXCEPT !.decision = dec, !.overrideOutcome = over]
<1>1. now \in Int /\ Cast(p) \in ProposalRecord
  BY CastType DEF WorldType
<1>2. c1 \in ProposalRecord /\ c1.status = s /\ c1.text = snap[p].text
      /\ c1.evidence = snap[p].evidence
  BY <1>1, CastType DEF ProposalRecord
<1>3. dec \in Nat /\ over \in {"none", "carried", "expired"}
  <2>1. Len(DecisionWrite(p)) \in Nat
    BY DecisionWriteType
  <2> QED
    BY <1>1, <2>1 DEF ProposalRecord
<1>4. Closed(p, s) = c
  BY <1>1 DEF Closed, ProposalRecord
<1>5. snap[p].evidence => dec = Len(DecisionWrite(p))
  OBVIOUS
<1> HIDE DEF c1, dec, over
<1>6. c \in ProposalRecord /\ c.status = s /\ c.text = snap[p].text
      /\ c.evidence = snap[p].evidence /\ c.decision = dec
  BY <1>2, <1>3 DEF ProposalRecord
<1> HIDE DEF c
<1> QED
  BY <1>4, <1>5, <1>6

\* Any way a vote closes or keeps the proposal: its commit is of this form.
LEMMA VoteCommitKnows ==
  ASSUME Knowing, NEW p \in Request, pc[p] = "resolve", VoteCommitted(p),
         NEW r \in ProposalRecord, Put(r), r.status # "none", r.text = snap[p].text,
         r.evidence = snap[p].evidence,
         decisions' \in Seq(DecisionRecord), effects' \in Seq(Effect)
  PROVE  Knowing'
<1>1. snap[p].text \in Text /\ snap[p].evidence = proposal.evidence
  BY DEF Knowing, RequestsMean, RequestMeans, Snapped
<1>2. Finish(p) /\ UNCHANGED <<votes, objections, tid, world, now, spent>>
  BY DEF VoteCommitted
<1> QED
  BY <1>1, <1>2, EndWithCommitKnows DEF Knowing, TypeOK, WorldType

LEMMA KeepOpenKnows ==
  ASSUME Knowing, NEW p \in Request, KeepOpen(p)
  PROVE  Knowing'
<1>1. /\ pc[p] = "resolve" /\ Put(Cast(p)) /\ VoteCommitted(p)
      /\ UNCHANGED <<decisions, effects>>
  BY DEF KeepOpen
<1>2. Cast(p).status # "none"
  BY <1>1, CastType DEF Knowing, TypeOK, RequestsMean, RequestMeans, Open, Override
<1> QED
  BY <1>1, <1>2, CastType, VoteCommitKnows DEF Knowing, TypeOK, RepoType

\* What the closing steps share.
LEMMA ClosingFacts ==
  ASSUME Knowing, NEW p \in Request, pc[p] = "resolve",
         Outcome(p) \in {"approved", "rejected"}, NEW s \in Status
  PROVE  /\ DecisionWrite(p) \in Seq(DecisionRecord) /\ Len(DecisionWrite(p)) \in Nat
         /\ Closed(p, s) \in ProposalRecord /\ Closed(p, s).status = s
         /\ Closed(p, s).text = snap[p].text /\ Closed(p, s).evidence = snap[p].evidence
         /\ snap[p].evidence => Closed(p, s).decision = Len(DecisionWrite(p))
         /\ snap[p] \in ProposalRecord /\ snap[p].text \in Text
<1>1. snap[p] \in ProposalRecord /\ snap[p].text \in Text
  BY DEF Knowing, TypeOK, RequestType, RequestsMean, RequestMeans, Snapped
<1> QED
  BY <1>1, DecisionWriteType, ClosedType DEF Knowing, TypeOK

LEMMA RejectKnows ==
  ASSUME Knowing, NEW p \in Request, Reject(p)
  PROVE  Knowing'
<1>1. /\ pc[p] = "resolve" /\ Outcome(p) = "rejected" /\ VoteCommitted(p)
      /\ Put(Closed(p, "rejected")) /\ decisions' = DecisionWrite(p) /\ UNCHANGED effects
  BY DEF Reject
<1>2. "rejected" \in Status
  BY DEF Status, Final
<1> QED
  BY <1>1, <1>2, ClosingFacts, VoteCommitKnows DEF Knowing, TypeOK, RepoType

LEMMA AwaitApplicationKnows ==
  ASSUME Knowing, NEW p \in Request, AwaitApplication(p)
  PROVE  Knowing'
<1> DEFINE q == Closed(p, Pending)
           r == [q EXCEPT !.applyAt = now + timelockHours(settings)]
<1>1. /\ pc[p] = "resolve" /\ Outcome(p) = "approved" /\ VoteCommitted(p)
      /\ Put(r) /\ decisions' = DecisionWrite(p) /\ UNCHANGED effects
  BY DEF AwaitApplication
<1>2. Pending \in Status
  BY DEF Status
<1>3. q \in ProposalRecord /\ q.status = Pending /\ q.text = snap[p].text
      /\ q.evidence = snap[p].evidence
  BY <1>1, <1>2, ClosingFacts
<1>4. now + timelockHours(settings) \in Int
  BY SettingsRules, ProposalAssumption DEF Knowing, TypeOK, WorldType, ProposalAssumption
<1> HIDE DEF q
<1>5. r \in ProposalRecord /\ r.status = Pending /\ r.text = snap[p].text
      /\ r.evidence = snap[p].evidence
  BY <1>3, <1>4 DEF ProposalRecord
<1> HIDE DEF r
<1> QED
  BY <1>1, <1>2, <1>5, ClosingFacts, VoteCommitKnows
     DEF Knowing, TypeOK, RepoType, Pending

LEMMA ApproveAndApplyKnows ==
  ASSUME Knowing, NEW p \in Request, ApproveAndApply(p)
  PROVE  Knowing'
<1> DEFINE q == Closed(p, "approved")
           r == [q EXCEPT !.appliedAt = now]
<1>1. /\ pc[p] = "resolve" /\ Outcome(p) = "approved" /\ VoteCommitted(p)
      /\ decisions' = DecisionWrite(p)
      /\ \/ Put(r) /\ Applied(snap[p], Len(DecisionWrite(p)), "override")
         \/ Put(q) /\ Applied(snap[p], q.decision, "vote")
  BY DEF ApproveAndApply
<1>2. "approved" \in Status
  BY DEF Status, Final
<1>3. /\ q \in ProposalRecord /\ q.status = "approved" /\ q.text = snap[p].text
      /\ q.evidence = snap[p].evidence
      /\ DecisionWrite(p) \in Seq(DecisionRecord) /\ Len(DecisionWrite(p)) \in Nat
      /\ snap[p] \in ProposalRecord /\ snap[p].text \in Text
  BY <1>1, <1>2, ClosingFacts
<1>4. now \in Int
  BY DEF Knowing, TypeOK, WorldType
<1> HIDE DEF q
<1>5. r \in ProposalRecord /\ r.status = "approved" /\ r.text = snap[p].text
      /\ r.evidence = snap[p].evidence /\ q.decision \in Nat
  BY <1>3, <1>4 DEF ProposalRecord
<1> HIDE DEF r
<1>6. effects' \in Seq(Effect)
  <2>1. PICK d \in Nat, via \in {"vote", "override"} : Applied(snap[p], d, via)
    BY <1>1, <1>3, <1>5
  <2> QED
    BY <1>3, <2>1, AppliedType DEF Knowing, TypeOK
<1> QED
  BY <1>1, <1>2, <1>3, <1>5, <1>6, VoteCommitKnows

LEMMA ApproveUnapplicableKnows ==
  ASSUME Knowing, NEW p \in Request, ApproveUnapplicable(p)
  PROVE  Knowing'
<1>1. /\ pc[p] = "resolve" /\ Outcome(p) = "approved" /\ VoteCommitted(p)
      /\ Put(Closed(p, "approved")) /\ decisions' = DecisionWrite(p) /\ UNCHANGED effects
  BY DEF ApproveUnapplicable
<1>2. "approved" \in Status
  BY DEF Status, Final
<1> QED
  BY <1>1, <1>2, ClosingFacts, VoteCommitKnows DEF Knowing, TypeOK, RepoType

-----------------------------------------------------------------------------
\* The whole next-state relation.

LEMMA EnvironmentKnows ==
  ASSUME Knowing, Environment
  PROVE  Knowing'
<1> USE DEF Knowing, TypeOK, ProposalType, RepoType, WorldType, RequestType,
            RequestsMean, RequestMeans, Snapped, ProposalMeans, repos, world, asked, read, spent
<1>1. CASE ChangeSettings
  BY <1>1 DEF ChangeSettings
<1>2. CASE ChangeElectorate
  BY <1>2, ProposalAssumption DEF ChangeElectorate, ProposalAssumption
<1>3. CASE ChangeDelegations
  BY <1>3, ProposalAssumption DEF ChangeDelegations, ProposalAssumption
<1>4. CASE Tick
  BY <1>4 DEF Tick
<1> QED
  BY <1>1, <1>2, <1>3, <1>4 DEF Environment

LEMMA NextKnows == Knowing /\ [Next]_vars => Knowing'
<1> SUFFICES ASSUME Knowing, [Next]_vars PROVE Knowing'
  OBVIOUS
<1>1. ASSUME NEW p \in Request, Arrive(p) PROVE Knowing'
  BY <1>1, ReadKnows, VoteKnows, ObjectKnows, CreateProposalKnows, AmendKnows DEF Arrive
<1>2. ASSUME NEW p \in Request, Handle(p) PROVE Knowing'
  BY <1>2, SeedVoteKnows, ApplyNothingKnows, ApplyIfDueKnows, CloseNothingKnows,
     CloseExpiredOverrideKnows, VoteRefusedKnows, ExpireProposalKnows, EnterVoteKnows,
     RecordVotesKnows, KeepOpenKnows, RejectKnows, AwaitApplicationKnows,
     ApproveAndApplyKnows, ApproveUnapplicableKnows, ObjectionRefusedKnows,
     EnterObjectionKnows, RecordObjectionKnows, HoldOrLeaveKnows, CommitAmendmentKnows
     DEF Handle
<1>3. ASSUME NEW p \in Request, SweepFails(p) \/ Die(p) PROVE Knowing'
  BY <1>3, SweepFailsKnows, DieKnows
<1>4. CASE UNCHANGED vars
  BY <1>4 DEF vars, Knowing, TypeOK, ProposalType, RepoType, WorldType, RequestType,
              RequestsMean, RequestMeans, Snapped, ProposalMeans, repos, world, asked, read, spent
<1> QED
  BY <1>1, <1>2, <1>3, <1>4, EnvironmentKnows DEF Next

\* Everything a request knows stays so in every execution.
THEOREM KnowingAlways == Spec => []Knowing
  BY InitKnows, NextKnows, PTL DEF Spec

\* Every variable keeps its shape, whatever the handlers of createProposal,
\* voteOnProposal, objectToProposal, amendProposal and the sweeps interleave.
THEOREM TypeCorrect == Spec => []TypeOK
<1>1. Knowing => TypeOK
  BY DEF Knowing
<1> QED
  BY <1>1, KnowingAlways, PTL

-----------------------------------------------------------------------------
\* Decisions are only ever added, by a vote being resolved.

Deciding(p) ==
  /\ pc[p] = "resolve" /\ Outcome(p) \in {"approved", "rejected"}
  /\ decisions' = DecisionWrite(p) /\ UNCHANGED votes

LEMMA DecisionsChange ==
  ASSUME [Next]_vars
  PROVE  UNCHANGED decisions \/ \E p \in Request : Deciding(p)
<1>1. ASSUME NEW p \in Request, Arrive(p) PROVE UNCHANGED decisions
  BY <1>1 DEF Arrive, Read, Vote, Object, CreateProposal, Amend, Begin, repos
<1>2. ASSUME NEW p \in Request, Handle(p) PROVE UNCHANGED decisions \/ Deciding(p)
  <2>1. CASE SeedVote(p) \/ RecordVotes(p) \/ ApplyIfDue(p) \/ RecordObjection(p) \/ KeepOpen(p)
    BY <2>1 DEF SeedVote, RecordVotes, ApplyIfDue, RecordObjection, KeepOpen
  <2>2. CASE ApplyNothing(p) \/ CloseNothing(p) \/ CloseExpiredOverride(p)
    BY <2>2 DEF ApplyNothing, CloseNothing, CloseExpiredOverride, repos
  <2>3. CASE VoteRefused(p) \/ ExpireProposal(p) \/ EnterVote(p)
    BY <2>3 DEF VoteRefused, ExpireProposal, EnterVote, repos
  <2>4. CASE ObjectionRefused(p) \/ EnterObjection(p) \/ HoldOrLeave(p) \/ CommitAmendment(p)
    BY <2>4 DEF ObjectionRefused, EnterObjection, HoldOrLeave, CommitAmendment, repos
  <2>5. CASE Reject(p) \/ AwaitApplication(p) \/ ApproveAndApply(p) \/ ApproveUnapplicable(p)
    BY <2>5 DEF Reject, AwaitApplication, ApproveAndApply, ApproveUnapplicable,
                VoteCommitted, Deciding
  <2> QED
    BY <1>2, <2>1, <2>2, <2>3, <2>4, <2>5 DEF Handle
<1>3. ASSUME NEW p \in Request, SweepFails(p) \/ Die(p) PROVE UNCHANGED decisions
  BY <1>3 DEF SweepFails, Die, repos
<1>4. ASSUME Environment PROVE UNCHANGED decisions
  BY <1>4 DEF Environment, ChangeSettings, ChangeElectorate, ChangeDelegations, Tick, repos
<1>5. CASE UNCHANGED vars
  BY <1>5 DEF vars, repos
<1> QED
  BY <1>1, <1>2, <1>3, <1>4, <1>5 DEF Next

-----------------------------------------------------------------------------
\* A change is applied only with a decision that approved it.  What makes this
\* inductive is that a proposal waiting for its window cites such a decision.

Approving == {n \in DOMAIN decisions : decisions[n].outcome = "approved"}

Approvals ==
  proposal.evidence =>
    /\ proposal.status = Pending => proposal.decision \in Approving
    /\ \A i \in DOMAIN effects : effects[i].decision \in Approving

LEMMA ApprovingGrows ==
  ASSUME RepoType, [Next]_vars
  PROVE  Approving \subseteq Approving'
<1>1. CASE UNCHANGED decisions
  BY <1>1 DEF Approving
<1>2. CASE \E p \in Request : Deciding(p)
  <2>1. PICK d : decisions' = decisions \/ decisions' = Append(decisions, d)
    BY <1>2 DEF Deciding, DecisionWrite
  <2>2. decisions \in Seq(DecisionRecord)
    BY DEF RepoType
  <2>3. CASE decisions' = Append(decisions, d)
    <3>1. \A n \in DOMAIN decisions : n \in DOMAIN decisions' /\ decisions'[n] = decisions[n]
      BY <2>2, <2>3
    <3> QED
      BY <3>1 DEF Approving
  <2> QED
    BY <2>1, <2>3 DEF Approving
<1> QED
  BY <1>1, <1>2, DecisionsChange

\* The decision a vote approves with, written anew or cited again.
LEMMA LastApproves ==
  ASSUME Knowing, NEW p \in Request, Deciding(p), Outcome(p) = "approved", snap[p].evidence
  PROVE  Len(DecisionWrite(p)) \in Approving'
<1>1. decisions \in Seq(DecisionRecord) /\ decisions' = DecisionWrite(p)
  BY DEF Knowing, TypeOK, RepoType, Deciding
<1>2. CASE Reusable(p)
  <2>1. decisions' = decisions /\ decisions # <<>>
        /\ decisions[Len(decisions)].outcome = "approved"
    BY <1>1, <1>2 DEF Reusable, DecisionWrite
  <2>2. Len(decisions) \in DOMAIN decisions
    BY <1>1, <2>1
  <2> QED
    BY <1>1, <2>1, <2>2 DEF Approving
<1>3. CASE ~Reusable(p)
  <2>1. PICK d : decisions' = Append(decisions, d) /\ d.outcome = "approved"
    BY <1>1, <1>3 DEF DecisionWrite
  <2>2. Len(decisions') \in DOMAIN decisions' /\ decisions'[Len(decisions')] = d
    BY <1>1, <2>1
  <2> QED
    BY <1>1, <2>1, <2>2 DEF Approving
<1> QED
  BY <1>2, <1>3

\* A commit that cites an approving decision if it leaves the proposal waiting,
\* and that changes the target record, if it does, with such a decision.
LEMMA ApprovalsByCommit ==
  ASSUME Knowing, Approvals, Approving \subseteq Approving',
         NEW r \in ProposalRecord, Put(r), r.evidence = proposal.evidence,
         r.evidence /\ r.status = Pending => r.decision \in Approving',
         \/ UNCHANGED effects
         \/ \E e : effects' = Append(effects, e)
                   /\ (r.evidence => e.decision \in Approving')
  PROVE  Approvals'
<1>1. proposal'.status = r.status /\ proposal'.decision = r.decision
      /\ proposal'.evidence = proposal.evidence
  BY PutType DEF Knowing, TypeOK, ProposalType
<1>2. effects \in Seq(Effect)
  BY DEF Knowing, TypeOK, RepoType
<1>3. ASSUME proposal.evidence, NEW i \in DOMAIN effects'
      PROVE  effects'[i].decision \in Approving'
  <2>1. CASE UNCHANGED effects
    BY <1>3, <2>1 DEF Approvals
  <2>2. CASE \E e : effects' = Append(effects, e)
                    /\ (r.evidence => e.decision \in Approving')
    <3>1. PICK e : effects' = Append(effects, e) /\ e.decision \in Approving'
      BY <1>3, <2>2
    <3>2. CASE i \in DOMAIN effects
      BY <1>2, <1>3, <3>1, <3>2 DEF Approvals
    <3>3. CASE i = Len(effects) + 1
      BY <1>2, <3>1, <3>3
    <3> QED
      BY <1>2, <1>3, <3>1, <3>2, <3>3
  <2> QED
    BY <2>1, <2>2
<1> QED
  BY <1>1, <1>3 DEF Approvals

\* A commit that leaves the proposal in any other state than waiting.
LEMMA ApprovalsByPlainCommit ==
  ASSUME Knowing, Approvals, Approving \subseteq Approving',
         NEW r \in ProposalRecord, Put(r), r.evidence = proposal.evidence,
         r.status # Pending, UNCHANGED effects
  PROVE  Approvals'
  BY ApprovalsByCommit

LEMMA ApprovalsByWaiting ==
  ASSUME Approvals, Approving \subseteq Approving', UNCHANGED <<proposal, effects>>
  PROVE  Approvals'
  BY DEF Approvals

LEMMA ApplyIfDueApproved ==
  ASSUME Knowing, Approvals, Approving \subseteq Approving', NEW p \in Request, ApplyIfDue(p)
  PROVE  Approvals'
<1> DEFINE who == Objectors(proposal, objections)
           held == HeldState(proposal, who, seenAt[p])
           closed == [proposal EXCEPT !.status = "approved"]
           applied == [proposal EXCEPT !.status = "approved", !.appliedAt = seenAt[p]]
<1>1. /\ RequestType /\ ProposalType /\ RepoType /\ WorldType /\ seenAt[p] \in Nat
  BY DEF Knowing, TypeOK, RequestType
<1>2. proposal.status = Pending /\ proposal \in ProposalRecord
  BY <1>1 DEF ApplyIfDue, DueBy, ProposalType
<1>3. \/ Put(held) /\ UNCHANGED effects
      \/ Put(closed) /\ UNCHANGED effects
      \/ Put(applied) /\ Applied(proposal, proposal.decision, "window")
  BY DEF ApplyIfDue
<1>4. CASE Put(held) /\ UNCHANGED effects
  <2>1. who \in SUBSET Voter
    BY <1>1, ObjectorsType
  <2> HIDE DEF who
  <2>2. held \in ProposalRecord /\ held.evidence = proposal.evidence
        /\ held.status \in {Objected, Override}
    BY <1>1, <1>2, <2>1, HeldType
  <2> HIDE DEF held
  <2> QED
    BY <1>4, <2>2, ApprovalsByPlainCommit DEF Objected, Override, Pending
<1>5. CASE Put(closed) /\ UNCHANGED effects
  <2>1. closed \in ProposalRecord /\ closed.status = "approved"
        /\ closed.evidence = proposal.evidence
    BY <1>2 DEF ProposalRecord, Status, Final
  <2> HIDE DEF closed
  <2> QED
    BY <1>5, <2>1, ApprovalsByPlainCommit DEF Pending
<1>6. CASE Put(applied) /\ Applied(proposal, proposal.decision, "window")
  <2>1. "approved" \in Status /\ seenAt[p] \in Int
    BY <1>1 DEF Status, Final
  <2>2. applied \in ProposalRecord /\ applied.status = "approved"
        /\ applied.evidence = proposal.evidence
    BY <1>2, <2>1 DEF ProposalRecord
  <2> HIDE DEF applied
  <2>3. PICK e : effects' = Append(effects, e) /\ e.decision = proposal.decision
    BY <1>6 DEF Applied
  <2>4. applied.evidence => e.decision \in Approving'
    BY <1>2, <2>2, <2>3 DEF Approvals
  <2> QED
    BY <1>6, <2>2, <2>3, <2>4, ApprovalsByCommit DEF Pending
<1> QED
  BY <1>3, <1>4, <1>5, <1>6

LEMMA HoldOrLeaveApproved ==
  ASSUME Knowing, Approvals, Approving \subseteq Approving', NEW p \in Request, HoldOrLeave(p)
  PROVE  Approvals'
<1> DEFINE who == Objectors(snap[p], objections)
           held == HeldState(snap[p], who, now + 1)
<1>1. RequestType /\ RequestsMean /\ RepoType /\ WorldType
  BY DEF Knowing, TypeOK
<1>2. /\ pc[p] = "hold" /\ UNCHANGED effects
      /\ Put(held) \/ UNCHANGED proposal
  BY DEF HoldOrLeave, repos
<1>3. CASE Put(held)
  <2>1. snap[p] \in ProposalRecord /\ now + 1 \in Nat
    BY <1>1 DEF RequestType, WorldType
  <2>2. who \in SUBSET Voter
    BY <1>1, ObjectorsType
  <2> HIDE DEF who
  <2>3. held \in ProposalRecord /\ held.status \in {Objected, Override}
        /\ held.evidence = snap[p].evidence
    BY <1>1, <2>1, <2>2, HeldType
  <2> HIDE DEF held
  <2>4. snap[p].evidence = proposal.evidence
    BY <1>1, <1>2 DEF RequestsMean, RequestMeans, Snapped
  <2> QED
    BY <1>2, <1>3, <2>3, <2>4, ApprovalsByPlainCommit DEF Objected, Override, Pending
<1> QED
  BY <1>2, <1>3, ApprovalsByWaiting

\* The other commits that do not wait for a window and change nothing else.
LEMMA PlainCommitsApproved ==
  ASSUME Knowing, Approvals, Approving \subseteq Approving', NEW p \in Request,
         CloseExpiredOverride(p) \/ ExpireProposal(p) \/ CommitAmendment(p) \/ KeepOpen(p)
  PROVE  Approvals'
<1>1. /\ RequestType /\ RequestsMean /\ RepoType /\ WorldType /\ proposal \in ProposalRecord
      /\ seenAt[p] \in Int /\ now \in Int /\ snap[p] \in ProposalRecord
  BY DEF Knowing, TypeOK, RequestType, WorldType, ProposalType
<1>2. CASE CloseExpiredOverride(p)
  <2> DEFINE r == [proposal EXCEPT !.status = "rejected", !.resolvedAt = seenAt[p],
                                   !.overrideOutcome = "expired"]
  <2>1. Put(r) /\ UNCHANGED effects
    BY <1>2 DEF CloseExpiredOverride, repos
  <2>2. "rejected" \in Status
    BY DEF Status, Final
  <2>3. r \in ProposalRecord /\ r.status = "rejected" /\ r.evidence = proposal.evidence
    BY <1>1, <2>2 DEF ProposalRecord
  <2> HIDE DEF r
  <2> QED
    BY <2>1, <2>3, ApprovalsByPlainCommit DEF Pending
<1>3. CASE ExpireProposal(p)
  <2> DEFINE r == [proposal EXCEPT !.status = "expired", !.resolvedAt = now]
  <2>1. Put(r) /\ UNCHANGED effects
    BY <1>3 DEF ExpireProposal, repos
  <2>2. "expired" \in Status
    BY DEF Status, Final
  <2>3. r \in ProposalRecord /\ r.status = "expired" /\ r.evidence = proposal.evidence
    BY <1>1, <2>2 DEF ProposalRecord
  <2> HIDE DEF r
  <2> QED
    BY <2>1, <2>3, ApprovalsByPlainCommit DEF Pending
<1>4. CASE CommitAmendment(p)
  <2> DEFINE r1 == [snap[p] EXCEPT !.text = draft[p], !.votesFor = {}, !.votesAgainst = {}]
             r == [r1 EXCEPT !.expiresAt = seenAt[p] + Ttl, !.amendedAt = seenAt[p]]
  <2>1. Put([snap[p] EXCEPT !.text = draft[p], !.votesFor = {}, !.votesAgainst = {},
                            !.expiresAt = seenAt[p] + Ttl, !.amendedAt = seenAt[p]])
        /\ UNCHANGED effects
    BY <1>4 DEF CommitAmendment, repos
  <2>2. draft[p] \in Text /\ snap[p].status = Open /\ snap[p].evidence = proposal.evidence
    BY <1>1, <1>4 DEF CommitAmendment, RequestsMean, RequestMeans, Snapped
  <2>3. seenAt[p] + Ttl \in Int
    BY <1>1, ProposalAssumption DEF ProposalAssumption, Positive
  <2>4. Put(r)
    BY <1>1, <2>1 DEF ProposalRecord
  <2>5. r1 \in ProposalRecord /\ r1.status = Open /\ r1.evidence = proposal.evidence
    BY <1>1, <2>2 DEF ProposalRecord
  <2> HIDE DEF r1
  <2>6. r \in ProposalRecord /\ r.status = Open /\ r.evidence = proposal.evidence
    BY <1>1, <2>3, <2>5 DEF ProposalRecord
  <2> HIDE DEF r
  <2> QED
    BY <2>1, <2>4, <2>6, ApprovalsByPlainCommit DEF Open, Pending
<1>5. CASE KeepOpen(p)
  <2>1. Put(Cast(p)) /\ UNCHANGED effects /\ pc[p] = "resolve"
    BY <1>5 DEF KeepOpen
  <2>2. snap[p].status \in {Open, Override} /\ snap[p].evidence = proposal.evidence
    BY <1>1, <2>1 DEF RequestsMean, RequestMeans, Snapped
  <2> QED
    BY <1>1, <2>1, <2>2, CastType, ApprovalsByPlainCommit DEF Open, Override, Pending
<1> QED
  BY <1>2, <1>3, <1>4, <1>5

\* A vote that approves, with a window or without, and one that rejects.
LEMMA ClosingApproved ==
  ASSUME Knowing, Approvals, Approving \subseteq Approving', NEW p \in Request,
         Reject(p) \/ AwaitApplication(p) \/ ApproveAndApply(p) \/ ApproveUnapplicable(p)
  PROVE  Approvals'
<1>1. pc[p] = "resolve" /\ Deciding(p)
  BY DEF Reject, AwaitApplication, ApproveAndApply, ApproveUnapplicable,
         VoteCommitted, Deciding
<1>2. snap[p].evidence = proposal.evidence
  BY <1>1 DEF Knowing, RequestsMean, RequestMeans, Snapped
<1>3. Outcome(p) = "approved" /\ snap[p].evidence => Len(DecisionWrite(p)) \in Approving'
  BY <1>1, LastApproves
<1>4. "rejected" \in Status /\ "approved" \in Status /\ Pending \in Status
  BY DEF Status, Final
<1>5. Outcome(p) \in {"approved", "rejected"}
  BY <1>1 DEF Deciding
<1>6. now \in Int /\ now + timelockHours(settings) \in Int
  BY SettingsRules, ProposalAssumption DEF Knowing, TypeOK, WorldType, ProposalAssumption
<1>7. CASE Reject(p)
  <2>1. Put(Closed(p, "rejected")) /\ UNCHANGED effects
    BY <1>7 DEF Reject
  <2> QED
    BY <1>1, <1>2, <1>4, <1>5, <2>1, ClosingFacts, ApprovalsByPlainCommit DEF Pending
<1>8. CASE AwaitApplication(p)
  <2> DEFINE q == Closed(p, Pending)
             r == [q EXCEPT !.applyAt = now + timelockHours(settings)]
  <2>1. Put(r) /\ UNCHANGED effects /\ Outcome(p) = "approved"
    BY <1>8 DEF AwaitApplication
  <2>2. q \in ProposalRecord /\ q.evidence = snap[p].evidence
        /\ (snap[p].evidence => q.decision = Len(DecisionWrite(p)))
    BY <1>1, <1>4, <1>5, ClosingFacts
  <2> HIDE DEF q
  <2>3. r \in ProposalRecord /\ r.evidence = snap[p].evidence /\ r.decision = q.decision
    BY <1>6, <2>2 DEF ProposalRecord
  <2> HIDE DEF r
  <2> QED
    BY <1>2, <1>3, <2>1, <2>2, <2>3, ApprovalsByCommit
<1>9. CASE ApproveAndApply(p)
  <2> DEFINE q == Closed(p, "approved")
             r == [q EXCEPT !.appliedAt = now]
  <2>1. /\ Outcome(p) = "approved"
        /\ \/ Put(r) /\ Applied(snap[p], Len(DecisionWrite(p)), "override")
           \/ Put(q) /\ Applied(snap[p], q.decision, "vote")
    BY <1>9 DEF ApproveAndApply
  <2>2. q \in ProposalRecord /\ q.status = "approved" /\ q.evidence = snap[p].evidence
        /\ (snap[p].evidence => q.decision = Len(DecisionWrite(p)))
    BY <1>1, <1>4, <1>5, ClosingFacts
  <2> HIDE DEF q
  <2>3. r \in ProposalRecord /\ r.status = "approved" /\ r.evidence = snap[p].evidence
    BY <1>6, <2>2 DEF ProposalRecord
  <2> HIDE DEF r
  <2>4. PICK e : /\ effects' = Append(effects, e)
                 /\ snap[p].evidence => e.decision = Len(DecisionWrite(p))
    BY <2>1, <2>2 DEF Applied
  <2>5. snap[p].evidence => e.decision \in Approving'
    BY <1>3, <2>1, <2>4
  <2>6. CASE Put(r)
    BY <1>2, <2>3, <2>4, <2>5, <2>6, ApprovalsByCommit DEF Pending
  <2>7. CASE Put(q)
    BY <1>2, <2>2, <2>4, <2>5, <2>7, ApprovalsByCommit DEF Pending
  <2> QED
    BY <2>1, <2>6, <2>7
<1>10. CASE ApproveUnapplicable(p)
  <2>1. Put(Closed(p, "approved")) /\ UNCHANGED effects
    BY <1>10 DEF ApproveUnapplicable
  <2> QED
    BY <1>1, <1>2, <1>4, <1>5, <2>1, ClosingFacts, ApprovalsByPlainCommit DEF Pending
<1> QED
  BY <1>7, <1>8, <1>9, <1>10

\* A proposal that has just been created has been applied nowhere.
LEMMA CreateProposalApproved ==
  ASSUME Knowing, NEW p \in Request, NEW who \in Voter, NEW text \in Text,
         CreateProposal(p, who, text)
  PROVE  Approvals'
<1> DEFINE r == Fresh(text, TRUE, {who} \cap HasRepo)
<1>1. Put(r) /\ cid = 0 /\ UNCHANGED effects
  BY DEF CreateProposal, repos
<1>2. effects = <<>>
  BY <1>1 DEF Knowing, ProposalMeans
<1>3. r \in ProposalRecord /\ r.status = Open
  BY FreshType DEF Knowing, TypeOK, WorldType
<1> HIDE DEF r
<1>4. proposal'.status = Open
  BY <1>1, <1>3, PutType DEF Knowing, TypeOK, ProposalType
<1> QED
  BY <1>1, <1>2, <1>4 DEF Approvals, Open, Pending

LEMMA NextApproved == Knowing /\ Approvals /\ [Next]_vars => Approvals'
<1> SUFFICES ASSUME Knowing, Approvals, [Next]_vars PROVE Approvals'
  OBVIOUS
<1>1. Approving \subseteq Approving'
  BY ApprovingGrows DEF Knowing, TypeOK
<1>2. ASSUME NEW p \in Request, Arrive(p) PROVE Approvals'
  <2>1. CASE \E who \in Voter, text \in Text : CreateProposal(p, who, text)
    BY <2>1, CreateProposalApproved
  <2>2. CASE \/ Read(p)
             \/ \E who \in Voter :
                  \/ \E v \in {"for", "against"} : Vote(p, who, v)
                  \/ Object(p, who)
                  \/ \E text \in Text : Amend(p, who, text)
    <3>1. UNCHANGED <<proposal, effects>>
      BY <2>2 DEF Read, Vote, Object, Amend, Begin, repos
    <3> QED
      BY <1>1, <3>1, ApprovalsByWaiting
  <2> QED
    BY <1>2, <2>1, <2>2 DEF Arrive
<1>3. ASSUME NEW p \in Request, Handle(p) PROVE Approvals'
  <2>1. CASE \/ SeedVote(p) \/ ApplyNothing(p) \/ CloseNothing(p) \/ VoteRefused(p)
             \/ EnterVote(p) \/ RecordVotes(p) \/ ObjectionRefused(p)
             \/ EnterObjection(p) \/ RecordObjection(p)
    <3>1. UNCHANGED <<proposal, effects>>
      BY <2>1 DEF SeedVote, ApplyNothing, CloseNothing, VoteRefused, EnterVote, RecordVotes,
                  ObjectionRefused, EnterObjection, RecordObjection, repos
    <3> QED
      BY <1>1, <3>1, ApprovalsByWaiting
  <2> QED
    BY <1>1, <1>3, <2>1, ApplyIfDueApproved, HoldOrLeaveApproved, PlainCommitsApproved,
       ClosingApproved DEF Handle
<1>4. ASSUME \/ \E p \in Request : SweepFails(p) \/ Die(p)
             \/ Environment
             \/ UNCHANGED vars
      PROVE  Approvals'
  <2>1. UNCHANGED <<proposal, effects>>
    BY <1>4 DEF SweepFails, Die, Environment, ChangeSettings, ChangeElectorate,
                ChangeDelegations, Tick, vars, repos
  <2> QED
    BY <1>1, <2>1, ApprovalsByWaiting
<1> QED
  BY <1>2, <1>3, <1>4 DEF Next

\* Whatever overlaps, dies or fails, applyIfDue and voteOnProposal never commit
\* a change to the community's data but with a decision, in the same repo, that
\* approved it.
THEOREM ChangesAreApproved == Spec => []EffectIsApproved
<1>1. Init => Approvals
  <2>1. Blank.evidence = FALSE
    BY DEF Blank
  <2>2. ASSUME Init PROVE proposal.evidence = FALSE
    BY <2>1, <2>2, BlankType DEF Init, ProposalRecord
  <2> QED
    BY <2>2 DEF Approvals
<1>2. Approvals => EffectIsApproved
  BY DEF Approvals, EffectIsApproved, Approving
<1>3. Spec => []Approvals
  BY <1>1, KnowingAlways, NextApproved, PTL DEF Spec
<1> QED
  BY <1>2, <1>3, PTL

-----------------------------------------------------------------------------
\* A decision is borne out by the records it cites.  That a tally never counts
\* a voter twice rests on the record keys: one request writes at most one record
\* in each voter's repo, and no two requests use the same key.

OneRecordEach ==
  \A r, s \in votes : /\ r.rkey <= tid
                      /\ r.voter = s.voter /\ r.rkey = s.rkey => r = s

\* What a step may do to the vote records.
VotesGrow ==
  /\ votes \subseteq votes'
  /\ \/ UNCHANGED <<votes, tid>>
     \/ /\ tid' = tid + 1
        /\ \A r \in votes' \ votes : r.rkey = tid + 1
        /\ \A r, s \in votes' \ votes : r.voter = s.voter => r = s

LEMMA VotesChange ==
  ASSUME [Next]_vars
  PROVE  VotesGrow
<1>1. ASSUME NEW p \in Request, SeedVote(p) PROVE VotesGrow
  BY <1>1 DEF SeedVote, VotesGrow
<1>2. ASSUME NEW p \in Request, RecordVotes(p) PROVE VotesGrow
  <2>1. PICK written \in SUBSET (casting[p] \cap HasRepo) :
          votes' = votes \cup
             {[voter |-> v, vote |-> choice[p], castBy |-> actor[p],
               cid |-> snapCid[p], text |-> snap[p].text,
               at |-> now, rkey |-> tid + 1] : v \in written}
    BY <1>2 DEF RecordVotes
  <2> QED
    BY <1>2, <2>1 DEF RecordVotes, VotesGrow
<1>3. ASSUME NEW p \in Request, Arrive(p) PROVE VotesGrow
  BY <1>3 DEF Arrive, Read, Vote, Object, CreateProposal, Amend, Begin, repos, VotesGrow
<1>4. ASSUME NEW p \in Request, Handle(p) PROVE VotesGrow
  <2>1. CASE ApplyIfDue(p) \/ RecordObjection(p)
    BY <2>1 DEF ApplyIfDue, RecordObjection, VotesGrow
  <2>2. CASE KeepOpen(p) \/ Reject(p) \/ AwaitApplication(p) \/ ApproveAndApply(p)
             \/ ApproveUnapplicable(p)
    BY <2>2 DEF KeepOpen, Reject, AwaitApplication, ApproveAndApply, ApproveUnapplicable,
                VoteCommitted, VotesGrow
  <2>3. CASE ApplyNothing(p) \/ CloseNothing(p) \/ CloseExpiredOverride(p)
             \/ VoteRefused(p) \/ ExpireProposal(p) \/ EnterVote(p)
    BY <2>3 DEF ApplyNothing, CloseNothing, CloseExpiredOverride, VoteRefused,
                ExpireProposal, EnterVote, repos, VotesGrow
  <2>4. CASE ObjectionRefused(p) \/ EnterObjection(p) \/ HoldOrLeave(p) \/ CommitAmendment(p)
    BY <2>4 DEF ObjectionRefused, EnterObjection, HoldOrLeave, CommitAmendment, repos, VotesGrow
  <2> QED
    BY <1>1, <1>2, <1>4, <2>1, <2>2, <2>3, <2>4 DEF Handle
<1>5. ASSUME \/ \E p \in Request : SweepFails(p) \/ Die(p)
             \/ Environment
             \/ UNCHANGED vars
      PROVE  VotesGrow
  BY <1>5 DEF SweepFails, Die, Environment, ChangeSettings, ChangeElectorate,
              ChangeDelegations, Tick, vars, repos, VotesGrow
<1> QED
  BY <1>3, <1>4, <1>5 DEF Next

LEMMA OneRecordEachKept ==
  ASSUME RepoType, OneRecordEach, VotesGrow
  PROVE  OneRecordEach'
<1>1. CASE UNCHANGED <<votes, tid>>
  BY <1>1 DEF OneRecordEach
<1>2. CASE /\ tid' = tid + 1
           /\ \A r \in votes' \ votes : r.rkey = tid + 1
           /\ \A r, s \in votes' \ votes : r.voter = s.voter => r = s
  <2>1. \A r \in votes : r.rkey \in Nat /\ r.rkey <= tid
    BY DEF OneRecordEach, RepoType, VoteRecord
  <2>2. tid \in Nat
    BY DEF RepoType
  <2>3. \A r \in votes' : r.rkey <= tid'
    BY <1>2, <2>1, <2>2
  <2>4. ASSUME NEW r \in votes', NEW s \in votes', r.voter = s.voter, r.rkey = s.rkey
        PROVE  r = s
    <3>1. CASE r \in votes /\ s \in votes
      BY <2>4, <3>1 DEF OneRecordEach
    <3>2. CASE r \notin votes /\ s \notin votes
      BY <1>2, <2>4, <3>2
    <3>3. CASE (r \in votes /\ s \notin votes) \/ (r \notin votes /\ s \in votes)
      BY <1>2, <2>1, <2>2, <2>4, <3>3
    <3> QED
      BY <3>1, <3>2, <3>3
  <2> QED
    BY <2>3, <2>4 DEF OneRecordEach
<1> QED
  BY <1>1, <1>2 DEF VotesGrow

\* One vote per voter: two countable records of a voter are ordered by instant
\* and then by key, and only the earlier counts.
LEMMA TallyIsOnePerVoter ==
  ASSUME RepoType, OneRecordEach, NEW p \in Request,
         NEW r \in Counted(p), NEW s \in Counted(p), r.voter = s.voter
  PROVE  r = s
<1>1. r \in votes /\ s \in votes
  BY CountedType
<1>2. NoLater(r, s) /\ NoLater(s, r)
  BY DEF Counted, tallyFromVoteRecords
<1>3. r.at \in Nat /\ s.at \in Nat /\ r.rkey \in Nat /\ s.rkey \in Nat
  BY <1>1 DEF RepoType, VoteRecord
<1>4. r.rkey = s.rkey
  BY <1>2, <1>3 DEF NoLater
<1> QED
  BY <1>1, <1>4 DEF OneRecordEach

\* The verdict a new decision states is the one its own votes come to.
LEMMA NewDecisionIsEvidenced ==
  ASSUME Knowing, OneRecordEach, NEW p \in Request, Deciding(p),
         snap[p].evidence, ~Reusable(p)
  PROVE  \E d : /\ decisions' = Append(decisions, d)
                /\ d.votes \subseteq votes
                /\ \A r, s \in d.votes : r.voter = s.voter => r = s
                /\ d.outcome = IF d.override
                               THEN decideOverride(Cardinality(Saying(d.votes, "for")), d.quorum)
                               ELSE decideOutcome(Cardinality(Saying(d.votes, "for")),
                                                  Cardinality(Saying(d.votes, "against")), d.quorum)
<1> DEFINE d == [outcome |-> Outcome(p), votes |-> Counted(p),
                 text |-> snap[p].text, quorum |-> QuorumApplied(p),
                 override |-> snap[p].status = Override,
                 supersedes |-> Len(decisions)]
<1>1. decisions' = Append(decisions, d)
  BY DEF Deciding, DecisionWrite
<1>2. Outcome(p) = RecordOutcome(p)
  BY DEF Deciding, Outcome
<1>3. d.votes \subseteq votes
  BY CountedType
<1>4. \A r, s \in d.votes : r.voter = s.voter => r = s
  BY TallyIsOnePerVoter DEF Knowing, TypeOK
<1>5. d.outcome = IF d.override
                  THEN decideOverride(Cardinality(Saying(d.votes, "for")), d.quorum)
                  ELSE decideOutcome(Cardinality(Saying(d.votes, "for")),
                                     Cardinality(Saying(d.votes, "against")), d.quorum)
  BY <1>2 DEF RecordOutcome, RoundOutcome, QuorumApplied
<1> HIDE DEF d
<1> QED
  BY <1>1, <1>3, <1>4, <1>5

LEMMA NextEvidenced ==
  Knowing /\ OneRecordEach /\ DecisionsAreEvidenced /\ [Next]_vars
    => DecisionsAreEvidenced'
<1> SUFFICES ASSUME Knowing, OneRecordEach, DecisionsAreEvidenced, [Next]_vars
             PROVE  DecisionsAreEvidenced'
  OBVIOUS
<1>1. votes \subseteq votes' /\ decisions \in Seq(DecisionRecord)
  BY VotesChange DEF VotesGrow, Knowing, TypeOK, RepoType
<1>2. CASE UNCHANGED decisions
  BY <1>1, <1>2 DEF DecisionsAreEvidenced
<1>3. ASSUME NEW p \in Request, Deciding(p) PROVE DecisionsAreEvidenced'
  <2>1. CASE ~snap[p].evidence \/ Reusable(p)
    <3>1. UNCHANGED decisions
      BY <1>3, <2>1 DEF Deciding, DecisionWrite
    <3> QED
      BY <1>2, <3>1
  <2>2. CASE snap[p].evidence /\ ~Reusable(p)
    <3>1. PICK d : /\ decisions' = Append(decisions, d)
                   /\ d.votes \subseteq votes
                   /\ \A r, s \in d.votes : r.voter = s.voter => r = s
                   /\ d.outcome = IF d.override
                        THEN decideOverride(Cardinality(Saying(d.votes, "for")), d.quorum)
                        ELSE decideOutcome(Cardinality(Saying(d.votes, "for")),
                                           Cardinality(Saying(d.votes, "against")), d.quorum)
      BY <1>3, <2>2, NewDecisionIsEvidenced
    <3>2. \A i \in DOMAIN decisions' :
            \/ i \in DOMAIN decisions /\ decisions'[i] = decisions[i]
            \/ decisions'[i] = d
      BY <1>1, <3>1
    <3> QED
      BY <1>1, <3>1, <3>2 DEF DecisionsAreEvidenced
  <2> QED
    BY <2>1, <2>2
<1> QED
  BY <1>2, <1>3, DecisionsChange

\* However requests overlap, die or fail to write a vote record, the outcome of
\* a decision record can be recomputed from the signed votes it cites, which
\* exist and count no voter twice: decideFromRecords lets the vote cache keep a
\* proposal open, and never decide it.
THEOREM DecisionsEvidenced == Spec => []DecisionsAreEvidenced
<1>1. ASSUME Init PROVE OneRecordEach /\ DecisionsAreEvidenced
  <2>1. votes = {} /\ decisions = <<>>
    BY <1>1 DEF Init
  <2>2. DOMAIN decisions = {}
    BY <2>1
  <2>3. OneRecordEach
    BY <2>1 DEF OneRecordEach
  <2> QED
    BY <2>2, <2>3 DEF DecisionsAreEvidenced
<1>2. Knowing /\ OneRecordEach /\ [Next]_vars => OneRecordEach'
  BY VotesChange, OneRecordEachKept DEF Knowing, TypeOK
<1> QED
  BY <1>1, <1>2, KnowingAlways, NextEvidenced, PTL DEF Spec

-----------------------------------------------------------------------------
\* The inductive invariant.  First, who may be where: the lock has one holder,
\* and a writer without a lock writes alone.

Holding == {"record", "resolve", "object", "hold"}
Lockless == {"seed", "amend"}

Apart(p) ==
  /\ pc[p] \in Holding => lock = p
  /\ pc[p] \in Lockless => \A r \in Request \ {p} : pc[r] \notin Writing
  /\ cid = 0 => pc[p] = "idle"

\* ...so what a writer read is still what is there.
Informed(p) ==
  /\ pc[p] \in Holding => snap[p] = proposal /\ snapCid[p] = cid
  /\ pc[p] \in {"object", "hold"} => proposal.status = Pending
  /\ pc[p] = "seed" =>
       /\ draft[p] = proposal.text /\ snapCid[p] <= cid
       /\ proposal.status \in {Open, "expired"}
  /\ pc[p] = "amend" =>
       /\ snap[p] = proposal /\ seenAt[p] <= now
       /\ \A r \in votes : r.at < seenAt[p]

\* The instant from which votes are on the present text.
Worded == tallyEpochOfText(proposal)

Undecided == {"none", Open}

\* What is there at each stage.
Staged ==
  /\ cid = 0 => votes = {}
  /\ proposal.status \in Undecided =>
       /\ decisions = <<>> /\ objections = {} /\ proposal.decision = 0
       /\ Worded <= now
  /\ proposal.status \in Undecided \cup {Pending} => proposal.overrideOpenedAt = Unset
  /\ proposal.status \notin Final => effects = <<>> /\ proposal.overrideOutcome = "none"
  /\ proposal.status = "expired" => proposal.decision = 0 /\ decisions = <<>>
  /\ proposal.decision # 0 => proposal.evidence /\ proposal.decision = Len(decisions)

\* A window opens after the votes that opened it, and closes after it opens.
Windowed ==
  proposal.status = Pending =>
    /\ proposal.decision # 0
    /\ Worded <= proposal.resolvedAt /\ proposal.resolvedAt <= now
    /\ proposal.resolvedAt < proposal.applyAt
    /\ \A o \in objections : proposal.resolvedAt <= o.at
    /\ \A i \in DOMAIN decisions :
         \A r \in decisions[i].votes : r.at <= proposal.resolvedAt

\* A round of review opens after every vote already cited.
Reviewed ==
  proposal.status = Override =>
    /\ proposal.decision # 0
    /\ Worded <= proposal.overrideOpenedAt /\ proposal.overrideOpenedAt # Unset
    /\ proposal.overrideQuorum >= 1
    /\ \A i \in DOMAIN decisions :
         \A r \in decisions[i].votes : r.at < proposal.overrideOpenedAt

\* A vote cites a version there has been, and from the present wording on it is
\* a vote on that wording.
Dated ==
  \A r \in votes :
    /\ r.at <= now /\ r.cid <= cid
    /\ r.at >= Worded => r.text = proposal.text

\* What was decided, and what was done, is the text that is there.
AboutTheText ==
  /\ \A i \in DOMAIN decisions : decisions[i].text = proposal.text
  /\ \A i \in DOMAIN effects : effects[i].text = proposal.text

Chained == proposal.chain \subseteq 1 .. cid - 1

SerialInv ==
  /\ \A p \in Request : Apart(p) /\ Informed(p)
  /\ Staged /\ Windowed /\ Reviewed /\ Dated /\ AboutTheText /\ Chained

-----------------------------------------------------------------------------
\* Where a step of one request leaves that request and the others.

Others(p) ==
  \A q \in Request \ {p} :
    /\ pc'[q] = pc[q] /\ snap'[q] = snap[q] /\ snapCid'[q] = snapCid[q]
    /\ draft'[q] = draft[q] /\ seenAt'[q] = seenAt[q]

LetsGo(p) == UNCHANGED lock \/ (lock = p /\ lock' = NoOne)

\* To a place where it writes nothing...
MovesOn(p) ==
  Others(p) /\ LetsGo(p) /\ pc'[p] \in {"idle", "apply", "close", "enter"}

\* ...into its locked section, with what it reads there...
Enters(p) ==
  /\ Others(p) /\ lock = NoOne /\ lock' = p
  /\ pc'[p] \in {"record", "object"}
  /\ pc'[p] = "object" => proposal.status = Pending
  /\ snap'[p] = proposal /\ snapCid'[p] = cid /\ UNCHANGED <<proposal, cid>>

\* ...on, past a signed record...
Writes(p) ==
  /\ Others(p) /\ UNCHANGED lock
  /\ <<pc[p], pc'[p]>> \in {<<"record", "resolve">>, <<"object", "hold">>}
  /\ snap'[p] = snap[p] /\ snapCid'[p] = snapCid[p] /\ UNCHANGED <<proposal, cid>>

\* ...or into one of the two writers without a lock.
Seeds(p) ==
  /\ Others(p) /\ UNCHANGED lock /\ cid = 0 /\ cid' = 1
  /\ pc'[p] = "seed" /\ draft'[p] = proposal'.text /\ snapCid'[p] = 1
  /\ proposal'.status = Open

Amends(p) ==
  /\ Others(p) /\ UNCHANGED lock
  /\ pc'[p] = "amend" /\ snap'[p] = proposal /\ seenAt'[p] = now + 1 /\ now' = now + 1
  /\ UNCHANGED <<proposal, cid, votes>>

Moves(p) == MovesOn(p) \/ Enters(p) \/ Writes(p) \/ Seeds(p) \/ Amends(p)

\* Who may change the proposal.
MayCommit(p) ==
  \/ UNCHANGED <<proposal, cid>>
  \/ lock = NoOne \/ pc[p] \in Holding \cup {"amend"} \/ cid = 0

LEMMA FinishMoves ==
  ASSUME RequestType, NEW p \in Request, Finish(p)
  PROVE  MovesOn(p)
  BY DEF RequestType, Finish, MovesOn, Others, LetsGo

LEMMA OnwardMoves ==
  ASSUME RequestType, NEW p \in Request, NEW k, Onward(p, k)
  PROVE  MovesOn(p)
<1>1. CASE k = "read"
  BY <1>1, FinishMoves DEF Onward
<1>2. CASE k # "read"
  BY <1>2 DEF Onward, Goto, asked, read, RequestType, MovesOn, Others, LetsGo
<1> QED
  BY <1>1, <1>2

LEMMA ListOverridesMoves ==
  ASSUME RequestType, NEW p \in Request, NEW q, ListOverrides(p, q)
  PROVE  MovesOn(p)
<1>1. CASE Overdue(q, now)
  BY <1>1 DEF ListOverrides, Goto, asked, read, RequestType, MovesOn, Others, LetsGo
<1>2. CASE ~Overdue(q, now)
  BY <1>2, OnwardMoves DEF ListOverrides
<1> QED
  BY <1>1, <1>2

LEMMA ListDueMoves ==
  ASSUME RequestType, NEW p \in Request, ListDue(p),
         UNCHANGED <<lock, snap, snapCid, draft>>
  PROVE  MovesOn(p)
  BY DEF ListDue, Goto, RequestType, MovesOn, Others, LetsGo

LEMMA ArriveMoves ==
  ASSUME Knowing, NEW p \in Request, Arrive(p)
  PROVE  Moves(p) /\ MayCommit(p)
<1>1. RequestType /\ ProposalType /\ now \in Nat
  BY DEF Knowing, TypeOK, WorldType
<1>2. CASE Read(p)
  BY <1>1, <1>2, ListDueMoves DEF Read, asked, read, Moves, MayCommit
<1>3. ASSUME NEW who \in Voter, NEW v \in {"for", "against"}, Vote(p, who, v)
      PROVE  Moves(p) /\ MayCommit(p)
  BY <1>1, <1>3, ListDueMoves DEF Vote, Begin, read, Moves, MayCommit
<1>4. ASSUME NEW who \in Voter, Object(p, who)
      PROVE  Moves(p) /\ MayCommit(p)
  BY <1>1, <1>4, ListDueMoves DEF Object, Begin, read, Moves, MayCommit
<1>5. ASSUME NEW who \in Voter, NEW t \in Text, CreateProposal(p, who, t)
      PROVE  Moves(p) /\ MayCommit(p)
  <2> DEFINE r == Fresh(t, TRUE, {who} \cap HasRepo)
  <2>1. /\ cid = 0 /\ pc[p] = "idle" /\ Put(r)
        /\ UNCHANGED <<lock, seenAt, snap>>
    BY <1>5 DEF CreateProposal
  <2>2. r \in ProposalRecord /\ r.status = Open /\ r.text = t
    BY <1>1, FreshType
  <2> HIDE DEF r
  <2>3. proposal'.status = Open /\ proposal'.text = t /\ cid' = 1
    BY <1>1, <2>1, <2>2, PutType DEF ProposalType, Put
  <2>4. CASE who \in HasRepo
    <3>1. /\ pc' = [pc EXCEPT ![p] = "seed"] /\ draft' = [draft EXCEPT ![p] = t]
          /\ snapCid' = [snapCid EXCEPT ![p] = 1]
      BY <1>5, <2>4 DEF CreateProposal, Goto
    <3> QED
      BY <1>1, <2>1, <2>3, <3>1 DEF RequestType, Moves, Seeds, Others, MayCommit
  <2>5. CASE who \notin HasRepo
    <3>1. UNCHANGED <<pc, draft, snapCid>>
      BY <1>5, <2>5 DEF CreateProposal
    <3> QED
      BY <2>1, <3>1 DEF Moves, MovesOn, Others, LetsGo, MayCommit
  <2> QED
    BY <2>4, <2>5
<1>6. ASSUME NEW who \in Voter, NEW t \in Text, Amend(p, who, t)
      PROVE  Moves(p) /\ MayCommit(p)
  BY <1>1, <1>6 DEF Amend, Begin, Goto, Remember, RequestType, repos, Moves, Amends,
                    Others, MayCommit
<1> QED
  BY <1>2, <1>3, <1>4, <1>5, <1>6 DEF Arrive

LEMMA HandleMoves ==
  ASSUME Knowing, NEW p \in Request, Handle(p)
  PROVE  Moves(p) /\ MayCommit(p)
<1>1. RequestType
  BY DEF Knowing, TypeOK
<1>2. CASE SeedVote(p) \/ VoteRefused(p) \/ ObjectionRefused(p)
  BY <1>1, <1>2, FinishMoves DEF SeedVote, VoteRefused, ObjectionRefused, Moves, MayCommit
<1>3. CASE ExpireProposal(p) \/ CommitAmendment(p) \/ HoldOrLeave(p)
  BY <1>1, <1>3, FinishMoves
     DEF ExpireProposal, CommitAmendment, HoldOrLeave, Moves, MayCommit, Holding
<1>4. CASE KeepOpen(p) \/ Reject(p) \/ AwaitApplication(p) \/ ApproveAndApply(p)
           \/ ApproveUnapplicable(p)
  BY <1>1, <1>4, FinishMoves DEF KeepOpen, Reject, AwaitApplication, ApproveAndApply,
           ApproveUnapplicable, VoteCommitted, Moves, MayCommit, Holding
<1>5. CASE ApplyNothing(p) \/ ApplyIfDue(p)
  BY <1>1, <1>5, ListOverridesMoves DEF ApplyNothing, ApplyIfDue, Moves, MayCommit
<1>6. CASE CloseNothing(p) \/ CloseExpiredOverride(p)
  BY <1>1, <1>6, OnwardMoves DEF CloseNothing, CloseExpiredOverride, Moves, MayCommit
<1>7. CASE EnterVote(p)
  BY <1>1, <1>7 DEF EnterVote, Remember, Goto, asked, RequestType, Moves, Enters, Others,
                    MayCommit
<1>8. CASE EnterObjection(p)
  BY <1>1, <1>8 DEF EnterObjection, Contestable, Remember, Goto, asked, RequestType,
                    Moves, Enters, Others, MayCommit
<1>9. CASE RecordVotes(p)
  BY <1>1, <1>9 DEF RecordVotes, Goto, asked, read, RequestType, Moves, Writes, Others,
                    MayCommit
<1>10. CASE RecordObjection(p)
  BY <1>1, <1>10 DEF RecordObjection, Goto, asked, read, RequestType, Moves, Writes,
                     Others, MayCommit
<1> QED
  BY <1>2, <1>3, <1>4, <1>5, <1>6, <1>7, <1>8, <1>9, <1>10 DEF Handle

LEMMA RequestMoves ==
  ASSUME Knowing, NEW p \in Request, Arrive(p) \/ Handle(p) \/ SweepFails(p) \/ Die(p)
  PROVE  Moves(p) /\ MayCommit(p)
<1>1. RequestType
  BY DEF Knowing, TypeOK
<1>2. CASE SweepFails(p)
  BY <1>1, <1>2, OnwardMoves DEF SweepFails, Moves, MayCommit
<1>3. CASE Die(p)
  BY <1>1, <1>3, FinishMoves DEF Die, Moves, MayCommit
<1> QED
  BY <1>2, <1>3, ArriveMoves, HandleMoves

-----------------------------------------------------------------------------
\* What a step does to the proposal and the records about it.

SameText(r, q) ==
  /\ r.text = q.text /\ r.evidence = q.evidence
  /\ r.createdAt = q.createdAt /\ r.amendedAt = q.amendedAt

SameRound(r, q) ==
  /\ r.decision = q.decision /\ r.resolvedAt = q.resolvedAt /\ r.applyAt = q.applyAt
  /\ r.overrideOpenedAt = q.overrideOpenedAt /\ r.overrideQuorum = q.overrideQuorum
  /\ r.overrideOutcome = q.overrideOutcome

Rewritten ==
  /\ cid # 0 /\ cid' = cid + 1
  /\ proposal'.chain = IF proposal.evidence THEN Lineage(proposal.chain) ELSE proposal.chain

Still == UNCHANGED <<proposal, cid, decisions, votes, objections, effects>> /\ now' >= now

Casting ==
  /\ cid # 0 /\ proposal.status \in {Open, Override, "expired"}
  /\ \E new : /\ votes' = votes \cup new
              /\ \A r \in new : r.at = now /\ r.cid <= cid /\ r.text = proposal.text
  /\ UNCHANGED <<proposal, cid, decisions, objections, effects, now>>

Objecting ==
  /\ proposal.status = Pending
  /\ \E o : o.at = now /\ objections' = objections \cup {o}
  /\ UNCHANGED <<proposal, cid, decisions, votes, effects, now>>

Created ==
  /\ cid = 0 /\ cid' = 1
  /\ proposal'.status = Open /\ proposal'.evidence /\ proposal'.text \in Text
  /\ proposal'.createdAt = now /\ proposal'.amendedAt = Unset
  /\ proposal'.decision = 0 /\ proposal'.overrideOpenedAt = Unset
  /\ proposal'.overrideOutcome = "none" /\ proposal'.chain = {}
  /\ UNCHANGED <<decisions, votes, objections, effects, now>>

Kept ==
  /\ Rewritten /\ proposal.status \in {Open, Override}
  /\ proposal'.status = proposal.status
  /\ SameText(proposal', proposal) /\ SameRound(proposal', proposal)
  /\ UNCHANGED <<decisions, votes, objections, effects, now>>

Reworded(p) ==
  /\ pc[p] = "amend" /\ Rewritten
  /\ proposal.status = Open /\ proposal'.status = Open
  /\ proposal'.text \in Text /\ proposal'.evidence = proposal.evidence
  /\ proposal'.amendedAt = seenAt[p] /\ SameRound(proposal', proposal)
  /\ UNCHANGED <<decisions, votes, objections, effects, now>>

\* Expired, refused by a round that ran out, held for good, or inapplicable.
Dropped ==
  /\ Rewritten /\ SameText(proposal', proposal)
  /\ proposal'.decision = proposal.decision
  /\ \/ proposal.status = Open /\ proposal'.status = "expired"
        /\ proposal'.overrideOutcome = proposal.overrideOutcome
     \/ proposal.status = Override /\ proposal'.status = "rejected"
        /\ proposal'.overrideOutcome = "expired"
     \/ proposal.status = Pending /\ proposal'.status \in {"approved", Objected}
        /\ SameRound(proposal', proposal)
  /\ UNCHANGED <<decisions, votes, objections, effects>> /\ now' >= now

Contested ==
  /\ Rewritten /\ SameText(proposal', proposal)
  /\ proposal'.decision = proposal.decision
  /\ proposal'.overrideOutcome = proposal.overrideOutcome
  /\ proposal.status = Pending /\ proposal'.status = Override
  /\ proposal.resolvedAt < proposal'.overrideOpenedAt
  /\ proposal'.overrideOpenedAt # Unset /\ proposal'.overrideQuorum >= 1
  /\ UNCHANGED <<decisions, votes, objections, effects>> /\ now' >= now

\* The window ran out, and too few had objected.
RanOut ==
  /\ Rewritten /\ SameText(proposal', proposal) /\ SameRound(proposal', proposal)
  /\ proposal.status = Pending /\ proposal'.status = "approved"
  /\ \E e : /\ effects' = Append(effects, e)
            /\ e.text = proposal.text /\ e.decision = proposal.decision
            /\ e.applyAt = proposal.applyAt
            /\ Cardinality(Objectors(proposal, objections)) < e.threshold
  /\ UNCHANGED <<decisions, votes, objections, now>>

\* What a decision taken here says.
Tallied(d) ==
  /\ d.text = proposal.text
  /\ d.votes = tallyFromVoteRecords(proposal, cid, votes)
  /\ d.override = (proposal.status = Override)
  /\ proposal.status = Override =>
       Cardinality(Saying(d.votes, "for")) >= proposal.overrideQuorum

Decided(p) ==
  /\ pc[p] = "resolve" /\ Rewritten /\ SameText(proposal', proposal)
  /\ proposal.status \in {Open, Override}
  /\ proposal'.resolvedAt = now
  /\ proposal'.overrideOpenedAt = proposal.overrideOpenedAt
  /\ proposal'.overrideQuorum = proposal.overrideQuorum
  /\ proposal'.overrideOutcome = IF proposal.status = Override THEN "carried"
                                 ELSE proposal.overrideOutcome
  /\ IF proposal.evidence
     THEN /\ \E d : decisions' = Append(decisions, d) /\ Tallied(d)
          /\ proposal'.decision = Len(decisions')
     ELSE UNCHANGED decisions /\ proposal'.decision = proposal.decision
  /\ \/ /\ proposal.status = Open /\ proposal'.status = Pending
        /\ proposal.evidence /\ proposal'.applyAt > now
        /\ UNCHANGED effects
     \/ /\ proposal'.status \in {"approved", "rejected"}
        /\ proposal.status = Override => proposal'.status = "approved"
        /\ UNCHANGED effects
     \/ /\ proposal'.status = "approved"
        /\ \E e : /\ effects' = Append(effects, e) /\ e.text = proposal.text
                  /\ e.via \in {"vote", "override"}
  /\ UNCHANGED <<votes, objections, now>>

Step == \/ Still \/ Casting \/ Objecting \/ Created \/ Kept \/ Dropped \/ Contested \/ RanOut
        \/ \E p \in Request : Reworded(p) \/ Decided(p)

\* What a commit leaves of the record it is given.
LEMMA PutRewrites ==
  ASSUME ProposalType, NEW r \in ProposalRecord, Put(r), cid # 0,
         r.evidence = proposal.evidence, r.chain = proposal.chain
  PROVE  /\ Rewritten /\ proposal'.status = r.status
         /\ SameText(proposal', r) /\ SameRound(proposal', r)
  BY DEF ProposalType, ProposalRecord, Put, Rewritten, SameText, SameRound

-----------------------------------------------------------------------------
\* Arrivals, and the steps that leave the proposal alone.

LEMMA CreateProposalStep ==
  ASSUME Knowing, NEW p \in Request, NEW who \in Voter, NEW t \in Text,
         CreateProposal(p, who, t)
  PROVE  Created
<1> DEFINE r == Fresh(t, TRUE, {who} \cap HasRepo)
<1>1. cid = 0 /\ Put(r) /\ UNCHANGED <<repos, now>>
  BY DEF CreateProposal
<1>2. now \in Nat /\ Open \in Status /\ now \in Int /\ now + Ttl \in Int
  BY ProposalAssumption DEF ProposalAssumption, Status, Positive, Knowing, TypeOK, WorldType
<1>3. r \in ProposalRecord /\ r.status = Open /\ r.text = t
  BY <1>2, FreshType
<1>5. /\ r.evidence /\ r.createdAt = now /\ r.amendedAt = Unset /\ r.decision = 0
      /\ r.overrideOpenedAt = Unset /\ r.overrideOutcome = "none" /\ r.chain = {}
  BY DEF Fresh, Blank
<1> HIDE DEF r
<1>4. Lineage({}) = {}
  BY <1>1 DEF Lineage
<1> QED
  BY <1>1, <1>3, <1>4, <1>5 DEF Put, ProposalRecord, repos, Created

LEMMA ArriveStep ==
  ASSUME Knowing, NEW p \in Request, Arrive(p)
  PROVE  Still \/ Created
<1>1. now \in Nat
  BY DEF Knowing, TypeOK, WorldType
<1>2. CASE Read(p)
  BY <1>1, <1>2 DEF Read, repos, Still
<1>3. ASSUME NEW who \in Voter, NEW v \in {"for", "against"}, Vote(p, who, v) PROVE Still
  BY <1>1, <1>3 DEF Vote, Begin, repos, Still
<1>4. ASSUME NEW who \in Voter, Object(p, who) PROVE Still
  BY <1>1, <1>4 DEF Object, Begin, repos, Still
<1>5. ASSUME NEW who \in Voter, NEW t \in Text, Amend(p, who, t) PROVE Still
  BY <1>1, <1>5 DEF Amend, Begin, repos, Still
<1> QED
  BY <1>2, <1>3, <1>4, <1>5, CreateProposalStep DEF Arrive

LEMMA EnvironmentStep ==
  ASSUME Knowing, Environment
  PROVE  Still
<1>1. now \in Nat
  BY DEF Knowing, TypeOK, WorldType
<1> QED
  BY <1>1 DEF Environment, ChangeSettings, ChangeElectorate, ChangeDelegations, Tick,
              repos, Still

LEMMA QuietHandlers ==
  ASSUME Knowing, NEW p \in Request,
         \/ ApplyNothing(p) \/ CloseNothing(p) \/ VoteRefused(p) \/ EnterVote(p)
         \/ ObjectionRefused(p) \/ EnterObjection(p) \/ SweepFails(p) \/ Die(p)
  PROVE  Still
<1>1. now \in Nat
  BY DEF Knowing, TypeOK, WorldType
<1> QED
  BY <1>1 DEF ApplyNothing, CloseNothing, VoteRefused, EnterVote, ObjectionRefused,
              EnterObjection, SweepFails, Die, repos, Still

\* A request that is somewhere: the proposal exists.
LEMMA Exists ==
  ASSUME SerialInv, NEW p \in Request, pc[p] # "idle"
  PROVE  cid # 0
  BY DEF SerialInv, Apart

LEMMA SeedVoteStep ==
  ASSUME Knowing, SerialInv, NEW p \in Request, SeedVote(p)
  PROVE  Casting \/ Still
<1> DEFINE v == [voter |-> actor[p], castBy |-> actor[p], vote |-> "for",
                 cid |-> snapCid[p], text |-> draft[p], at |-> now, rkey |-> tid + 1]
<1>1. /\ pc[p] = "seed" /\ (votes' = votes \cup {v} \/ UNCHANGED votes)
      /\ UNCHANGED <<proposal, cid, decisions, objections, effects, now>>
  BY DEF SeedVote
<1>2. /\ draft[p] = proposal.text /\ snapCid[p] <= cid /\ now \in Nat
      /\ proposal.status \in {Open, "expired"}
  BY <1>1 DEF SerialInv, Informed, Knowing, TypeOK, WorldType
<1>3. cid # 0
  BY <1>1, Exists
<1>4. v.at = now /\ v.cid <= cid /\ v.text = proposal.text
  BY <1>2
<1> HIDE DEF v
<1>5. CASE votes' = votes \cup {v}
  <2> DEFINE new == {v}
  <2>1. \A r \in new : r.at = now /\ r.cid <= cid /\ r.text = proposal.text
    BY <1>4
  <2>2. votes' = votes \cup new
    BY <1>5
  <2> HIDE DEF new
  <2> QED
    BY <1>1, <1>2, <1>3, <2>1, <2>2 DEF Casting
<1>6. CASE UNCHANGED votes
  BY <1>1, <1>2, <1>6 DEF Still
<1> QED
  BY <1>1, <1>5, <1>6

LEMMA RecordVotesStep ==
  ASSUME Knowing, SerialInv, NEW p \in Request, RecordVotes(p)
  PROVE  Casting
<1>1. /\ pc[p] = "record"
      /\ UNCHANGED <<proposal, cid, decisions, objections, effects, now>>
  BY DEF RecordVotes
<1>2. PICK written \in SUBSET (casting[p] \cap HasRepo) :
        votes' = votes \cup {[voter |-> v, vote |-> choice[p], castBy |-> actor[p],
                              cid |-> snapCid[p], text |-> snap[p].text,
                              at |-> now, rkey |-> tid + 1] : v \in written}
  BY DEF RecordVotes
<1>3. /\ snap[p] = proposal /\ snapCid[p] = cid /\ cid \in Nat
      /\ snap[p].status \in {Open, Override}
  BY <1>1 DEF SerialInv, Informed, Holding, Knowing, TypeOK, ProposalType, RequestsMean,
              RequestMeans
<1> DEFINE new == {[voter |-> v, vote |-> choice[p], castBy |-> actor[p],
                    cid |-> snapCid[p], text |-> snap[p].text,
                    at |-> now, rkey |-> tid + 1] : v \in written}
<1>4. \A r \in new : r.at = now /\ r.cid <= cid /\ r.text = proposal.text
  BY <1>3
<1>5. votes' = votes \cup new /\ cid # 0
  BY <1>1, <1>2, Exists
<1> HIDE DEF new
<1> QED
  BY <1>1, <1>3, <1>4, <1>5 DEF Casting

LEMMA RecordObjectionStep ==
  ASSUME Knowing, SerialInv, NEW p \in Request, RecordObjection(p)
  PROVE  Objecting
<1> DEFINE o == [objector |-> actor[p], decision |-> snap[p].decision, at |-> now]
<1>1. /\ pc[p] = "object" /\ objections' = objections \cup {o}
      /\ UNCHANGED <<proposal, cid, decisions, votes, effects, now>>
  BY DEF RecordObjection
<1>2. proposal.status = Pending
  BY <1>1 DEF SerialInv, Informed
<1>3. o.at = now
  OBVIOUS
<1> HIDE DEF o
<1> QED
  BY <1>1, <1>2, <1>3 DEF Objecting

-----------------------------------------------------------------------------
\* The commits of the sweeps, of a hold and of an amendment.

LEMMA ExpireProposalStep ==
  ASSUME Knowing, SerialInv, NEW p \in Request, ExpireProposal(p)
  PROVE  Dropped
<1> DEFINE r == [proposal EXCEPT !.status = "expired", !.resolvedAt = now]
<1>1. /\ pc[p] = "enter" /\ proposal.status = Open /\ Put(r) /\ UNCHANGED <<repos, now>>
  BY DEF ExpireProposal, Lapsed
<1>2. proposal \in ProposalRecord /\ now \in Nat /\ cid # 0
  BY <1>1, Exists DEF Knowing, TypeOK, ProposalType, WorldType
<1>3. r \in ProposalRecord /\ r.status = "expired" /\ r.evidence = proposal.evidence
      /\ r.chain = proposal.chain /\ SameText(r, proposal)
      /\ r.decision = proposal.decision /\ r.overrideOutcome = proposal.overrideOutcome
  <2>1. "expired" \in Status /\ now \in Int
    BY <1>2 DEF Status, Final
  <2> QED
    BY <1>2, <2>1 DEF ProposalRecord, SameText
<1> HIDE DEF r
<1>4. /\ Rewritten /\ proposal'.status = r.status
      /\ SameText(proposal', r) /\ SameRound(proposal', r)
  BY <1>1, <1>2, <1>3, PutRewrites DEF ProposalType, Knowing, TypeOK
<1> QED
  BY <1>1, <1>2, <1>3, <1>4 DEF Dropped, SameText, SameRound, repos

LEMMA CloseExpiredOverrideStep ==
  ASSUME Knowing, SerialInv, NEW p \in Request, CloseExpiredOverride(p)
  PROVE  Dropped
<1> DEFINE r == [proposal EXCEPT !.status = "rejected", !.resolvedAt = seenAt[p],
                                 !.overrideOutcome = "expired"]
<1>1. /\ pc[p] = "close" /\ proposal.status = Override /\ Put(r) /\ UNCHANGED <<repos, now>>
  BY DEF CloseExpiredOverride, Overdue
<1>2. proposal \in ProposalRecord /\ now \in Nat /\ seenAt[p] \in Nat /\ cid # 0
  BY <1>1, Exists DEF Knowing, TypeOK, ProposalType, WorldType, RequestType
<1>3. r \in ProposalRecord /\ r.status = "rejected" /\ r.evidence = proposal.evidence
      /\ r.chain = proposal.chain /\ SameText(r, proposal)
      /\ r.decision = proposal.decision /\ r.overrideOutcome = "expired"
  <2>1. "rejected" \in Status /\ seenAt[p] \in Int
    BY <1>2 DEF Status, Final
  <2> QED
    BY <1>2, <2>1 DEF ProposalRecord, SameText
<1> HIDE DEF r
<1>4. /\ Rewritten /\ proposal'.status = r.status
      /\ SameText(proposal', r) /\ SameRound(proposal', r)
  BY <1>1, <1>2, <1>3, PutRewrites DEF ProposalType, Knowing, TypeOK
<1> QED
  BY <1>1, <1>2, <1>3, <1>4 DEF Dropped, SameText, SameRound, repos

\* What a hold makes of a proposal.
HeldFrom(r, q, at) ==
  /\ r \in ProposalRecord /\ SameText(r, q) /\ r.chain = q.chain
  /\ \/ r.status = Objected /\ SameRound(r, q)
     \/ /\ r.status = Override /\ r.decision = q.decision
        /\ r.overrideOutcome = q.overrideOutcome
        /\ r.overrideOpenedAt = at /\ r.overrideQuorum >= 1

LEMMA HeldFields ==
  ASSUME WorldType, NEW q \in ProposalRecord, NEW who \in SUBSET Voter, NEW at \in Nat
  PROVE  HeldFrom(HeldState(q, who, at), q, at)
<1>1. HeldState(q, who, at) \in ProposalRecord
  BY HeldType
<1>2. CASE settings.review = "none"
  BY <1>1, <1>2 DEF HeldState, ProposalRecord, HeldFrom, SameText, SameRound
<1>3. CASE settings.review # "none"
  <2> DEFINE expires == at + objectionOverrideDays(settings)
             bar == overrideQuorumFrom(settings, quorumOf(settings), Cardinality(electorate))
             q1 == [q EXCEPT !.status = Override, !.objectors = who,
                             !.overrideOpenedAt = at]
             q2 == [q1 EXCEPT !.overrideExpiresAt = expires, !.overrideQuorum = bar,
                              !.votesFor = {}, !.votesAgainst = {}]
  <2>1. HeldState(q, who, at) = q2
    BY <1>3 DEF HeldState, ProposalRecord
  <2>2. bar >= 1
    BY BarType, ProposalAssumption DEF Positive
  <2> HIDE DEF expires, bar
  <2>3. /\ SameText(q1, q) /\ q1.chain = q.chain /\ q1.status = Override
        /\ q1.decision = q.decision /\ q1.overrideOutcome = q.overrideOutcome
        /\ q1.overrideOpenedAt = at
        /\ DOMAIN q1 = DOMAIN q
    BY DEF ProposalRecord, SameText
  <2> HIDE DEF q1
  <2>4. /\ SameText(q2, q) /\ q2.chain = q.chain /\ q2.status = Override
        /\ q2.decision = q.decision /\ q2.overrideOutcome = q.overrideOutcome
        /\ q2.overrideOpenedAt = at /\ q2.overrideQuorum = bar
    BY <2>3 DEF ProposalRecord, SameText
  <2> HIDE DEF q2
  <2> QED
    BY <1>1, <2>1, <2>2, <2>4 DEF HeldFrom
<1> QED
  BY <1>2, <1>3

\* A hold in time closes the proposal or opens a round of review.
LEMMA HoldStep ==
  ASSUME Knowing, SerialInv, proposal.status = Pending, cid # 0,
         NEW at \in Nat, proposal.resolvedAt < at,
         NEW r, HeldFrom(r, proposal, at), Put(r),
         UNCHANGED <<decisions, votes, objections, effects>>, now' >= now
  PROVE  Dropped \/ Contested
<1>1. /\ Rewritten /\ proposal'.status = r.status
      /\ SameText(proposal', r) /\ SameRound(proposal', r)
  BY PutRewrites DEF HeldFrom, SameText, Knowing, TypeOK
<1>2. CASE r.status = Objected
  <2>1. SameRound(r, proposal)
    BY <1>2 DEF HeldFrom, Objected, Override
  <2> QED
    BY <1>1, <1>2, <2>1 DEF HeldFrom, Dropped, SameText, SameRound
<1>3. CASE r.status = Override
  <2>1. /\ r.decision = proposal.decision /\ r.overrideOutcome = proposal.overrideOutcome
        /\ r.overrideOpenedAt = at /\ r.overrideQuorum >= 1
    BY <1>3 DEF HeldFrom, Objected, Override
  <2> QED
    BY <1>1, <1>3, <2>1 DEF HeldFrom, Contested, SameText, SameRound, Unset
<1> QED
  BY <1>2, <1>3 DEF HeldFrom

LEMMA ApplyIfDueStep ==
  ASSUME Knowing, SerialInv, NEW p \in Request, ApplyIfDue(p)
  PROVE  Dropped \/ Contested \/ RanOut
<1> DEFINE who == Objectors(proposal, objections)
           held == HeldState(proposal, who, seenAt[p])
           closed == [proposal EXCEPT !.status = "approved"]
           applied == [proposal EXCEPT !.status = "approved", !.appliedAt = seenAt[p]]
           few == ~(Cardinality(who) >= objectionThreshold(settings))
<1>1. /\ ProposalType /\ RepoType /\ WorldType /\ seenAt[p] \in Nat /\ now \in Nat
      /\ proposal \in ProposalRecord
  BY DEF Knowing, TypeOK, RequestType, WorldType, ProposalType
<1>2. /\ pc[p] = "apply" /\ proposal.status = Pending /\ proposal.applyAt <= seenAt[p]
      /\ UNCHANGED <<decisions, votes, objections, now>>
      /\ \/ Put(held) /\ UNCHANGED effects
         \/ Put(closed) /\ UNCHANGED effects
         \/ few /\ Put(applied) /\ Applied(proposal, proposal.decision, "window")
  BY DEF ApplyIfDue, DueBy
<1>3. cid # 0
  BY <1>2, Exists
<1>4. proposal.resolvedAt < seenAt[p]
  BY <1>1, <1>2 DEF SerialInv, Windowed, ProposalRecord
<1>5. CASE Put(held) /\ UNCHANGED effects
  <2>1. who \in SUBSET Voter
    BY <1>1, ObjectorsType
  <2> HIDE DEF who
  <2>2. HeldFrom(held, proposal, seenAt[p])
    BY <1>1, <2>1, HeldFields
  <2> HIDE DEF held
  <2> QED
    BY <1>1, <1>2, <1>3, <1>4, <1>5, <2>2, HoldStep
<1>6. CASE Put(closed) /\ UNCHANGED effects
  <2>1. closed \in ProposalRecord /\ closed.status = "approved"
        /\ closed.chain = proposal.chain
        /\ SameText(closed, proposal) /\ SameRound(closed, proposal)
    BY <1>1 DEF ProposalRecord, Status, Final, SameText, SameRound
  <2> HIDE DEF closed
  <2>2. /\ Rewritten /\ proposal'.status = "approved"
        /\ SameText(proposal', closed) /\ SameRound(proposal', closed)
    BY <1>1, <1>3, <1>6, <2>1, PutRewrites DEF SameText
  <2> QED
    BY <1>1, <1>2, <1>6, <2>1, <2>2 DEF Dropped, SameText, SameRound
<1>7. CASE few /\ Put(applied) /\ Applied(proposal, proposal.decision, "window")
  <2>1. "approved" \in Status /\ seenAt[p] \in Int
    BY <1>1 DEF Status, Final
  <2>2. applied \in ProposalRecord /\ applied.status = "approved"
        /\ applied.chain = proposal.chain
        /\ SameText(applied, proposal) /\ SameRound(applied, proposal)
    BY <1>1, <2>1 DEF ProposalRecord, SameText, SameRound
  <2> HIDE DEF applied
  <2>3. /\ Rewritten /\ proposal'.status = "approved"
        /\ SameText(proposal', applied) /\ SameRound(proposal', applied)
    BY <1>1, <1>3, <1>7, <2>2, PutRewrites DEF SameText
  <2>4. Cardinality(who) \in Nat /\ objectionThreshold(settings) \in Nat
    <3>1. who \in SUBSET Voter
      BY <1>1, ObjectorsType
    <3>2. settings \in Settings
      BY <1>1, ProposalAssumption DEF ProposalAssumption, WorldType
    <3> QED
      BY <3>1, <3>2, SettingsRules, FS_Subset, FS_CardinalityType, ProposalAssumption
         DEF ProposalAssumption, Positive
  <2>5. PICK e : /\ effects' = Append(effects, e)
                 /\ e.text = proposal.text /\ e.decision = proposal.decision
                 /\ e.applyAt = proposal.applyAt
                 /\ e.threshold = objectionThreshold(settings)
    BY <1>7 DEF Applied
  <2>6. Cardinality(who) < e.threshold
    BY <1>7, <2>4, <2>5
  <2> QED
    BY <1>2, <2>2, <2>3, <2>5, <2>6 DEF RanOut, SameText, SameRound
<1> QED
  BY <1>2, <1>5, <1>6, <1>7

LEMMA HoldOrLeaveStep ==
  ASSUME Knowing, SerialInv, NEW p \in Request, HoldOrLeave(p)
  PROVE  Dropped \/ Contested \/ Still
<1> DEFINE who == Objectors(snap[p], objections)
           held == HeldState(snap[p], who, now + 1)
<1>1. /\ WorldType /\ RepoType /\ now \in Nat /\ snap[p] \in ProposalRecord
      /\ proposal \in ProposalRecord
  BY DEF Knowing, TypeOK, WorldType, RequestType, ProposalType
<1>2. /\ pc[p] = "hold" /\ UNCHANGED repos
      /\ \/ Put(held) /\ now' = now + 1
         \/ UNCHANGED <<proposal, cid, now>>
  BY DEF HoldOrLeave
<1>3. CASE UNCHANGED <<proposal, cid, now>>
  BY <1>1, <1>2, <1>3 DEF Still, repos
<1>4. CASE Put(held) /\ now' = now + 1
  <2>1. proposal.status = Pending /\ snap[p] = proposal
    BY <1>2 DEF SerialInv, Informed, Holding
  <2>2. cid # 0
    BY <1>2, Exists
  <2>3. proposal.resolvedAt < now + 1
    BY <1>1, <2>1 DEF SerialInv, Windowed, ProposalRecord
  <2>4. who \in SUBSET Voter
    BY <1>1, ObjectorsType
  <2> HIDE DEF who
  <2>5. HeldFrom(held, proposal, now + 1)
    BY <1>1, <2>1, <2>4, HeldFields
  <2> HIDE DEF held
  <2> QED
    BY <1>1, <1>2, <1>4, <2>1, <2>2, <2>3, <2>5, HoldStep DEF repos
<1> QED
  BY <1>2, <1>3, <1>4

LEMMA CommitAmendmentStep ==
  ASSUME Knowing, SerialInv, NEW p \in Request, CommitAmendment(p)
  PROVE  Reworded(p)
<1> DEFINE r1 == [snap[p] EXCEPT !.text = draft[p], !.votesFor = {}, !.votesAgainst = {}]
           r == [r1 EXCEPT !.expiresAt = seenAt[p] + Ttl, !.amendedAt = seenAt[p]]
<1>1. /\ pc[p] = "amend" /\ UNCHANGED <<repos, now>>
      /\ Put([snap[p] EXCEPT !.text = draft[p], !.votesFor = {}, !.votesAgainst = {},
                             !.expiresAt = seenAt[p] + Ttl, !.amendedAt = seenAt[p]])
  BY DEF CommitAmendment
<1>2. /\ snap[p] = proposal /\ draft[p] \in Text /\ snap[p].status = Open
  BY <1>1 DEF Knowing, RequestsMean, RequestMeans, SerialInv, Informed
<1>3. cid # 0
  BY <1>1, Exists
<1>4. snap[p] \in ProposalRecord /\ seenAt[p] \in Int /\ seenAt[p] + Ttl \in Int
  BY ProposalAssumption DEF RequestType, ProposalAssumption, Positive, Knowing, TypeOK
<1>5. Put(r)
  BY <1>1, <1>4 DEF ProposalRecord
<1>6. /\ r1 \in ProposalRecord /\ r1.status = Open /\ r1.text = draft[p]
      /\ r1.evidence = proposal.evidence /\ r1.chain = proposal.chain
      /\ SameRound(r1, proposal)
  BY <1>2, <1>4 DEF ProposalRecord, SameRound
<1> HIDE DEF r1
<1>7. /\ r \in ProposalRecord /\ r.status = Open /\ r.text = draft[p]
      /\ r.evidence = proposal.evidence /\ r.chain = proposal.chain
      /\ r.amendedAt = seenAt[p] /\ SameRound(r, proposal)
  BY <1>4, <1>6 DEF ProposalRecord, SameRound
<1> HIDE DEF r
<1>8. /\ Rewritten /\ proposal'.status = r.status
      /\ SameText(proposal', r) /\ SameRound(proposal', r)
  BY <1>3, <1>5, <1>7, PutRewrites DEF Knowing, TypeOK
<1> QED
  BY <1>1, <1>2, <1>7, <1>8 DEF Reworded, SameText, SameRound, repos

-----------------------------------------------------------------------------
\* A vote being resolved.

\* It decides from the proposal as it is.
LEMMA Resolving ==
  ASSUME Knowing, SerialInv, NEW p \in Request, pc[p] = "resolve"
  PROVE  /\ snap[p] = proposal /\ snapCid[p] = cid /\ cid # 0
         /\ proposal.status \in {Open, Override} /\ proposal \in ProposalRecord
  BY Exists DEF SerialInv, Informed, Holding, Knowing, RequestsMean, RequestMeans,
                TypeOK, ProposalType

LEMMA CastFields ==
  ASSUME Knowing, SerialInv, NEW p \in Request, pc[p] = "resolve"
  PROVE  /\ Cast(p) \in ProposalRecord /\ Cast(p).status = proposal.status
         /\ Cast(p).chain = proposal.chain
         /\ SameText(Cast(p), proposal) /\ SameRound(Cast(p), proposal)
<1>1. snap[p] = proposal /\ proposal \in ProposalRecord /\ casting[p] \in SUBSET Voter
  BY Resolving DEF Knowing, TypeOK, RequestType
<1> QED
  BY <1>1 DEF Cast, ProposalRecord, SameText, SameRound

LEMMA CountedHere ==
  ASSUME Knowing, SerialInv, NEW p \in Request, pc[p] = "resolve"
  PROVE  Counted(p) = tallyFromVoteRecords(proposal, cid, votes)
<1>1. /\ Cast(p).chain = proposal.chain /\ Cast(p).createdAt = proposal.createdAt
      /\ Cast(p).amendedAt = proposal.amendedAt
      /\ Cast(p).overrideOpenedAt = proposal.overrideOpenedAt
  BY CastFields DEF SameText, SameRound
<1>2. knownProposalCids(Cast(p), cid) = knownProposalCids(proposal, cid)
  BY <1>1 DEF knownProposalCids
<1>3. tallyEpoch(Cast(p)) = tallyEpoch(proposal)
  BY <1>1 DEF tallyEpoch
<1> QED
  BY <1>2, <1>3, Resolving DEF Counted, tallyFromVoteRecords

\* What counts in a round of review was cast in it.
LEMMA TallyOfRound ==
  ASSUME proposal.overrideOpenedAt # Unset,
         NEW r \in tallyFromVoteRecords(proposal, cid, votes)
  PROVE  r \in votes /\ r.at >= proposal.overrideOpenedAt
  BY DEF tallyFromVoteRecords, countableVote, tallyEpoch

\* A round carries on enough records for its bar.
LEMMA CarriedOnRecords ==
  ASSUME Knowing, SerialInv, NEW p \in Request, pc[p] = "resolve",
         proposal.status = Override, proposal.evidence, Outcome(p) # "none"
  PROVE  /\ Outcome(p) = "approved"
         /\ Cardinality(Saying(Counted(p), "for")) >= proposal.overrideQuorum
         /\ Counted(p) # {}
<1>1. snap[p] = proposal
  BY Resolving
<1>2. Outcome(p) = RecordOutcome(p)
  BY <1>1 DEF Outcome
<1>3. RecordOutcome(p) = decideOverride(Cardinality(Saying(Counted(p), "for")),
                                        proposal.overrideQuorum)
  BY <1>1 DEF RecordOutcome, RoundOutcome
<1>4. /\ Outcome(p) = "approved"
      /\ Cardinality(Saying(Counted(p), "for")) >= proposal.overrideQuorum
  BY <1>2, <1>3 DEF decideOverride
<1>5. proposal.overrideQuorum >= 1 /\ proposal.overrideQuorum \in Nat
  BY DEF SerialInv, Reviewed, Knowing, TypeOK, ProposalType, ProposalRecord
<1>6. ASSUME Counted(p) = {} PROVE FALSE
  <2>1. Saying(Counted(p), "for") = {}
    BY <1>6 DEF Saying
  <2>2. Cardinality(Saying(Counted(p), "for")) = 0
    BY <2>1, FS_EmptySet
  <2> QED
    BY <1>4, <1>5, <2>2
<1> QED
  BY <1>4, <1>6

\* The decision of another round is never cited again.
LEMMA NeverReused ==
  ASSUME Knowing, SerialInv, NEW p \in Request, pc[p] = "resolve",
         proposal.evidence, Outcome(p) # "none"
  PROVE  ~Reusable(p)
<1> SUFFICES ASSUME Reusable(p) PROVE FALSE
  OBVIOUS
<1>1. decisions # <<>> /\ decisions[Len(decisions)].votes = Counted(p)
  BY DEF Reusable
<1>2. proposal.status = Override
  BY <1>1, Resolving DEF SerialInv, Staged, Undecided
<1>3. Counted(p) # {}
  BY <1>2, CarriedOnRecords
<1>4. PICK r : r \in Counted(p)
  BY <1>3
<1>5. r \in tallyFromVoteRecords(proposal, cid, votes)
  BY <1>4, CountedHere
<1>6. proposal.overrideOpenedAt # Unset /\ proposal.overrideOpenedAt \in Int
  BY <1>2 DEF SerialInv, Reviewed, Knowing, TypeOK, ProposalType, ProposalRecord
<1>7. r.at >= proposal.overrideOpenedAt /\ r.at \in Nat
  BY <1>5, <1>6, TallyOfRound DEF Knowing, TypeOK, RepoType, VoteRecord
<1>8. Len(decisions) \in DOMAIN decisions
  BY <1>1 DEF Knowing, TypeOK, RepoType
<1>9. r.at < proposal.overrideOpenedAt
  BY <1>1, <1>2, <1>4, <1>8 DEF SerialInv, Reviewed
<1> QED
  BY <1>6, <1>7, <1>9

LEMMA DecisionTallied ==
  ASSUME Knowing, SerialInv, NEW p \in Request, pc[p] = "resolve",
         proposal.evidence, Outcome(p) # "none", decisions' = DecisionWrite(p)
  PROVE  \E d : decisions' = Append(decisions, d) /\ Tallied(d)
<1> DEFINE d == [outcome |-> Outcome(p), votes |-> Counted(p),
                 text |-> snap[p].text, quorum |-> QuorumApplied(p),
                 override |-> snap[p].status = Override,
                 supersedes |-> Len(decisions)]
<1>1. snap[p] = proposal
  BY Resolving
<1>2. decisions' = Append(decisions, d)
  BY <1>1, NeverReused DEF DecisionWrite
<1>3. /\ d.text = proposal.text /\ d.votes = tallyFromVoteRecords(proposal, cid, votes)
      /\ d.override = (proposal.status = Override)
  BY <1>1, CountedHere
<1>4. proposal.status = Override =>
        Cardinality(Saying(d.votes, "for")) >= proposal.overrideQuorum
  BY CarriedOnRecords
<1> HIDE DEF d
<1> QED
  BY <1>2, <1>3, <1>4 DEF Tallied

\* A proposal as a vote closes it.
ClosedFrom(r, p) ==
  /\ r \in ProposalRecord /\ SameText(r, proposal) /\ r.chain = proposal.chain
  /\ r.resolvedAt = now
  /\ r.overrideOpenedAt = proposal.overrideOpenedAt
  /\ r.overrideQuorum = proposal.overrideQuorum
  /\ r.overrideOutcome = IF proposal.status = Override THEN "carried"
                         ELSE proposal.overrideOutcome
  /\ r.decision = IF proposal.evidence THEN Len(DecisionWrite(p)) ELSE proposal.decision

LEMMA ClosedFields ==
  ASSUME Knowing, SerialInv, NEW p \in Request, pc[p] = "resolve",
         Outcome(p) \in {"approved", "rejected"}, NEW s \in Status
  PROVE  ClosedFrom(Closed(p, s), p) /\ Closed(p, s).status = s
<1> DEFINE c1 == [Cast(p) EXCEPT !.status = s, !.resolvedAt = now]
           dec == IF snap[p].evidence THEN Len(DecisionWrite(p)) ELSE Cast(p).decision
           over == IF snap[p].status = Override THEN "carried" ELSE Cast(p).overrideOutcome
           c == [c1 EXCEPT !.decision = dec, !.overrideOutcome = over]
<1>1. snap[p] = proposal
  BY Resolving
<1>2. /\ Cast(p) \in ProposalRecord /\ Cast(p).chain = proposal.chain
      /\ SameText(Cast(p), proposal) /\ SameRound(Cast(p), proposal)
  BY CastFields
<1>3. Closed(p, s) \in ProposalRecord /\ Closed(p, s).status = s
  BY ClosingFacts
<1>4. Closed(p, s) = c
  BY <1>2 DEF Closed, ProposalRecord
<1>5. dec = IF proposal.evidence THEN Len(DecisionWrite(p)) ELSE proposal.decision
  BY <1>1, <1>2 DEF SameRound
<1>6. over = IF proposal.status = Override THEN "carried" ELSE proposal.overrideOutcome
  BY <1>1, <1>2 DEF SameRound
<1>7. /\ SameText(c1, proposal) /\ c1.chain = proposal.chain /\ c1.resolvedAt = now
      /\ c1.overrideOpenedAt = proposal.overrideOpenedAt
      /\ c1.overrideQuorum = proposal.overrideQuorum
      /\ DOMAIN c1 = DOMAIN Cast(p)
  BY <1>2 DEF ProposalRecord, SameText, SameRound
<1> HIDE DEF c1, dec, over
<1>8. /\ SameText(c, proposal) /\ c.chain = proposal.chain /\ c.resolvedAt = now
      /\ c.overrideOpenedAt = proposal.overrideOpenedAt
      /\ c.overrideQuorum = proposal.overrideQuorum
      /\ c.decision = dec /\ c.overrideOutcome = over
  BY <1>2, <1>7 DEF ProposalRecord, SameText
<1> HIDE DEF c
<1> QED
  BY <1>3, <1>4, <1>5, <1>6, <1>8 DEF ClosedFrom

LEMMA KeepOpenStep ==
  ASSUME Knowing, SerialInv, NEW p \in Request, KeepOpen(p)
  PROVE  Kept
<1>1. /\ pc[p] = "resolve" /\ Put(Cast(p))
      /\ UNCHANGED <<decisions, votes, objections, effects, now>>
  BY DEF KeepOpen, VoteCommitted
<1>2. /\ Rewritten /\ proposal'.status = Cast(p).status
      /\ SameText(proposal', Cast(p)) /\ SameRound(proposal', Cast(p))
  BY <1>1, CastFields, Resolving, PutRewrites DEF SameText, Knowing, TypeOK
<1> QED
  BY <1>1, <1>2, CastFields, Resolving DEF Kept, SameText, SameRound

\* What every closing vote has in common.
LEMMA ClosingStep ==
  ASSUME Knowing, SerialInv, NEW p \in Request, pc[p] = "resolve",
         Outcome(p) \in {"approved", "rejected"}, decisions' = DecisionWrite(p),
         UNCHANGED <<votes, objections, now>>,
         NEW r, ClosedFrom(r, p), Put(r),
         \/ /\ proposal.status = Open /\ r.status = Pending
            /\ proposal.evidence /\ r.applyAt > now
            /\ UNCHANGED effects
         \/ /\ r.status \in {"approved", "rejected"}
            /\ proposal.status = Override => r.status = "approved"
            /\ UNCHANGED effects
         \/ /\ r.status = "approved"
            /\ \E e : /\ effects' = Append(effects, e) /\ e.text = proposal.text
                      /\ e.via \in {"vote", "override"}
  PROVE  Decided(p)
<1>1. /\ Rewritten /\ proposal'.status = r.status
      /\ SameText(proposal', r) /\ SameRound(proposal', r)
  BY Resolving, PutRewrites DEF ClosedFrom, SameText, Knowing, TypeOK
<1>2. IF proposal.evidence
      THEN /\ \E d : decisions' = Append(decisions, d) /\ Tallied(d)
           /\ r.decision = Len(decisions')
      ELSE UNCHANGED decisions /\ r.decision = proposal.decision
  <2>1. CASE proposal.evidence
    BY <2>1, DecisionTallied DEF ClosedFrom
  <2>2. CASE ~proposal.evidence
    BY <2>2, Resolving DEF ClosedFrom, DecisionWrite
  <2> QED
    BY <2>1, <2>2
<1>3. proposal.status \in {Open, Override}
  BY Resolving
<1>4. SameText(proposal', proposal)
  BY <1>1 DEF ClosedFrom, SameText
<1> QED
  BY <1>1, <1>2, <1>3, <1>4 DEF Decided, ClosedFrom, SameRound

\* Only an approval carries a round of review.
LEMMA ReviewOnlyApproves ==
  ASSUME Knowing, SerialInv, NEW p \in Request, pc[p] = "resolve", Outcome(p) # "none",
         proposal.status = Override
  PROVE  Outcome(p) = "approved" /\ proposal.evidence
<1>1. proposal.evidence
  BY DEF SerialInv, Reviewed, Staged
<1> QED
  BY <1>1, CarriedOnRecords

LEMMA RejectStep ==
  ASSUME Knowing, SerialInv, NEW p \in Request, Reject(p)
  PROVE  Decided(p)
<1>1. /\ pc[p] = "resolve" /\ Outcome(p) = "rejected" /\ Put(Closed(p, "rejected"))
      /\ decisions' = DecisionWrite(p) /\ UNCHANGED <<votes, objections, now, effects>>
  BY DEF Reject, VoteCommitted
<1>2. "rejected" \in Status
  BY DEF Status, Final
<1>3. ClosedFrom(Closed(p, "rejected"), p) /\ Closed(p, "rejected").status = "rejected"
  BY <1>1, <1>2, ClosedFields
<1>4. proposal.status # Override
  BY <1>1, ReviewOnlyApproves
<1> QED
  BY <1>1, <1>3, <1>4, ClosingStep

LEMMA ApproveUnapplicableStep ==
  ASSUME Knowing, SerialInv, NEW p \in Request, ApproveUnapplicable(p)
  PROVE  Decided(p)
<1>1. /\ pc[p] = "resolve" /\ Outcome(p) = "approved" /\ Put(Closed(p, "approved"))
      /\ decisions' = DecisionWrite(p) /\ UNCHANGED <<votes, objections, now, effects>>
  BY DEF ApproveUnapplicable, VoteCommitted
<1>2. "approved" \in Status
  BY DEF Status, Final
<1>3. ClosedFrom(Closed(p, "approved"), p) /\ Closed(p, "approved").status = "approved"
  BY <1>1, <1>2, ClosedFields
<1> QED
  BY <1>1, <1>3, ClosingStep

LEMMA AwaitApplicationStep ==
  ASSUME Knowing, SerialInv, NEW p \in Request, AwaitApplication(p)
  PROVE  Decided(p)
<1> DEFINE q == Closed(p, Pending)
           until == now + timelockHours(settings)
           r == [q EXCEPT !.applyAt = until]
<1>1. /\ pc[p] = "resolve" /\ Outcome(p) = "approved" /\ Put(r) /\ HasWindow(p)
      /\ decisions' = DecisionWrite(p) /\ UNCHANGED <<votes, objections, now, effects>>
  BY DEF AwaitApplication, VoteCommitted
<1>2. proposal.evidence /\ proposal.status = Open /\ timelockHours(settings) > 0
  BY <1>1, Resolving DEF HasWindow
<1>3. now \in Nat /\ timelockHours(settings) \in Int /\ until > now
  BY <1>2, SettingsRules, ProposalAssumption
     DEF Knowing, TypeOK, WorldType, ProposalAssumption
<1>4. Pending \in Status /\ until \in Int
  BY <1>3 DEF Status
<1> HIDE DEF until
<1>5. ClosedFrom(q, p) /\ q.status = Pending
  BY <1>1, <1>4, ClosedFields
<1> HIDE DEF q
<1>6. ClosedFrom(r, p) /\ r.status = Pending /\ r.applyAt = until
  BY <1>4, <1>5 DEF ClosedFrom, ProposalRecord, SameText
<1> HIDE DEF r
<1> QED
  BY <1>1, <1>2, <1>3, <1>6, ClosingStep

LEMMA ApproveAndApplyStep ==
  ASSUME Knowing, SerialInv, NEW p \in Request, ApproveAndApply(p)
  PROVE  Decided(p)
<1> DEFINE q == Closed(p, "approved")
           r == [q EXCEPT !.appliedAt = now]
<1>1. /\ pc[p] = "resolve" /\ Outcome(p) = "approved"
      /\ decisions' = DecisionWrite(p) /\ UNCHANGED <<votes, objections, now>>
      /\ \/ Put(r) /\ Applied(snap[p], Len(DecisionWrite(p)), "override")
         \/ Put(q) /\ Applied(snap[p], q.decision, "vote")
  BY DEF ApproveAndApply, VoteCommitted
<1>2. "approved" \in Status /\ now \in Int
  BY DEF Status, Final, Knowing, TypeOK, WorldType
<1>3. ClosedFrom(q, p) /\ q.status = "approved"
  BY <1>1, <1>2, ClosedFields
<1> HIDE DEF q
<1>4. ClosedFrom(r, p) /\ r.status = "approved"
  BY <1>2, <1>3 DEF ClosedFrom, ProposalRecord, SameText
<1> HIDE DEF r
<1>5. snap[p] = proposal
  BY <1>1, Resolving
<1>6. \E e : /\ effects' = Append(effects, e) /\ e.text = proposal.text
             /\ e.via \in {"vote", "override"}
  BY <1>1, <1>5 DEF Applied
<1>7. PICK c : c \in {q, r} /\ Put(c)
  BY <1>1
<1>8. ClosedFrom(c, p) /\ c.status = "approved"
  BY <1>3, <1>4, <1>7
<1> QED
  BY <1>1, <1>6, <1>7, <1>8, ClosingStep

-----------------------------------------------------------------------------
\* Every step is of one of these kinds.

SerialNext == Next /\ SerialAmendments /\ SeedFirst

LEMMA RequestStep ==
  ASSUME Knowing, SerialInv, NEW p \in Request,
         Arrive(p) \/ Handle(p) \/ SweepFails(p) \/ Die(p)
  PROVE  \/ Still \/ Casting \/ Objecting \/ Created \/ Kept \/ Dropped \/ Contested
         \/ RanOut \/ Reworded(p) \/ Decided(p)
<1>1. CASE Arrive(p)
  BY <1>1, ArriveStep
<1>2. CASE SweepFails(p) \/ Die(p)
  BY <1>2, QuietHandlers
<1>3. CASE Handle(p)
  <2>1. CASE \/ ApplyNothing(p) \/ CloseNothing(p) \/ VoteRefused(p) \/ EnterVote(p)
             \/ ObjectionRefused(p) \/ EnterObjection(p)
    BY <2>1, QuietHandlers
  <2>2. CASE SeedVote(p) \/ RecordVotes(p) \/ RecordObjection(p)
    BY <2>2, SeedVoteStep, RecordVotesStep, RecordObjectionStep
  <2>3. CASE \/ ExpireProposal(p) \/ CloseExpiredOverride(p) \/ ApplyIfDue(p)
             \/ HoldOrLeave(p) \/ CommitAmendment(p)
    BY <2>3, ExpireProposalStep, CloseExpiredOverrideStep, ApplyIfDueStep,
       HoldOrLeaveStep, CommitAmendmentStep
  <2>4. CASE \/ KeepOpen(p) \/ Reject(p) \/ AwaitApplication(p) \/ ApproveAndApply(p)
             \/ ApproveUnapplicable(p)
    BY <2>4, KeepOpenStep, RejectStep, AwaitApplicationStep, ApproveAndApplyStep,
       ApproveUnapplicableStep
  <2> QED
    BY <1>3, <2>1, <2>2, <2>3, <2>4 DEF Handle
<1> QED
  BY <1>1, <1>2, <1>3

LEMMA NextSteps ==
  ASSUME Knowing, SerialInv, [Next]_vars
  PROVE  Step
<1>1. CASE UNCHANGED vars
  BY <1>1 DEF vars, repos, Step, Still, Knowing, TypeOK, WorldType
<1> QED
  BY <1>1, RequestStep, EnvironmentStep DEF Next, Step

-----------------------------------------------------------------------------
\* SerialInv is inductive.  First, who may be where.

LEMMA NothingYet ==
  ASSUME Knowing, SerialInv, cid = 0, NEW p \in Request,
         Arrive(p) \/ Handle(p) \/ SweepFails(p) \/ Die(p)
  PROVE  cid' # 0
<1>1. pc[p] = "idle"
  BY DEF SerialInv, Apart
<1>2. ~SomethingDue
  BY DEF Knowing, ProposalMeans, SomethingDue, DueBy, Overdue, Pending, Override
<1>3. CASE Arrive(p)
  <2>1. CASE Read(p)
    BY <1>2, <2>1 DEF Read
  <2>2. ASSUME NEW who \in Voter, NEW v \in {"for", "against"}, Vote(p, who, v) PROVE FALSE
    BY <2>2 DEF Vote, Begin
  <2>3. ASSUME NEW who \in Voter, Object(p, who) PROVE FALSE
    BY <2>3 DEF Object, Begin
  <2>4. ASSUME NEW who \in Voter, NEW t \in Text, Amend(p, who, t) PROVE FALSE
    BY <2>4 DEF Amend, Begin
  <2>5. ASSUME NEW who \in Voter, NEW t \in Text, CreateProposal(p, who, t) PROVE cid' # 0
    BY <2>5, CreateProposalStep DEF Created
  <2> QED
    BY <1>3, <2>1, <2>2, <2>3, <2>4, <2>5 DEF Arrive
<1>4. CASE Handle(p)
  BY <1>1, <1>4 DEF Handle, SeedVote, ApplyNothing, ApplyIfDue, CloseNothing,
     CloseExpiredOverride, VoteRefused, ExpireProposal, EnterVote, RecordVotes, KeepOpen,
     Reject, AwaitApplication, ApproveAndApply, ApproveUnapplicable, ObjectionRefused,
     EnterObjection, RecordObjection, HoldOrLeave, CommitAmendment
<1>5. CASE SweepFails(p) \/ Die(p)
  BY <1>1, <1>5 DEF SweepFails, Die
<1> QED
  BY <1>3, <1>4, <1>5

LEMMA NextApart ==
  ASSUME Knowing, SerialInv, NEW p \in Request,
         Arrive(p) \/ Handle(p) \/ SweepFails(p) \/ Die(p),
         SerialAmendments, SeedFirst, NEW q \in Request
  PROVE  Apart(q)'
<1>1. Moves(p)
  BY RequestMoves
<1>2. NoOne \notin Request
  BY ProposalAssumption DEF ProposalAssumption
<1>3. /\ pc[q] \in Holding => lock = q
      /\ pc[p] \in Holding => lock = p
      /\ pc[q] \in Lockless => \A r \in Request \ {q} : pc[r] \notin Writing
      /\ cid = 0 => \A r \in Request : pc[r] = "idle"
  BY DEF SerialInv, Apart
<1>4. pc'[q] \in Holding => lock' = q
  <2>1. CASE q = p
    BY <1>1, <1>3, <2>1
       DEF Moves, MovesOn, Enters, Writes, Seeds, Amends, Holding
  <2>2. CASE q # p
    <3>1. pc'[q] = pc[q]
      BY <1>1, <2>2 DEF Moves, MovesOn, Enters, Writes, Seeds, Amends, Others
    <3>2. pc[q] \in Holding => lock = q /\ UNCHANGED lock
      BY <1>1, <1>2, <1>3, <2>2 DEF Moves, MovesOn, Enters, Writes, Seeds, Amends, LetsGo
    <3> QED
      BY <3>1, <3>2
  <2> QED
    BY <2>1, <2>2
<1>5. ASSUME pc'[q] \in Lockless, NEW r \in Request \ {q}
      PROVE  pc'[r] \notin Writing
  <2>1. CASE pc'[q] = "amend"
    BY <1>5, <2>1 DEF SerialAmendments
  <2>2. CASE pc'[q] = "seed" /\ pc[q] = "seed"
    BY <1>5, <2>2 DEF SeedFirst
  <2>3. CASE pc'[q] = "seed" /\ pc[q] # "seed"
    <3>1. q = p /\ Seeds(p)
      BY <1>1, <2>3 DEF Moves, MovesOn, Enters, Writes, Seeds, Amends, Others
    <3>2. pc'[r] = "idle"
      BY <1>3, <3>1 DEF Seeds, Others
    <3> QED
      BY <3>2 DEF Writing
  <2> QED
    BY <1>5, <2>1, <2>2, <2>3 DEF Lockless
<1>6. cid' # 0
  <2>1. CASE cid = 0
    BY <2>1, NothingYet
  <2>2. CASE cid # 0
    <3>1. cid \in Nat
      BY DEF Knowing, TypeOK, ProposalType
    <3>2. Step
      BY NextSteps DEF Next
    <3> QED
      BY <2>2, <3>1, <3>2 DEF Step, Still, Casting, Objecting, Created, Kept, Reworded,
         Dropped, Contested, RanOut, Decided, Rewritten
  <2> QED
    BY <2>1, <2>2
<1> QED
  BY <1>4, <1>5, <1>6 DEF Apart

\* A holder of the lock, and a writer without one, find what they read.
LEMMA NobodyElseCommits ==
  ASSUME Knowing, SerialInv, NEW p \in Request, NEW q \in Request \ {p},
         MayCommit(p), pc[q] \in Holding
  PROVE  UNCHANGED <<proposal, cid>>
<1>1. lock = q /\ q # NoOne /\ cid # 0
  BY ProposalAssumption DEF SerialInv, Apart, Holding, ProposalAssumption
<1>2. pc[p] \notin Holding
  BY <1>1 DEF SerialInv, Apart
<1>3. pc[p] # "amend"
  BY DEF SerialInv, Apart, Lockless, Holding, Writing
<1> QED
  BY <1>1, <1>2, <1>3 DEF MayCommit

LEMMA TimePasses ==
  ASSUME Knowing, Step
  PROVE  now' >= now
  BY DEF Step, Still, Casting, Objecting, Created, Kept, Reworded, Dropped, Contested,
         RanOut, Decided, Knowing, TypeOK, WorldType

LEMMA NextInformed ==
  ASSUME Knowing, SerialInv, NEW p \in Request,
         Arrive(p) \/ Handle(p) \/ SweepFails(p) \/ Die(p),
         SerialAmendments, SeedFirst, NEW q \in Request
  PROVE  Informed(q)'
<1>1. Moves(p) /\ MayCommit(p)
  BY RequestMoves
<1>2. \/ Still \/ Casting \/ Objecting \/ Created \/ Kept \/ Dropped \/ Contested
      \/ RanOut \/ Reworded(p) \/ Decided(p)
  BY RequestStep
<1>3. Informed(q) /\ Informed(p) /\ Apart(q)
  BY DEF SerialInv
<1>4. now' >= now /\ now \in Nat /\ cid \in Nat
  BY <1>2, TimePasses DEF Step, Knowing, TypeOK, WorldType, ProposalType
<1>5. Knowing'
  BY NextKnows DEF Next
<1>6. CASE q = p
  <2>1. CASE MovesOn(p)
    BY <1>6, <2>1 DEF MovesOn, Informed, Holding
  <2>2. CASE Enters(p)
    BY <1>6, <2>2 DEF Enters, Informed, Holding
  <2>3. CASE Writes(p)
    BY <1>3, <1>6, <2>3 DEF Writes, Informed, Holding
  <2>4. CASE Seeds(p)
    BY <1>6, <2>4 DEF Seeds, Informed, Holding
  <2>5. CASE Amends(p)
    <3>1. \A r \in votes : r.at <= now /\ r.at \in Nat
      BY DEF SerialInv, Dated, Knowing, TypeOK, RepoType, VoteRecord
    <3> QED
      BY <1>4, <1>6, <2>5, <3>1 DEF Amends, Informed, Holding
  <2> QED
    BY <1>1, <2>1, <2>2, <2>3, <2>4, <2>5 DEF Moves
<1>7. CASE q # p
  <2>1. /\ pc'[q] = pc[q] /\ snap'[q] = snap[q] /\ snapCid'[q] = snapCid[q]
        /\ draft'[q] = draft[q] /\ seenAt'[q] = seenAt[q]
    BY <1>1, <1>7 DEF Moves, MovesOn, Enters, Writes, Seeds, Amends, Others
  <2>2. CASE pc[q] \in Holding
    <3>1. UNCHANGED <<proposal, cid>>
      BY <1>1, <1>7, <2>2, NobodyElseCommits
    <3> QED
      BY <1>3, <2>1, <2>2, <3>1 DEF Informed, Holding
  <2>3. CASE pc[q] = "seed"
    <3>1. pc[p] \notin Writing
      BY <1>3, <1>7, <2>3 DEF Apart, Lockless
    <3>2. proposal.status \in {Open, "expired"} /\ snapCid[q] <= cid
          /\ draft[q] = proposal.text
      BY <1>3, <2>3 DEF Informed
    <3>3. cid # 0 /\ snapCid[q] \in Nat
      BY <2>3, Exists DEF Knowing, TypeOK, RequestType
    <3>4. ~Reworded(p) /\ ~Decided(p) /\ ~Created /\ ~Contested /\ ~RanOut
      BY <3>1, <3>2, <3>3 DEF Reworded, Decided, Created, Contested, RanOut, Writing,
                              Open, Pending, Override
    <3>5. /\ proposal'.text = proposal.text /\ proposal'.status \in {Open, "expired"}
          /\ cid' = cid \/ cid' = cid + 1
      <4>1. CASE Still \/ Casting \/ Objecting
        BY <3>2, <4>1 DEF Still, Casting, Objecting
      <4>2. CASE Kept
        BY <3>2, <4>2 DEF Kept, Rewritten, SameText
      <4>3. CASE Dropped
        BY <3>2, <4>3 DEF Dropped, Rewritten, SameText, Open, Pending, Override
      <4> QED
        BY <1>2, <3>4, <4>1, <4>2, <4>3
    <3>6. snapCid[q] <= cid'
      BY <1>4, <3>2, <3>3, <3>5
    <3> QED
      BY <2>1, <2>3, <3>2, <3>5, <3>6 DEF Informed, Holding
  <2>4. CASE pc[q] = "amend"
    <3>1. UNCHANGED <<proposal, votes>>
      BY <2>1, <2>4 DEF SerialAmendments
    <3>2. /\ snap[q] = proposal /\ seenAt[q] <= now
          /\ \A r \in votes : r.at < seenAt[q]
      BY <1>3, <2>4 DEF Informed
    <3>3. seenAt[q] \in Nat /\ now' \in Nat
      BY <1>5 DEF Knowing, TypeOK, RequestType, WorldType
    <3>4. seenAt[q] <= now'
      BY <1>4, <3>2, <3>3
    <3> QED
      BY <2>1, <2>4, <3>1, <3>2, <3>4 DEF Informed, Holding
  <2>5. CASE pc[q] \notin Holding \cup {"seed", "amend"}
    BY <2>1, <2>5 DEF Informed, Holding
  <2> QED
    BY <2>2, <2>3, <2>4, <2>5
<1> QED
  BY <1>6, <1>7

-----------------------------------------------------------------------------
\* Second, what is on record.

OnRecord == Staged /\ Windowed /\ Reviewed /\ Dated /\ AboutTheText /\ Chained

\* The steps that write the text as it was.
LEMMA SameWording ==
  ASSUME SameText(proposal', proposal)
  PROVE  /\ Worded' = Worded /\ proposal'.text = proposal.text
         /\ proposal'.evidence = proposal.evidence
  BY DEF SameText, Worded, tallyEpochOfText

LEMMA Instants ==
  ASSUME Knowing
  PROVE  /\ now \in Nat /\ cid \in Nat /\ proposal \in ProposalRecord
         /\ Worded \in Int /\ proposal.overrideOpenedAt \in Int
         /\ proposal.resolvedAt \in Int /\ proposal.applyAt \in Int
         /\ \A r \in votes : r.at \in Nat /\ r.cid \in Nat
         /\ \A o \in objections : o.at \in Nat
         /\ \A i \in DOMAIN decisions : decisions[i].votes \subseteq VoteRecord
<1>1. now \in Nat /\ cid \in Nat /\ proposal \in ProposalRecord
  BY DEF Knowing, TypeOK, ProposalType, WorldType
<1>2. /\ Worded \in Int /\ proposal.overrideOpenedAt \in Int
      /\ proposal.resolvedAt \in Int /\ proposal.applyAt \in Int
  BY <1>1 DEF ProposalRecord, Worded, tallyEpochOfText
<1>3. /\ \A r \in votes : r.at \in Nat /\ r.cid \in Nat
      /\ \A o \in objections : o.at \in Nat
  BY DEF Knowing, TypeOK, RepoType, VoteRecord, ObjectionRecord
<1>4. \A i \in DOMAIN decisions : decisions[i].votes \subseteq VoteRecord
  <2>1. \A i \in DOMAIN decisions : decisions[i] \in DecisionRecord
    BY DEF Knowing, TypeOK, RepoType
  <2>2. ASSUME NEW d \in DecisionRecord PROVE d.votes \subseteq VoteRecord
    BY DEF DecisionRecord
  <2> QED
    BY <2>1, <2>2
<1> QED
  BY <1>1, <1>2, <1>3, <1>4

LEMMA RewrittenChained ==
  ASSUME Knowing, Chained, Rewritten
  PROVE  Chained'
<1>1. Lineage(proposal.chain) \subseteq proposal.chain \cup {cid}
  BY DEF Lineage
<1>2. cid \in Nat /\ cid # 0 /\ cid' = cid + 1
  BY DEF Knowing, TypeOK, ProposalType, Rewritten
<1>3. proposal'.chain \subseteq proposal.chain \cup {cid}
  BY <1>1 DEF Rewritten
<1>4. 1 .. cid - 1 \cup {cid} \subseteq 1 .. cid' - 1
  BY <1>2
<1> QED
  BY <1>3, <1>4 DEF Chained

\* Time passes, and nothing else.
LEMMA StillKeeps ==
  ASSUME Knowing, Knowing', OnRecord, Still
  PROVE  OnRecord'
<1>1. now' \in Nat /\ now' >= now
  BY DEF Still, Knowing, TypeOK, WorldType
<1>2. Staged'
  BY <1>1, Instants DEF OnRecord, Staged, Still, Worded
<1>3. Windowed' /\ Reviewed'
  BY <1>1, Instants DEF OnRecord, Windowed, Reviewed, Still, Worded
<1>4. Dated'
  BY <1>1, Instants DEF OnRecord, Dated, Still, Worded
<1>5. AboutTheText' /\ Chained'
  BY DEF OnRecord, AboutTheText, Chained, Still
<1> QED
  BY <1>2, <1>3, <1>4, <1>5 DEF OnRecord

\* A vote or an objection is signed now.
LEMMA SigningKeeps ==
  ASSUME Knowing, Knowing', OnRecord, Casting \/ Objecting
  PROVE  OnRecord'
<1>1. UNCHANGED <<proposal, cid, decisions, effects, now>>
  BY DEF Casting, Objecting
<1>2. cid # 0 /\ proposal.status \notin {"none"}
  BY DEF Casting, Objecting, Knowing, ProposalMeans, Open, Override, Pending
<1>3. \A o \in objections' : o \in objections \/ (o.at = now /\ proposal.status = Pending)
  BY DEF Casting, Objecting
<1>4. \A r \in votes' : r \in votes \/ (r.at = now /\ r.cid <= cid /\ r.text = proposal.text)
  BY DEF Casting, Objecting
<1>5. Staged'
  <2>1. proposal.status \in Undecided => objections' = objections
    BY DEF Casting, Objecting, Undecided, Open, Pending
  <2> QED
    BY <1>1, <1>2, <2>1 DEF OnRecord, Staged, Worded
<1>6. Windowed'
  BY <1>1, <1>3, Instants DEF OnRecord, Windowed, Worded
<1>7. Dated'
  BY <1>1, <1>4, Instants DEF OnRecord, Dated, Worded
<1>8. Reviewed' /\ AboutTheText' /\ Chained'
  BY <1>1 DEF OnRecord, Reviewed, AboutTheText, Chained, Worded
<1> QED
  BY <1>5, <1>6, <1>7, <1>8 DEF OnRecord

LEMMA CreatedKeeps ==
  ASSUME Knowing, Knowing', OnRecord, Created
  PROVE  OnRecord'
<1>1. proposal.status = "none" /\ effects = <<>>
  BY DEF Created, Knowing, ProposalMeans
<1>2. votes = {} /\ decisions = <<>> /\ objections = {}
  BY <1>1 DEF OnRecord, Staged, Undecided, Created
<1>3. votes' = {} /\ decisions' = <<>> /\ objections' = {} /\ effects' = <<>>
  BY <1>1, <1>2 DEF Created
<1>4. Worded' = now /\ now' = now /\ now \in Nat
  BY Instants DEF Created, Worded, tallyEpochOfText
<1>5. Staged'
  BY <1>3, <1>4 DEF Created, Staged, Open, Final, Objected
<1>6. Windowed' /\ Reviewed'
  BY DEF Created, Windowed, Reviewed, Open, Pending, Override
<1>7. Dated' /\ AboutTheText' /\ Chained'
  BY <1>3 DEF Created, Dated, AboutTheText, Chained
<1> QED
  BY <1>5, <1>6, <1>7 DEF OnRecord

\* A rewrite that leaves the text, and no decision behind.
LEMMA CommitKeeps ==
  ASSUME Knowing, Knowing', OnRecord, Kept \/ Dropped \/ Contested
  PROVE  OnRecord'
<1>1. /\ Rewritten /\ SameText(proposal', proposal) /\ now' >= now /\ now' \in Nat
      /\ UNCHANGED <<decisions, votes, objections, effects>>
      /\ proposal'.decision = proposal.decision
  BY Instants DEF Kept, Dropped, Contested, SameRound, Knowing, TypeOK, WorldType
<1>2. /\ cid # 0 /\ cid \in Nat /\ cid' = cid + 1
      /\ Worded' = Worded /\ proposal'.text = proposal.text
      /\ proposal'.evidence = proposal.evidence
  BY <1>1, SameWording, Instants DEF Rewritten
<1>3. Chained'
  BY <1>1, RewrittenChained DEF OnRecord
<1>4. Dated' /\ AboutTheText'
  BY <1>1, <1>2, Instants DEF OnRecord, Dated, AboutTheText
<1>5. CASE Kept
  <2>1. /\ proposal'.status = proposal.status /\ proposal.status \in {Open, Override}
        /\ proposal'.overrideOpenedAt = proposal.overrideOpenedAt
        /\ proposal'.overrideQuorum = proposal.overrideQuorum
        /\ proposal'.overrideOutcome = proposal.overrideOutcome
    BY <1>5 DEF Kept, SameRound
  <2>2. Staged'
    BY <1>1, <1>2, <2>1, Instants DEF OnRecord, Staged
  <2>3. Windowed' /\ Reviewed'
    BY <1>1, <1>2, <2>1 DEF OnRecord, Windowed, Reviewed, Open, Pending, Override
  <2> QED
    BY <1>3, <1>4, <2>2, <2>3 DEF OnRecord
<1>6. CASE Dropped
  <2>1. /\ proposal'.status \in Final /\ proposal.status \notin Final
        /\ proposal'.status = "expired" => proposal.status = Open
    BY <1>6 DEF Dropped, Final, Open, Override, Pending, Objected
  <2>2. Staged'
    BY <1>1, <1>2, <2>1
       DEF OnRecord, Staged, Undecided, Final, Open, Override, Pending, Objected
  <2>3. Windowed' /\ Reviewed'
    BY <2>1 DEF Windowed, Reviewed, Final, Pending, Override, Objected
  <2> QED
    BY <1>3, <1>4, <2>2, <2>3 DEF OnRecord
<1>7. CASE Contested
  <2>1. /\ proposal.status = Pending /\ proposal'.status = Override
        /\ proposal.resolvedAt < proposal'.overrideOpenedAt
        /\ proposal'.overrideOpenedAt # Unset /\ proposal'.overrideQuorum >= 1
        /\ proposal'.overrideOutcome = proposal.overrideOutcome
    BY <1>7 DEF Contested
  <2>2. Staged'
    BY <1>1, <1>2, <2>1
       DEF OnRecord, Staged, Undecided, Final, Open, Override, Pending, Objected
  <2>3. Windowed'
    BY <2>1 DEF Windowed, Pending, Override
  <2>4. /\ proposal.decision # 0 /\ Worded <= proposal.resolvedAt
        /\ \A i \in DOMAIN decisions :
             \A r \in decisions[i].votes : r.at <= proposal.resolvedAt /\ r.at \in Nat
    BY <2>1, Instants DEF OnRecord, Windowed, VoteRecord
  <2>5. proposal'.overrideOpenedAt \in Int
    BY DEF Knowing, TypeOK, ProposalType, ProposalRecord
  <2>6. Reviewed'
    BY <1>1, <1>2, <2>1, <2>4, <2>5, Instants DEF Reviewed
  <2> QED
    BY <1>3, <1>4, <2>2, <2>3, <2>6 DEF OnRecord
<1> QED
  BY <1>5, <1>6, <1>7

\* The window's end: the change is the text that is there.
LEMMA RanOutKeeps ==
  ASSUME Knowing, Knowing', OnRecord, RanOut
  PROVE  OnRecord'
<1>1. /\ Rewritten /\ SameText(proposal', proposal) /\ SameRound(proposal', proposal)
      /\ proposal.status = Pending /\ proposal'.status = "approved"
      /\ UNCHANGED <<decisions, votes, objections, now>>
  BY DEF RanOut
<1>2. /\ cid # 0 /\ cid \in Nat /\ cid' = cid + 1
      /\ Worded' = Worded /\ proposal'.text = proposal.text
      /\ proposal'.evidence = proposal.evidence
      /\ proposal'.decision = proposal.decision
  BY <1>1, SameWording, Instants DEF Rewritten, SameRound
<1>3. PICK e : effects' = Append(effects, e) /\ e.text = proposal.text
  BY DEF RanOut
<1>4. effects = <<>>
  BY <1>1 DEF OnRecord, Staged, Final, Pending, Objected
<1>5. \A i \in DOMAIN effects' : effects'[i] = e
  BY <1>3, <1>4
<1>6. AboutTheText'
  BY <1>1, <1>2, <1>3, <1>5 DEF OnRecord, AboutTheText
<1>7. Dated'
  BY <1>1, <1>2, Instants DEF OnRecord, Dated
<1>8. Staged'
  BY <1>1, <1>2 DEF OnRecord, Staged, Undecided, Final, Open, Pending
<1>9. Windowed' /\ Reviewed'
  BY <1>1 DEF Windowed, Reviewed, Pending, Override
<1> QED
  BY <1>1, <1>6, <1>7, <1>8, <1>9, RewrittenChained DEF OnRecord

\* An amendment: no vote is on the new text yet.
LEMMA RewordedKeeps ==
  ASSUME Knowing, Knowing', SerialInv, OnRecord, NEW p \in Request, Reworded(p)
  PROVE  OnRecord'
<1>1. /\ Rewritten /\ proposal.status = Open /\ proposal'.status = Open
      /\ proposal'.evidence = proposal.evidence
      /\ proposal'.amendedAt = seenAt[p] /\ SameRound(proposal', proposal)
      /\ UNCHANGED <<decisions, votes, objections, effects, now>>
      /\ pc[p] = "amend"
  BY DEF Reworded
<1>2. cid # 0 /\ cid \in Nat /\ cid' = cid + 1
  BY <1>1, Instants DEF Rewritten
<1>3. seenAt[p] \in Nat /\ seenAt[p] <= now /\ \A r \in votes : r.at < seenAt[p]
  BY <1>1 DEF SerialInv, Informed, Knowing, TypeOK, RequestType
<1>4. Worded' = seenAt[p]
  BY <1>1, <1>3 DEF Worded, tallyEpochOfText, Unset
<1>5. decisions = <<>> /\ effects = <<>> /\ objections = {} /\ proposal.decision = 0
  BY <1>1 DEF OnRecord, Staged, Undecided, Final, Open, Objected
<1>6. Staged'
  BY <1>1, <1>2, <1>3, <1>4, <1>5 DEF OnRecord, Staged, SameRound, Undecided
<1>7. Windowed' /\ Reviewed' /\ AboutTheText'
  BY <1>1, <1>5 DEF Windowed, Reviewed, AboutTheText, Open, Pending, Override
<1>8. Dated'
  BY <1>1, <1>2, <1>3, <1>4, Instants DEF OnRecord, Dated
<1> QED
  BY <1>1, <1>6, <1>7, <1>8, RewrittenChained DEF OnRecord

\* A decision taken, with what it closes.
LEMMA DecidedKeeps ==
  ASSUME Knowing, Knowing', OnRecord, NEW p \in Request, Decided(p)
  PROVE  OnRecord'
<1>1. /\ Rewritten /\ SameText(proposal', proposal)
      /\ proposal.status \in {Open, Override}
      /\ proposal'.resolvedAt = now
      /\ proposal'.overrideOpenedAt = proposal.overrideOpenedAt
      /\ proposal'.status \in {Pending, "approved", "rejected"}
      /\ proposal'.status = Pending =>
           proposal.status = Open /\ proposal.evidence /\ proposal'.applyAt > now
      /\ UNCHANGED <<votes, objections, now>>
  BY DEF Decided, Pending
<1>2. /\ cid # 0 /\ cid \in Nat /\ cid' = cid + 1
      /\ Worded' = Worded /\ proposal'.text = proposal.text
      /\ proposal'.evidence = proposal.evidence
  BY <1>1, SameWording, Instants DEF Rewritten
<1>3. effects = <<>> /\ proposal.overrideOutcome = "none"
  BY <1>1 DEF OnRecord, Staged, Final, Open, Override, Objected
<1>4. CASE ~proposal.evidence
  <2>1. UNCHANGED decisions /\ proposal'.decision = proposal.decision
        /\ proposal.decision = 0 /\ proposal.status = Open
    BY <1>1, <1>4 DEF Decided, OnRecord, Staged, Reviewed
  <2>2. decisions = <<>> /\ objections = {}
    BY <2>1 DEF OnRecord, Staged, Undecided
  <2>3. \A i \in DOMAIN effects' : effects'[i].text = proposal.text
    BY <1>3 DEF Decided
  <2>4. proposal'.status \notin {Pending, Override, "expired"} \cup Undecided
    BY <1>1, <1>4 DEF Undecided, Pending, Override, Open
  <2>5. proposal'.status \in Final
    BY <1>1, <2>4 DEF Final
  <2>6. Staged'
    BY <1>2, <2>1, <2>2, <2>4, <2>5 DEF OnRecord, Staged
  <2>7. Windowed' /\ Reviewed' /\ AboutTheText'
    BY <1>2, <2>1, <2>2, <2>3, <2>4 DEF Windowed, Reviewed, AboutTheText
  <2>8. Dated'
    BY <1>1, <1>2, Instants DEF OnRecord, Dated
  <2> QED
    BY <1>1, <2>6, <2>7, <2>8, RewrittenChained DEF OnRecord
<1>5. CASE proposal.evidence
  <2>1. PICK d : decisions' = Append(decisions, d) /\ Tallied(d)
    BY <1>5 DEF Decided
  <2>2. proposal'.decision = Len(decisions') /\ Len(decisions') = Len(decisions) + 1
        /\ Len(decisions) \in Nat
    BY <1>5, <2>1 DEF Decided, Knowing, TypeOK, RepoType
  <2>3. \A i \in DOMAIN decisions' :
          decisions'[i] = d \/ (i \in DOMAIN decisions /\ decisions'[i] = decisions[i])
    BY <2>1 DEF Knowing, TypeOK, RepoType
  <2>4. d.text = proposal.text /\ d.votes \subseteq votes
    BY <2>1 DEF Tallied, tallyFromVoteRecords
  <2>5. \A i \in DOMAIN effects' : effects'[i].text = proposal.text
    BY <1>3 DEF Decided
  <2>6. AboutTheText'
    BY <1>2, <2>3, <2>4, <2>5 DEF OnRecord, AboutTheText
  <2>7. Dated'
    BY <1>1, <1>2, Instants DEF OnRecord, Dated
  <2>8. Staged'
    <3>1. proposal'.status \notin Undecided \cup {"expired"}
      BY <1>1 DEF Undecided, Open, Pending
    <3>2. proposal'.status = Pending => proposal'.overrideOpenedAt = Unset
      BY <1>1 DEF OnRecord, Staged, Undecided
    <3>3. proposal'.status \notin Final => /\ proposal'.status = Pending /\ effects' = <<>>
                                           /\ proposal'.overrideOutcome = "none"
      <4>1. proposal'.status \notin Final => proposal'.status = Pending
        BY <1>1 DEF Final
      <4>2. proposal'.status = Pending => proposal.status = Open /\ effects' = effects
        BY DEF Decided, Pending
      <4>3. proposal.status = Open => proposal'.overrideOutcome = proposal.overrideOutcome
        BY DEF Decided, Open, Override
      <4> QED
        BY <1>3, <4>1, <4>2, <4>3
    <3> QED
      BY <1>2, <1>5, <2>2, <3>1, <3>2, <3>3 DEF Staged
  <2>9. Windowed'
    <3> SUFFICES ASSUME proposal'.status = Pending PROVE Windowed'
      BY DEF Windowed
    <3>1. /\ proposal.status = Open /\ proposal'.applyAt > now
          /\ proposal'.applyAt \in Int /\ now \in Nat
      BY <1>1, Instants DEF Knowing, TypeOK, ProposalType, ProposalRecord
    <3>2. decisions = <<>> /\ objections = {} /\ Worded <= now
      BY <3>1 DEF OnRecord, Staged, Undecided
    <3>3. \A i \in DOMAIN decisions' : decisions'[i] = d
      BY <2>3, <3>2
    <3>4. \A r \in d.votes : r.at <= now
      BY <2>4 DEF OnRecord, Dated
    <3> QED
      BY <1>1, <1>2, <2>2, <3>1, <3>2, <3>3, <3>4 DEF Windowed
  <2>10. Reviewed'
    BY <1>1 DEF Reviewed, Pending, Override
  <2> QED
    BY <1>1, <2>6, <2>7, <2>8, <2>9, <2>10, RewrittenChained DEF OnRecord
<1> QED
  BY <1>4, <1>5

\* The two ways to begin: no proposal, or one from before the evidence model.
LEMMA InitUndecided ==
  ASSUME Init
  PROVE  /\ decisions = <<>> /\ votes = {} /\ objections = {} /\ effects = <<>> /\ now = 0
         /\ proposal.status \in Undecided /\ proposal.decision = 0 /\ proposal.chain = {}
         /\ proposal.overrideOpenedAt = Unset /\ proposal.overrideOutcome = "none"
         /\ proposal.createdAt \in {Unset, 0} /\ proposal.amendedAt = Unset
         /\ \/ proposal.status = "none" /\ proposal.text = NoText
            \/ proposal.status = Open /\ proposal.text \in Text
<1>1. CASE proposal = Blank
  BY <1>1 DEF Init, Blank, Undecided
<1>2. ASSUME NEW t \in Text,
             proposal = [Blank EXCEPT !.status = Open, !.text = t,
                                      !.createdAt = 0, !.expiresAt = Ttl]
      PROVE  /\ proposal.status = Open /\ proposal.decision = 0 /\ proposal.chain = {}
             /\ proposal.overrideOpenedAt = Unset /\ proposal.overrideOutcome = "none"
             /\ proposal.createdAt = 0 /\ proposal.amendedAt = Unset
             /\ proposal.text = t
  BY <1>2 DEF Blank
<1> QED
  BY <1>1, <1>2 DEF Init, Undecided

LEMMA InitSerial == Init => SerialInv
<1> SUFFICES ASSUME Init PROVE SerialInv
  OBVIOUS
<1>1. \A p \in Request : Apart(p) /\ Informed(p)
  BY DEF Init, Apart, Informed, Holding, Lockless
<1>2. /\ decisions = <<>> /\ votes = {} /\ objections = {} /\ effects = <<>> /\ now = 0
      /\ proposal.status \in Undecided /\ proposal.decision = 0 /\ proposal.chain = {}
      /\ proposal.overrideOpenedAt = Unset /\ proposal.overrideOutcome = "none"
      /\ proposal.createdAt \in {Unset, 0} /\ proposal.amendedAt = Unset
  BY InitUndecided
<1>3. Worded <= now
  BY <1>2 DEF Worded, tallyEpochOfText, Unset
<1>4. Staged
  BY <1>2, <1>3 DEF Staged, Undecided, Open
<1>5. Windowed /\ Reviewed
  BY <1>2 DEF Windowed, Reviewed, Undecided, Open, Pending, Override
<1>6. Dated /\ AboutTheText /\ Chained
  BY <1>2 DEF Dated, AboutTheText, Chained
<1> QED
  BY <1>1, <1>4, <1>5, <1>6 DEF SerialInv

LEMMA NextSerial == Knowing /\ SerialInv /\ [SerialNext]_vars => SerialInv'
<1> SUFFICES ASSUME Knowing, SerialInv, [SerialNext]_vars PROVE SerialInv'
  OBVIOUS
<1>1. [Next]_vars
  BY DEF SerialNext
<1>2. Knowing' /\ Step /\ OnRecord
  BY <1>1, NextKnows, NextSteps DEF SerialInv, OnRecord
<1>3. OnRecord'
  BY <1>2, StillKeeps, SigningKeeps, CreatedKeeps, CommitKeeps, RanOutKeeps,
     RewordedKeeps, DecidedKeeps DEF Step
<1>4. ASSUME NEW q \in Request PROVE Apart(q)' /\ Informed(q)'
  <2>1. CASE \E p \in Request : Arrive(p) \/ Handle(p) \/ SweepFails(p) \/ Die(p)
    <3>1. CASE UNCHANGED vars
      BY <3>1 DEF vars, repos, read, asked, SerialInv, Apart, Informed
    <3>2. CASE SerialNext
      BY <2>1, <3>2, NextApart, NextInformed DEF SerialNext
    <3> QED
      BY <3>1, <3>2
  <2>2. CASE Environment \/ UNCHANGED vars
    <3>1. UNCHANGED <<proposal, cid, votes, lock, pc, draft, seenAt, snap, snapCid>>
      BY <2>2 DEF Environment, ChangeSettings, ChangeElectorate, ChangeDelegations, Tick,
                  vars, repos, asked, read
    <3>2. now \in Nat /\ now' \in Nat /\ now' >= now /\ seenAt[q] \in Nat
      BY <1>2, <2>2 DEF Environment, ChangeSettings, ChangeElectorate, ChangeDelegations,
         Tick, vars, Knowing, TypeOK, WorldType, RequestType
    <3>3. Apart(q)'
      BY <3>1 DEF SerialInv, Apart
    <3>4. Informed(q)
      BY DEF SerialInv
    <3>5. Informed(q)'
      BY <3>1, <3>2, <3>4 DEF Informed
    <3> QED
      BY <3>3, <3>5
  <2> QED
    BY <1>1, <2>1, <2>2 DEF Next
<1> QED
  BY <1>3, <1>4 DEF SerialInv, OnRecord

\* The inductive invariant, on which the theorems below rest: among requests that
\* amend alone, and after the creation is whole, at most one writer rewrites the
\* proposal at a time, what each has read of it is still there, and the votes
\* that were signed are those the proposal's own instants and text allow.
THEOREM SerialInvAlways == SerialSpec => [](Knowing /\ SerialInv)
<1>1. [Next /\ SerialAmendments /\ SeedFirst]_vars => [Next]_vars /\ [SerialNext]_vars
  BY DEF SerialNext
<1> QED
  BY <1>1, InitKnows, InitSerial, NextKnows, NextSerial, PTL DEF SerialSpec

LEMMA SerialSteps ==
  ASSUME Knowing, SerialInv, [Next /\ SerialAmendments /\ SeedFirst]_vars
  PROVE  Step /\ Knowing'
<1>1. [Next]_vars
  OBVIOUS
<1> QED
  BY <1>1, NextSteps, NextKnows

LEMMA SerialIsSpec == SerialSpec => Spec
<1>1. [Next /\ SerialAmendments /\ SeedFirst]_vars => [Next]_vars
  OBVIOUS
<1> QED
  BY <1>1, PTL DEF SerialSpec, Spec

-----------------------------------------------------------------------------
\* What follows for a community.

\* However the sweeps, the votes and the objections of overlapping requests
\* interleave, fail or die, none of them rewrites a closed proposal, and none
\* commits its change again: each reads the status again under the lock.
THEOREM ClosedIsFinal == SerialSpec => FinalIsFinal
<1>1. ASSUME Knowing, SerialInv, [Next /\ SerialAmendments /\ SeedFirst]_vars
      PROVE  [proposal.status \in Final => UNCHANGED <<proposal, effects>>]_vars
  <2>1. Step
    BY <1>1, SerialSteps
  <2> SUFFICES ASSUME proposal.status \in Final PROVE UNCHANGED <<proposal, effects>>
    OBVIOUS
  <2>2. proposal.status \notin {"none", Open, Pending, Override}
    BY DEF Final, Open, Pending, Override, Objected
  <2>3. cid # 0
    BY <1>1, <2>2 DEF Knowing, ProposalMeans
  <2> QED
    BY <2>1, <2>2, <2>3 DEF Step, Still, Casting, Objecting, Created, Kept, Dropped,
       Contested, RanOut, Reworded, Decided
<1> QED
  BY <1>1, SerialInvAlways, PTL DEF SerialSpec, FinalIsFinal

\* A change reaches the community's data only with a decision on that very text:
\* what applyIfDue and voteOnProposal commit is what was voted on.
THEOREM ChangesAreDecided == SerialSpec => []EffectIsDecided
<1>1. ASSUME EffectIsApproved, SerialInv PROVE EffectIsDecided
  BY <1>1 DEF EffectIsApproved, SerialInv, AboutTheText, EffectIsDecided
<1> QED
  BY <1>1, SerialIsSpec, ChangesAreApproved, SerialInvAlways, PTL

\* What counts now is on the present text.
LEMMA TallyIsOnTheText ==
  ASSUME Knowing, SerialInv, proposal.status \in {Open, Override},
         NEW r \in tallyFromVoteRecords(proposal, cid, votes)
  PROVE  r.text = proposal.text
<1>1. r \in votes /\ r.at >= tallyEpoch(proposal) /\ r.at \in Nat
  BY Instants DEF tallyFromVoteRecords, countableVote
<1>2. tallyEpoch(proposal) >= Worded
  <2>1. CASE proposal.status = Open
    <3>1. proposal.overrideOpenedAt = Unset
      BY <2>1 DEF SerialInv, Staged, Undecided
    <3> QED
      BY <3>1, Instants DEF tallyEpoch, Worded, tallyEpochOfText
  <2>2. CASE proposal.status = Override
    <3>1. /\ proposal.overrideOpenedAt # Unset
          /\ Worded <= proposal.overrideOpenedAt
      BY <2>2 DEF SerialInv, Reviewed
    <3> QED
      BY <3>1, Instants DEF tallyEpoch
  <2> QED
    BY <2>1, <2>2
<1>3. tallyEpoch(proposal) \in Int
  BY Instants DEF tallyEpoch, ProposalRecord
<1>4. r.at >= Worded
  BY <1>1, <1>2, <1>3, Instants
<1> QED
  BY <1>1, <1>4 DEF SerialInv, Dated

\* A vote never comes to mean another text: not through an amendment that opens
\* a new epoch, a crash between the vote record and the proposal's rewrite, a
\* retry, nor a round of review.
THEOREM MandatesAreForTheText == SerialSpec => []MandateIsForTheText
<1>1. ASSUME Init PROVE MandateIsForTheText
  <2>1. decisions = <<>>
    BY <1>1 DEF Init
  <2>2. DOMAIN decisions = {}
    BY <2>1
  <2> QED
    BY <2>2 DEF MandateIsForTheText
<1>2. ASSUME Knowing, SerialInv, MandateIsForTheText,
             [Next /\ SerialAmendments /\ SeedFirst]_vars
      PROVE  MandateIsForTheText'
  <2>1. Step
    BY <1>2, SerialSteps
  <2>2. CASE UNCHANGED decisions
    BY <1>2, <2>2 DEF MandateIsForTheText
  <2>3. ASSUME NEW p \in Request, Decided(p), proposal.evidence
        PROVE  MandateIsForTheText'
    <3>1. PICK d : decisions' = Append(decisions, d) /\ Tallied(d)
      BY <2>3 DEF Decided
    <3>2. proposal.status \in {Open, Override}
      BY <2>3 DEF Decided
    <3>3. \A r \in d.votes : r.text = d.text
      BY <1>2, <3>1, <3>2, TallyIsOnTheText DEF Tallied
    <3>4. \A i \in DOMAIN decisions' :
            decisions'[i] = d \/ (i \in DOMAIN decisions /\ decisions'[i] = decisions[i])
      BY <1>2, <3>1 DEF Knowing, TypeOK, RepoType
    <3> QED
      BY <1>2, <3>3, <3>4 DEF MandateIsForTheText
  <2> QED
    BY <2>1, <2>2, <2>3 DEF Step, Still, Casting, Objecting, Created, Kept, Dropped,
       Contested, RanOut, Reworded, Decided
<1> QED
  BY <1>1, <1>2, SerialInvAlways, PTL DEF SerialSpec

\* "Nothing sufficiently objected to applies": once applyIfDue has committed a
\* change because its window ran out, the objections on record that name its
\* decision and were in time are, and stay, too few.  An objector who was
\* checked before the end of the window and signs after it cannot add one.
THEOREM HoldsAreBinding == SerialSpec => []HoldsBind
<1>1. ASSUME Init PROVE HoldsBind
  <2>1. effects = <<>>
    BY <1>1 DEF Init
  <2>2. DOMAIN effects = {}
    BY <2>1
  <2> QED
    BY <2>2 DEF HoldsBind
<1>2. ASSUME Knowing, SerialInv, HoldsBind,
             [Next /\ SerialAmendments /\ SeedFirst]_vars
      PROVE  HoldsBind'
  <2>1. Step
    BY <1>2, SerialSteps
  <2>2. effects # <<>> => proposal.status \in Final
    BY <1>2 DEF SerialInv, Staged
  <2>3. CASE UNCHANGED <<effects, objections>>
    BY <1>2, <2>3 DEF HoldsBind
  <2>4. CASE Objecting
    <3>1. effects = <<>> /\ effects' = effects
      BY <2>2, <2>4 DEF Objecting, Final, Pending, Objected
    <3> QED
      BY <3>1 DEF HoldsBind
  <2>5. ASSUME NEW p \in Request, Decided(p) PROVE HoldsBind'
    <3>1. effects = <<>>
      BY <2>2, <2>5 DEF Decided, Final, Open, Override, Objected
    <3>2. \A i \in DOMAIN effects' : effects'[i].via # "window"
      BY <2>5, <3>1 DEF Decided
    <3> QED
      BY <3>2 DEF HoldsBind
  <2>6. CASE RanOut
    <3>1. proposal.status = Pending /\ effects = <<>> /\ UNCHANGED objections
      BY <2>2, <2>6 DEF RanOut, Final, Pending, Objected
    <3>2. PICK e : /\ effects' = Append(effects, e) /\ e.decision = proposal.decision
                   /\ e.applyAt = proposal.applyAt
                   /\ Cardinality(Objectors(proposal, objections)) < e.threshold
      BY <2>6 DEF RanOut
    <3>3. \A o \in objections : proposal.resolvedAt <= o.at
      BY <1>2, <3>1 DEF SerialInv, Windowed
    <3>4. Objectors(proposal, objections)
            = {o.objector : o \in {x \in objections :
                 x.decision = e.decision /\ x.at < e.applyAt}}
      BY <3>2, <3>3 DEF Objectors, countableObjection
    <3>5. \A i \in DOMAIN effects' : effects'[i] = e
      BY <3>1, <3>2
    <3> QED
      BY <3>1, <3>2, <3>4, <3>5 DEF HoldsBind
  <2> QED
    BY <2>1, <2>3, <2>4, <2>5, <2>6 DEF Step, Still, Casting, Created, Kept, Dropped,
       Contested, Reworded
<1> QED
  BY <1>1, <1>2, SerialInvAlways, PTL DEF SerialSpec

\* As many voters as votes, where no voter votes twice.
LEMMA OneVoterPerVote ==
  ASSUME NEW S, \A r, s \in S : r.voter = s.voter => r = s,
         IsFiniteSet({r.voter : r \in S})
  PROVE  Cardinality({r.voter : r \in S}) = Cardinality(S)
<1> DEFINE V == {r.voter : r \in S}
           of == [v \in V |-> CHOOSE r \in S : r.voter = v]
<1>1. \A v \in V : of[v] \in S /\ of[v].voter = v
  OBVIOUS
<1>2. \A r \in S : r.voter \in V /\ of[r.voter] = r
  BY <1>1
<1>3. of \in [V -> S]
  BY <1>1
<1> HIDE DEF V, of
<1>4. of \in Bijection(V, S)
  <2>1. of \in Surjection(V, S)
    BY <1>2, <1>3 DEF Surjection
  <2>2. of \in Injection(V, S)
    BY <1>1, <1>3 DEF Injection, IsInjective
  <2> QED
    BY <2>1, <2>2 DEF Bijection
<1>5. ExistsBijection(V, S)
  BY <1>4 DEF ExistsBijection
<1>6. IsFiniteSet(V)
  BY DEF V
<1>7. Cardinality(S) = Cardinality(V)
  BY <1>5, <1>6, FS_Bijection
<1> QED
  BY <1>7 DEF V

\* The same for the tally as it stands (see TallyIsOnePerVoter).
LEMMA TallyOnePerVoter ==
  ASSUME RepoType, OneRecordEach,
         NEW r \in tallyFromVoteRecords(proposal, cid, votes),
         NEW s \in tallyFromVoteRecords(proposal, cid, votes), r.voter = s.voter
  PROVE  r = s
<1>1. r \in votes /\ s \in votes /\ NoLater(r, s) /\ NoLater(s, r)
  BY DEF tallyFromVoteRecords
<1>2. r.at \in Nat /\ s.at \in Nat /\ r.rkey \in Nat /\ s.rkey \in Nat
  BY <1>1 DEF RepoType, VoteRecord
<1>3. r.rkey = s.rkey
  BY <1>1, <1>2 DEF NoLater
<1> QED
  BY <1>1, <1>3 DEF OneRecordEach

LEMMA RecordsStayOne == SerialSpec => []OneRecordEach
<1>1. Init => OneRecordEach
  BY DEF Init, OneRecordEach
<1>2. Knowing /\ OneRecordEach /\ [Next]_vars => OneRecordEach'
  BY VotesChange, OneRecordEachKept DEF Knowing, TypeOK
<1> QED
  BY <1>1, <1>2, KnowingAlways, SerialIsSpec, PTL DEF Spec

\* A carried override rests on signed votes of its own: as many voters in favour
\* as the bar frozen when the round opened, all of them cast in the round, and
\* none of them cited by a decision before it.
THEOREM OverridesNeedFreshMandates == SerialSpec => []OverrideNeedsFreshMandate
<1>1. ASSUME Init PROVE OverrideNeedsFreshMandate
  BY <1>1, InitUndecided DEF OverrideNeedsFreshMandate
<1>2. ASSUME Knowing, SerialInv, OneRecordEach, OverrideNeedsFreshMandate,
             [Next /\ SerialAmendments /\ SeedFirst]_vars
      PROVE  OverrideNeedsFreshMandate'
  <2>1. Step
    BY <1>2, SerialSteps
  <2>2. CASE UNCHANGED <<proposal, decisions>>
    BY <1>2, <2>2 DEF OverrideNeedsFreshMandate
  <2>3. ASSUME NEW p \in Request, Decided(p), proposal.status = Override
        PROVE  OverrideNeedsFreshMandate'
    <3>1. proposal.evidence /\ proposal.overrideOpenedAt # Unset
      BY <1>2, <2>3 DEF SerialInv, Reviewed, Staged
    <3>2. PICK d : decisions' = Append(decisions, d) /\ Tallied(d)
      BY <2>3, <3>1 DEF Decided
    <3>3. /\ proposal'.decision = Len(decisions) + 1 /\ Len(decisions) \in Nat
          /\ decisions'[Len(decisions) + 1] = d
          /\ \A j \in 1 .. Len(decisions) : decisions'[j] = decisions[j]
          /\ DOMAIN decisions = 1 .. Len(decisions)
      BY <1>2, <2>3, <3>1, <3>2 DEF Decided, Knowing, TypeOK, RepoType
    <3>4. /\ proposal'.overrideQuorum = proposal.overrideQuorum
          /\ proposal'.overrideOpenedAt = proposal.overrideOpenedAt
      BY <2>3 DEF Decided
    <3>5. /\ d.override /\ d.votes = tallyFromVoteRecords(proposal, cid, votes)
          /\ Cardinality(Saying(d.votes, "for")) >= proposal.overrideQuorum
      BY <2>3, <3>2 DEF Tallied
    <3>6. \A r \in d.votes : /\ r \in votes /\ r.at \in Nat
                             /\ r.at >= proposal.overrideOpenedAt
      BY <1>2, <3>1, <3>5, TallyOfRound, Instants
    <3>7. \A r, s \in d.votes : r.voter = s.voter => r = s
      BY <1>2, <3>5, TallyOnePerVoter DEF Knowing, TypeOK
    <3>8. Cardinality({r.voter : r \in Saying(d.votes, "for")})
            = Cardinality(Saying(d.votes, "for"))
      <4> DEFINE S == Saying(d.votes, "for")
      <4>1. S \subseteq votes /\ \A r, s \in S : r.voter = s.voter => r = s
        BY <3>6, <3>7 DEF Saying
      <4> HIDE DEF S
      <4>2. {r.voter : r \in S} \subseteq Voter
        BY <1>2, <4>1 DEF Knowing, TypeOK, RepoType, VoteRecord
      <4>3. IsFiniteSet({r.voter : r \in S})
        BY <4>2, FS_Subset, ProposalAssumption DEF ProposalAssumption
      <4>4. Cardinality({r.voter : r \in S}) = Cardinality(S)
        BY <4>1, <4>3, OneVoterPerVote
      <4> QED
        BY <4>4 DEF S
    <3>9. ASSUME NEW j \in 1 .. Len(decisions) PROVE decisions[j].votes \cap d.votes = {}
      <4>1. \A r \in decisions[j].votes : r.at < proposal.overrideOpenedAt
        BY <1>2, <2>3, <3>3 DEF SerialInv, Reviewed
      <4> QED
        BY <1>2, <3>6, <4>1, Instants
    <3> QED
      BY <3>3, <3>4, <3>5, <3>6, <3>8, <3>9 DEF OverrideNeedsFreshMandate
  <2>4. CASE proposal.status = Pending \/ proposal.status = Open
    <3>1. proposal.overrideOutcome = "none"
      BY <1>2, <2>4 DEF SerialInv, Staged, Final, Pending, Open, Objected
    <3>2. proposal'.overrideOutcome \in {"none", "expired"}
      BY <2>1, <2>4, <3>1 DEF Step, Still, Casting, Objecting, Created, Kept, Dropped,
         Contested, RanOut, Reworded, Decided, SameRound, Pending, Open, Override
    <3> QED
      BY <3>2 DEF OverrideNeedsFreshMandate
  <2> QED
    <3>1. CASE Still \/ Casting \/ Objecting
      BY <2>2, <3>1 DEF Still, Casting, Objecting
    <3>2. CASE Created
      BY <3>2 DEF Created, OverrideNeedsFreshMandate
    <3>3. CASE Kept
      BY <1>2, <2>4, <3>3 DEF Kept, SameRound, SerialInv, Staged, Final, Override, Objected,
         OverrideNeedsFreshMandate
    <3>4. CASE Dropped
      BY <2>4, <3>4 DEF Dropped, OverrideNeedsFreshMandate
    <3>5. CASE Contested \/ RanOut \/ \E p \in Request : Reworded(p)
      BY <2>4, <3>5 DEF Contested, RanOut, Reworded
    <3>6. CASE \E p \in Request : Decided(p)
      BY <2>3, <2>4, <3>6 DEF Decided
    <3> QED
      BY <2>1, <3>1, <3>2, <3>3, <3>4, <3>5, <3>6 DEF Step
<1> QED
  BY <1>1, <1>2, SerialInvAlways, RecordsStayOne, PTL DEF SerialSpec

\* While the lineage is not cut it keeps the version being replaced.
LEMMA LineageWhole ==
  ASSUME Knowing, SerialInv, cid # 0, cid < MaxCidChain
  PROVE  Lineage(proposal.chain) = proposal.chain \cup {cid}
<1> DEFINE all == proposal.chain \cup {cid}
           Newer(c) == {d \in all : d > c}
<1>1. cid \in Nat /\ MaxCidChain \in Nat /\ all \subseteq 1 .. cid
  BY ProposalAssumption, Instants DEF SerialInv, Chained, ProposalAssumption, Positive
<1>2. ASSUME NEW c \in all PROVE Cardinality(Newer(c)) < MaxCidChain
  <2>1. Newer(c) \subseteq 1 .. cid
    BY <1>1
  <2>2. IsFiniteSet(1 .. cid) /\ Cardinality(1 .. cid) = cid
    BY <1>1, FS_Interval
  <2>3. Cardinality(Newer(c)) <= cid /\ Cardinality(Newer(c)) \in Nat
    BY <2>1, <2>2, FS_Subset, FS_CardinalityType
  <2> QED
    BY <1>1, <2>3
<1> QED
  BY <1>2 DEF Lineage

\* The vote that closes a proposal leaves no countable vote behind.
LEMMA ClosedOnAllVotes ==
  ASSUME Knowing, SerialInv, Rewritten, cid < MaxCidChain, proposal.evidence,
         SameText(proposal', proposal),
         proposal'.overrideOpenedAt = proposal.overrideOpenedAt
  PROVE  tallyFromVoteRecords(proposal', cid', votes)
           = tallyFromVoteRecords(proposal, cid, votes)
<1> DEFINE known == knownProposalCids(proposal, cid)
           known1 == knownProposalCids(proposal', cid')
<1>1. cid # 0 /\ cid \in Nat /\ cid' = cid + 1
  BY Instants DEF Rewritten
<1>2. known1 = known \cup {cid + 1}
  BY <1>1, LineageWhole DEF Rewritten, knownProposalCids
<1>3. \A r \in votes : r.cid <= cid /\ r.cid \in Nat
  BY Instants DEF SerialInv, Dated
<1> HIDE DEF known, known1
<1>4. \A r \in votes : r.cid \in known1 <=> r.cid \in known
  BY <1>1, <1>2, <1>3
<1>5. tallyEpoch(proposal') = tallyEpoch(proposal)
  BY DEF SameText, tallyEpoch
<1> DEFINE Counts(r) == countableVote(r, known, tallyEpoch(proposal))
           Counts1(r) == countableVote(r, known1, tallyEpoch(proposal'))
<1>6. \A r \in votes : Counts1(r) <=> Counts(r)
  BY <1>4, <1>5 DEF countableVote
<1>7. /\ tallyFromVoteRecords(proposal, cid, votes)
           = {r \in {s \in votes : Counts(s)} :
                \A s \in {x \in votes : Counts(x)} : s.voter = r.voter => NoLater(r, s)}
      /\ tallyFromVoteRecords(proposal', cid', votes)
           = {r \in {s \in votes : Counts1(s)} :
                \A s \in {x \in votes : Counts1(x)} : s.voter = r.voter => NoLater(r, s)}
  BY DEF tallyFromVoteRecords, known, known1
<1> HIDE DEF Counts, Counts1
<1> QED
  BY <1>6, <1>7

\* What verifyDecision will ask of a closed proposal, as long as its lineage has
\* not been cut at MAX_CID_CHAIN: its decision counts exactly the signed votes
\* that count.  No vote is left out that was on record before the commit, and
\* none is signed after it.
THEOREM EvidenceIsComplete == SerialSpec => [](cid <= MaxCidChain => EvidenceComplete)
<1> DEFINE Whole == cid <= MaxCidChain => EvidenceComplete
<1>1. ASSUME Init PROVE Whole
  BY <1>1, InitUndecided DEF EvidenceComplete, Undecided, Pending, Objected, Open
<1>2. ASSUME Knowing, SerialInv, Whole, [Next /\ SerialAmendments /\ SeedFirst]_vars
      PROVE  Whole'
  <2>1. Step /\ cid \in Nat /\ MaxCidChain \in Nat
    BY <1>2, SerialSteps, Instants, ProposalAssumption DEF ProposalAssumption, Positive
  <2>2. CASE UNCHANGED <<proposal, cid, decisions, votes>>
    BY <1>2, <2>2 DEF EvidenceComplete
  <2>3. CASE /\ proposal'.status \in {"none", Open, Override, "expired"}
             \/ proposal'.overrideOutcome = "expired"
             \/ proposal'.decision = 0
    BY <2>3 DEF EvidenceComplete, Pending, Objected, Open, Override
  <2>4. ASSUME Rewritten, proposal.status = Pending,
               SameText(proposal', proposal), SameRound(proposal', proposal),
               UNCHANGED <<decisions, votes>>, cid' <= MaxCidChain,
               proposal'.status \in {"approved", Objected}
        PROVE  EvidenceComplete'
    <3>1. cid' = cid + 1 /\ cid < MaxCidChain
      BY <2>1, <2>4 DEF Rewritten
    <3>2. /\ proposal.decision # 0 /\ proposal.evidence
          /\ proposal.overrideOutcome # "expired"
      BY <1>2, <2>4 DEF SerialInv, Windowed, Staged, Final, Pending, Objected
    <3>3. decisions[proposal.decision].votes = tallyFromVoteRecords(proposal, cid, votes)
      BY <1>2, <2>1, <2>4, <3>1, <3>2 DEF EvidenceComplete
    <3>4. tallyFromVoteRecords(proposal', cid', votes)
            = tallyFromVoteRecords(proposal, cid, votes)
      BY <1>2, <2>4, <3>1, <3>2, ClosedOnAllVotes DEF SameRound
    <3> QED
      BY <2>4, <3>3, <3>4 DEF EvidenceComplete, SameRound
  <2>5. ASSUME NEW p \in Request, Decided(p), cid' <= MaxCidChain, proposal'.decision # 0
        PROVE  EvidenceComplete'
    <3>1. /\ Rewritten /\ SameText(proposal', proposal) /\ UNCHANGED votes
          /\ proposal'.overrideOpenedAt = proposal.overrideOpenedAt
      BY <2>5 DEF Decided
    <3>2. cid' = cid + 1 /\ cid < MaxCidChain
      BY <2>1, <2>5, <3>1 DEF Rewritten
    <3>3. proposal.evidence
      BY <1>2, <2>5 DEF Decided, SerialInv, Staged
    <3>4. PICK d : decisions' = Append(decisions, d) /\ Tallied(d)
      BY <2>5, <3>3 DEF Decided
    <3>5. decisions'[proposal'.decision] = d
      BY <1>2, <2>5, <3>3, <3>4 DEF Decided, Knowing, TypeOK, RepoType
    <3>6. tallyFromVoteRecords(proposal', cid', votes)
            = tallyFromVoteRecords(proposal, cid, votes)
      BY <1>2, <3>1, <3>2, <3>3, ClosedOnAllVotes
    <3> QED
      BY <3>1, <3>4, <3>5, <3>6 DEF Tallied, EvidenceComplete
  <2> QED
    <3>1. CASE Still \/ (Objecting /\ proposal.status = Pending)
      BY <2>2, <3>1 DEF Still, Objecting
    <3>2. CASE Casting \/ Created
      BY <2>3, <3>2 DEF Casting, Created
    <3>3. CASE Kept \/ Contested \/ \E p \in Request : Reworded(p)
      BY <2>3, <3>3 DEF Kept, Contested, Reworded
    <3>4. CASE Dropped
      BY <2>3, <2>4, <3>4 DEF Dropped
    <3>5. CASE RanOut
      BY <2>4, <3>5 DEF RanOut
    <3>6. CASE \E p \in Request : Decided(p)
      BY <2>3, <2>5, <3>6
    <3> QED
      BY <2>1, <3>1, <3>2, <3>3, <3>4, <3>5, <3>6 DEF Step, Objecting
<1> QED
  BY <1>1, <1>2, SerialInvAlways, PTL DEF SerialSpec

\* The three together, for any electorate, delegations and settings.
THEOREM CommunityIsHeld == SerialSpec => [](cid <= MaxCidChain => CommunityHolds)
<1>1. /\ HoldsBind /\ OverrideNeedsFreshMandate
      /\ cid <= MaxCidChain => EvidenceComplete
      => (cid <= MaxCidChain => CommunityHolds)
  BY DEF CommunityHolds
<1> QED
  BY <1>1, HoldsAreBinding, OverridesNeedFreshMandates, EvidenceIsComplete, PTL

-----------------------------------------------------------------------------
\* What the verifiers make of an honest server's records.

\* What the record itself tells of its hold and of its change.
Exhibited ==
  /\ proposal.appliedAt # Unset => proposal.status = "approved"
  /\ proposal.status = Pending => proposal.applyAt # Unset
  /\ proposal.status \in {Override, Objected} =>
       /\ proposal.decision # 0 /\ proposal.applyAt # Unset
       /\ proposal.objectors = Objectors(proposal, objections)
  /\ proposal.appliedAt # Unset /\ proposal.overrideOutcome # "carried" =>
       /\ proposal.applyAt <= proposal.appliedAt
       /\ \E i \in DOMAIN effects : /\ effects[i].via = "window"
                                    /\ effects[i].decision = proposal.decision
                                    /\ effects[i].applyAt = proposal.applyAt
  /\ \A o \in objections : o.decision <= Len(decisions)
  /\ proposal.overrideOutcome = "carried" =>
       \A o \in objections : o.decision < proposal.decision
  /\ proposal.decision # 0 /\ decisions[proposal.decision].override =>
       proposal.overrideOutcome = "carried"

SameWindow(r, q) ==
  r.decision = q.decision /\ r.resolvedAt = q.resolvedAt /\ r.applyAt = q.applyAt

SameHold(r, q) == r.appliedAt = q.appliedAt /\ r.objectors = q.objectors

\* What a step does to these fields.
Continues ==
  /\ SameHold(proposal', proposal)
  /\ proposal'.status \in {Override, Objected} =>
       proposal'.status = proposal.status /\ SameWindow(proposal', proposal)
  /\ proposal'.status = Pending => proposal'.applyAt # Unset
  /\ proposal.appliedAt # Unset => UNCHANGED <<proposal, effects>>

Holds ==
  /\ proposal.status = Pending /\ SameWindow(proposal', proposal)
  /\ proposal'.status \in {Override, Objected}
  /\ proposal'.appliedAt = proposal.appliedAt
  /\ proposal'.objectors = Objectors(proposal, objections)

Carries ==
  /\ proposal'.status = "approved"
  /\ \/ /\ proposal.status = Pending /\ SameWindow(proposal', proposal)
        /\ proposal.applyAt <= proposal'.appliedAt
        /\ \E e : /\ effects' = Append(effects, e) /\ e.via = "window"
                  /\ e.decision = proposal.decision /\ e.applyAt = proposal.applyAt
     \/ proposal.status = Override

Starts ==
  /\ proposal.status = "none" /\ proposal'.status = Open /\ proposal'.appliedAt = Unset

Exhibits ==
  \/ UNCHANGED <<proposal, objections, effects>>
  \/ /\ UNCHANGED <<proposal, effects>> /\ proposal.status = Pending
     /\ \E o : objections' = objections \cup {o} /\ o.decision = proposal.decision
  \/ UNCHANGED objections /\ (Starts \/ Continues \/ Holds \/ Carries)

LEMMA PutExhibits ==
  ASSUME ProposalType, NEW r \in ProposalRecord, Put(r)
  PROVE  /\ SameHold(proposal', r) /\ SameWindow(proposal', r) /\ proposal'.status = r.status
  BY DEF ProposalType, ProposalRecord, Put, SameHold, SameWindow

\* Only the stage tells whether there was a change.
LEMMA NotAppliedYet ==
  ASSUME Exhibited, proposal.status # "approved"
  PROVE  proposal.appliedAt = Unset
  BY DEF Exhibited

LEMMA ExpireExhibits ==
  ASSUME Knowing, SerialInv, Exhibited, NEW p \in Request, ExpireProposal(p)
  PROVE  Exhibits
<1> DEFINE r == [proposal EXCEPT !.status = "expired", !.resolvedAt = now]
<1>1. /\ proposal.status = Open /\ Put(r) /\ UNCHANGED repos
  BY DEF ExpireProposal, Lapsed
<1>2. proposal \in ProposalRecord /\ now \in Int /\ "expired" \in Status
  BY DEF Knowing, TypeOK, ProposalType, WorldType, Status, Final
<1>3. r \in ProposalRecord /\ SameHold(r, proposal) /\ r.status = "expired"
  BY <1>2 DEF ProposalRecord, SameHold
<1> HIDE DEF r
<1>4. SameHold(proposal', r) /\ proposal'.status = "expired"
  BY <1>1, <1>3, PutExhibits DEF Knowing, TypeOK
<1>5. proposal.appliedAt = Unset
  BY <1>1, NotAppliedYet DEF Open
<1>6. Continues
  BY <1>1, <1>3, <1>4, <1>5 DEF Continues, SameHold, Override, Objected, Pending, repos
<1> QED
  BY <1>1, <1>6 DEF Exhibits, repos

LEMMA CloseExpiredExhibits ==
  ASSUME Knowing, SerialInv, Exhibited, NEW p \in Request, CloseExpiredOverride(p)
  PROVE  Exhibits
<1> DEFINE r == [proposal EXCEPT !.status = "rejected", !.resolvedAt = seenAt[p],
                                 !.overrideOutcome = "expired"]
<1>1. /\ proposal.status = Override /\ Put(r) /\ UNCHANGED repos
  BY DEF CloseExpiredOverride, Overdue
<1>2. proposal \in ProposalRecord /\ seenAt[p] \in Int /\ "rejected" \in Status
  BY DEF Knowing, TypeOK, ProposalType, RequestType, Status, Final
<1>3. r \in ProposalRecord /\ SameHold(r, proposal) /\ r.status = "rejected"
  BY <1>2 DEF ProposalRecord, SameHold
<1> HIDE DEF r
<1>4. SameHold(proposal', r) /\ proposal'.status = "rejected"
  BY <1>1, <1>3, PutExhibits DEF Knowing, TypeOK
<1>5. proposal.appliedAt = Unset
  BY <1>1, NotAppliedYet DEF Override
<1>6. Continues
  BY <1>1, <1>3, <1>4, <1>5 DEF Continues, SameHold, Override, Objected, Pending, repos
<1> QED
  BY <1>1, <1>6 DEF Exhibits, repos

\* A hold lists who objected, and keeps the window they objected in.
LEMMA HeldLists ==
  ASSUME NEW q \in ProposalRecord, NEW who, NEW at
  PROVE  LET r == HeldState(q, who, at) IN
         /\ r.objectors = who /\ r.appliedAt = q.appliedAt /\ SameWindow(r, q)
         /\ r.status \in {Override, Objected}
<1>1. CASE settings.review = "none"
  BY <1>1 DEF HeldState, ProposalRecord, SameWindow
<1>2. CASE settings.review # "none"
  <2> DEFINE expires == at + objectionOverrideDays(settings)
             bar == overrideQuorumFrom(settings, quorumOf(settings), Cardinality(electorate))
             q1 == [q EXCEPT !.status = Override, !.objectors = who,
                             !.overrideOpenedAt = at]
             q2 == [q1 EXCEPT !.overrideExpiresAt = expires, !.overrideQuorum = bar,
                              !.votesFor = {}, !.votesAgainst = {}]
  <2>1. HeldState(q, who, at) = q2
    BY <1>2 DEF HeldState, ProposalRecord
  <2> HIDE DEF expires, bar
  <2>2. /\ q1.objectors = who /\ q1.appliedAt = q.appliedAt /\ SameWindow(q1, q)
        /\ q1.status = Override /\ DOMAIN q1 = DOMAIN q
    BY DEF ProposalRecord, SameWindow
  <2> HIDE DEF q1
  <2>3. /\ q2.objectors = who /\ q2.appliedAt = q.appliedAt /\ SameWindow(q2, q)
        /\ q2.status = Override
    BY <2>2 DEF ProposalRecord, SameWindow
  <2> HIDE DEF q2
  <2> QED
    BY <2>1, <2>3
<1> QED
  BY <1>1, <1>2

LEMMA HoldExhibits ==
  ASSUME Knowing, proposal.status = Pending, NEW at \in Nat,
         Put(HeldState(proposal, Objectors(proposal, objections), at)),
         UNCHANGED objections
  PROVE  Exhibits
<1> DEFINE who == Objectors(proposal, objections)
           r == HeldState(proposal, who, at)
<1>1. proposal \in ProposalRecord /\ WorldType /\ ProposalType
  BY DEF Knowing, TypeOK, ProposalType
<1>2. who \in SUBSET Voter
  BY ObjectorsType DEF Knowing, TypeOK
<1>3. r \in ProposalRecord
  BY <1>1, <1>2, HeldType
<1>4. /\ r.objectors = who /\ r.appliedAt = proposal.appliedAt /\ SameWindow(r, proposal)
      /\ r.status \in {Override, Objected}
  BY <1>1, HeldLists
<1> HIDE DEF r
<1>5. SameHold(proposal', r) /\ SameWindow(proposal', r) /\ proposal'.status = r.status
  BY <1>1, <1>3, PutExhibits DEF r
<1>6. Holds
  BY <1>4, <1>5 DEF Holds, SameHold, SameWindow, who
<1> QED
  BY <1>6 DEF Exhibits

LEMMA ApplyExhibits ==
  ASSUME Knowing, SerialInv, Exhibited, NEW p \in Request, ApplyIfDue(p)
  PROVE  Exhibits
<1> DEFINE who == Objectors(proposal, objections)
           closed == [proposal EXCEPT !.status = "approved"]
           applied == [proposal EXCEPT !.status = "approved", !.appliedAt = seenAt[p]]
<1>1. /\ proposal \in ProposalRecord /\ seenAt[p] \in Nat /\ "approved" \in Status
      /\ ProposalType /\ seenAt[p] \in Int
  BY DEF Knowing, TypeOK, RequestType, ProposalType, Status, Final
<1>2. /\ proposal.status = Pending /\ UNCHANGED objections
      /\ \/ Put(HeldState(proposal, who, seenAt[p])) /\ UNCHANGED effects
         \/ Put(closed) /\ UNCHANGED effects
         \/ Put(applied) /\ Applied(proposal, proposal.decision, "window")
  BY DEF ApplyIfDue, DueBy
<1>3. CASE Put(HeldState(proposal, who, seenAt[p]))
  BY <1>1, <1>2, <1>3, HoldExhibits
<1>4. CASE Put(closed)
  <2>1. closed \in ProposalRecord /\ SameHold(closed, proposal) /\ closed.status = "approved"
    BY <1>1 DEF ProposalRecord, SameHold
  <2> HIDE DEF closed
  <2>2. SameHold(proposal', closed) /\ proposal'.status = "approved"
    BY <1>1, <1>4, <2>1, PutExhibits
  <2>3. proposal.appliedAt = Unset
    BY <1>2, NotAppliedYet DEF Pending
  <2>4. Continues
    BY <2>1, <2>2, <2>3 DEF Continues, SameHold, Override, Objected, Pending
  <2> QED
    BY <1>2, <2>4 DEF Exhibits
<1>5. CASE Put(applied) /\ Applied(proposal, proposal.decision, "window")
  <2>1. applied \in ProposalRecord /\ SameWindow(applied, proposal)
        /\ applied.status = "approved" /\ applied.appliedAt = seenAt[p]
    BY <1>1 DEF ProposalRecord, SameWindow
  <2> HIDE DEF applied
  <2>2. /\ SameWindow(proposal', applied) /\ SameHold(proposal', applied)
        /\ proposal'.status = "approved"
    BY <1>1, <1>5, <2>1, PutExhibits
  <2>3. \E e : /\ effects' = Append(effects, e) /\ e.via = "window"
               /\ e.decision = proposal.decision /\ e.applyAt = proposal.applyAt
    BY <1>5 DEF Applied
  <2>4. proposal.applyAt <= seenAt[p]
    BY <1>5 DEF ApplyIfDue, DueBy
  <2>5. Carries
    BY <1>2, <2>1, <2>2, <2>3, <2>4 DEF Carries, SameWindow, SameHold
  <2> QED
    BY <1>2, <2>5 DEF Exhibits
<1> QED
  BY <1>2, <1>3, <1>4, <1>5

LEMMA HoldOrLeaveExhibits ==
  ASSUME Knowing, SerialInv, NEW p \in Request, HoldOrLeave(p)
  PROVE  Exhibits
<1>1. /\ pc[p] = "hold" /\ UNCHANGED repos
      /\ \/ Put(HeldState(snap[p], Objectors(snap[p], objections), now + 1))
         \/ UNCHANGED proposal
  BY DEF HoldOrLeave
<1>2. proposal.status = Pending /\ snap[p] = proposal /\ now + 1 \in Nat
  BY <1>1 DEF SerialInv, Informed, Holding, Knowing, TypeOK, WorldType
<1> QED
  BY <1>1, <1>2, HoldExhibits DEF Exhibits, repos

LEMMA AmendmentExhibits ==
  ASSUME Knowing, SerialInv, Exhibited, NEW p \in Request, CommitAmendment(p)
  PROVE  Exhibits
<1> DEFINE r1 == [snap[p] EXCEPT !.text = draft[p], !.votesFor = {}, !.votesAgainst = {}]
           r == [r1 EXCEPT !.expiresAt = seenAt[p] + Ttl, !.amendedAt = seenAt[p]]
<1>1. /\ pc[p] = "amend" /\ UNCHANGED repos
      /\ Put([snap[p] EXCEPT !.text = draft[p], !.votesFor = {}, !.votesAgainst = {},
                             !.expiresAt = seenAt[p] + Ttl, !.amendedAt = seenAt[p]])
  BY DEF CommitAmendment
<1>2. /\ snap[p] = proposal /\ draft[p] \in Text /\ snap[p].status = Open
  BY <1>1 DEF Knowing, RequestsMean, RequestMeans, SerialInv, Informed
<1>3. snap[p] \in ProposalRecord /\ seenAt[p] \in Int /\ seenAt[p] + Ttl \in Int
  BY ProposalAssumption DEF RequestType, ProposalAssumption, Positive, Knowing, TypeOK
<1>4. Put(r)
  BY <1>1, <1>3 DEF ProposalRecord
<1>5. r1 \in ProposalRecord /\ r1.status = Open /\ SameHold(r1, proposal)
  BY <1>2, <1>3 DEF ProposalRecord, SameHold
<1> HIDE DEF r1
<1>6. r \in ProposalRecord /\ r.status = Open /\ SameHold(r, proposal)
  BY <1>3, <1>5 DEF ProposalRecord, SameHold
<1> HIDE DEF r
<1>7. SameHold(proposal', r) /\ proposal'.status = Open
  BY <1>4, <1>6, PutExhibits DEF Knowing, TypeOK
<1>8. proposal.appliedAt = Unset
  BY <1>2, NotAppliedYet DEF Open
<1>9. Continues
  BY <1>6, <1>7, <1>8 DEF Continues, SameHold, Open, Override, Objected, Pending
<1> QED
  BY <1>1, <1>9 DEF Exhibits, repos

-----------------------------------------------------------------------------
\* The commits of a vote.

LEMMA CastHolds ==
  ASSUME Knowing, SerialInv, NEW p \in Request, pc[p] = "resolve"
  PROVE  /\ Cast(p) \in ProposalRecord /\ Cast(p).status = proposal.status
         /\ SameHold(Cast(p), proposal) /\ SameWindow(Cast(p), proposal)
<1>1. snap[p] = proposal /\ proposal \in ProposalRecord /\ casting[p] \in SUBSET Voter
  BY Resolving DEF Knowing, TypeOK, RequestType
<1> QED
  BY <1>1 DEF Cast, ProposalRecord, SameHold, SameWindow

LEMMA ClosedHolds ==
  ASSUME Knowing, SerialInv, NEW p \in Request, pc[p] = "resolve",
         Outcome(p) \in {"approved", "rejected"}, NEW s \in Status
  PROVE  /\ Closed(p, s) \in ProposalRecord /\ Closed(p, s).status = s
         /\ SameHold(Closed(p, s), proposal)
<1> DEFINE c1 == [Cast(p) EXCEPT !.status = s, !.resolvedAt = now]
           dec == IF snap[p].evidence THEN Len(DecisionWrite(p)) ELSE Cast(p).decision
           over == IF snap[p].status = Override THEN "carried" ELSE Cast(p).overrideOutcome
           c == [c1 EXCEPT !.decision = dec, !.overrideOutcome = over]
<1>1. Cast(p) \in ProposalRecord /\ SameHold(Cast(p), proposal)
  BY CastHolds
<1>2. Closed(p, s) \in ProposalRecord /\ Closed(p, s).status = s
  BY ClosingFacts
<1>3. Closed(p, s) = c
  BY <1>1 DEF Closed, ProposalRecord
<1>4. SameHold(c1, proposal) /\ DOMAIN c1 = DOMAIN Cast(p)
  BY <1>1 DEF ProposalRecord, SameHold
<1> HIDE DEF c1, dec, over
<1>5. SameHold(c, proposal)
  BY <1>1, <1>4 DEF ProposalRecord, SameHold
<1> HIDE DEF c
<1> QED
  BY <1>2, <1>3, <1>5

LEMMA VoteExhibits ==
  ASSUME Knowing, SerialInv, Exhibited, NEW p \in Request,
         \/ KeepOpen(p) \/ Reject(p) \/ AwaitApplication(p)
         \/ ApproveAndApply(p) \/ ApproveUnapplicable(p)
  PROVE  Exhibits
<1>1. /\ pc[p] = "resolve" /\ UNCHANGED objections
  BY DEF KeepOpen, Reject, AwaitApplication, ApproveAndApply, ApproveUnapplicable,
         VoteCommitted
<1>2. /\ snap[p] = proposal /\ proposal.status \in {Open, Override} /\ ProposalType
      /\ proposal.appliedAt = Unset
  BY <1>1, Resolving, NotAppliedYet DEF Knowing, TypeOK, Open, Override
<1>3. ASSUME NEW r \in ProposalRecord, Put(r), SameHold(r, proposal),
             \/ r.status \in {"approved", "rejected"}
             \/ r.status = Pending /\ r.applyAt # Unset
      PROVE  Exhibits
  <2>1. SameHold(proposal', r) /\ SameWindow(proposal', r) /\ proposal'.status = r.status
    BY <1>2, <1>3, PutExhibits
  <2>2. Continues
    BY <1>2, <1>3, <2>1 DEF Continues, SameHold, SameWindow, Override, Objected, Pending
  <2> QED
    BY <1>1, <2>2 DEF Exhibits
<1>4. "approved" \in Status /\ "rejected" \in Status /\ Pending \in Status
  BY DEF Status, Final
<1>5. CASE KeepOpen(p)
  <2>1. Put(Cast(p))
    BY <1>5 DEF KeepOpen
  <2>2. /\ SameHold(proposal', Cast(p)) /\ SameWindow(proposal', Cast(p))
        /\ proposal'.status = Cast(p).status
    BY <1>1, <1>2, <2>1, CastHolds, PutExhibits
  <2>3. Continues
    BY <1>1, <1>2, <2>2, CastHolds
       DEF Continues, SameHold, SameWindow, Open, Override, Objected, Pending
  <2> QED
    BY <1>1, <2>3 DEF Exhibits
<1>6. CASE Reject(p)
  <2>1. Put(Closed(p, "rejected")) /\ Outcome(p) = "rejected"
    BY <1>6 DEF Reject
  <2> QED
    BY <1>1, <1>3, <1>4, <2>1, ClosedHolds
<1>7. CASE ApproveUnapplicable(p)
  <2>1. Put(Closed(p, "approved")) /\ Outcome(p) = "approved"
    BY <1>7 DEF ApproveUnapplicable
  <2> QED
    BY <1>1, <1>3, <1>4, <2>1, ClosedHolds
<1>8. CASE AwaitApplication(p)
  <2> DEFINE q == Closed(p, Pending)
             until == now + timelockHours(settings)
             r == [q EXCEPT !.applyAt = until]
  <2>1. Put(r) /\ HasWindow(p) /\ Outcome(p) = "approved"
    BY <1>8 DEF AwaitApplication
  <2>2. until \in Int /\ until # Unset
    BY <2>1, SettingsRules, ProposalAssumption
       DEF HasWindow, Knowing, TypeOK, WorldType, ProposalAssumption, Unset
  <2> HIDE DEF until
  <2>3. q \in ProposalRecord /\ q.status = Pending /\ SameHold(q, proposal)
    BY <1>1, <1>4, <2>1, ClosedHolds
  <2> HIDE DEF q
  <2>4. r \in ProposalRecord /\ r.status = Pending /\ SameHold(r, proposal) /\ r.applyAt = until
    BY <2>2, <2>3 DEF ProposalRecord, SameHold
  <2> HIDE DEF r
  <2> QED
    BY <1>3, <2>1, <2>2, <2>4
<1>9. CASE ApproveAndApply(p)
  <2> DEFINE q == Closed(p, "approved")
             r == [q EXCEPT !.appliedAt = now]
  <2>1. /\ Outcome(p) = "approved"
        /\ \/ Put(r) /\ proposal.status = Override
           \/ Put(q)
    BY <1>2, <1>9 DEF ApproveAndApply
  <2>2. q \in ProposalRecord /\ q.status = "approved" /\ SameHold(q, proposal)
    BY <1>1, <1>4, <2>1, ClosedHolds
  <2> HIDE DEF q
  <2>3. CASE Put(r) /\ proposal.status = Override
    <3>1. now \in Int
      BY DEF Knowing, TypeOK, WorldType
    <3>2. r \in ProposalRecord /\ r.status = "approved"
      BY <2>2, <3>1 DEF ProposalRecord
    <3> HIDE DEF r
    <3>3. proposal'.status = "approved"
      BY <1>2, <2>3, <3>2, PutExhibits
    <3> QED
      BY <1>1, <2>3, <3>3 DEF Exhibits, Carries
  <2> QED
    BY <1>3, <2>1, <2>2, <2>3
<1> QED
  BY <1>5, <1>6, <1>7, <1>8, <1>9

LEMMA CreateExhibits ==
  ASSUME Knowing, NEW p \in Request, NEW who \in Voter, NEW t \in Text,
         CreateProposal(p, who, t)
  PROVE  Exhibits
<1> DEFINE r == Fresh(t, TRUE, {who} \cap HasRepo)
<1>1. cid = 0 /\ Put(r) /\ UNCHANGED repos
  BY DEF CreateProposal
<1>2. ProposalType /\ now \in Nat /\ {who} \cap HasRepo \in SUBSET Voter
  BY DEF Knowing, TypeOK, WorldType
<1>3. r \in ProposalRecord /\ r.status = Open
  BY <1>2, FreshType
<1>4. r.appliedAt = Unset
  BY DEF Fresh, Blank
<1> HIDE DEF r
<1>5. proposal'.appliedAt = Unset /\ proposal'.status = Open
  BY <1>1, <1>2, <1>3, <1>4, PutExhibits DEF SameHold
<1>6. proposal.status = "none"
  BY <1>1 DEF Knowing, ProposalMeans
<1> QED
  BY <1>1, <1>5, <1>6 DEF Exhibits, Starts, repos

LEMMA NextExhibits ==
  ASSUME Knowing, SerialInv, Exhibited, [Next]_vars
  PROVE  Exhibits
<1>1. CASE UNCHANGED <<proposal, objections, effects>>
  BY <1>1 DEF Exhibits
<1>2. CASE Environment \/ UNCHANGED vars
  BY <1>1, <1>2 DEF Environment, ChangeSettings, ChangeElectorate, ChangeDelegations, Tick,
     repos, vars
<1>3. ASSUME NEW p \in Request, Arrive(p) PROVE Exhibits
  <2>1. ASSUME NEW who \in Voter, NEW v \in {"for", "against"}, Vote(p, who, v)
        PROVE  Exhibits
    BY <1>1, <2>1 DEF Vote, Begin, repos
  <2>2. ASSUME NEW who \in Voter, NEW t \in Text, Amend(p, who, t) PROVE Exhibits
    BY <1>1, <2>2 DEF Amend, Begin, repos
  <2>3. ASSUME NEW who \in Voter, Object(p, who) PROVE Exhibits
    BY <1>1, <2>3 DEF Object, Begin, repos
  <2>4. CASE Read(p)
    BY <1>1, <2>4 DEF Read, repos
  <2> QED
    BY <1>3, <2>1, <2>2, <2>3, <2>4, CreateExhibits DEF Arrive
<1>4. ASSUME NEW p \in Request, Handle(p) PROVE Exhibits
  <2>1. CASE \/ SeedVote(p) \/ ApplyNothing(p) \/ CloseNothing(p) \/ VoteRefused(p)
             \/ EnterVote(p) \/ RecordVotes(p) \/ ObjectionRefused(p) \/ EnterObjection(p)
    BY <1>1, <2>1 DEF SeedVote, ApplyNothing, CloseNothing, VoteRefused, EnterVote,
       RecordVotes, ObjectionRefused, EnterObjection, repos
  <2>2. CASE RecordObjection(p)
    <3> DEFINE o == [objector |-> actor[p], decision |-> snap[p].decision, at |-> now]
    <3>1. /\ pc[p] = "object" /\ objections' = objections \cup {o}
          /\ UNCHANGED <<proposal, effects>>
      BY <2>2 DEF RecordObjection
    <3>2. proposal.status = Pending /\ snap[p] = proposal
      BY <3>1 DEF SerialInv, Informed, Holding
    <3>3. o.decision = proposal.decision
      BY <3>2
    <3> HIDE DEF o
    <3> QED
      BY <3>1, <3>2, <3>3 DEF Exhibits
  <2> QED
    BY <1>4, <2>1, <2>2, ExpireExhibits, CloseExpiredExhibits, ApplyExhibits,
       HoldOrLeaveExhibits, AmendmentExhibits, VoteExhibits DEF Handle
<1>5. ASSUME NEW p \in Request, SweepFails(p) \/ Die(p) PROVE Exhibits
  BY <1>1, <1>5 DEF SweepFails, Die, repos
<1> QED
  BY <1>2, <1>3, <1>4, <1>5 DEF Next

LEMMA ExhibitedKept ==
  ASSUME Knowing, SerialInv, Exhibited, Step, Exhibits
  PROVE  Exhibited'
<1>1. Len(decisions) \in Nat /\ decisions \in Seq(DecisionRecord)
      /\ effects \in Seq(Effect) /\ proposal \in ProposalRecord
  BY DEF Knowing, TypeOK, RepoType, ProposalType
<1>2. CASE UNCHANGED <<proposal, decisions, objections, effects>>
  BY <1>2 DEF Exhibited, Objectors, countableObjection
<1>3. CASE proposal.status \in Final
  <2>1. proposal.status \notin {"none", Open, Pending, Override}
    BY <1>3 DEF Final, Open, Pending, Override, Objected
  <2>2. cid # 0
    BY <2>1 DEF Knowing, ProposalMeans
  <2>3. UNCHANGED <<proposal, decisions, objections, effects>>
    BY <2>1, <2>2 DEF Step, Still, Casting, Objecting, Created, Kept, Dropped,
       Contested, RanOut, Reworded, Decided
  <2> QED
    BY <1>2, <2>3
<1>4. CASE Objecting
  <2>1. /\ UNCHANGED <<proposal, decisions, effects>> /\ proposal.status = Pending
        /\ proposal.appliedAt = Unset
    BY <1>4, NotAppliedYet DEF Objecting, Pending
  <2>2. CASE UNCHANGED objections
    BY <1>2, <2>1, <2>2
  <2>3. ASSUME NEW o, objections' = objections \cup {o}, o.decision = proposal.decision
        PROVE  Exhibited'
    <3>1. proposal.decision <= Len(decisions)
      BY <1>1 DEF SerialInv, Staged, ProposalRecord
    <3>2. \A x \in objections' : x.decision <= Len(decisions')
      BY <2>1, <2>3, <3>1 DEF Exhibited
    <3>3. proposal.overrideOutcome = "none"
      BY <2>1 DEF SerialInv, Staged, Final, Pending, Objected
    <3> QED
      BY <2>1, <3>2, <3>3 DEF Exhibited, Pending, Override, Objected
  <2> QED
    BY <2>1, <2>2, <2>3 DEF Exhibits, Starts, Continues, Holds, Carries, Pending,
       Override, Objected
<1>5. CASE /\ proposal.status \notin Final
           /\ \/ Created \/ Kept \/ Dropped \/ Contested \/ RanOut
              \/ \E p \in Request : Reworded(p) \/ Decided(p)
  <2>1. /\ proposal.overrideOutcome = "none" /\ proposal.appliedAt = Unset
        /\ UNCHANGED objections
    <3>1. proposal.status # "approved"
      BY <1>5 DEF Final
    <3> QED
      BY <1>5, <3>1, NotAppliedYet DEF SerialInv, Staged, Created, Kept, Dropped, Contested,
         RanOut, Reworded, Decided
  <2>2. \/ UNCHANGED <<proposal, effects>>
        \/ Starts \/ Continues \/ Holds \/ Carries
    BY DEF Exhibits
  <2>3. proposal'.appliedAt # Unset => proposal'.status = "approved"
    BY <2>1, <2>2 DEF Starts, Continues, Holds, Carries, SameHold
  <2>4. proposal'.status = Pending => proposal'.applyAt # Unset
    BY <2>2 DEF Exhibited, Starts, Continues, Holds, Carries, Pending, Open, Override,
       Objected
  <2>5. proposal'.status \in {Override, Objected} =>
          /\ proposal'.decision # 0 /\ proposal'.applyAt # Unset
          /\ proposal'.objectors = Objectors(proposal', objections')
    <3> SUFFICES ASSUME proposal'.status \in {Override, Objected}
                 PROVE  /\ proposal'.decision # 0 /\ proposal'.applyAt # Unset
                        /\ proposal'.objectors = Objectors(proposal', objections')
      OBVIOUS
    <3>1. ASSUME SameWindow(proposal', proposal)
          PROVE  Objectors(proposal', objections') = Objectors(proposal, objections)
      BY <2>1, <3>1 DEF SameWindow, Objectors, countableObjection
    <3>2. CASE UNCHANGED <<proposal, effects>> \/ Continues
      <4>1. /\ proposal'.status = proposal.status /\ SameWindow(proposal', proposal)
            /\ SameHold(proposal', proposal)
        BY <3>2 DEF Continues, SameWindow, SameHold
      <4> QED
        BY <3>1, <4>1 DEF Exhibited, SameWindow, SameHold
    <3>3. CASE Holds
      BY <3>1, <3>3 DEF Holds, Exhibited, SameWindow, SerialInv, Windowed
    <3> QED
      BY <2>2, <3>2, <3>3 DEF Starts, Carries, Open, Override, Objected
  <2>6. proposal'.appliedAt # Unset /\ proposal'.overrideOutcome # "carried" =>
          /\ proposal'.applyAt <= proposal'.appliedAt
          /\ \E i \in DOMAIN effects' : /\ effects'[i].via = "window"
                                        /\ effects'[i].decision = proposal'.decision
                                        /\ effects'[i].applyAt = proposal'.applyAt
    <3> SUFFICES ASSUME proposal'.appliedAt # Unset, proposal'.overrideOutcome # "carried"
                 PROVE  /\ proposal'.applyAt <= proposal'.appliedAt
                        /\ \E i \in DOMAIN effects' :
                             /\ effects'[i].via = "window"
                             /\ effects'[i].decision = proposal'.decision
                             /\ effects'[i].applyAt = proposal'.applyAt
      OBVIOUS
    <3>1. Carries
      BY <2>1, <2>2 DEF Starts, Continues, Holds, SameHold
    <3>2. proposal.status # Override
      BY <1>5, <3>1 DEF Carries, Created, Kept, Dropped, Contested, RanOut, Reworded, Decided,
         Open, Pending, Override, Objected, Knowing, ProposalMeans
    <3>3. PICK e : /\ effects' = Append(effects, e) /\ e.via = "window"
                   /\ e.decision = proposal.decision /\ e.applyAt = proposal.applyAt
      BY <3>1, <3>2 DEF Carries
    <3>4. SameWindow(proposal', proposal) /\ proposal.applyAt <= proposal'.appliedAt
      BY <3>1, <3>2 DEF Carries
    <3>5. Len(effects) + 1 \in DOMAIN effects' /\ effects'[Len(effects) + 1] = e
      BY <1>1, <3>3
    <3> QED
      BY <3>3, <3>4, <3>5 DEF SameWindow
  <2>7. /\ \A o \in objections' : o.decision <= Len(decisions')
        /\ proposal'.overrideOutcome = "carried" =>
             \A o \in objections' : o.decision < proposal'.decision
        /\ proposal'.decision # 0 /\ decisions'[proposal'.decision].override =>
             proposal'.overrideOutcome = "carried"
    <3>1. \A o \in objections : o.decision <= Len(decisions) /\ o.decision \in Nat
      BY DEF Exhibited, Knowing, TypeOK, RepoType, ObjectionRecord
    <3>2. ~(proposal.decision # 0 /\ decisions[proposal.decision].override)
      BY <2>1 DEF Exhibited
    <3>3. CASE Created \/ Kept \/ Dropped \/ Contested \/ RanOut \/ \E p \in Request : Reworded(p)
      <4>1. /\ UNCHANGED decisions
            /\ proposal'.decision = proposal.decision \/ proposal'.decision = 0
            /\ proposal'.overrideOutcome # "carried"
        BY <2>1, <3>3 DEF Created, Kept, Dropped, Contested, RanOut, Reworded, SameRound
      <4> QED
        BY <2>1, <3>1, <3>2, <4>1
    <3>4. ASSUME NEW p \in Request, Decided(p)
          PROVE  /\ \A o \in objections' : o.decision <= Len(decisions')
                 /\ proposal'.overrideOutcome = "carried" =>
                      \A o \in objections' : o.decision < proposal'.decision
                 /\ proposal'.decision # 0 /\ decisions'[proposal'.decision].override =>
                      proposal'.overrideOutcome = "carried"
      <4>1. CASE proposal.evidence
        <5>1. PICK d : decisions' = Append(decisions, d) /\ Tallied(d)
          BY <3>4, <4>1 DEF Decided
        <5>2. /\ proposal'.decision = Len(decisions) + 1 /\ Len(decisions') = Len(decisions) + 1
              /\ decisions'[Len(decisions) + 1] = d
          BY <1>1, <3>4, <4>1, <5>1 DEF Decided
        <5>3. d.override => proposal'.overrideOutcome = "carried"
          BY <3>4, <5>1 DEF Decided, Tallied
        <5> QED
          BY <1>1, <2>1, <3>1, <5>2, <5>3
      <4>2. CASE ~proposal.evidence
        <5>1. proposal.status # Override
          BY <4>2 DEF SerialInv, Reviewed, Staged
        <5>2. UNCHANGED decisions /\ proposal'.decision = proposal.decision
              /\ proposal'.overrideOutcome = "none"
          BY <2>1, <3>4, <4>2, <5>1 DEF Decided
        <5> QED
          BY <2>1, <3>1, <3>2, <5>2
      <4> QED
        BY <4>1, <4>2
    <3> QED
      BY <1>5, <3>3, <3>4
  <2> QED
    BY <2>3, <2>4, <2>5, <2>6, <2>7 DEF Exhibited
<1> QED
  BY <1>2, <1>3, <1>4, <1>5 DEF Step, Still, Casting

LEMMA ExhibitedAlways == SerialSpec => []Exhibited
<1>1. ASSUME Init PROVE Exhibited
  <2>1. proposal.appliedAt = Unset
    <3>1. CASE proposal = Blank
      BY <3>1 DEF Blank
    <3>2. ASSUME NEW t \in Text,
                 proposal = [Blank EXCEPT !.status = Open, !.text = t,
                                          !.createdAt = 0, !.expiresAt = Ttl]
          PROVE  proposal.appliedAt = Unset
      BY <3>2 DEF Blank
    <3> QED
      BY <1>1, <3>1, <3>2 DEF Init
  <2>2. /\ objections = {} /\ proposal.decision = 0 /\ proposal.status \in Undecided
        /\ proposal.overrideOutcome = "none"
    BY <1>1, InitUndecided
  <2> QED
    BY <2>1, <2>2 DEF Exhibited, Undecided, Open, Pending, Override, Objected
<1>2. ASSUME Knowing, SerialInv, Exhibited, [Next /\ SerialAmendments /\ SeedFirst]_vars
      PROVE  Exhibited'
  <2>1. Step
    BY <1>2, SerialSteps
  <2>2. Exhibits
    BY <1>2, NextExhibits
  <2> QED
    BY <1>2, <2>1, <2>2, ExhibitedKept
<1> QED
  BY <1>1, <1>2, SerialInvAlways, PTL DEF SerialSpec

\* What the community asks for now is no more than the decision and the change
\* were made under, and a carried round had more ayes than noes: the verifiers
\* know the present rules only, and no override from another decision.
RulesStand ==
  /\ proposal.decision # 0 => quorumOf(settings) <= decisions[proposal.decision].quorum
  /\ \A i \in DOMAIN effects : effects[i].threshold <= objectionThreshold(settings)
  /\ proposal.overrideOutcome = "carried" =>
       LET cited == decisions[proposal.decision].votes
       IN  Cardinality(Saying(cited, "against")) < Cardinality(Saying(cited, "for"))

\* What counts of the exports supplied is what counts, of those who are in them.
LEMMA EligibleOfSupplied ==
  ASSUME NEW given
  PROVE  Eligible(given) = {r \in tallyFromVoteRecords(proposal, cid, votes) : r.voter \in given}
<1> DEFINE Counts(r) == countableVote(r, knownProposalCids(proposal, cid), tallyEpoch(proposal))
<1>1. /\ tallyFromVoteRecords(proposal, cid, votes)
           = {r \in {s \in votes : Counts(s)} :
                \A s \in {x \in votes : Counts(x)} : s.voter = r.voter => NoLater(r, s)}
      /\ Eligible(given)
           = {r \in {s \in Supplied(given) : Counts(s)} :
                \A s \in {x \in Supplied(given) : Counts(x)} : s.voter = r.voter => NoLater(r, s)}
  BY DEF tallyFromVoteRecords, Eligible
<1>2. \A r : r \in Supplied(given) <=> r \in votes /\ r.voter \in given
  BY DEF Supplied
<1> HIDE DEF Counts
<1>3. ASSUME NEW r PROVE r \in Eligible(given)
                       <=> r \in tallyFromVoteRecords(proposal, cid, votes) /\ r.voter \in given
  BY <1>1, <1>2
<1> QED
  BY <1>3

LEMMA SayingIsFinite ==
  ASSUME RepoType, NEW S, S \subseteq votes, \A r, s \in S : r.voter = s.voter => r = s,
         NEW v
  PROVE  IsFiniteSet(Saying(S, v))
<1> DEFINE V == {r.voter : r \in S}
           of == [w \in V |-> CHOOSE r \in S : r.voter = w]
<1>1. V \subseteq Voter
  BY DEF RepoType, VoteRecord
<1>2. IsFiniteSet(V)
  BY <1>1, FS_Subset, ProposalAssumption DEF ProposalAssumption
<1>3. \A w \in V : of[w] \in S /\ of[w].voter = w
  OBVIOUS
<1>4. \A r \in S : r.voter \in V /\ of[r.voter] = r
  BY <1>3
<1>5. of \in [V -> S]
  BY <1>3
<1> HIDE DEF V, of
<1>6. of \in Surjection(V, S)
  BY <1>4, <1>5 DEF Surjection
<1>7. IsFiniteSet(S)
  BY <1>2, <1>6, FS_Surjection
<1>8. Saying(S, v) \subseteq S
  BY DEF Saying
<1> QED
  BY <1>7, <1>8, FS_Subset

\* The bar and the outcome of the decision a proposal cites are its votes'.
LEMMA BarIsCleared ==
  ASSUME Knowing, SerialInv, Exhibited, DecisionsAreEvidenced, RulesStand, proposal.decision # 0
  PROVE  QuorumProblems(decisions[proposal.decision]) = {}
<1> DEFINE n == proposal.decision
           d == decisions[n]
<1>1. n \in DOMAIN decisions /\ d \in DecisionRecord
  BY DEF Knowing, TypeOK, RepoType, ProposalType, ProposalRecord, SerialInv, Staged
<1> HIDE DEF n
<1>2. QuorumProblems(d) = {}
  <2> DEFINE for == Cardinality(Saying(d.votes, "for"))
             against == Cardinality(Saying(d.votes, "against"))
  <2>1. for \in Nat /\ against \in Nat
    <3>1. d.votes \subseteq votes /\ \A r, s \in d.votes : r.voter = s.voter => r = s
      BY <1>1 DEF DecisionsAreEvidenced
    <3> QED
      BY <3>1, SayingIsFinite, FS_CardinalityType DEF Knowing, TypeOK
  <2>2. /\ d.outcome = IF d.override THEN decideOverride(for, d.quorum)
                       ELSE decideOutcome(for, against, d.quorum)
        /\ d.outcome \in {"approved", "rejected"} /\ d.quorum \in Nat
    BY <1>1 DEF DecisionsAreEvidenced, DecisionRecord
  <2>3. d.override => against < for
    BY DEF Exhibited, RulesStand, n
  <2>4. Larger(d.quorum, quorumOf(settings)) = d.quorum
    <3>1. quorumOf(settings) <= d.quorum
      BY DEF RulesStand, n
    <3>2. quorumOf(settings) \in Nat
      BY SettingsRules, ProposalAssumption
         DEF Knowing, TypeOK, WorldType, ProposalAssumption, Positive
    <3> QED
      BY <2>2, <3>1, <3>2 DEF Larger
  <2> HIDE DEF for, against, d
  <2>5. for + against >= d.quorum /\ decideOutcome(for, against, d.quorum) = d.outcome
    BY <2>1, <2>2, <2>3 DEF decideOutcome, decideOverride
  <2>6. QuorumProblems(d) =
          IF for + against < d.quorum THEN {"insufficient-quorum"}
          ELSE IF for + against < Larger(d.quorum, quorumOf(settings))
               THEN {"quorum-floor-unmet"}
          ELSE IF decideOutcome(for, against, Larger(d.quorum, quorumOf(settings))) # d.outcome
               THEN {"wrong-outcome"}
          ELSE {}
    BY DEF QuorumProblems, for, against
  <2>7. ~(for + against < d.quorum)
    BY <2>1, <2>2, <2>5
  <2> QED
    BY <2>4, <2>5, <2>6, <2>7, Zenon
<1> QED
  BY <1>2 DEF n

\* The decision of a closed proposal is sound by the verifier's rules.
LEMMA DecisionIsCleared ==
  ASSUME Knowing, SerialInv, Exhibited, OneRecordEach, EvidenceComplete,
         DecisionsAreEvidenced, RulesStand, NEW given \in SUBSET Voter,
         proposal.decision # 0, proposal.status # Override,
         proposal.overrideOutcome # "expired"
  PROVE  Accusation(DecisionProblems(proposal.decision, given)) = {}
<1> DEFINE n == proposal.decision
           d == decisions[n]
           tally == tallyFromVoteRecords(proposal, cid, votes)
           known == knownProposalCids(proposal, cid)
<1>1. n \in DOMAIN decisions /\ d \in DecisionRecord
  BY DEF Knowing, TypeOK, RepoType, ProposalType, ProposalRecord, SerialInv, Staged
<1>2. proposal.status \in {Pending, Objected, "approved", "rejected"}
  <2>1. proposal.status \in Status
    BY DEF Knowing, TypeOK, ProposalType, ProposalRecord
  <2> QED
    BY <2>1 DEF SerialInv, Staged, Undecided, Status, Final
<1>3. d.votes = tally
  BY <1>2 DEF EvidenceComplete
<1>4. Eligible(given) = {r \in tally : r.voter \in given}
  BY EligibleOfSupplied
<1>5. \A r \in tally : countableVote(r, known, tallyEpoch(proposal))
  BY DEF tallyFromVoteRecords
<1>6. \A r, s \in tally : r.voter = s.voter => r = s
  BY TallyOnePerVoter DEF Knowing, TypeOK
<1> HIDE DEF tally, known, n
<1>7. VoteProblems(d, given) \subseteq {"missing-evidence"}
  <2>1. ASSUME NEW c \in d.votes, c.voter \in given,
               \E e \in Eligible(given) : e.voter = c.voter /\ e # c
        PROVE  FALSE
    BY <1>3, <1>4, <1>6, <2>1
  <2>2. \A c \in d.votes : countableVote(c, knownProposalCids(proposal, cid), tallyEpoch(proposal))
    BY <1>3, <1>5 DEF known
  <2> QED
    BY <2>1, <2>2 DEF VoteProblems
<1>8. MissedVotes(n, given) = {}
  <2>1. \A e \in Eligible(given) : e.voter \in Cited(d)
    BY <1>3, <1>4 DEF Cited
  <2> QED
    BY <2>1 DEF MissedVotes
<1>9. QuorumProblems(d) = {}
  BY BarIsCleared DEF n
<1>10. DecisionProblems(n, given)
          = VoteProblems(d, given) \cup MissedVotes(n, given) \cup QuorumProblems(d)
  BY DEF DecisionProblems
<1> HIDE DEF d
<1>11. DecisionProblems(n, given) \subseteq {"missing-evidence"}
  BY <1>7, <1>8, <1>9, <1>10
<1> QED
  BY <1>11 DEF Accusation, n

\* While a round is open, or after it ran out, only what rests on the epoch is amiss.
LEMMA BarIsLeft ==
  ASSUME Knowing, SerialInv, Exhibited, DecisionsAreEvidenced, RulesStand,
         NEW given \in SUBSET Voter, proposal.decision # 0
  PROVE  Accusation(DecisionProblems(proposal.decision, given)) \subseteq {"ineligible-vote", "uncounted-vote"}
<1> DEFINE n == proposal.decision
           d == decisions[n]
<1>1. QuorumProblems(d) = {}
  BY BarIsCleared
<1>2. VoteProblems(d, given) \subseteq {"missing-evidence", "ineligible-vote"}
  BY DEF VoteProblems
<1>3. MissedVotes(n, given) \subseteq {"uncounted-vote"}
  BY DEF MissedVotes
<1> QED
  BY <1>1, <1>2, <1>3 DEF Accusation, DecisionProblems

\* So is what the record says of its hold and of its change.
LEMMA ApplicationIsCleared ==
  ASSUME Knowing, SerialInv, Exhibited, HoldsBind, RulesStand, NEW given \in SUBSET Voter
  PROVE  /\ ApplicationVerdict(given, now) \notin {"applied-over-objection", "unevidenced-hold"}
         /\ ApplicationVerdict(given, now) = "early-application" => proposal.overrideOutcome = "carried"
<1>1. objectionThreshold(settings) \in Nat /\ objectionThreshold(settings) >= 1
  BY SettingsRules, ProposalAssumption
     DEF Knowing, TypeOK, WorldType, ProposalAssumption, Positive
<1>2. Proved(given) \subseteq Objectors(proposal, objections)
  BY DEF Proved, Objectors, countableObjection
<1>3. ASSUME proposal.status \in {Override, Objected} PROVE ~Contradicted(given)
  <2>1. /\ proposal.decision # 0 /\ proposal.applyAt # Unset
        /\ proposal.objectors = Objectors(proposal, objections)
    BY <1>3 DEF Exhibited
  <2>2. ASSUME NEW v \in proposal.objectors \cap given PROVE v \in Proved(given)
    <3>1. PICK o \in objections : o.objector = v /\ countableObjection(o, proposal)
      BY <2>1 DEF Objectors
    <3> QED
      BY <2>1, <3>1 DEF Proved, Objectors
  <2> QED
    BY <2>2 DEF Contradicted
<1>4. ASSUME proposal.status = "approved", proposal.appliedAt # Unset PROVE ~Held(given)
  <2>1. Objectors(proposal, objections) \subseteq Voter /\ IsFiniteSet(Voter)
    BY ObjectorsType, ProposalAssumption DEF Knowing, TypeOK, ProposalAssumption
  <2>2. CASE proposal.overrideOutcome = "carried"
    <3>1. \A o \in objections : o.decision # proposal.decision
      BY <2>2 DEF Exhibited, Knowing, TypeOK, RepoType, ProposalType, ProposalRecord, ObjectionRecord
    <3>2. Proved(given) = {}
      BY <1>2, <3>1 DEF Objectors, countableObjection
    <3> QED
      BY <1>1, <3>2, FS_EmptySet DEF Held
  <2>3. CASE proposal.overrideOutcome # "carried"
    <3>1. PICK i \in DOMAIN effects : /\ effects[i].via = "window"
                                      /\ effects[i].decision = proposal.decision
                                      /\ effects[i].applyAt = proposal.applyAt
      BY <1>4, <2>3 DEF Exhibited
    <3> DEFINE all == {o.objector : o \in {x \in objections :
                         x.decision = effects[i].decision /\ x.at < effects[i].applyAt}}
    <3>2. Cardinality(all) < effects[i].threshold
      BY <3>1 DEF HoldsBind
    <3>3. effects[i].threshold <= objectionThreshold(settings) /\ effects[i].threshold \in Nat
      <4>1. effects \in Seq(Effect)
        BY DEF Knowing, TypeOK, RepoType
      <4>2. effects[i] \in Effect
        BY <3>1, <4>1
      <4>3. effects[i].threshold \in Nat
        BY <4>2 DEF Effect, Positive
      <4> QED
        BY <3>1, <4>3 DEF RulesStand
    <3>4. Proved(given) \subseteq all
      BY <1>2, <3>1 DEF Objectors, countableObjection
    <3>5. all \subseteq Voter
      BY DEF Knowing, TypeOK, RepoType, ObjectionRecord
    <3> HIDE DEF all
    <3>6. /\ Cardinality(Proved(given)) <= Cardinality(all)
          /\ Cardinality(Proved(given)) \in Nat /\ Cardinality(all) \in Nat
      BY <2>1, <3>4, <3>5, FS_Subset, FS_CardinalityType
    <3> QED
      BY <1>1, <3>2, <3>3, <3>6 DEF Held
  <2> QED
    BY <2>2, <2>3
<1>5. ApplicationVerdict(given, now) \notin {"applied-over-objection", "unevidenced-hold"}
  BY <1>3, <1>4 DEF ApplicationVerdict, AppliedVerdict, NothingToJudge, Pending, Override, Objected
<1>6. ASSUME ApplicationVerdict(given, now) = "early-application", proposal.overrideOutcome # "carried"
      PROVE  FALSE
  <2>1. proposal.appliedAt # Unset /\ proposal.appliedAt < proposal.applyAt
    BY <1>6 DEF ApplicationVerdict, AppliedVerdict, NothingToJudge, Pending, Override, Objected
  <2>2. proposal.applyAt \in Int /\ proposal.appliedAt \in Int
    BY DEF Knowing, TypeOK, ProposalType, ProposalRecord
  <2> QED
    BY <1>6, <2>1, <2>2 DEF Exhibited
<1> QED
  BY <1>5, <1>6

\* As long as the lineage is not cut and the rules stand: none stricter than those
\* the server acted under, and a carried round with more ayes than noes (without
\* which a round that met its bar is called wrong-outcome).  Whatever such a server
\* exports and whichever of its members' repositories come with it: verifyDecision
\* finds the decision sound, or while a round of review is open or after it ran out
\* finds fault with nothing but which votes it counts; and verifyApplication finds
\* no hold unevidenced, no change carried over an objection, and none early but one
\* a round carried.  The two it leaves out, DecisionStaysSound and NeverFoundEarly,
\* are false of such a server.
THEOREM HonestServersAreCleared ==
  SerialSpec => [](cid <= MaxCidChain /\ RulesStand => HonestServerIsCleared)
<1>1. ASSUME Knowing, SerialInv, Exhibited, OneRecordEach, HoldsBind, DecisionsAreEvidenced,
             EvidenceComplete, RulesStand
      PROVE  HonestServerIsCleared
  <2> DEFINE astray == IF proposal.status = Override \/ proposal.overrideOutcome = "expired"
                       THEN {"ineligible-vote", "uncounted-vote"} ELSE {}
             early  == IF proposal.overrideOutcome = "carried" THEN {"early-application"} ELSE {}
  <2>1. ASSUME NEW given \in SUBSET Voter, proposal.decision # 0
        PROVE  Accusation(DecisionProblems(proposal.decision, given)) \subseteq astray
    <3>1. CASE proposal.status = Override \/ proposal.overrideOutcome = "expired"
      BY <1>1, <2>1, <3>1, BarIsLeft
    <3>2. CASE ~(proposal.status = Override \/ proposal.overrideOutcome = "expired")
      BY <1>1, <2>1, <3>2, DecisionIsCleared
    <3> QED
      BY <3>1, <3>2
  <2>2. ASSUME NEW given \in SUBSET Voter
        PROVE  ApplicationVerdict(given, now)
                 \notin {"applied-over-objection", "unevidenced-hold", "early-application"} \ early
    BY <1>1, <2>2, ApplicationIsCleared
  <2> QED
    BY <2>1, <2>2, Zenon DEF HonestServerIsCleared
<1>2. Knowing /\ SerialInv /\ Exhibited /\ OneRecordEach /\ HoldsBind
        /\ DecisionsAreEvidenced /\ (cid <= MaxCidChain => EvidenceComplete)
      => (cid <= MaxCidChain /\ RulesStand => HonestServerIsCleared)
  BY <1>1
<1> QED
  BY <1>2, SerialInvAlways, ExhibitedAlways, RecordsStayOne, HoldsAreBinding, SerialIsSpec,
     DecisionsEvidenced, EvidenceIsComplete, PTL

-----------------------------------------------------------------------------
\* The abstract life cycle.

LEMMA Stages ==
  /\ proposal.status \in Final => stage = "closed"
  /\ proposal.status = Pending => stage = "waiting"
  /\ proposal.status = Override => stage = "review"
  /\ proposal.status = Open => stage = "open"
  /\ proposal.status = "none" => stage = "none"
BY DEF stage, Final, Open, Pending, Override, Objected

LEMMA StagesAfter ==
  /\ proposal'.status \in Final => stage' = "closed"
  /\ proposal'.status = Pending => stage' = "waiting"
  /\ proposal'.status = Override => stage' = "review"
  /\ proposal'.status = Open => stage' = "open"
  /\ UNCHANGED proposal => UNCHANGED stage
BY DEF stage, Final, Open, Pending, Override, Objected

\* What was carried out, seen from outside.
Done == [i \in DOMAIN effects |-> effects[i].text]

LEMMA InitImplements == Init => Lifecycle!Init
<1> SUFFICES ASSUME Init PROVE Lifecycle!Init
  OBVIOUS
<1>1. effects = <<>>
  BY InitUndecided
<1>2. Done = <<>>
  BY <1>1 DEF Done
<1>3. \/ proposal.status = "none" /\ proposal.text = NoText
      \/ proposal.status = Open /\ proposal.text \in Text
  BY InitUndecided
<1> QED
  BY <1>2, <1>3, Stages DEF Lifecycle!Init, Done

\* A change is carried out once, with the text that is there.
LEMMA FirstChange ==
  ASSUME effects = <<>>, NEW e, effects' = Append(effects, e), e.text = proposal.text
  PROVE  Done' = <<proposal.text>>
<1>1. effects' = <<e>>
  OBVIOUS
<1>2. DOMAIN effects' = 1 .. 1 /\ effects'[1] = e
  BY <1>1
<1>3. Done' = [i \in 1 .. 1 |-> proposal.text]
  BY <1>2 DEF Done
<1> QED
  BY <1>3

LEMMA StepImplements ==
  ASSUME Knowing, SerialInv, Step
  PROVE  [Lifecycle!Next]_(Lifecycle!vars)
<1> DEFINE Closes == /\ stage \in {"open", "waiting", "review"} /\ stage' = "closed"
                     /\ proposal'.text = proposal.text
<1>1. UNCHANGED effects => UNCHANGED Done
  BY DEF Done
<1>2. Done = [i \in DOMAIN effects |-> effects[i].text]
  BY DEF Done
<1>3. ASSUME UNCHANGED <<stage, effects>>, proposal'.text = proposal.text
      PROVE  UNCHANGED Lifecycle!vars
  BY <1>1, <1>3 DEF Lifecycle!vars, Done
<1>4. ASSUME Closes, UNCHANGED effects PROVE Lifecycle!Drop
  BY <1>1, <1>4 DEF Lifecycle!Drop, Done
<1>5. ASSUME Closes, effects = <<>>,
             \E e : effects' = Append(effects, e) /\ e.text = proposal.text
      PROVE  Lifecycle!CarryOut
  <2>1. Done' = <<proposal.text>>
    BY <1>5, FirstChange
  <2> QED
    BY <1>5, <2>1 DEF Lifecycle!CarryOut, Done
<1>6. CASE Still \/ Casting \/ Objecting
  BY <1>3, <1>6, StagesAfter DEF Still, Casting, Objecting
<1>7. CASE Created
  <2>1. stage = "none" /\ stage' = "open" /\ proposal'.text \in Text /\ UNCHANGED Done
    BY <1>1, <1>7, Stages, StagesAfter DEF Created, Knowing, ProposalMeans
  <2>2. Lifecycle!Propose
    BY <2>1 DEF Lifecycle!Propose, Done
  <2> QED
    BY <2>2 DEF Lifecycle!Next
<1>8. CASE Kept
  <2>1. UNCHANGED <<stage, effects>> /\ proposal'.text = proposal.text
    BY <1>8, Stages, StagesAfter DEF Kept, SameText
  <2> QED
    BY <1>3, <2>1
<1>9. CASE Dropped
  <2>1. Closes /\ UNCHANGED effects
    BY <1>9, Stages, StagesAfter DEF Dropped, SameText, Final
  <2> QED
    BY <1>4, <2>1 DEF Lifecycle!Next
<1>10. CASE Contested
  <2>1. stage = "waiting" /\ stage' = "review" /\ UNCHANGED Done
        /\ proposal'.text = proposal.text
    BY <1>1, <1>10, Stages, StagesAfter DEF Contested, SameText
  <2>2. Lifecycle!Review
    BY <2>1 DEF Lifecycle!Review, Done
  <2> QED
    BY <2>2 DEF Lifecycle!Next
<1>11. CASE RanOut
  <2>1. Closes
    BY <1>11, Stages, StagesAfter DEF RanOut, SameText, Final
  <2>2. effects = <<>>
    BY <1>11 DEF RanOut, SerialInv, Staged, Final, Pending, Objected
  <2>3. \E e : effects' = Append(effects, e) /\ e.text = proposal.text
    BY <1>11 DEF RanOut
  <2> QED
    BY <1>5, <2>1, <2>2, <2>3 DEF Lifecycle!Next
<1>12. ASSUME NEW p \in Request, Reworded(p) PROVE Lifecycle!Next
  <2>1. stage = "open" /\ stage' = "open" /\ UNCHANGED Done /\ proposal'.text \in Text
    BY <1>1, <1>12, Stages, StagesAfter DEF Reworded
  <2>2. Lifecycle!Reword
    BY <2>1 DEF Lifecycle!Reword, Done
  <2> QED
    BY <2>2 DEF Lifecycle!Next
<1>13. ASSUME NEW p \in Request, Decided(p) PROVE Lifecycle!Next
  <2>1. proposal.status \in {Open, Override} /\ proposal'.text = proposal.text
    BY <1>13 DEF Decided, SameText
  <2>2. stage \in {"open", "review"}
    BY <2>1, Stages
  <2>3. effects = <<>>
    BY <2>1 DEF SerialInv, Staged, Final, Open, Override, Objected
  <2>4. CASE proposal.status = Open /\ proposal'.status = Pending /\ UNCHANGED effects
    <3>1. stage = "open" /\ stage' = "waiting" /\ UNCHANGED Done
      BY <1>1, <2>4, Stages, StagesAfter
    <3>2. Lifecycle!Schedule
      BY <2>1, <3>1 DEF Lifecycle!Schedule, Done
    <3> QED
      BY <3>2 DEF Lifecycle!Next
  <2>5. CASE proposal'.status \in {"approved", "rejected"} /\ UNCHANGED effects
    <3>1. Closes
      BY <2>1, <2>2, <2>5, StagesAfter DEF Final
    <3> QED
      BY <1>4, <2>5, <3>1 DEF Lifecycle!Next
  <2>6. CASE /\ proposal'.status = "approved"
             /\ \E e : effects' = Append(effects, e) /\ e.text = proposal.text
    <3>1. Closes
      BY <2>1, <2>2, <2>6, StagesAfter DEF Final
    <3> QED
      BY <1>5, <2>3, <2>6, <3>1 DEF Lifecycle!Next
  <2> QED
    BY <1>13, <2>4, <2>5, <2>6 DEF Decided
<1> QED
  BY <1>6, <1>7, <1>8, <1>9, <1>10, <1>11, <1>12, <1>13 DEF Step

\* Every run of the requests that serve a proposal, with their faults and
\* deaths, is one of ProposalLifecycle: the text moves only while the proposal
\* is open, it is contested at most once, closes once and for good, and its
\* change is carried out at most once, in the step that closes it.
THEOREM LifecycleImplemented == SerialSpec => ImplementsLifecycle
<1>1. ASSUME Knowing, SerialInv, [Next /\ SerialAmendments /\ SeedFirst]_vars
      PROVE  [Lifecycle!Next]_(Lifecycle!vars)
  BY <1>1, SerialSteps, StepImplements
<1> QED
  BY <1>1, InitImplements, SerialInvAlways, PTL DEF SerialSpec, ImplementsLifecycle,
     Lifecycle!Spec
=============================================================================

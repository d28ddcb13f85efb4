---------------------------- MODULE Proposal ----------------------------
(***************************************************************************)
(* One community proposal and the requests that touch it: createProposal,  *)
(* voteOnProposal, objectToProposal, amendProposal and the two read        *)
(* endpoints, with the lazy sweeps (applyIfDue, closeExpiredOverride) that *)
(* every one of the last but amendProposal runs first.                     *)
(*                                                                         *)
(* A request is a process.  It is split where the code awaits something    *)
(* another request can see or disturb: between the unlocked sweeps and the *)
(* locked section, between the read of the proposal and the signed records *)
(* written into members' own repos, and between those and the one commit   *)
(* that rewrites the proposal.  A request can die at any of these points.  *)
(*                                                                         *)
(* A CID is the number of the commit that wrote the proposal: every        *)
(* rewrite extends cidChain, so no two versions of it hash alike.  A vote  *)
(* record keeps the text its cited CID addresses as a field of its own.    *)
(***************************************************************************)
EXTENDS GovernanceRules, Sequences

CONSTANTS
  Voter,        \* DIDs that may appear in the electorate
  HasRepo,      \* the voters with a repo, who can sign records
  Text,         \* contents a proposal can propose for its target record
  Invalid,      \* the contents checkGovernanceSettings would refuse
  Legacy,       \* whether a proposal from before the evidence model may exist
  Request,      \* concurrent request slots of the server
  SettingsChoices, ElectorateChoices, DelegationChoices,  \* the environment
  Ttl,          \* proposalTtlDays, in clock units
  MaxCidChain,  \* MAX_CID_CHAIN
  NoOne, NoText,
  MaxTime,      \* bound: time stops passing by itself here
  MaxRequests,  \* bound: votes, objections and amendments ever started
  MaxFaults     \* bound: failed writes and died requests

ASSUME ProposalAssumption ==
  /\ IsFiniteSet(Voter) /\ HasRepo \subseteq Voter /\ NoOne \notin Voter \cup Request
  /\ Invalid \subseteq Text /\ NoText \notin Text
  /\ SettingsChoices \subseteq Settings
  /\ ElectorateChoices \subseteq SUBSET Voter
  /\ DelegationChoices \subseteq SUBSET (Voter \X Voter)
  /\ Legacy \in BOOLEAN
  /\ Ttl \in Positive /\ MaxCidChain \in Positive

VARIABLES
  proposal,     \* the proposal record as records_index holds it
  cid,          \* its CID; 0 before it exists
  decisions,    \* decision records in the community's repo, in rkey order
  votes,        \* vote records in the voters' own repos
  objections,   \* objection records in the objectors' own repos
  effects,      \* what was committed to the target record, in order
  tid,          \* the last record key handed out
  settings, electorate, delegations, now,
  lock,         \* holder of the proposal's advisory lock
  pc, kind, actor, choice, draft,     \* per request: where it is, what it asks
  seenAt,       \* per request: the instant it captured before waiting
  snap, snapCid, casting,             \* per request: what it read
  requests, faults                    \* spent of the two bounds

repos == <<decisions, votes, objections, effects, tid>>
world == <<settings, electorate, delegations>>
asked == <<kind, actor, choice, draft>>
read  == <<snap, snapCid, casting>>
spent == <<requests, faults>>
vars  == <<proposal, cid, repos, world, now, lock, pc, asked, seenAt, read, spent>>

Open == "open"
Pending == "pending-application"
Override == "objection-override"
Objected == "objected"
Final == {"approved", "rejected", "expired", Objected}
Status == {"none", Open, Pending, Override} \cup Final

ProposalRecord ==
  [status : Status, evidence : BOOLEAN, text : Text \cup {NoText},
   votesFor : SUBSET Voter, votesAgainst : SUBSET Voter,
   createdAt : Int, expiresAt : Int, amendedAt : Int,
   decision : Nat, resolvedAt : Int, applyAt : Int, appliedAt : Int,
   objectors : SUBSET Voter,
   overrideOpenedAt : Int, overrideExpiresAt : Int, overrideQuorum : Nat,
   overrideOutcome : {"none", "carried", "expired"},
   chain : SUBSET Nat]

\* No proposal yet.
Blank ==
  [status |-> "none", evidence |-> FALSE, text |-> NoText,
   votesFor |-> {}, votesAgainst |-> {},
   createdAt |-> Unset, expiresAt |-> Unset, amendedAt |-> Unset,
   decision |-> 0, resolvedAt |-> Unset, applyAt |-> Unset, appliedAt |-> Unset,
   objectors |-> {},
   overrideOpenedAt |-> Unset, overrideExpiresAt |-> Unset, overrideQuorum |-> 0,
   overrideOutcome |-> "none", chain |-> {}]

\* What createProposal writes; legacy proposals carry no evidence model.
Fresh(text, evidence, seed) ==
  [Blank EXCEPT !.status = Open, !.evidence = evidence, !.text = text,
                !.votesFor = seed, !.createdAt = now, !.expiresAt = now + Ttl]

VoteRecord ==
  [voter : Voter, vote : {"for", "against"}, castBy : Voter,
   cid : Nat, text : Text, at : Nat, rkey : Nat]
ObjectionRecord == [objector : Voter, decision : Nat, at : Nat]
DecisionRecord ==
  [outcome : {"approved", "rejected"}, votes : SUBSET VoteRecord,
   text : Text, quorum : Nat, override : BOOLEAN, supersedes : Nat]
Effect ==
  [text : Text, decision : Nat, at : Nat, via : {"vote", "window", "override"},
   threshold : Positive, applyAt : Int]

-----------------------------------------------------------------------------
Init ==
  /\ \/ proposal = Blank /\ cid = 0
     \/ \E t \in Text : /\ Legacy
                        /\ proposal = [Blank EXCEPT !.status = Open, !.text = t,
                                        !.createdAt = 0, !.expiresAt = Ttl]
                        /\ cid = 1
  /\ decisions = <<>> /\ votes = {} /\ objections = {} /\ effects = <<>> /\ tid = 0
  /\ settings \in SettingsChoices
  /\ electorate \in ElectorateChoices
  /\ delegations \in DelegationChoices
  /\ now = 0 /\ lock = NoOne
  /\ pc = [p \in Request |-> "idle"]
  /\ kind = [p \in Request |-> "read"]
  /\ actor = [p \in Request |-> NoOne]
  /\ choice = [p \in Request |-> "for"]
  /\ draft = [p \in Request |-> NoText]
  /\ seenAt = [p \in Request |-> 0]
  /\ snap = [p \in Request |-> Blank]
  /\ snapCid = [p \in Request |-> 0]
  /\ casting = [p \in Request |-> {}]
  /\ requests = 0 /\ faults = 0

-----------------------------------------------------------------------------
\* Shared pieces of the handlers.

\* proposalWriteOp: the version being replaced joins the lineage, of which
\* only the newest MaxCidChain entries are kept.
Lineage(chain) ==
  LET all == IF cid = 0 THEN chain ELSE chain \cup {cid}
  IN  {c \in all : Cardinality({d \in all : d > c}) < MaxCidChain}

\* putProposalRecord.
Put(record) ==
  /\ proposal' = IF record.evidence
                 THEN [record EXCEPT !.chain = Lineage(record.chain)]
                 ELSE record
  /\ cid' = cid + 1

\* The response is sent (or the request dies): what it held is gone.
Finish(p) ==
  /\ pc' = [pc EXCEPT ![p] = "idle"]
  /\ kind' = [kind EXCEPT ![p] = "read"]
  /\ actor' = [actor EXCEPT ![p] = NoOne]
  /\ choice' = [choice EXCEPT ![p] = "for"]
  /\ draft' = [draft EXCEPT ![p] = NoText]
  /\ seenAt' = [seenAt EXCEPT ![p] = 0]
  /\ snap' = [snap EXCEPT ![p] = Blank]
  /\ snapCid' = [snapCid EXCEPT ![p] = 0]
  /\ casting' = [casting EXCEPT ![p] = {}]
  /\ lock' = IF lock = p THEN NoOne ELSE lock

Goto(p, place) == pc' = [pc EXCEPT ![p] = place]

Remember(p) ==
  /\ snap' = [snap EXCEPT ![p] = proposal]
  /\ snapCid' = [snapCid EXCEPT ![p] = cid]

Fault == faults < MaxFaults /\ faults' = faults + 1

\* A new request, of a kind that counts against the bound.
Begin(p, k, who) ==
  /\ pc[p] = "idle" /\ cid # 0 /\ requests < MaxRequests
  /\ requests' = requests + 1
  /\ kind' = [kind EXCEPT ![p] = k]
  /\ actor' = [actor EXCEPT ![p] = who]
  /\ UNCHANGED <<proposal, cid, repos, world, lock, faults>>

\* What a change commits to the target record, as history keeps it.
Applied(q, decision, via) ==
  effects' = Append(effects, [text |-> q.text, decision |-> decision, at |-> now,
                              via |-> via, applyAt |-> q.applyAt,
                              threshold |-> objectionThreshold(settings)])

\* heldProposalState.  The instant is later than anything already recorded.
HeldState(q, objectors, at) ==
  IF settings.review = "none"
  THEN [q EXCEPT !.status = Objected, !.objectors = objectors]
  ELSE [q EXCEPT !.status = Override, !.objectors = objectors,
                 !.overrideOpenedAt = at,
                 !.overrideExpiresAt = at + objectionOverrideDays(settings),
                 !.overrideQuorum = overrideQuorumFrom(settings, quorumOf(settings),
                                                       Cardinality(electorate)),
                 !.votesFor = {}, !.votesAgainst = {}]

-----------------------------------------------------------------------------
\* createProposal: no lock; the record first, then the seed vote's.

\* A slip the runs must notice: the seed vote is signed by nobody.
CreateProposalUnsigned(p, who, text) ==
  /\ cid = 0 /\ settings.voting /\ who \in electorate /\ text \notin Invalid
  /\ pc[p] = "idle"
  /\ Put(Fresh(text, TRUE, {who} \cap HasRepo))
  /\ Goto(p, "seed")
  /\ UNCHANGED <<repos, world, now, lock, asked, seenAt, read, spent>>

CreateProposal(p, who, text) ==
  /\ cid = 0 /\ settings.voting /\ who \in electorate /\ text \notin Invalid
  /\ pc[p] = "idle"
  /\ Put(Fresh(text, TRUE, {who} \cap HasRepo))
  /\ IF who \in HasRepo
     THEN /\ Goto(p, "seed")
          /\ actor' = [actor EXCEPT ![p] = who]
          /\ draft' = [draft EXCEPT ![p] = text]
          /\ snapCid' = [snapCid EXCEPT ![p] = 1]
     ELSE UNCHANGED <<pc, actor, draft, snapCid>>
  /\ UNCHANGED <<repos, world, now, lock, kind, choice, seenAt, snap, casting, spent>>

SeedVote(p) ==
  /\ pc[p] = "seed"
  /\ tid' = tid + 1
  /\ \/ /\ votes' = votes \cup {[voter |-> actor[p], castBy |-> actor[p], vote |-> "for",
                                 cid |-> snapCid[p], text |-> draft[p],
                                 at |-> now, rkey |-> tid + 1]}
        /\ UNCHANGED faults
     \/ Fault /\ UNCHANGED votes      \* writeVoteRecord swallows its errors
  /\ Finish(p)
  /\ UNCHANGED <<proposal, cid, decisions, objections, effects, world, now, requests>>

-----------------------------------------------------------------------------
\* The sweeps.  applyDueProposals, then closeExpiredOverrides: each captures an
\* instant, lists what is due without the lock, and for what it listed takes
\* the lock and decides again from the proposal as it then stands.

\* A slip the runs must notice: the status is not read again under the lock.
DueByTime(t) == proposal.applyAt # Unset /\ proposal.applyAt <= t

DueBy(t)      == proposal.status = Pending /\ proposal.applyAt <= t
Overdue(q, t) == q.status = Override /\ q.overrideExpiresAt <= t

\* After its sweeps a read is answered; a vote or an objection goes on.
Onward(p, k) ==
  IF k = "read" THEN Finish(p)
  ELSE /\ Goto(p, "enter")
       /\ seenAt' = [seenAt EXCEPT ![p] = 0]
       /\ UNCHANGED <<lock, asked, read>>

\* The second listing finds a round to close, or the sweeps are over.
ListOverrides(p, q) ==
  IF Overdue(q, now)
  THEN /\ Goto(p, "close")
       /\ seenAt' = [seenAt EXCEPT ![p] = now]
       /\ UNCHANGED <<lock, asked, read>>
  ELSE Onward(p, kind[p])

\* The first listing of a new request; what it would find nothing due for
\* goes straight to the second.
ListDue(p) ==
  LET due == DueBy(now)
      overdue == Overdue(proposal, now)
  IN  /\ Goto(p, IF due THEN "apply" ELSE IF overdue THEN "close" ELSE "enter")
      /\ seenAt' = [seenAt EXCEPT ![p] = IF due \/ overdue THEN now ELSE 0]

\* Slips the runs must notice: a read runs only one of the two sweeps.
OnlyWindows == DueBy(now)
OnlyRounds  == Overdue(proposal, now)

SomethingDue == DueBy(now) \/ Overdue(proposal, now)

\* getProposal and listProposals: they matter when something is due.
Read(p) ==
  /\ pc[p] = "idle" /\ SomethingDue
  /\ ListDue(p)
  /\ UNCHANGED <<proposal, cid, repos, world, now, lock, asked, read, spent>>

\* applyIfDue under the lock: hold the proposal, close it as unapplicable, or
\* commit the closed proposal together with the change.
ApplyIfDue(p) ==
  /\ pc[p] = "apply" /\ DueBy(seenAt[p]) /\ lock = NoOne
  /\ LET objectors == Objectors(proposal, objections)
         held == Cardinality(objectors) >= objectionThreshold(settings)
     IN  \/ /\ held
            /\ Put(HeldState(proposal, objectors, seenAt[p]))
            /\ UNCHANGED effects
         \/ /\ ~held /\ proposal.text \in Invalid
            /\ Put([proposal EXCEPT !.status = "approved"])
            /\ UNCHANGED effects
         \/ /\ ~held /\ proposal.text \notin Invalid
            /\ Put([proposal EXCEPT !.status = "approved", !.appliedAt = seenAt[p]])
            /\ Applied(proposal, proposal.decision, "window")
  /\ ListOverrides(p, proposal')
  /\ UNCHANGED <<decisions, votes, objections, tid, world, now, spent>>

\* Another request got there first.
ApplyNothing(p) ==
  /\ pc[p] = "apply" /\ ~DueBy(seenAt[p])
  /\ ListOverrides(p, proposal)
  /\ UNCHANGED <<proposal, cid, repos, world, now, spent>>

CloseExpiredOverride(p) ==
  /\ pc[p] = "close" /\ Overdue(proposal, seenAt[p]) /\ lock = NoOne
  /\ Put([proposal EXCEPT !.status = "rejected", !.resolvedAt = seenAt[p],
                          !.overrideOutcome = "expired"])
  /\ Onward(p, kind[p])
  /\ UNCHANGED <<repos, world, now, spent>>

CloseNothing(p) ==
  /\ pc[p] = "close" /\ ~Overdue(proposal, seenAt[p])
  /\ Onward(p, kind[p])
  /\ UNCHANGED <<proposal, cid, repos, world, now, spent>>

\* applyIfDueSafely, closeExpiredOverrideSafely: a failure is contained and
\* the request goes on.
SweepFails(p) ==
  /\ Fault
  /\ \/ pc[p] = "apply" /\ DueBy(seenAt[p])
     \/ pc[p] = "close" /\ Overdue(proposal, seenAt[p])
  /\ Onward(p, kind[p])
  /\ UNCHANGED <<proposal, cid, repos, world, now, requests>>

-----------------------------------------------------------------------------
\* voteOnProposal.

Vote(p, who, v) ==
  /\ who \in electorate
  /\ Begin(p, "vote", who) /\ ListDue(p)
  /\ choice' = [choice EXCEPT ![p] = v]
  /\ UNCHANGED <<now, draft, read>>

Lapsed == proposal.status = Open /\ proposal.expiresAt < now

AcceptsVotes == \/ proposal.status = Open /\ ~Lapsed
                \/ proposal.status = Override /\ now < proposal.overrideExpiresAt

Voted(who) == who \in proposal.votesFor \cup proposal.votesAgainst

\* A voter who cannot sign a record is refused, where records are evidence.
MayVote(who) == ~Voted(who) /\ (proposal.evidence => who \in HasRepo)

VoteRefused(p) ==
  /\ pc[p] = "enter" /\ kind[p] = "vote" /\ lock = NoOne
  /\ ~Lapsed /\ ~(AcceptsVotes /\ MayVote(actor[p]))
  /\ Finish(p)
  /\ UNCHANGED <<proposal, cid, repos, world, now, spent>>

\* The original round ran out: the vote closes it instead of counting.
ExpireProposal(p) ==
  /\ pc[p] = "enter" /\ kind[p] = "vote" /\ lock = NoOne /\ Lapsed
  /\ Put([proposal EXCEPT !.status = "expired", !.resolvedAt = now])
  /\ Finish(p)
  /\ UNCHANGED <<repos, world, now, spent>>

\* Those who delegated to the voter and have no vote in the cache yet.
Delegators(who) ==
  {d \in Voter : <<d, who>> \in delegations /\ ~Voted(d) /\ d # who}

\* Of these, who is counted: where records are evidence only who can sign one,
\* and whoever's repo could not be looked up.
Counting(who) ==
  LET able == Delegators(who) \cap HasRepo
  IN  IF proposal.evidence THEN {able \cup c : c \in SUBSET Delegators(who)}
                           ELSE {Delegators(who)}

EnterVote(p) ==
  /\ pc[p] = "enter" /\ kind[p] = "vote" /\ lock = NoOne
  /\ AcceptsVotes /\ MayVote(actor[p])
  /\ lock' = p
  /\ Remember(p)
  /\ \E also \in Counting(actor[p]) :
       /\ casting' = [casting EXCEPT ![p] = {actor[p]} \cup also]
       /\ IF proposal.evidence /\ also # Delegators(actor[p]) \cap HasRepo
          THEN Fault ELSE UNCHANGED faults
  /\ Goto(p, "record")
  /\ UNCHANGED <<proposal, cid, repos, world, now, asked, seenAt, requests>>

\* writeVoteRecords: one signed record per vote cast, in each voter's own
\* repo.  Any of them may fail, which is audited and otherwise ignored.
RecordVotes(p) ==
  /\ pc[p] = "record"
  /\ \E written \in SUBSET (casting[p] \cap HasRepo) :
       /\ IF written = casting[p] \cap HasRepo THEN UNCHANGED faults ELSE Fault
       /\ votes' = votes \cup
            {[voter |-> v, vote |-> choice[p], castBy |-> actor[p],
              cid |-> snapCid[p], text |-> snap[p].text,
              at |-> now, rkey |-> tid + 1] : v \in written}
  /\ tid' = tid + 1
  /\ Goto(p, "resolve")
  /\ UNCHANGED <<proposal, cid, decisions, objections, effects, world, now, lock,
                 asked, seenAt, read, requests>>

\* The proposal this vote read, with what it casts in the vote cache.
Cast(p) ==
  IF choice[p] = "for" THEN [snap[p] EXCEPT !.votesFor = @ \cup casting[p]]
                       ELSE [snap[p] EXCEPT !.votesAgainst = @ \cup casting[p]]

\* A slip the runs must notice: whoever is in the cache, whatever their records
\* were cast on.
CountedByVoter(p) ==
  {r \in votes : r.voter \in Cast(p).votesFor \cup Cast(p).votesAgainst}

Counted(p) == tallyFromVoteRecords(Cast(p), snapCid[p], votes)

RoundOutcome(p, for, against) ==
  IF snap[p].status = Override
  THEN decideOverride(for, snap[p].overrideQuorum)
  ELSE decideOutcome(for, against, quorumOf(settings))

RecordOutcome(p) ==
  RoundOutcome(p, Cardinality(Saying(Counted(p), "for")),
                  Cardinality(Saying(Counted(p), "against")))
CacheOutcome(p) ==
  RoundOutcome(p, Cardinality(Cast(p).votesFor), Cardinality(Cast(p).votesAgainst))

\* A slip the runs must notice: the cache decides.
OutcomeOfCache(p) == CacheOutcome(p)

\* Decided only where the signed records and the cache agree (decideFromRecords).
Outcome(p) ==
  IF ~snap[p].evidence \/ RecordOutcome(p) = CacheOutcome(p)
  THEN CacheOutcome(p) ELSE "none"

\* prepareDecisionRecord: the latest decision is cited again only if it has
\* the same outcome and cites the same votes.
\* A slip the runs must notice: the same outcome is enough.
ReusableByOutcome(p) ==
  decisions # <<>> /\ decisions[Len(decisions)].outcome = Outcome(p)

Reusable(p) ==
  /\ decisions # <<>>
  /\ decisions[Len(decisions)].outcome = Outcome(p)
  /\ decisions[Len(decisions)].votes = Counted(p)

QuorumApplied(p) ==
  IF snap[p].status = Override THEN snap[p].overrideQuorum ELSE quorumOf(settings)

DecisionWrite(p) ==
  IF ~snap[p].evidence \/ Reusable(p) THEN decisions
  ELSE Append(decisions, [outcome |-> Outcome(p), votes |-> Counted(p),
                          text |-> snap[p].text, quorum |-> QuorumApplied(p),
                          override |-> snap[p].status = Override,
                          supersedes |-> Len(decisions)])

\* A slip the runs must notice: the decision there was before this one's write.
ClosedBeforeDecision(p, status) ==
  [Cast(p) EXCEPT !.status = status, !.resolvedAt = now,
                  !.decision = IF snap[p].evidence THEN Len(decisions) ELSE @,
                  !.overrideOutcome = IF snap[p].status = Override THEN "carried" ELSE @]

\* The proposal as the vote closes it.
Closed(p, status) ==
  [Cast(p) EXCEPT !.status = status, !.resolvedAt = now,
                  !.decision = IF snap[p].evidence THEN Len(DecisionWrite(p)) ELSE @,
                  !.overrideOutcome = IF snap[p].status = Override THEN "carried" ELSE @]

\* Only a decision carries something an objection can name, and a carried
\* override has served its window already.
HasWindow(p) ==
  /\ snap[p].evidence /\ snap[p].status # Override
  /\ timelockHours(settings) > 0

VoteCommitted(p) ==
  /\ Finish(p)
  /\ UNCHANGED <<votes, objections, tid, world, now, spent>>

KeepOpen(p) ==
  /\ pc[p] = "resolve" /\ Outcome(p) = "none"
  /\ Put(Cast(p))
  /\ VoteCommitted(p)
  /\ UNCHANGED <<decisions, effects>>

Reject(p) ==
  /\ pc[p] = "resolve" /\ Outcome(p) = "rejected"
  /\ Put(Closed(p, "rejected")) /\ decisions' = DecisionWrite(p)
  /\ VoteCommitted(p)
  /\ UNCHANGED effects

AwaitApplication(p) ==
  /\ pc[p] = "resolve" /\ Outcome(p) = "approved" /\ HasWindow(p)
  /\ Put([Closed(p, Pending) EXCEPT !.applyAt = now + timelockHours(settings)])
  /\ decisions' = DecisionWrite(p)
  /\ VoteCommitted(p)
  /\ UNCHANGED effects

\* One commit: the decision, the closed proposal and the change it read.
ApproveAndApply(p) ==
  /\ pc[p] = "resolve" /\ Outcome(p) = "approved" /\ ~HasWindow(p)
  /\ snap[p].text \notin Invalid
  /\ decisions' = DecisionWrite(p)
  /\ IF snap[p].status = Override
     THEN /\ Put([Closed(p, "approved") EXCEPT !.appliedAt = now])
          /\ Applied(snap[p], Len(DecisionWrite(p)), "override")
     ELSE /\ Put(Closed(p, "approved"))
          /\ Applied(snap[p], Closed(p, "approved").decision, "vote")
  /\ VoteCommitted(p)

\* UnapplicableProposalError: closed, and nothing is claimed to be applied.
ApproveUnapplicable(p) ==
  /\ pc[p] = "resolve" /\ Outcome(p) = "approved" /\ ~HasWindow(p)
  /\ snap[p].text \in Invalid
  /\ Put(Closed(p, "approved")) /\ decisions' = DecisionWrite(p)
  /\ VoteCommitted(p)
  /\ UNCHANGED effects

-----------------------------------------------------------------------------
\* objectToProposal.

Object(p, who) ==
  /\ who \in electorate
  /\ Begin(p, "object", who) /\ ListDue(p)
  /\ UNCHANGED <<now, choice, draft, read>>

Contestable(who) ==
  /\ proposal.status = Pending /\ now < proposal.applyAt
  /\ who \notin Objectors(proposal, objections) \cup proposal.objectors
  /\ who \in HasRepo

ObjectionRefused(p) ==
  /\ pc[p] = "enter" /\ kind[p] = "object" /\ lock = NoOne
  /\ ~Contestable(actor[p])
  /\ Finish(p)
  /\ UNCHANGED <<proposal, cid, repos, world, now, spent>>

EnterObjection(p) ==
  /\ pc[p] = "enter" /\ kind[p] = "object" /\ lock = NoOne
  /\ Contestable(actor[p])
  /\ lock' = p
  /\ Remember(p)
  /\ Goto(p, "object")
  /\ UNCHANGED <<proposal, cid, repos, world, now, asked, seenAt, casting, spent>>

\* The record is the objection; time may have run past applyAt since the
\* check.  If it cannot be written the request fails (see Die).
RecordObjection(p) ==
  /\ pc[p] = "object"
  /\ objections' = objections \cup
       {[objector |-> actor[p], decision |-> snap[p].decision, at |-> now]}
  /\ Goto(p, "hold")
  /\ UNCHANGED <<proposal, cid, decisions, votes, effects, tid, world, now, lock,
                 asked, seenAt, read, spent>>

\* The objections are counted again from the signed records, the new one
\* included; only a hold rewrites the proposal.
HoldOrLeave(p) ==
  /\ pc[p] = "hold"
  /\ LET objectors == Objectors(snap[p], objections)
     IN  IF Cardinality(objectors) >= objectionThreshold(settings)
         THEN Put(HeldState(snap[p], objectors, now + 1)) /\ now' = now + 1
         ELSE UNCHANGED <<proposal, cid, now>>
  /\ Finish(p)
  /\ UNCHANGED <<repos, world, spent>>

-----------------------------------------------------------------------------
\* amendProposal: no sweep and no lock.  The amendment's instant is captured
\* before the commit that makes it.

\* A slip the runs must notice: what has been decided can still be amended.
AmendableAnyTime == cid # 0

Amendable == proposal.status = Open

Amend(p, who, text) ==
  /\ who \in electorate /\ Amendable
  /\ Begin(p, "amend", who) /\ Goto(p, "amend")
  /\ draft' = [draft EXCEPT ![p] = text]
  /\ now' = now + 1
  /\ seenAt' = [seenAt EXCEPT ![p] = now + 1]
  /\ Remember(p)
  /\ UNCHANGED <<choice, casting>>

CommitAmendment(p) ==
  /\ pc[p] = "amend"
  /\ Put([snap[p] EXCEPT !.text = draft[p], !.votesFor = {}, !.votesAgainst = {},
                         !.expiresAt = seenAt[p] + Ttl, !.amendedAt = seenAt[p]])
  /\ Finish(p)
  /\ UNCHANGED <<repos, world, now, spent>>

-----------------------------------------------------------------------------
\* Anything a request awaits can throw, its server can go down, and either
\* way its lock is released and what it wrote so far stays.
Die(p) ==
  /\ pc[p] # "idle" /\ Fault
  /\ Finish(p)
  /\ UNCHANGED <<proposal, cid, repos, world, now, requests>>

\* The rest of the community: other proposals, members and roles, delegations.
ChangeSettings ==
  /\ settings' \in SettingsChoices \ {settings}
  /\ UNCHANGED <<proposal, cid, repos, electorate, delegations, now, lock, pc,
                 asked, seenAt, read, spent>>

ChangeElectorate ==
  /\ electorate' \in ElectorateChoices \ {electorate}
  /\ UNCHANGED <<proposal, cid, repos, settings, delegations, now, lock, pc,
                 asked, seenAt, read, spent>>

ChangeDelegations ==
  /\ delegations' \in DelegationChoices \ {delegations}
  /\ UNCHANGED <<proposal, cid, repos, settings, electorate, now, lock, pc,
                 asked, seenAt, read, spent>>

Tick ==
  /\ now < MaxTime /\ now' = now + 1
  /\ UNCHANGED <<proposal, cid, repos, world, lock, pc, asked, seenAt, read, spent>>

Handle(p) ==
  \/ SeedVote(p)
  \/ ApplyNothing(p) \/ ApplyIfDue(p) \/ CloseNothing(p) \/ CloseExpiredOverride(p)
  \/ VoteRefused(p) \/ ExpireProposal(p) \/ EnterVote(p) \/ RecordVotes(p)
  \/ KeepOpen(p) \/ Reject(p) \/ AwaitApplication(p)
  \/ ApproveAndApply(p) \/ ApproveUnapplicable(p)
  \/ ObjectionRefused(p) \/ EnterObjection(p) \/ RecordObjection(p) \/ HoldOrLeave(p)
  \/ CommitAmendment(p)

Arrive(p) ==
  \/ Read(p)
  \/ \E who \in Voter :
       \/ \E v \in {"for", "against"} : Vote(p, who, v)
       \/ Object(p, who)
       \/ \E t \in Text : CreateProposal(p, who, t) \/ Amend(p, who, t)

Environment == ChangeSettings \/ ChangeElectorate \/ ChangeDelegations \/ Tick

Next ==
  \/ \E p \in Request : Arrive(p) \/ Handle(p) \/ SweepFails(p) \/ Die(p)
  \/ Environment

Spec == Init /\ [][Next]_vars

\* Somebody goes on reading the proposal, a request that can go on does, and
\* time passes.  There is no scheduler: these are all the code relies on.
Fairness ==
  /\ WF_vars(Tick)
  /\ \A p \in Request : WF_vars(Handle(p))
  /\ \A p \in Request : WF_vars(Read(p))

FairSpec == Spec /\ Fairness

-----------------------------------------------------------------------------
\* The two writers that take no lock, kept apart from every other request.  The
\* runs check most properties under these conditions and, by itself, what goes
\* wrong without each of them.
Writing == {"seed", "record", "resolve", "object", "hold", "amend"}

\* An amendment is read and committed while nobody else is writing.
SerialAmendments ==
  \A p \in Request :
    /\ pc'[p] = "amend" => \A q \in Request \ {p} : pc'[q] \notin Writing
    /\ pc[p] = "amend" /\ pc'[p] = "amend" => UNCHANGED <<proposal, votes>>

\* createProposal's seed vote is on record before anybody else's.
SeedFirst ==
  \A p \in Request : pc[p] = "seed" => \A q \in Request \ {p} : pc'[q] \notin Writing

SerialSpec == Init /\ [][Next /\ SerialAmendments /\ SeedFirst]_vars
FairSerialSpec == SerialSpec /\ Fairness

\* Only the amendments kept apart.
CreationSpec == Init /\ [][Next /\ SerialAmendments]_vars

-----------------------------------------------------------------------------
\* Properties.

\* Every variable keeps its shape, the per-request ones included.
ProposalType == proposal \in ProposalRecord /\ cid \in Nat

RepoType ==
  /\ decisions \in Seq(DecisionRecord)
  /\ votes \subseteq VoteRecord /\ objections \subseteq ObjectionRecord
  /\ effects \in Seq(Effect) /\ tid \in Nat

WorldType ==
  /\ settings \in SettingsChoices /\ electorate \in SUBSET Voter
  /\ delegations \in SUBSET (Voter \X Voter) /\ now \in Nat
  /\ requests \in Nat /\ faults \in Nat

RequestType ==
  /\ lock \in Request \cup {NoOne}
  /\ pc \in [Request -> {"idle", "seed", "apply", "close", "enter", "record",
                         "resolve", "object", "hold", "amend"}]
  /\ kind \in [Request -> {"read", "vote", "object", "amend"}]
  /\ actor \in [Request -> Voter \cup {NoOne}]
  /\ choice \in [Request -> {"for", "against"}]
  /\ draft \in [Request -> Text \cup {NoText}]
  /\ seenAt \in [Request -> Nat]
  /\ snap \in [Request -> ProposalRecord] /\ snapCid \in [Request -> Nat]
  /\ casting \in [Request -> SUBSET Voter]

TypeOK == ProposalType /\ RepoType /\ WorldType /\ RequestType

\* A change reaches the community's data only with a decision that approved it
\* and is in the same repo: what applyIfDue and voteOnProposal commit together.
EffectIsApproved ==
  \A i \in DOMAIN effects :
    proposal.evidence =>
      /\ effects[i].decision \in DOMAIN decisions
      /\ decisions[effects[i].decision].outcome = "approved"

\* ...and, where no amendment overlaps a vote, one that decided that very text.
EffectIsDecided ==
  \A i \in DOMAIN effects :
    proposal.evidence => decisions[effects[i].decision].text = effects[i].text

\* The verdict of a decision can be recomputed from the decision alone: it cites
\* signed records that exist, no voter twice, and its outcome is what the rules
\* make of them at the quorum it states.  Cache, faults and overlapping requests
\* may only keep a proposal open (decideFromRecords), never decide it.
DecisionsAreEvidenced ==
  \A i \in DOMAIN decisions :
    LET d == decisions[i]
        for == Cardinality(Saying(d.votes, "for"))
        against == Cardinality(Saying(d.votes, "against"))
    IN  /\ d.votes \subseteq votes
        /\ \A r, s \in d.votes : r.voter = s.voter => r = s
        /\ d.outcome = IF d.override THEN decideOverride(for, d.quorum)
                                     ELSE decideOutcome(for, against, d.quorum)

\* Every vote a decision cites was cast on the text it decides: a crash between
\* a vote record and the proposal rewrite, a second attempt or an amendment must
\* not let a vote mean something else.
MandateIsForTheText ==
  \A i \in DOMAIN decisions :
    \A r \in decisions[i].votes : r.text = decisions[i].text

\* "Nothing sufficiently objected to applies": an application by the window
\* never has, and never comes to have, as many timely objections to its
\* decision as the threshold it was applied under.
HoldsBind ==
  \A i \in DOMAIN effects :
    effects[i].via = "window" =>
      Cardinality({o.objector : o \in {x \in objections :
                     /\ x.decision = effects[i].decision
                     /\ x.at < effects[i].applyAt}}) < effects[i].threshold

\* A carried override rests on votes of its own: enough of them for the frozen
\* bar, all cast in the round, none of them cited by the decision objected to.
OverrideNeedsFreshMandate ==
  proposal.overrideOutcome = "carried" =>
    LET d == decisions[proposal.decision]
    IN  /\ d.override
        /\ Cardinality({r.voter : r \in Saying(d.votes, "for")}) >= proposal.overrideQuorum
        /\ \A r \in d.votes : r.at >= proposal.overrideOpenedAt
        /\ \A j \in 1 .. proposal.decision - 1 : decisions[j].votes \cap d.votes = {}

\* What verifyDecision asks of a closed proposal: the decision it cites counts
\* exactly the vote records that are countable, so no handler may leave one
\* behind after the close.
EvidenceComplete ==
  /\ proposal.decision # 0
  /\ proposal.status \in {Pending, Objected, "approved", "rejected"}
  /\ proposal.overrideOutcome # "expired"
  => decisions[proposal.decision].votes = tallyFromVoteRecords(proposal, cid, votes)

\* A community whose voters, delegations and settings change meanwhile: an
\* objection stands until its round, a round carries on votes cast for it, and
\* what was decided can be shown from the exports.
CommunityHolds == HoldsBind /\ OverrideNeedsFreshMandate /\ EvidenceComplete

\* "If the two applied different rules a decision could be sound by one and
\* unsound by the other" (decision-rules.ts): every vote that the latest decision
\* cites is one the verifier, reading the proposal as it now stands, accepts.
DecisionStaysSound ==
  proposal.decision # 0 =>
    \A r \in decisions[proposal.decision].votes :
      countableVote(r, knownProposalCids(proposal, cid), tallyEpoch(proposal))

\* A closed proposal is never touched again.
FinalIsFinal == [][proposal.status \in Final => UNCHANGED <<proposal, effects>>]_vars

\* What the votes and windows come to, seen from outside.
stage ==
  CASE proposal.status \in Final  -> "closed"
    [] proposal.status = Pending  -> "waiting"
    [] proposal.status = Override -> "review"
    [] OTHER                      -> proposal.status

Lifecycle == INSTANCE ProposalLifecycle
  WITH text <- proposal.text, done <- [i \in DOMAIN effects |-> effects[i].text]

\* Requests that overlap, fail half-way and find the proposal changed under
\* them still keep the promise of ProposalLifecycle.
ImplementsLifecycle == Lifecycle!Spec

\* "Nothing unobjected-to fails to apply": a window that runs out (within the
\* bound on time) ends in the change, unless enough timely objections held it.
WindowsEnd ==
  (proposal.status = Pending /\ proposal.applyAt <= MaxTime) ~>
    \/ proposal.status = "approved" /\ (effects # <<>> \/ proposal.text \in Invalid)
    \/ proposal.status \in {Override, Objected} /\ proposal.objectors # {}

\* A round of review that runs out is closed, whether or not anyone voted in it.
RoundsEnd ==
  (proposal.status = Override /\ proposal.overrideExpiresAt <= MaxTime)
    ~> proposal.status \in Final
=============================================================================

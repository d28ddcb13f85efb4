---------------------------- MODULE Eligibility ----------------------------
(***************************************************************************)
(* Who may vote, asked four times: when a vote comes in (the guard), when  *)
(* it is put on record (the evidence it cites), when an override round     *)
(* opens (how many could vote) and long after, by whoever checks a         *)
(* decision against the community's repository.  A member record names a   *)
(* role record, or only a role by name; both change meanwhile.             *)
(*                                                                         *)
(* Of a role record only its name and community.governance.write count.    *)
(* Content addresses are contents: a record put back as it was is cited    *)
(* truly again.  The proposal, its tally, the repositories of the voters   *)
(* and requests that die are in Proposal; joining, and roles being made,   *)
(* in Communities.                                                         *)
(***************************************************************************)
EXTENDS Requests

CONSTANTS
  Elector,   \* members and others, the owner apart
  Founder,   \* the owner
  Staff      \* those of them who administer the server

VARIABLES
  memberRecords,   \* by member: role by name, and key of the role record (0: none)
  memberRows,      \* who has a row in members_unique
  offices,         \* role records by their keys
  lent,            \* delegations: who votes for whom
  ballots,         \* vote records: the evidence each cites
  wavered          \* history: whose standing changed between the guard and the evidence

eligibilityTables == <<memberRecords, memberRows, offices, lent, ballots>>

Voters == Elector \cup {Founder}
Privileged == Staff \cup {Founder}
Office == 1..2
OfficeName == {"owner", "moderator", "guest"}
Nobody == "nobody"
NoSeat == [role |-> "absent", office |-> 0]
NoOffice == [name |-> "none", writes |-> FALSE]
Unvoted == [member |-> NoSeat, office |-> NoOffice, name |-> "none", granted |-> FALSE,
            unresolved |-> TRUE, cast |-> "no"]

\* LEGACY_ROLE_PERMISSIONS: the names that carry governance.write.
LegacyWrites == {"owner", "moderator"}
ByName(seat) == IF seat.role = "none" THEN "member" ELSE seat.role

RoleOf(seat) == IF seat.office = 0 THEN NoOffice ELSE offices[seat.office]

\* The owner has a role record; members have one, a role by name, or have left.
EligibilityInit ==
  /\ RequestsInit
  /\ offices = <<[name |-> "owner", writes |-> TRUE], [name |-> "moderator", writes |-> TRUE]>>
  /\ memberRecords \in
       {f \in [Voters -> {NoSeat} \cup [role : {"member", "moderator"}, office : {0}]
                                 \cup [role : {"none"}, office : Office]] :
          \A v \in Voters : (v = Founder) <=> (f[v].office = 1)}
  /\ memberRows = {v \in Voters : memberRecords[v] # NoSeat}
  /\ lent = [v \in Voters |-> Nobody]
  /\ ballots = [v \in Voters |-> Unvoted] /\ wavered = {}

-----------------------------------------------------------------------------
\* getCallerCommunityCapabilities: the owner and the server's administrators
\* may do everything, members or not; a member answers to the role record
\* they name, and to nothing else.
MayVote(v) ==
  \/ v \in Privileged
  \/ /\ v \in memberRows
     /\ IF memberRecords[v].office # 0 THEN offices[memberRecords[v].office].writes
        ELSE memberRecords[v] # NoSeat /\ ByName(memberRecords[v]) \in LegacyWrites

\* countEligibleVoters: by the records, whoever they belong to.
Electorate ==
  {v \in Voters : /\ memberRecords[v] # NoSeat
                  /\ IF memberRecords[v].office # 0 THEN offices[memberRecords[v].office].writes
                     ELSE ByName(memberRecords[v]) \in LegacyWrites}

-----------------------------------------------------------------------------
(* Members and roles change. *)

\* Whose evidence a request under way has yet to collect.
Voting ==
  UNION {mem[s].left \cup {mem[s].now} : s \in {t \in Slot : Steps(t) \cap {"lock", "cite"} # {}}}
Standing(v) == <<memberRecords[v], v \in memberRows, RoleOf(memberRecords[v])>>
Wavering == wavered' = wavered \cup {v \in Voting : Standing(v)' # Standing(v)}

\* What updateMember may ask: another role, by its record or by name, or none.
Seated(seat, office, role) ==
  CASE role = "moderator"   -> [role |-> role, office |-> office]
    [] office # 0           -> [role |-> "none", office |-> office]
    [] role = "noName"     -> [seat EXCEPT !.role = "none"]
    [] OTHER                -> [seat EXCEPT !.office = 0]

Reseat(s, v, office, role) ==
  /\ v \in memberRows /\ office # 0 => offices[office] # NoOffice
  /\ Begin(s, <<"seat">>, [what |-> "reseat", of |-> v, office |-> office, role |-> role])
  /\ UNCHANGED <<eligibilityTables, wavered>>

\* The record is read again and written back with what was asked changed.
Seat(s) ==
  /\ At(s, "seat") /\ Pass(s)
  /\ memberRecords' = [memberRecords EXCEPT ![mem[s].of] =
                         IF @ = NoSeat THEN @ ELSE Seated(@, mem[s].office, mem[s].role)]
  /\ UNCHANGED <<memberRows, offices, lent, ballots>> /\ Wavering

\* leave and removeMember: the record first, then the row.
Unseat(s, v) ==
  /\ v \in memberRows
  /\ Begin(s, <<"unrowSeat">>, [what |-> "unseat", of |-> v])
  /\ memberRecords' = [memberRecords EXCEPT ![v] = NoSeat]
  /\ UNCHANGED <<memberRows, offices, lent, ballots>> /\ Wavering

Unrow(s) ==
  /\ At(s, "unrowSeat") /\ Pass(s)
  /\ memberRows' = memberRows \ {mem[s].of}
  /\ UNCHANGED <<memberRecords, offices, lent, ballots>> /\ Wavering

\* updateRole writes the record it read, with what was asked changed.  The
\* owner's role must keep some permissions; governance.write is not among them.
UpdateOffice(s, k) ==
  /\ offices[k] # NoOffice
  /\ \E name \in {offices[k].name, "guest"}, writes \in BOOLEAN :
       /\ \A j \in Office \ {k} : offices[j].name # name
       /\ Begin(s, <<"office">>, [what |-> "role", key |-> k,
                                  to |-> [name |-> name, writes |-> writes]])
  /\ UNCHANGED <<eligibilityTables, wavered>>

\* deleteRole, once no member record names it.
DeleteOffice(s, k) ==
  /\ offices[k] # NoOffice /\ \A v \in Voters : memberRecords[v].office # k
  /\ Begin(s, <<"office">>, [what |-> "role", key |-> k, to |-> NoOffice])
  /\ UNCHANGED <<eligibilityTables, wavered>>

\* A role that is gone by now is not deleted again.
PutOffice(s) ==
  /\ At(s, "office") /\ Pass(s)
  /\ offices' = [offices EXCEPT ![mem[s].key] = mem[s].to]
  /\ UNCHANGED <<memberRecords, memberRows, lent, ballots>> /\ Wavering

Lend(s, v, to) ==
  /\ MayVote(v) /\ to # v /\ to \in memberRows
  /\ AtOnce(s)
  /\ lent' = [lent EXCEPT ![v] = to]
  /\ UNCHANGED <<memberRecords, memberRows, offices, ballots, wavered>>

-----------------------------------------------------------------------------
(* A vote. *)

Vote(s, v) ==
  /\ MayVote(v)
  /\ Begin(s, <<"lock">>, [what |-> "vote", by |-> v, now |-> v, left |-> {}, seat |-> NoSeat])
  /\ UNCHANGED <<eligibilityTables, wavered>>

\* Under the proposal's lock: nobody votes twice, and whoever lent their vote
\* to this one and has not voted is counted with them, entitled or not.
Tally(s) ==
  /\ At(s, "lock") /\ \A t \in Slot : ~Pending(t, "cite")
  /\ LET v == mem[s].by IN
       IF ballots[v].cast # "no" THEN Answer(s)
       ELSE Turn(s, <<"cite">>,
                 [mem[s] EXCEPT !.left = {p \in Voters : lent[p] = v /\ ballots[p].cast = "no"}])
  /\ UNCHANGED <<eligibilityTables, wavered>>

\* writeVoteRecord, of the voter first and then of those who lent their vote.
PutBallot(s, evidence) ==
  /\ ballots' = [ballots EXCEPT ![mem[s].now] =
                    [evidence EXCEPT !.cast = IF mem[s].now = mem[s].by THEN "own" ELSE "lent"]]
  /\ IF mem[s].left = {} THEN Answer(s)
     ELSE \E p \in mem[s].left :
            Turn(s, <<"cite">>, [mem[s] EXCEPT !.now = p, !.left = @ \ {p}, !.seat = NoSeat])

\* collectEligibilityEvidence: the member record by its row; a role by name
\* is settled at once, from the table.
CiteMember(s) ==
  /\ At(s, "cite")
  /\ LET seat == IF mem[s].now \in memberRows THEN memberRecords[mem[s].now] ELSE NoSeat
         says == ByName(seat)
     IN  IF seat.office # 0
         THEN /\ Turn(s, <<"citeRole", "cite">>, [mem[s] EXCEPT !.seat = seat])
              /\ ballots' = ballots
         ELSE PutBallot(s, [Unvoted EXCEPT !.member = seat, !.name = says,
                                           !.granted = says \in LegacyWrites,
                                           !.unresolved = seat = NoSeat])
  /\ UNCHANGED <<memberRecords, memberRows, offices, lent, wavered>>

CiteRole(s) ==
  /\ At(s, "citeRole")
  /\ LET office == offices[mem[s].seat.office] IN
       PutBallot(s, [Unvoted EXCEPT !.member = mem[s].seat, !.office = office, !.name = office.name,
                                    !.granted = office.writes,
                                    !.unresolved = office = NoOffice])
  /\ UNCHANGED <<memberRecords, memberRows, offices, lent, wavered>>

-----------------------------------------------------------------------------
\* checkMembershipEvidence, against the community's repository as it is now.
MembershipVerdict(v) ==
  LET vote == ballots[v]
      seat == vote.member
      judged(holds) == IF holds THEN "ok" ELSE "ineligible"
  IN  CASE vote.unresolved                       -> "unverifiable"
        [] ~vote.granted                         -> "ineligible"
        [] seat # memberRecords[v]               -> "unverifiable"
        [] seat.office = 0                       -> judged(vote.name = ByName(seat)
                                                           /\ vote.name \in LegacyWrites)
        [] offices[seat.office] # vote.office    -> "unverifiable"
        [] OTHER                                 -> judged(vote.office.name = vote.name
                                                           /\ vote.office.writes)

EligibilityStep(s) ==
  \/ \E v \in Voters : Vote(s, v)
  \/ \E v \in Elector :
       \/ Unseat(s, v)
       \/ \E k \in Office, role \in {"moderator", "byRecord"} : Reseat(s, v, k, role)
       \/ \E role \in {"moderator", "noName", "noRecord"} : Reseat(s, v, 0, role)
  \/ \E v, to \in Voters : Lend(s, v, to)
  \/ \E k \in Office : UpdateOffice(s, k) \/ DeleteOffice(s, k)
  \/ Seat(s) \/ Unrow(s) \/ PutOffice(s) \/ Tally(s) \/ CiteMember(s) \/ CiteRole(s)

EligibilityNext == \E s \in Slot : EligibilityStep(s)

-----------------------------------------------------------------------------
EligibilityTypeOK ==
  /\ memberRecords \in [Voters -> [role : {"absent", "member", "moderator", "none"}, office : 0..2]]
  /\ memberRows \subseteq Voters /\ wavered \subseteq Voters
  /\ offices \in [Office -> [name : OfficeName \cup {"none"}, writes : BOOLEAN]]
  /\ lent \in [Voters -> Voters \cup {Nobody}]
  /\ \A v \in Voters : ballots[v].cast \in {"no", "own", "lent"}

\* Nobody whom the guard let vote is called ineligible afterwards by what they
\* signed: the evidence says of them what the guard said.  Not so of whoever
\* lost their standing between the two, of a vote that was lent, and of the
\* owner and administrators, who may vote whatever their role says.
VotersAreNotAccused ==
  \A v \in Voters : MembershipVerdict(v) = "ineligible" =>
    v \in Privileged \/ v \in wavered \/ ballots[v].cast = "lent"

\* What the verifier passes is what the guard would let pass, and evidence
\* that says its voter may vote fades at worst: to what cannot be checked,
\* never to an accusation, whatever becomes of members and roles.
EvidenceFadesAtWorst ==
  \A v \in Voters :
    /\ MembershipVerdict(v) = "ok" /\ v \in memberRows => MayVote(v)
    /\ ballots[v].granted /\ ~ballots[v].unresolved => MembershipVerdict(v) # "ineligible"

\* The electorate an override round asks for is made of those the guard would
\* let vote in it; only those who may do everything are let uncounted.
ElectorateMayVote ==
  LET members == memberRows \ Privileged IN
  Electorate \cap members = {v \in members : MayVote(v)}

EligibilityHolds == VotersAreNotAccused /\ EvidenceFadesAtWorst /\ ElectorateMayVote
=============================================================================

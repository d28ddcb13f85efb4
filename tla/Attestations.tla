--------------------------- MODULE Attestations ---------------------------
(***************************************************************************)
(* The attestations of a community, public and private, and how a private  *)
(* one is disclosed: its claim is encrypted in the repository, the wrapped *)
(* keys are a row of attestation_encryption, and whoever is neither owner, *)
(* administrator nor subject reads it through a viewing grant or a policy  *)
(* that lets the members of a community in.  Record, keys, index row and   *)
(* grants are written in separate commits.                                 *)
(*                                                                         *)
(* One viewer stands for all of them.  Claims, commitments, watermarks and *)
(* session keys are left out, and so are the owner's and the subject's own *)
(* readings, which nothing restricts.                                      *)
(***************************************************************************)
EXTENDS Requests

CONSTANTS
  Attestation,  \* record keys; a key is never used twice
  MaxGrants     \* bound: viewing grants ever made

VARIABLES
  records,   \* attestation -> its record, and what the policy says
  wrapped,   \* attestations with a row of attestation_encryption
  listed,    \* attestations with a row of community_attestation_index
  viewing,   \* grants: about which attestation, status, lapsed; by number
  belongs,   \* the viewer is a member of the community policies name
  sessionsOf,\* disclosure sessions inserted, by grant
  logged,    \* redemptions in the disclosure log, by grant
  answered,  \* history: redemptions answered, by grant
  wrongly,   \* history: a claim was shown that had been closed before it was asked for
  torn       \* history: attestations written by two requests at once, or left half done

attestTables == <<records, wrapped, listed, viewing, belongs, sessionsOf, logged>>
attestPast == <<answered, wrongly, torn>>

AttestationsInit ==
  /\ RequestsInit
  /\ records = [a \in Attestation |-> [kind |-> "none", open |-> FALSE]]
  /\ wrapped = {} /\ listed = {} /\ torn = {}
  /\ viewing = <<>> /\ sessionsOf = <<>> /\ logged = <<>> /\ answered = <<>>
  /\ belongs \in BOOLEAN /\ wrongly = FALSE

Kept(a) == records[a].kind \in {"public", "private"}
Valid(g) == viewing[g].status = "active" /\ ~viewing[g].lapsed
GrantsFor(a) == {g \in DOMAIN viewing : viewing[g].about = a}
ByPolicy(a) == records[a].open /\ belongs
Right(a) == records[a].kind = "private" /\ (ByPolicy(a) \/ \E g \in GrantsFor(a) : Valid(g))

Dossier(a) == [what |-> "attestation", about |-> a, kind |-> "none", open |-> FALSE,
               grant |-> 0, right |-> Right(a), made |-> Len(viewing)]
Topic(s) == mem[s].about
Writing(s) == Steps(s) \cap {"put attestation", "keys", "list", "delete attestation", "revoke all",
                             "unwrap", "unlist", "subject", "grant"} # {}
Tearing(s) ==
  torn' = IF \E t \in Slot \ {s} : Writing(t) /\ Topic(t) = Topic(s)
            THEN torn \cup {Topic(s)} ELSE torn

-----------------------------------------------------------------------------
(* Issuing. *)

IssueAttestation(s, a, kind, open) ==
  /\ records[a].kind = "none"
  /\ \A t \in Slot : todo[t] # <<>> => Topic(t) # a
  /\ Begin(s, IF kind = "private" THEN <<"put attestation", "keys", "list">>
              ELSE <<"put attestation", "list">>,
           [Dossier(a) EXCEPT !.kind = kind, !.open = open])
  /\ UNCHANGED <<attestTables, attestPast>>

PutAttestation(s) ==
  /\ At(s, "put attestation") /\ Pass(s)
  /\ records' = [records EXCEPT ![Topic(s)] = [kind |-> mem[s].kind, open |-> mem[s].open]]
  /\ UNCHANGED <<wrapped, listed, viewing, belongs, sessionsOf, logged, attestPast>>

StoreKeys(s) ==
  /\ At(s, "keys") /\ Pass(s) /\ Tearing(s)
  /\ wrapped' = wrapped \cup {Topic(s)}
  /\ UNCHANGED <<records, listed, viewing, belongs, sessionsOf, logged, answered, wrongly>>

ListAttestation(s) ==
  /\ At(s, "list") /\ Pass(s) /\ Tearing(s)
  /\ listed' = listed \cup {Topic(s)}
  /\ UNCHANGED <<records, wrapped, viewing, belongs, sessionsOf, logged, answered, wrongly>>

-----------------------------------------------------------------------------
(* Deleting: the record first, then what hangs on it. *)

\* A slip the runs must notice: the keys stay.
DeleteKeepingKeys(s, a) ==
  /\ Kept(a)
  /\ Begin(s, <<"delete attestation", "revoke all", "unlist">>, Dossier(a))
  /\ UNCHANGED <<attestTables, attestPast>>

DeleteAttestation(s, a) ==
  /\ Kept(a)
  /\ Begin(s, <<"delete attestation", "revoke all", "unwrap", "unlist">>, Dossier(a))
  /\ UNCHANGED <<attestTables, attestPast>>

\* The repository refuses to delete what is not there.
DropAttestation(s) ==
  /\ At(s, "delete attestation")
  /\ IF Kept(Topic(s)) THEN Pass(s) /\ Tearing(s) ELSE Answer(s) /\ UNCHANGED torn
  /\ records' = [records EXCEPT ![Topic(s)].kind = IF Kept(Topic(s)) THEN "deleted" ELSE @]
  /\ UNCHANGED <<wrapped, listed, viewing, belongs, sessionsOf, logged, answered, wrongly>>

RevokeGrants(s) ==
  /\ At(s, "revoke all") /\ Pass(s) /\ Tearing(s)
  /\ viewing' = [g \in DOMAIN viewing |->
                   IF viewing[g].about = Topic(s) THEN [viewing[g] EXCEPT !.status = "revoked"]
                   ELSE viewing[g]]
  /\ UNCHANGED <<records, wrapped, listed, belongs, sessionsOf, logged, answered, wrongly>>

DropKeys(s) ==
  /\ At(s, "unwrap") /\ Pass(s) /\ Tearing(s)
  /\ wrapped' = wrapped \ {Topic(s)}
  /\ UNCHANGED <<records, listed, viewing, belongs, sessionsOf, logged, answered, wrongly>>

Unlist(s) ==
  /\ At(s, "unlist") /\ Pass(s) /\ Tearing(s)
  /\ listed' = listed \ {Topic(s)}
  /\ UNCHANGED <<records, wrapped, viewing, belongs, sessionsOf, logged, answered, wrongly>>

-----------------------------------------------------------------------------
(* Viewing grants: made and revoked by the subject, redeemed by the viewer. *)

CreateViewingGrant(s, a) ==
  /\ a \in wrapped
  /\ Begin(s, <<"subject", "grant">>, Dossier(a))
  /\ UNCHANGED <<attestTables, attestPast>>

ReadSubject(s) ==
  /\ At(s, "subject")
  /\ IF Kept(Topic(s)) THEN Pass(s) ELSE Answer(s)
  /\ UNCHANGED <<attestTables, attestPast>>

InsertGrant(s) ==
  /\ At(s, "grant") /\ Len(viewing) < MaxGrants
  /\ Pass(s) /\ Tearing(s)
  /\ viewing' = Append(viewing, [about |-> Topic(s), status |-> "active", lapsed |-> FALSE])
  /\ sessionsOf' = Append(sessionsOf, 0) /\ logged' = Append(logged, 0)
  /\ answered' = Append(answered, 0)
  /\ UNCHANGED <<records, wrapped, listed, belongs, wrongly>>

RevokeGrant(s, g) ==
  /\ viewing[g].status = "active"
  /\ Begin(s, <<"revoked">>, [Dossier(viewing[g].about) EXCEPT !.grant = g])
  /\ UNCHANGED <<attestTables, attestPast>>

WriteGrantRevoked(s) ==
  /\ At(s, "revoked") /\ Pass(s)
  /\ viewing' = [viewing EXCEPT ![mem[s].grant].status = "revoked"]
  /\ UNCHANGED <<records, wrapped, listed, belongs, sessionsOf, logged, attestPast>>

GrantLapses(g) ==
  /\ ~viewing[g].lapsed
  /\ viewing' = [viewing EXCEPT ![g].lapsed = TRUE]
  /\ UNCHANGED <<requests, records, wrapped, listed, belongs, sessionsOf, logged, attestPast>>

RedeemGrant(s, g) ==
  /\ Valid(g)
  /\ Begin(s, <<"wrapped", "claim", "session", "log">>,
           [Dossier(viewing[g].about) EXCEPT !.grant = g])
  /\ UNCHANGED <<attestTables, attestPast>>

ReadKeys(s) ==
  /\ At(s, "wrapped")
  /\ IF Topic(s) \in wrapped THEN Pass(s) ELSE Answer(s)
  /\ UNCHANGED <<attestTables, attestPast>>

ReadClaim(s) ==
  /\ At(s, "claim")
  /\ IF Kept(Topic(s)) THEN Pass(s) ELSE Answer(s)
  /\ UNCHANGED <<attestTables, attestPast>>

InsertSessionOf(s) ==
  /\ At(s, "session") /\ Pass(s)
  /\ sessionsOf' = [sessionsOf EXCEPT ![mem[s].grant] = @ + 1]
  /\ UNCHANGED <<records, wrapped, listed, viewing, belongs, logged, attestPast>>

\* What has happened since the viewer asked may have given them the right.
ShownWrongly(s) ==
  ~(mem[s].right \/ Len(viewing) > mem[s].made \/ ByPolicy(Topic(s)))

\* The log is written and the viewer answered.
LogRedemption(s) ==
  /\ At(s, "log") /\ Pass(s)
  /\ logged' = [logged EXCEPT ![mem[s].grant] = @ + 1]
  /\ answered' = [answered EXCEPT ![mem[s].grant] = @ + 1]
  /\ wrongly' = (wrongly \/ ShownWrongly(s))
  /\ UNCHANGED <<records, wrapped, listed, viewing, belongs, sessionsOf, torn>>

\* requestDisclosure: keys, record, policy, then any grant of this viewer's.
RequestDisclosure(s, a) ==
  /\ a \in wrapped
  /\ Begin(s, <<"record", "authorize">>, Dossier(a))
  /\ UNCHANGED <<attestTables, attestPast>>

ReadAttestation(s) ==
  /\ At(s, "record")
  /\ IF Kept(Topic(s)) THEN Pass(s) ELSE Answer(s)
  /\ UNCHANGED <<attestTables, attestPast>>

Authorize(s) ==
  /\ At(s, "authorize") /\ Pass(s)
  /\ wrongly' = (wrongly \/ (ShownWrongly(s)
                  /\ (ByPolicy(Topic(s)) \/ \E g \in GrantsFor(Topic(s)) : Valid(g))))
  /\ UNCHANGED <<attestTables, answered, torn>>

ViewerMoves ==
  /\ belongs' = ~belongs
  /\ UNCHANGED <<requests, records, wrapped, listed, viewing, sessionsOf, logged, attestPast>>

AttestationFails(s) ==
  /\ todo[s] # <<>> /\ Answer(s)
  /\ torn' = IF Writing(s) THEN torn \cup {Topic(s)} ELSE torn
  /\ UNCHANGED <<attestTables, answered, wrongly>>

AttestationsNext ==
  \/ \E s \in Slot, a \in Attestation :
       \/ \E open \in BOOLEAN : IssueAttestation(s, a, "private", open)
       \/ IssueAttestation(s, a, "public", FALSE)
       \/ DeleteAttestation(s, a) \/ CreateViewingGrant(s, a) \/ RequestDisclosure(s, a)
  \/ \E s \in Slot, g \in DOMAIN viewing : RevokeGrant(s, g) \/ RedeemGrant(s, g)
  \/ \E s \in Slot :
       \/ PutAttestation(s) \/ StoreKeys(s) \/ ListAttestation(s) \/ DropAttestation(s)
       \/ RevokeGrants(s) \/ DropKeys(s) \/ Unlist(s) \/ ReadSubject(s) \/ InsertGrant(s)
       \/ WriteGrantRevoked(s) \/ ReadKeys(s) \/ ReadClaim(s) \/ InsertSessionOf(s)
       \/ LogRedemption(s) \/ ReadAttestation(s) \/ Authorize(s) \/ AttestationFails(s)
  \/ \E g \in DOMAIN viewing : GrantLapses(g)
  \/ ViewerMoves

-----------------------------------------------------------------------------
AttestationsTypeOK ==
  /\ records \in [Attestation -> [kind: {"none", "public", "private", "deleted"}, open: BOOLEAN]]
  /\ wrapped \subseteq Attestation /\ listed \subseteq Attestation /\ torn \subseteq Attestation
  /\ viewing \in Seq([about: Attestation, status: {"active", "revoked"}, lapsed: BOOLEAN])
  /\ \A list \in {sessionsOf, logged, answered} : list \in Seq(Nat) /\ Len(list) = Len(viewing)
  /\ belongs \in BOOLEAN /\ wrongly \in BOOLEAN

\* A private claim is shown through a grant only if the viewer had a right to
\* it when they asked, or got one since: not after the grants were revoked, by
\* the subject or with the attestation.  No redemption that was answered is
\* missing from the disclosure log.
ClosedStaysClosed ==
  /\ ~wrongly
  /\ \A g \in DOMAIN viewing : answered[g] <= logged[g] /\ logged[g] <= sessionsOf[g]

\* When nothing is under way, an attestation has its keys and its index row if
\* and only if it is there, and grants stand only for those that are, unless
\* two requests wrote it at once or one died halfway.
AttestationsAreWhole ==
  Quiet => \A a \in Attestation \ torn :
    /\ a \in wrapped <=> records[a].kind = "private"
    /\ a \in listed <=> Kept(a)
    /\ ~Kept(a) => \A g \in GrantsFor(a) : viewing[g].status = "revoked"

\* Both above: what is closed is shown to nobody, and what is gone leaves
\* nothing that would open it.
AttestationsHold == ClosedStaysClosed /\ AttestationsAreWhole

attestationsVars == <<requests, attestTables, attestPast>>
AttestationsSpec == AttestationsInit /\ [][AttestationsNext]_attestationsVars
=============================================================================

---------------------------- MODULE KeepingProofs ----------------------------
(***************************************************************************)
(* Proofs about what the server keeps for people and communities: who may  *)
(* see what (Access), the rules a community lives by (Settings), wallets   *)
(* and the consents to sign with them (Wallets), the keys others verify    *)
(* with (PublishedKeys), and attestations, which are disclosed and closed  *)
(* again (Attestations).  For any number of requests at a time, and of     *)
(* them ever made.                                                         *)
(***************************************************************************)
EXTENDS Access, Settings, Wallets, PublishedKeys, Attestations, RequestsProofs, FiniteSetTheorems

-----------------------------------------------------------------------------
(* Access.                                                                 *)

\* What the database may say of a caller.
CallerRecord ==
  [known : BOOLEAN, admin : BOOLEAN, owner : BOOLEAN, status : {"approved", "deactivated"},
   verified : BOOLEAN, row : BOOLEAN, record : {"none", "member", "moderator", "owner", "role"},
   holds : SUBSET Permissions, asked : {"none", "pending"}]

\* Whoever is being answered was entitled to the answer when they asked.
AccessSound ==
  /\ Requested({"fetch"}) /\ community \in Communities /\ caller \in CallerRecord
  /\ exposed = FALSE
  /\ \A s \in Slot : todo[s] # <<>> => mem[s].entitled = TRUE

LEMMA CallersTyped ==
  /\ Visitor \in CallerRecord /\ Member \in CallerRecord /\ Callers \subseteq CallerRecord
  /\ \A c \in CallerRecord : [c EXCEPT !.holds = {}] \in CallerRecord
  /\ \A c \in CallerRecord : [c EXCEPT !.status = "deactivated"] \in CallerRecord
  /\ [Member EXCEPT !.record = "role", !.holds = {"forum", "moderate"}] \in CallerRecord
<1>1. Visitor \in CallerRecord /\ Member \in CallerRecord
  BY DEF Visitor, Member, CallerRecord, Permissions
<1>2. /\ \A c \in CallerRecord : [c EXCEPT !.holds = {}] \in CallerRecord
      /\ \A c \in CallerRecord : [c EXCEPT !.status = "deactivated"] \in CallerRecord
      /\ \A c \in CallerRecord, h \in SUBSET Permissions : [c EXCEPT !.record = "role", !.holds = h] \in CallerRecord
      /\ \A c \in CallerRecord : [c EXCEPT !.known = FALSE] \in CallerRecord
      /\ \A c \in CallerRecord : [c EXCEPT !.asked = "pending"] \in CallerRecord
      /\ \A c \in CallerRecord : [c EXCEPT !.admin = TRUE] \in CallerRecord
      /\ \A c \in CallerRecord : [c EXCEPT !.owner = TRUE] \in CallerRecord
      /\ \A c \in CallerRecord, r \in {"none", "member", "moderator", "owner"} : [c EXCEPT !.record = r] \in CallerRecord
      /\ \A c \in CallerRecord : [c EXCEPT !.owner = TRUE, !.record = "owner"] \in CallerRecord
      /\ \A c \in CallerRecord : [c EXCEPT !.record = "moderator", !.verified = FALSE] \in CallerRecord
      /\ \A c \in CallerRecord : [c EXCEPT !.owner = TRUE, !.record = "owner", !.status = "deactivated"] \in CallerRecord
  BY DEF CallerRecord
<1>3. {"forum", "moderate"} \in SUBSET Permissions /\ {"forum", "calendar"} \in SUBSET Permissions
  BY DEF Permissions
<1>4. Callers \subseteq CallerRecord
  <2> DEFINE C(c) == c \in CallerRecord
  <2>1. /\ C([Visitor EXCEPT !.known = FALSE]) /\ C(Visitor) /\ C(Member)
        /\ C([Visitor EXCEPT !.asked = "pending"]) /\ C([Visitor EXCEPT !.admin = TRUE])
        /\ C([Visitor EXCEPT !.owner = TRUE]) /\ C([Visitor EXCEPT !.record = "member"])
    BY <1>1, <1>2
  <2>2. /\ C([Member EXCEPT !.owner = TRUE, !.record = "owner"]) /\ C([Member EXCEPT !.record = "moderator"])
        /\ C([Member EXCEPT !.record = "role", !.holds = {"forum", "calendar"}])
        /\ C([Member EXCEPT !.record = "moderator", !.verified = FALSE])
        /\ C([Member EXCEPT !.owner = TRUE, !.record = "owner", !.status = "deactivated"])
        /\ C([Member EXCEPT !.record = "none"])
    BY <1>1, <1>2, <1>3
  <2> HIDE DEF C
  <2> SUFFICES ASSUME NEW c \in Callers PROVE C(c)
    BY DEF C
  <2> QED
    BY <2>1, <2>2, Zenon DEF Callers
<1> QED
  BY <1>1, <1>2, <1>3, <1>4

\* Whatever an endpoint answers, the one it answers is entitled to.
LEMMA AnswersAreForTheEntitled ==
  ASSUME community \in Communities, caller \in CallerRecord, NEW e \in Endpoints, Answers(e)
  PROVE  Entitled
<1>1. /\ caller.asked # "member"
      /\ caller.known \in BOOLEAN /\ caller.admin \in BOOLEAN /\ caller.owner \in BOOLEAN /\ caller.row \in BOOLEAN
  BY DEF CallerRecord
<1>2. CanViewPrivateCommunity => caller.known /\ (caller.admin \/ caller.owner \/ caller.row)
  BY <1>1 DEF CanViewPrivateCommunity, Admin, Owns, Membership
<1>3. CASE e \in {"getRecord", "listRecords", "describeRepo", "getRepo", "listBlobs"}
  BY <1>2, <1>3 DEF Answers, GetRecord, ListRecords, DescribeRepo, SyncGetRepo, ListBlobs, RequireRepoReadable, Entitled
<1>4. CASE e \in {"listRoles", "getProposal", "listProposals", "listAttestations", "verifyMembership", "listMembers"}
  BY <1>2, <1>4 DEF Answers, ListRoles, GetProposal, ListProposals, ListAttestations, VerifyMembership,
                    ListMembers, RequireCommunityReadable, Entitled
<1>5. CASE e \in {"listJoinRequests", "listMine", "get", "listAll"}
  BY <1>1, <1>5 DEF Answers, ListJoinRequests, ListMyCommunities, GetCommunity, ListAllCommunities,
                    RequireAuth, Owns, Admin, Entitled
<1>6. CASE e \in {"actor", "webfinger"}
  BY <1>6 DEF Answers, Actor, Webfinger, FederationView, Entitled
<1> QED
  BY <1>3, <1>4, <1>5, <1>6 DEF Endpoints

LEMMA NextAccessSound == AccessSound /\ [AccessNext]_accessVars => AccessSound'
<1> SUFFICES ASSUME AccessSound, [AccessNext]_accessVars PROVE AccessSound'
  OBVIOUS
<1>1. CASE UNCHANGED accessVars
  BY <1>1 DEF AccessSound, accessVars, accessTables, requests, Requested
<1>2. ASSUME NEW s \in Slot, NEW e \in Endpoints, Ask(s, e) PROVE AccessSound'
  <2> DEFINE m == [what |-> "ask", entitled |-> Entitled]
  <2>1. Entitled
    BY <1>2, AnswersAreForTheEntitled DEF AccessSound, Ask
  <2>2. <<"fetch">> \in Seq({"fetch"}) /\ <<"fetch">> # <<>>
    BY ShortSeqs, ShortHeads
  <2>3. /\ Requested({"fetch"})' /\ OthersWait(s) /\ mem'[s] = m
    BY <1>2, <2>2, BeginMoves DEF AccessSound, Ask
  <2>4. m.entitled = TRUE
    BY <2>1 DEF Entitled
  <2> HIDE DEF m
  <2> QED
    BY <1>2, <2>3, <2>4 DEF AccessSound, Ask, accessTables, OthersWait
<1>3. ASSUME NEW s \in Slot, Fetch(s) PROVE AccessSound'
  <2>1. mem[s].entitled = TRUE /\ At(s, "fetch") /\ todo[s] # <<>>
    BY <1>3 DEF AccessSound, Fetch, At
  <2>2. Requested({"fetch"})' /\ OthersWait(s) /\ todo'[s] = Tail(todo[s])
    BY <1>3, <2>1, PassMoves DEF AccessSound, Fetch, Follows
  <2>3. mem'[s] = IF Tail(todo[s]) = <<>> THEN Nothing ELSE mem[s]
    BY <1>3 DEF Fetch, Pass, Turn, AccessSound, Requested
  <2> QED
    BY <1>3, <2>1, <2>2, <2>3 DEF AccessSound, Fetch, accessTables, OthersWait
<1>4. ASSUME NEW s \in Slot, SettingsChange(s) \/ StatusChange(s) \/ StandingChange(s) PROVE AccessSound'
  <2>1. Requested({"fetch"})' /\ OthersWait(s) /\ todo'[s] = <<>>
    BY <1>4, AtOnceMoves DEF AccessSound, SettingsChange, StatusChange, StandingChange
  <2>2. community' \in Communities /\ caller' \in CallerRecord /\ exposed' = FALSE
    BY <1>4, CallersTyped DEF AccessSound, SettingsChange, StatusChange, StandingChange, Communities
  <2> QED
    BY <2>1, <2>2 DEF AccessSound, OthersWait
<1> QED
  BY <1>1, <1>2, <1>3, <1>4 DEF AccessNext

LEMMA InitAccessSound == RequestsInit /\ AccessInit => AccessSound
<1> SUFFICES ASSUME RequestsInit, AccessInit PROVE AccessSound
  OBVIOUS
<1>1. Requested({"fetch"}) /\ \A s \in Slot : todo[s] = <<>>
  BY InitRequested
<1>2. caller \in CallerRecord /\ community \in Communities /\ exposed = FALSE
  BY CallersTyped DEF AccessInit
<1> QED
  BY <1>1, <1>2 DEF AccessSound

\* The reading is one, and so are the answers that follow from it.
LEMMA EndpointsAgree ==
  ASSUME AccessSound
  PROVE  AccessAgrees
<1>1. /\ caller.asked # "member"
      /\ caller.known \in BOOLEAN /\ caller.admin \in BOOLEAN /\ caller.owner \in BOOLEAN
      /\ caller.row \in BOOLEAN /\ caller.verified \in BOOLEAN
      /\ caller.record \in {"none", "member", "moderator", "owner", "role"}
  BY DEF AccessSound, CallerRecord
<1>2. /\ community.visibility \in {"public", "private"}
      /\ community.status \in {"absent", "active", "suspended", "takendown", "moved", "importing"}
  BY DEF AccessSound, Communities
<1>3. Membership = "member" <=> caller.known /\ caller.row
  BY <1>1 DEF Membership
<1>4. CanViewPrivateCommunity <=> caller.known /\ (caller.admin \/ caller.owner \/ caller.row)
  BY <1>1, <1>3 DEF CanViewPrivateCommunity, Admin, Owns
<1>5. Capabilities # {} => CommunityExists /\ CanViewPrivateCommunity
  BY <1>1, <1>3, <1>4 DEF Capabilities, HasAllPermissions, CanViewPrivateCommunity
<1>6. community.status # "takendown" => (GetCommunity <=> RequireCommunityReadable)
  BY <1>1, <1>4 DEF GetCommunity, RequireCommunityReadable, Owns, Admin
<1>7. CommunityExists => (RequireRepoReadable <=> RequireCommunityReadable)
  BY DEF RequireRepoReadable, RequireCommunityReadable
<1>8. RequireAuth => (ListMembers <=> RequireCommunityReadable)
  BY DEF ListMembers, RequireCommunityReadable
<1>9. \A p \in Permissions : RequireCommunityPermission(p) => RequireCommunityReadable
  BY <1>5 DEF RequireCommunityPermission, RequireCommunityReadable
<1>10. \A r \in {"member", "moderator"} :
         RequireCommunityRole(r) /\ CommunityExists => RequireCommunityReadable /\ (Admin \/ WritableStatus)
  BY <1>1, <1>4 DEF RequireCommunityRole, RequireCommunityReadable, RequireAuth, Admin, Owns, Level
<1>11. ASSUME caller.record # "role", WritableStatus, Owns => caller.row
       PROVE  (\E p \in Permissions : RequireCommunityPermission(p))
                <=> (CommunityExists /\ RequireCommunityRole("moderator"))
  <2> DEFINE role == IF caller.record = "none" THEN "member" ELSE caller.record
  <2>1. /\ \E p : p \in Permissions /\ p \in Legacy("owner")
        /\ \E p : p \in Permissions /\ p \in Legacy("moderator")
        /\ Legacy("member") = {} /\ "forum" \in Permissions
    BY DEF Legacy, Permissions
  <2>2. Level("owner") = 3 /\ Level("moderator") = 2 /\ Level("member") = 1
    BY DEF Level
  <2>3. role \in {"member", "moderator", "owner"}
        /\ role = (IF caller.record \in {"none", "role"} THEN "member" ELSE caller.record)
    BY <1>1, <1>11
  <2> HIDE DEF role
  <2>4. (\E p : p \in Permissions /\ p \in Legacy(role)) <=> Level(role) >= Level("moderator")
    BY <2>1, <2>2, <2>3
  <2>5. CASE ~caller.known \/ ~CommunityExists
    BY <2>5 DEF RequireCommunityPermission, RequireCommunityRole, RequireAuth
  <2>6. CASE caller.known /\ CommunityExists /\ (Admin \/ Owns)
    <3>1. Capabilities = Permissions
      BY <2>6 DEF Capabilities, HasAllPermissions
    <3> QED
      BY <1>11, <2>1, <2>6, <3>1 DEF RequireCommunityPermission, RequireCommunityRole, RequireAuth
  <2>7. CASE caller.known /\ CommunityExists /\ ~Admin /\ ~Owns
    <3>1. Capabilities = IF caller.row THEN Legacy(role) ELSE {}
      BY <1>1, <1>3, <1>11, <2>7 DEF Capabilities, HasAllPermissions, role
    <3>2. RequireCommunityRole("moderator") <=> caller.row /\ Level(role) >= Level("moderator")
      BY <1>11, <2>3, <2>7 DEF RequireCommunityRole, RequireAuth
    <3> QED
      BY <1>1, <1>11, <2>4, <2>7, <3>1, <3>2 DEF RequireCommunityPermission, RequireAuth
  <2> QED
    BY <1>1, <2>5, <2>6, <2>7
<1>12. FederationView = "public" => RequireCommunityReadable
  BY DEF FederationView, RequireCommunityReadable, CommunityExists
<1> QED
  BY <1>6, <1>7, <1>8, <1>9, <1>10, <1>11, <1>12 DEF AccessAgrees, AccessSound

\* What every request that is being answered may rest on: it was put by one
\* who was entitled to the answer (getRecord, community.get and the others).
THEOREM AccessSoundAlways == AccessSpec => []AccessSound
BY InitAccessSound, NextAccessSound, PTL DEF AccessSpec

\* AccessAgrees for every caller and community there can be, not only the
\* kinds the run enumerates, and for any number of requests.
THEOREM AccessIsAgreed == AccessSpec => []AccessAgrees
BY AccessSoundAlways, EndpointsAgree, PTL

-----------------------------------------------------------------------------
(* Settings.                                                               *)

RulesRecord ==
  [model : Models, quorum : {"-", "1", "2"}, chain : {"-", "yes"},
   protects : {"-", "others", "all"}, visibility : {"public", "private"}]
PatchRecord ==
  [model : Models \cup {"-"}, quorum : {"-", "null", "1", "2"}, chain : {"-", "null", "yes"},
   protects : {"-", "null", "others", "all"}]

\* The rules a model's votes need are there.
Complete(r) ==
  /\ r.model = "majority" => r.quorum # "-"
  /\ r.model = "on-chain" => r.chain # "-"

LEMMA RecordOf ==
  ASSUME NEW r, r = [f \in {"model", "quorum", "chain", "protects", "visibility"} |-> r[f]],
         r.model \in Models, r.quorum \in {"-", "1", "2"}, r.chain \in {"-", "yes"},
         r.protects \in {"-", "others", "all"}, r.visibility \in {"public", "private"}
  PROVE  r \in RulesRecord
BY DEF RulesRecord

LEMMA TouchedFields ==
  ASSUME NEW r \in RulesRecord, NEW p \in PatchRecord
  PROVE  /\ Touched(r, p) \in RulesRecord
         /\ \A f \in Config : Touched(r, p)[f] = IF p[f] = "-" THEN r[f]
                                                  ELSE IF p[f] = "null" THEN "-" ELSE p[f]
         /\ Touched(r, p).model = IF p.model = "-" THEN r.model ELSE p.model
<1> DEFINE t == Touched(r, p)
<1>1. /\ DOMAIN p = {"model", "quorum", "chain", "protects"}
      /\ DOMAIN r = {"model", "quorum", "chain", "protects", "visibility"}
  BY DEF PatchRecord, RulesRecord
<1>2. /\ DOMAIN t = DOMAIN r
      /\ t = [f \in DOMAIN r |-> t[f]]
      /\ t.visibility = r.visibility
      /\ \A f \in {"model", "quorum", "chain", "protects"} :
           t[f] = IF p[f] # "-" THEN (IF p[f] = "null" THEN "-" ELSE p[f]) ELSE r[f]
  BY <1>1 DEF Touched, WithoutNulls
<1> HIDE DEF t
<1>3. /\ t.model \in Models /\ t.quorum \in {"-", "1", "2"} /\ t.chain \in {"-", "yes"}
      /\ t.protects \in {"-", "others", "all"} /\ t.visibility \in {"public", "private"}
  BY <1>2 DEF PatchRecord, RulesRecord, Models
<1>4. t \in RulesRecord
  BY <1>1, <1>2, <1>3, RecordOf
<1>5. p.model # "null"
  BY DEF PatchRecord, Models
<1> QED
  BY <1>2, <1>4, <1>5 DEF t, Config

LEMMA ModelFields ==
  ASSUME NEW r \in RulesRecord, NEW p \in PatchRecord, p.model # "-"
  PROVE  /\ WithModel(r, p) \in RulesRecord
         /\ WithModel(r, p).model = p.model
         /\ WithModel(r, p) = IF Names(p) = {} THEN [r EXCEPT !.model = p.model]
              ELSE [f \in DOMAIN r |-> IF f = "visibility" THEN r[f] ELSE WithoutNulls(p)[f]]
         /\ \A f \in Config : WithModel(r, p)[f] = IF Names(p) = {} THEN r[f]
                                                    ELSE IF p[f] = "null" THEN "-" ELSE p[f]
<1> DEFINE t == WithModel(r, p)
           q == WithoutNulls(p)
<1>1. /\ DOMAIN p = {"model", "quorum", "chain", "protects"}
      /\ DOMAIN r = {"model", "quorum", "chain", "protects", "visibility"}
      /\ p.model \in Models
  BY DEF PatchRecord, RulesRecord
<1>2. CASE Names(p) = {}
  BY <1>1, <1>2 DEF WithModel, RulesRecord, Config
<1>3. CASE Names(p) # {}
  <2>1. /\ q = [f \in DOMAIN p |-> q[f]] /\ DOMAIN q = DOMAIN p
        /\ \A f \in DOMAIN p : q[f] = IF p[f] = "null" THEN "-" ELSE p[f]
    BY DEF WithoutNulls
  <2> HIDE DEF q
  <2>2. t = [f \in DOMAIN r |-> IF f = "model" THEN p.model ELSE IF f \in Config THEN q[f] ELSE r[f]]
    BY <1>3 DEF WithModel, q
  <2>3. /\ DOMAIN t = DOMAIN r /\ t = [f \in DOMAIN r |-> t[f]]
        /\ t.model = p.model /\ t.visibility = r.visibility
        /\ \A f \in Config : t[f] = IF p[f] = "null" THEN "-" ELSE p[f]
    BY <1>1, <2>1, <2>2 DEF Config
  <2> HIDE DEF t
  <2>4. t \in RulesRecord
    <3>1. /\ t.model \in Models /\ t.quorum \in {"-", "1", "2"} /\ t.chain \in {"-", "yes"}
          /\ t.protects \in {"-", "others", "all"} /\ t.visibility \in {"public", "private"}
      BY <1>1, <2>3 DEF PatchRecord, RulesRecord, Models, Config
    <3> QED
      BY <1>1, <2>3, <3>1, RecordOf
  <2>5. t = [f \in DOMAIN r |-> IF f = "visibility" THEN r[f] ELSE q[f]]
    <3>1. p.model # "null"
      BY <1>1 DEF Models
    <3> QED
      BY <1>1, <2>1, <2>2, <3>1 DEF Config
  <2> QED
    BY <1>3, <2>3, <2>4, <2>5 DEF t, q
<1> QED
  BY <1>2, <1>3

\* What was checked before it was asked for leaves a complete record.
LEMMA SoundModels ==
  ASSUME NEW r \in RulesRecord, NEW p \in PatchRecord, p.model # "-", Sound(p, TRUE)
  PROVE  Complete(WithModel(r, p))
<1>1. WithoutNulls(p).model = p.model
      /\ WithoutNulls(p).quorum = (IF p.quorum = "null" THEN "-" ELSE p.quorum)
      /\ WithoutNulls(p).chain = (IF p.chain = "null" THEN "-" ELSE p.chain)
  BY DEF WithoutNulls, PatchRecord, Models
<1>2. /\ p.model = "majority" => p.quorum \notin {"-", "null"}
      /\ p.model = "on-chain" => p.chain \notin {"-", "null"}
  BY <1>1 DEF Sound
<1>3. p.quorum # "-" \/ p.chain # "-" => Names(p) # {}
  BY DEF Names, Config
<1> QED
  BY <1>2, <1>3, ModelFields DEF Complete, Config

LEMMA SoundIsComplete ==
  ASSUME NEW r \in RulesRecord, Sound(r, FALSE)
  PROVE  Complete(r)
<1>1. WithoutNulls(r).model = r.model /\ WithoutNulls(r).quorum = r.quorum /\ WithoutNulls(r).chain = r.chain
  BY DEF WithoutNulls, RulesRecord, Models
<1> QED
  BY <1>1 DEF Sound, Complete

LEMMA NormalizedFields ==
  ASSUME NEW p \in PatchRecord, Sound(p, TRUE)
  PROVE  /\ Normalized(p) \in PatchRecord /\ Normalized(p).model = p.model
         /\ Sound(Normalized(p), TRUE)
<1> DEFINE n == Normalized(p)
<1>1. /\ n \in PatchRecord /\ n.model = p.model /\ n.quorum = p.quorum /\ n.chain = p.chain
  BY DEF Normalized, PatchRecord
<1> HIDE DEF n
<1>2. ASSUME NEW q \in PatchRecord
      PROVE  /\ WithoutNulls(q).model = q.model
             /\ WithoutNulls(q).quorum = (IF q.quorum = "null" THEN "-" ELSE q.quorum)
             /\ WithoutNulls(q).chain = (IF q.chain = "null" THEN "-" ELSE q.chain)
  BY DEF WithoutNulls, PatchRecord, Models
<1>3. Sound(n, TRUE)
  BY <1>1, <1>2 DEF Sound
<1> QED
  BY <1>1, <1>3 DEF n

-----------------------------------------------------------------------------
SettingsStatement == {"enforce", "put model", "get", "put", "merge", "put merged"}

SettingsCourse ==
  {<<>>, <<"enforce", "put model">>, <<"put model">>, <<"get", "put">>, <<"put">>,
   <<"merge", "put merged">>, <<"put merged">>}

\* What a request was asked and has read, by what it has yet to do.  What will
\* be written is complete, unless the record moved meanwhile.
Drafted(s) ==
  /\ todo[s] \in SettingsCourse
  /\ At(s, "enforce") \/ At(s, "put model") =>
       /\ mem[s] \in [what : {"model"}, patch : PatchRecord, seen : RulesRecord]
       /\ mem[s].patch.model # "-" /\ Sound(mem[s].patch, TRUE)
  /\ At(s, "get") \/ At(s, "put") => mem[s] \in [what : {"update"}, seen : RulesRecord]
  /\ At(s, "merge") \/ At(s, "put merged") =>
       mem[s] \in [what : {"apply"}, patch : PatchRecord, seen : RulesRecord, merged : RulesRecord]
  /\ At(s, "merge") => Sound(RecordToWrite(mem[s].seen, mem[s].patch), FALSE)
  /\ At(s, "put merged") =>
       /\ mem[s].merged = RecordToWrite(mem[s].seen, mem[s].patch)
       /\ crossing \/ Complete(mem[s].merged)

SettingsSound ==
  /\ Requested(SettingsStatement) /\ \A s \in Slot : Drafted(s)
  /\ rules \in RulesRecord /\ ought \in RulesRecord /\ carried \subseteq PatchRecord
  /\ unvoted = FALSE /\ crossing \in BOOLEAN
  /\ crossing \/ (rules = ought /\ Complete(rules))

LEMMA SettingsCourses ==
  ASSUME NEW s, todo[s] \in SettingsCourse
  PROVE  /\ todo[s] # <<>> => todo[s] \in Seq(SettingsStatement) /\ Head(todo[s]) \in SettingsStatement
         /\ At(s, "enforce") => Tail(todo[s]) = <<"put model">>
         /\ At(s, "put model") => Tail(todo[s]) = <<>>
         /\ At(s, "get") => Tail(todo[s]) = <<"put">>
         /\ At(s, "put") => Tail(todo[s]) = <<>>
         /\ At(s, "merge") => Tail(todo[s]) = <<"put merged">>
         /\ At(s, "put merged") => Tail(todo[s]) = <<>>
<1> DEFINE S == SettingsStatement
<1>1. CASE todo[s] = <<>>
  BY <1>1 DEF At
<1>2. ASSUME NEW x \in S, todo[s] = <<x>>
      PROVE  /\ todo[s] \in Seq(S) /\ Head(todo[s]) \in S
             /\ Tail(todo[s]) = <<>> /\ \A y : At(s, y) <=> y = x
  BY <1>2, ShortHeads, ShortSeqs DEF At
<1>3. ASSUME NEW x \in S, NEW y \in S, todo[s] = <<x, y>>
      PROVE  /\ todo[s] \in Seq(S) /\ Head(todo[s]) \in S
             /\ Tail(todo[s]) = <<y>> /\ \A z : At(s, z) <=> z = x
  BY <1>3, ShortHeads, ShortSeqs DEF At
<1>4. {"enforce", "put model", "get", "put", "merge", "put merged"} = S
  BY DEF SettingsStatement
<1> HIDE DEF S
<1>5. CASE todo[s] \in {<<"put model">>, <<"put">>, <<"put merged">>}
  BY <1>2, <1>4, <1>5 DEF S
<1>6. CASE todo[s] \in {<<"enforce", "put model">>, <<"get", "put">>, <<"merge", "put merged">>}
  BY <1>3, <1>4, <1>6 DEF S
<1> QED
  BY <1>1, <1>5, <1>6 DEF SettingsCourse

\* The record moves only for those who were not looking.
LEMMA SettingsRest ==
  ASSUME SettingsSound, NEW s \in Slot, OthersWait(s), crossing => crossing', Drafted(s)'
  PROVE  \A t \in Slot : Drafted(t)'
<1> SUFFICES ASSUME NEW t \in Slot \ {s} PROVE Drafted(t)'
  OBVIOUS
<1>1. todo'[t] = todo[t] /\ mem'[t] = mem[t] /\ Drafted(t)
  BY DEF SettingsSound, OthersWait
<1>2. \A x : At(t, x)' <=> At(t, x)
  BY <1>1 DEF At
<1> HIDE DEF SettingsSound
<1> QED
  BY <1>1, <1>2 DEF Drafted

\* How a course goes on: the next statement, with what is remembered.
LEMMA SettingsGoOn ==
  ASSUME SettingsSound, NEW s \in Slot, NEW x, At(s, x), NEW m, Note(s, m)
  PROVE  /\ Requested(SettingsStatement)' /\ OthersWait(s) /\ todo'[s] \in SettingsCourse
         /\ x \in {"put model", "put", "put merged"} => \A y : ~At(s, y)'
         /\ x = "enforce" => mem'[s] = m /\ \A y : At(s, y)' <=> y = "put model"
         /\ x = "get" => mem'[s] = m /\ \A y : At(s, y)' <=> y = "put"
         /\ x = "merge" => mem'[s] = m /\ \A y : At(s, y)' <=> y = "put merged"
<1>1. Requested(SettingsStatement) /\ Drafted(s)
  BY DEF SettingsSound
<1>2. Requested(SettingsStatement)' /\ OthersWait(s) /\ todo'[s] = Tail(todo[s])
  BY <1>1, NoteMoves DEF Follows
<1>3. mem'[s] = IF Tail(todo[s]) = <<>> THEN Nothing ELSE m
  BY <1>1 DEF Note, Turn, Requested
<1>4. ASSUME NEW y, Tail(todo[s]) = <<y>>
      PROVE  mem'[s] = m /\ \A z : At(s, z)' <=> z = y
  BY <1>2, <1>3, <1>4, ShortHeads DEF At
<1>5. CASE x \in {"put model", "put", "put merged"}
  <2>1. Tail(todo[s]) = <<>>
    BY <1>1, <1>5, SettingsCourses DEF Drafted
  <2> QED
    BY <1>2, <1>5, <2>1 DEF At, SettingsCourse
<1>6. CASE x = "enforce"
  <2>1. Tail(todo[s]) = <<"put model">>
    BY <1>1, <1>6, SettingsCourses DEF Drafted
  <2> QED
    BY <1>2, <1>4, <1>6, <2>1 DEF SettingsCourse
<1>7. CASE x = "get"
  <2>1. Tail(todo[s]) = <<"put">>
    BY <1>1, <1>7, SettingsCourses DEF Drafted
  <2> QED
    BY <1>2, <1>4, <1>7, <2>1 DEF SettingsCourse
<1>8. CASE x = "merge"
  <2>1. Tail(todo[s]) = <<"put merged">>
    BY <1>1, <1>8, SettingsCourses DEF Drafted
  <2> QED
    BY <1>2, <1>4, <1>8, <2>1 DEF SettingsCourse
<1>9. todo[s] # <<>> /\ x = Head(todo[s]) /\ x \in SettingsStatement
  BY <1>1, SettingsCourses DEF Drafted, At
<1> QED
  BY <1>5, <1>6, <1>7, <1>8, <1>9 DEF SettingsStatement

LEMMA SettingsAnswer ==
  ASSUME SettingsSound, NEW s \in Slot, Answer(s)
  PROVE  /\ Requested(SettingsStatement)' /\ OthersWait(s) /\ todo'[s] \in SettingsCourse
         /\ \A y : ~At(s, y)'
BY AnswerMoves DEF SettingsSound, At, SettingsCourse

LEMMA SettingsBegin ==
  ASSUME SettingsSound, NEW s \in Slot, NEW m, NEW x, NEW y, Begin(s, <<x, y>>, m),
         <<x, y>> \in {<<"enforce", "put model">>, <<"get", "put">>, <<"merge", "put merged">>}
  PROVE  /\ Requested(SettingsStatement)' /\ OthersWait(s) /\ todo'[s] \in SettingsCourse
         /\ mem'[s] = m /\ \A z : At(s, z)' <=> z = x
<1>1. x \in SettingsStatement /\ y \in SettingsStatement
  BY DEF SettingsStatement
<1>2. <<x, y>> \in Seq(SettingsStatement)
  BY <1>1, ShortSeqs
<1>3. /\ Requested(SettingsStatement)' /\ OthersWait(s)
      /\ todo'[s] = <<x, y>> /\ mem'[s] = m
  BY <1>2, ShortHeads, BeginMoves DEF SettingsSound
<1> QED
  BY <1>3, ShortHeads DEF At, SettingsCourse

LEMMA SettingsAtOnce ==
  ASSUME SettingsSound, NEW s \in Slot, AtOnce(s)
  PROVE  /\ Requested(SettingsStatement)' /\ OthersWait(s) /\ todo'[s] \in SettingsCourse
         /\ \A y : ~At(s, y)'
BY AtOnceMoves DEF SettingsSound, At, SettingsCourse

LEMMA PatchesTyped == Patches \subseteq PatchRecord
BY DEF Patches, Patch, PatchRecord, Models

LEMMA LetsNoVote ==
  ASSUME Lets("settings", FALSE)
  PROVE  ~Votes(rules)
BY DEF Lets, Protected, Votes

-----------------------------------------------------------------------------
LEMMA KeptBySetGovernanceModel ==
  ASSUME SettingsSound, NEW s \in Slot, NEW p \in Patches, SetGovernanceModel(s, p)
  PROVE  SettingsSound'
<1> DEFINE m == [what |-> "model", patch |-> Normalized(p), seen |-> rules]
<1>1. /\ Normalized(p) \in PatchRecord /\ Normalized(p).model # "-"
      /\ Sound(Normalized(p), TRUE) /\ rules \in RulesRecord
  BY PatchesTyped, NormalizedFields DEF SetGovernanceModel, SettingsSound
<1>2. /\ m \in [what : {"model"}, patch : PatchRecord, seen : RulesRecord]
      /\ m.patch = Normalized(p)
  BY <1>1
<1>3. Begin(s, <<"enforce", "put model">>, m)
  BY DEF SetGovernanceModel
<1> HIDE DEF m
<1>4. /\ Requested(SettingsStatement)' /\ OthersWait(s) /\ todo'[s] \in SettingsCourse
      /\ mem'[s] = m /\ \A z : At(s, z)' <=> z = "enforce"
  BY <1>3, SettingsBegin
<1>5. Drafted(s)'
  BY <1>1, <1>2, <1>4 DEF Drafted
<1>6. \A t \in Slot : Drafted(t)'
  BY <1>4, <1>5, SettingsRest DEF SetGovernanceModel, settingsPast
<1> QED
  BY <1>4, <1>6 DEF SettingsSound, SetGovernanceModel, settingsPast

LEMMA KeptByEnforceModel ==
  ASSUME SettingsSound, NEW s \in Slot, EnforceModel(s)
  PROVE  SettingsSound'
<1>1. unvoted' = FALSE
  BY LetsNoVote DEF EnforceModel, SettingsSound
<1>2. Requested(SettingsStatement)' /\ OthersWait(s) /\ Drafted(s)'
  <2>1. CASE Answer(s)
    BY <2>1, SettingsAnswer DEF Drafted
  <2>2. CASE Pass(s)
    <3>1. Note(s, mem[s]) /\ At(s, "enforce")
      BY <2>2 DEF Pass, Note, EnforceModel
    <3>2. /\ Requested(SettingsStatement)' /\ OthersWait(s) /\ todo'[s] \in SettingsCourse
          /\ mem'[s] = mem[s] /\ \A z : At(s, z)' <=> z = "put model"
      BY <3>1, SettingsGoOn
    <3>3. Drafted(s)
      BY DEF SettingsSound
    <3>4. /\ mem[s] \in [what : {"model"}, patch : PatchRecord, seen : RulesRecord]
          /\ mem[s].patch.model # "-" /\ Sound(mem[s].patch, TRUE)
      BY <3>1, <3>3 DEF Drafted
    <3> QED
      BY <3>2, <3>4 DEF Drafted
  <2> QED
    BY <2>1, <2>2 DEF EnforceModel
<1>3. \A t \in Slot : Drafted(t)'
  BY <1>2, SettingsRest DEF EnforceModel
<1> QED
  BY <1>1, <1>2, <1>3 DEF SettingsSound, EnforceModel

LEMMA KeptByPutModel ==
  ASSUME SettingsSound, NEW s \in Slot, PutModel(s)
  PROVE  SettingsSound'
<1> DEFINE r == mem[s].seen
           p == mem[s].patch
<1>1. Note(s, mem[s]) /\ At(s, "put model")
  BY DEF Pass, Note, PutModel
<1>2. Requested(SettingsStatement)' /\ OthersWait(s) /\ Drafted(s)'
  BY <1>1, SettingsGoOn DEF Drafted
<1>3. /\ r \in RulesRecord /\ p \in PatchRecord /\ p.model # "-" /\ Sound(p, TRUE)
  BY <1>1 DEF SettingsSound, Drafted
<1>4. /\ rules' = WithModel(r, p)
      /\ ought' = IF Names(p) = {} THEN [ought EXCEPT !.model = p.model]
                  ELSE [f \in DOMAIN ought |-> IF f = "visibility" THEN ought[f]
                                               ELSE WithoutNulls(p)[f]]
      /\ crossing' = (crossing \/ ~(r = rules))
      /\ ought \in RulesRecord /\ rules \in RulesRecord /\ crossing \in BOOLEAN
      /\ crossing \/ rules = ought
      /\ UNCHANGED <<carried, unvoted>>
  BY DEF PutModel, Looked, SettingsSound
<1> HIDE DEF r, p
<1>5. ought' = WithModel(ought, p)
  BY <1>3, <1>4, ModelFields
<1>6. ought' \in RulesRecord /\ rules' \in RulesRecord /\ Complete(WithModel(r, p))
  BY <1>3, <1>4, <1>5, ModelFields, SoundModels
<1>7. Complete(rules')
  BY <1>4, <1>6
<1>8. crossing' \in BOOLEAN /\ (crossing => crossing') /\ (crossing' \/ rules' = ought')
  BY <1>4, <1>5
<1>9. \A t \in Slot : Drafted(t)'
  BY <1>2, <1>8, SettingsRest
<1> QED
  BY <1>2, <1>4, <1>6, <1>7, <1>8, <1>9 DEF SettingsSound, Complete

LEMMA KeptByUpdateSettings ==
  ASSUME SettingsSound, NEW s \in Slot, UpdateSettings(s)
  PROVE  SettingsSound'
<1> DEFINE m == [what |-> "update", seen |-> rules]
<1>1. unvoted' = FALSE
  BY LetsNoVote DEF UpdateSettings, SettingsSound
<1>2. m \in [what : {"update"}, seen : RulesRecord]
  BY DEF SettingsSound
<1>3. Begin(s, <<"get", "put">>, m)
  BY DEF UpdateSettings
<1> HIDE DEF m
<1>4. /\ Requested(SettingsStatement)' /\ OthersWait(s) /\ todo'[s] \in SettingsCourse
      /\ mem'[s] = m /\ \A z : At(s, z)' <=> z = "get"
  BY <1>3, SettingsBegin
<1>5. Drafted(s)'
  BY <1>2, <1>4 DEF Drafted
<1>6. \A t \in Slot : Drafted(t)'
  BY <1>4, <1>5, SettingsRest DEF UpdateSettings
<1> QED
  BY <1>1, <1>4, <1>6 DEF SettingsSound, UpdateSettings

LEMMA KeptByGetSettings ==
  ASSUME SettingsSound, NEW s \in Slot, GetSettings(s)
  PROVE  SettingsSound'
<1> DEFINE m == [mem[s] EXCEPT !.seen = rules]
<1>1. mem[s] \in [what : {"update"}, seen : RulesRecord] /\ rules \in RulesRecord
  BY DEF SettingsSound, Drafted, GetSettings
<1>2. m \in [what : {"update"}, seen : RulesRecord]
  BY <1>1
<1>3. At(s, "get") /\ Note(s, m)
  BY DEF GetSettings
<1> HIDE DEF m
<1>4. /\ Requested(SettingsStatement)' /\ OthersWait(s) /\ todo'[s] \in SettingsCourse
      /\ mem'[s] = m /\ \A z : At(s, z)' <=> z = "put"
  BY <1>3, SettingsGoOn
<1>5. Drafted(s)'
  BY <1>2, <1>4 DEF Drafted
<1>6. crossing' \in BOOLEAN /\ (crossing => crossing')
  BY DEF GetSettings, SettingsSound
<1>7. \A t \in Slot : Drafted(t)'
  BY <1>4, <1>5, <1>6, SettingsRest
<1> QED
  BY <1>4, <1>6, <1>7 DEF SettingsSound, GetSettings, Complete

LEMMA KeptByPutSettings ==
  ASSUME SettingsSound, NEW s \in Slot, PutSettings(s)
  PROVE  SettingsSound'
<1> DEFINE r == mem[s].seen
<1>1. Note(s, mem[s]) /\ At(s, "put")
  BY DEF Pass, Note, PutSettings
<1>2. Requested(SettingsStatement)' /\ OthersWait(s) /\ Drafted(s)'
  BY <1>1, SettingsGoOn DEF Drafted
<1>3. r \in RulesRecord
  BY <1>1 DEF SettingsSound, Drafted
<1>4. /\ rules' = [r EXCEPT !.visibility = "private"]
      /\ ought' = [ought EXCEPT !.visibility = "private"]
      /\ crossing' = (crossing \/ ~(r = rules))
      /\ ought \in RulesRecord /\ rules \in RulesRecord /\ crossing \in BOOLEAN
      /\ crossing \/ (rules = ought /\ Complete(rules))
      /\ UNCHANGED <<carried, unvoted>>
  BY DEF PutSettings, Looked, SettingsSound
<1> HIDE DEF r
<1>5. ought' \in RulesRecord /\ rules' \in RulesRecord
  BY <1>3, <1>4 DEF RulesRecord
<1>6. Complete(r) => Complete(rules')
  BY <1>3, <1>4 DEF Complete, RulesRecord
<1>7. /\ crossing' \in BOOLEAN /\ (crossing => crossing')
      /\ crossing' \/ (rules' = ought' /\ Complete(rules'))
  BY <1>4, <1>6
<1>8. \A t \in Slot : Drafted(t)'
  BY <1>2, <1>7, SettingsRest
<1> QED
  BY <1>2, <1>4, <1>5, <1>7, <1>8 DEF SettingsSound, Complete

LEMMA KeptByWriteRecord ==
  ASSUME SettingsSound, NEW s \in Slot, NEW collection, NEW delegated, WriteRecord(s, collection, delegated)
  PROVE  SettingsSound'
<1>1. unvoted' = FALSE
  BY DEF WriteRecord, SettingsSound, Lets, Protected, Votes
<1>2. Requested(SettingsStatement)' /\ OthersWait(s) /\ Drafted(s)'
  BY SettingsAtOnce DEF WriteRecord, Drafted
<1>3. \A t \in Slot : Drafted(t)'
  BY <1>2, SettingsRest DEF WriteRecord
<1> QED
  BY <1>1, <1>2, <1>3 DEF SettingsSound, WriteRecord

LEMMA KeptByProposeSettings ==
  ASSUME SettingsSound, NEW s \in Slot, NEW p \in Patches, ProposeSettings(s, p)
  PROVE  SettingsSound'
<1>1. Normalized(p) \in PatchRecord
  BY PatchesTyped, NormalizedFields DEF ProposeSettings
<1>2. Requested(SettingsStatement)' /\ OthersWait(s) /\ Drafted(s)'
  BY SettingsAtOnce DEF ProposeSettings, Drafted
<1>3. \A t \in Slot : Drafted(t)'
  BY <1>2, SettingsRest DEF ProposeSettings, settingsPast
<1> QED
  BY <1>1, <1>2, <1>3 DEF SettingsSound, ProposeSettings, settingsPast

LEMMA KeptByApplyProposal ==
  ASSUME SettingsSound, NEW s \in Slot, NEW p, ApplyProposal(s, p)
  PROVE  SettingsSound'
<1> DEFINE m == [what |-> "apply", patch |-> p, seen |-> rules, merged |-> rules]
<1>1. p \in PatchRecord /\ rules \in RulesRecord /\ Sound(RecordToWrite(rules, p), FALSE)
  BY DEF SettingsSound, ApplyProposal
<1>2. /\ m \in [what : {"apply"}, patch : PatchRecord, seen : RulesRecord, merged : RulesRecord]
      /\ m.patch = p /\ m.seen = rules
  BY <1>1
<1>3. Begin(s, <<"merge", "put merged">>, m)
  BY DEF ApplyProposal
<1> HIDE DEF m
<1>4. /\ Requested(SettingsStatement)' /\ OthersWait(s) /\ todo'[s] \in SettingsCourse
      /\ mem'[s] = m /\ \A z : At(s, z)' <=> z = "merge"
  BY <1>3, SettingsBegin
<1>5. Drafted(s)'
  BY <1>1, <1>2, <1>4 DEF Drafted
<1>6. \A t \in Slot : Drafted(t)'
  BY <1>4, <1>5, SettingsRest DEF ApplyProposal, settingsPast
<1> QED
  BY <1>4, <1>6 DEF SettingsSound, ApplyProposal, settingsPast

LEMMA KeptByMergeProposal ==
  ASSUME SettingsSound, NEW s \in Slot, MergeProposal(s)
  PROVE  SettingsSound'
<1> DEFINE merged == RecordToWrite(rules, mem[s].patch)
           m == [mem[s] EXCEPT !.seen = rules, !.merged = merged]
           Applying == [what : {"apply"}, patch : PatchRecord, seen : RulesRecord, merged : RulesRecord]
<1>1. /\ mem[s] \in Applying /\ rules \in RulesRecord
      /\ Sound(RecordToWrite(mem[s].seen, mem[s].patch), FALSE)
  BY DEF SettingsSound, Drafted, MergeProposal
<1>2. merged \in RulesRecord
  BY <1>1, TouchedFields DEF RecordToWrite
<1>3. At(s, "merge") /\ Note(s, m) /\ crossing' = (crossing \/ ~(mem[s].seen = rules))
  BY DEF MergeProposal, Looked
<1>4. crossing' \/ Complete(merged)
  <2> HIDE DEF merged
  <2>1. mem[s].seen = rules => Sound(merged, FALSE)
    BY <1>1 DEF merged
  <2> QED
    BY <1>2, <1>3, <2>1, SoundIsComplete
<1>5. merged = RecordToWrite(rules, mem[s].patch)
  OBVIOUS
<1> HIDE DEF merged
<1>6. m \in Applying /\ m.patch = mem[s].patch /\ m.seen = rules /\ m.merged = merged
  BY <1>1, <1>2
<1> HIDE DEF m
<1>7. /\ Requested(SettingsStatement)' /\ OthersWait(s) /\ todo'[s] \in SettingsCourse
      /\ mem'[s] = m /\ \A z : At(s, z)' <=> z = "put merged"
  BY <1>3, SettingsGoOn
<1>8. Drafted(s)'
  <2>1. m.merged = RecordToWrite(m.seen, m.patch) /\ (crossing' \/ Complete(m.merged))
    BY <1>4, <1>5, <1>6
  <2> QED
    BY <1>6, <1>7, <2>1 DEF Drafted, Complete
<1>9. crossing' \in BOOLEAN /\ (crossing => crossing')
  BY <1>3 DEF SettingsSound
<1>10. \A t \in Slot : Drafted(t)'
  BY <1>7, <1>8, <1>9, SettingsRest
<1> QED
  BY <1>7, <1>9, <1>10 DEF SettingsSound, MergeProposal, Complete

LEMMA KeptByPutMerged ==
  ASSUME SettingsSound, NEW s \in Slot, PutMerged(s)
  PROVE  SettingsSound'
<1> DEFINE r == mem[s].seen
           p == mem[s].patch
           merged == mem[s].merged
<1>1. Note(s, mem[s]) /\ At(s, "put merged")
  BY DEF Pass, Note, PutMerged
<1>2. Requested(SettingsStatement)' /\ OthersWait(s) /\ Drafted(s)'
  BY <1>1, SettingsGoOn DEF Drafted
<1>3. /\ p \in PatchRecord /\ merged \in RulesRecord /\ merged = Touched(r, p)
      /\ crossing \/ Complete(merged)
  BY <1>1 DEF SettingsSound, Drafted, RecordToWrite
<1>4. /\ rules' = merged /\ ought' = Touched(ought, p) /\ carried' \subseteq carried
      /\ crossing' = (crossing \/ ~(r = rules))
      /\ ought \in RulesRecord /\ crossing \in BOOLEAN /\ carried \subseteq PatchRecord
      /\ crossing \/ rules = ought
      /\ unvoted' = unvoted /\ unvoted = FALSE
  BY DEF PutMerged, Looked, SettingsSound
<1> HIDE DEF r, p, merged
<1>5. ought' \in RulesRecord
  BY <1>3, <1>4, TouchedFields
<1>6. /\ crossing' \in BOOLEAN /\ (crossing => crossing')
      /\ crossing' \/ (rules' = ought' /\ Complete(rules'))
  BY <1>3, <1>4
<1>7. \A t \in Slot : Drafted(t)'
  BY <1>2, <1>6, SettingsRest
<1> QED
  BY <1>2, <1>3, <1>4, <1>5, <1>6, <1>7 DEF SettingsSound, Complete

LEMMA KeptBySettingsFails ==
  ASSUME SettingsSound, NEW s \in Slot, SettingsFails(s)
  PROVE  SettingsSound'
<1>1. Requested(SettingsStatement)' /\ OthersWait(s) /\ Drafted(s)'
  BY SettingsAnswer DEF SettingsFails, Drafted
<1>2. \A t \in Slot : Drafted(t)'
  BY <1>1, SettingsRest DEF SettingsFails, settingsPast
<1> QED
  BY <1>1, <1>2 DEF SettingsSound, SettingsFails, settingsPast

-----------------------------------------------------------------------------
LEMMA InitSettingsSound == SettingsInit => SettingsSound
<1> SUFFICES ASSUME SettingsInit PROVE SettingsSound
  OBVIOUS
<1>1. Requested(SettingsStatement) /\ \A s \in Slot : todo[s] = <<>>
  BY InitRequested DEF SettingsInit
<1>2. \A s \in Slot : Drafted(s)
  BY <1>1 DEF Drafted, At, SettingsCourse
<1>3. rules \in RulesRecord /\ ought = rules /\ Complete(rules)
  BY DEF SettingsInit, RulesRecord, Models, Complete
<1> QED
  BY <1>1, <1>2, <1>3 DEF SettingsSound, SettingsInit

LEMMA NextSettingsSound == SettingsSound /\ [SettingsNext]_settingsVars => SettingsSound'
<1> SUFFICES ASSUME SettingsSound, [SettingsNext]_settingsVars PROVE SettingsSound'
  OBVIOUS
<1>1. CASE UNCHANGED settingsVars
  <2>1. ASSUME NEW s \in Slot PROVE Drafted(s)'
    <3>1. Drafted(s) /\ todo' = todo /\ mem' = mem /\ crossing' = crossing
      BY <1>1 DEF SettingsSound, settingsVars, settingsPast, requests
    <3> QED
      BY <3>1 DEF Drafted, At
  <2> QED
    BY <1>1, <2>1 DEF SettingsSound, settingsVars, settingsPast, requests, Requested, Complete
<1>2. CASE SettingsNext
  <2>1. PICK s \in Slot :
          \/ \E p \in Patches : SetGovernanceModel(s, p) \/ ProposeSettings(s, p)
          \/ \E p \in carried : ApplyProposal(s, p)
          \/ \E delegated \in BOOLEAN : WriteRecord(s, "profile", delegated) \/ WriteRecord(s, "calendar", delegated)
          \/ UpdateSettings(s) \/ EnforceModel(s) \/ PutModel(s) \/ GetSettings(s) \/ PutSettings(s)
          \/ MergeProposal(s) \/ PutMerged(s) \/ SettingsFails(s)
    BY <1>2 DEF SettingsNext
  <2> QED
    BY <2>1, KeptBySetGovernanceModel, KeptByProposeSettings, KeptByApplyProposal, KeptByWriteRecord,
       KeptByUpdateSettings, KeptByEnforceModel, KeptByPutModel, KeptByGetSettings, KeptByPutSettings,
       KeptByMergeProposal, KeptByPutMerged, KeptBySettingsFails
<1> QED
  BY <1>1, <1>2

\* The invariant of the settings record: what every request that will write it
\* was asked and has read, and that the record is the one the changes made
\* should have left (setGovernanceModel, community.update, proposalApplicationProblem).
THEOREM SettingsSoundAlways == SettingsSpec => []SettingsSound
BY InitSettingsSound, NextSettingsSound, PTL DEF SettingsSpec

\* The settings record, and the one it ought to be, keep their fields and values.
THEOREM SettingsTyped == SettingsSpec => []SettingsTypeOK
<1>1. SettingsSound => SettingsTypeOK
  BY DEF SettingsSound, SettingsTypeOK, RulesRecord
<1> QED
  BY <1>1, SettingsSoundAlways, PTL

\* RulesHold for any number of requests: unless writers of the record crossed,
\* a community that votes has the rules its votes need, no change but one it
\* voted for touched them, and each changed what it names and no more.
THEOREM RulesAreHeld == SettingsSpec => []RulesHold
<1>1. SettingsSound => RulesHold
  BY DEF SettingsSound, RulesHold, Complete
<1> QED
  BY <1>1, SettingsSoundAlways, PTL

-----------------------------------------------------------------------------
(* Wallets.                                                                *)

WalletStatement == {"store", "grant", "consent", "sign", "look", "link"}

Consent == [owner : Owner, scope : Wallet \cup {"all"}, by : Slot]
Proof == [owner : Owner, wallet : Wallet, purpose : {"link", "signin"}]
WalletLink == [owner : Owner \cup {"none"}, tier : 0..3, primary : BOOLEAN,
               proof : Owner \cup {"none"}, blind : BOOLEAN]

Provisioning == [what : {"provision"}, owner : Owner, wallet : Wallet]
Granting == [what : {"grant"}, owner : Owner, wallet : Wallet \cup {"all"}]
Signing == [what : {"sign"}, owner : Owner, wallet : Wallet]
Linking == [what : {"link"}, owner : Owner, wallet : Wallet, proof : Proof, none : BOOLEAN]

\* What a request was asked, by what it has yet to do.
Asked(s) ==
  \/ todo[s] = <<>>
  \/ /\ todo[s] = <<"store">>
     /\ mem[s] \in Provisioning
  \/ /\ todo[s] = <<"grant">>
     /\ mem[s] \in Granting
  \/ /\ todo[s] \in {<<"consent", "sign">>, <<"sign">>}
     /\ mem[s] \in Signing
  \/ /\ todo[s] \in {<<"look", "link">>, <<"link">>}
     /\ mem[s] \in Linking

\* Who found a row holds it: it is still there, and its owner's.
Seen(s) ==
  At(s, "link") /\ ~mem[s].none => Belongs(mem[s].wallet, mem[s].owner)

Storing(s, w) == At(s, "store") /\ mem[s].wallet = w

\* A wallet said to be the server's was never taken from it, and only its
\* owner's key for it is stored or about to be.
Custodial(w) ==
  links[w].tier = 1 =>
    /\ w \notin upgraded /\ links[w].owner \in Owner
    /\ \A o \in Owner : <<o, w>> \in custody => o = links[w].owner
    /\ \A s \in Slot : Storing(s, w) => mem[s].owner = links[w].owner
    /\ <<links[w].owner, w>> \in custody \/ w \in keyless \/ \E s \in Slot : Storing(s, w)

Given(w) ==
  w \in upgraded /\ ((\E o \in Owner : <<o, w>> \in custody) \/ w \in misused) => w \in late

\* A link's row has a tier, and its owner's proof, or was written blindly.
Shown(w) ==
  /\ links[w].proof # links[w].owner => links[w].blind
  /\ Linked(w) => links[w].tier # 0

WalletsSound ==
  /\ WalletsTypeOK /\ Requested(WalletStatement)
  /\ \A s \in Slot : Asked(s) /\ Seen(s)
  /\ \A w \in Wallet : Custodial(w) /\ Given(w) /\ Shown(w)
  /\ misused \subseteq upgraded

LEMMA WalletCourses ==
  ASSUME NEW s, Asked(s)
  PROVE  /\ todo[s] # <<>> => \E x \in WalletStatement : At(s, x)
         /\ At(s, "store") => Tail(todo[s]) = <<>> /\ mem[s] \in Provisioning
         /\ At(s, "grant") => Tail(todo[s]) = <<>> /\ mem[s] \in Granting
         /\ At(s, "consent") => Tail(todo[s]) = <<"sign">> /\ mem[s] \in Signing
         /\ At(s, "sign") => Tail(todo[s]) = <<>> /\ mem[s] \in Signing
         /\ At(s, "look") => Tail(todo[s]) = <<"link">> /\ mem[s] \in Linking
         /\ At(s, "link") => Tail(todo[s]) = <<>> /\ mem[s] \in Linking
<1>1. CASE todo[s] = <<>>
  BY <1>1 DEF At
<1>2. ASSUME NEW x \in WalletStatement, todo[s] = <<x>>
      PROVE  Tail(todo[s]) = <<>> /\ todo[s] # <<>> /\ \A y : At(s, y) <=> y = x
  BY <1>2, ShortHeads DEF At
<1>3. ASSUME NEW x \in WalletStatement, NEW y, todo[s] = <<x, y>>
      PROVE  Tail(todo[s]) = <<y>> /\ todo[s] # <<>> /\ \A z : At(s, z) <=> z = x
  BY <1>3, ShortHeads DEF At
<1>4. CASE todo[s] = <<"store">> /\ mem[s] \in Provisioning
  BY <1>2, <1>4 DEF WalletStatement
<1>5. CASE todo[s] = <<"grant">> /\ mem[s] \in Granting
  BY <1>2, <1>5 DEF WalletStatement
<1>6. CASE todo[s] = <<"consent", "sign">> /\ mem[s] \in Signing
  BY <1>3, <1>6 DEF WalletStatement
<1>7. CASE todo[s] = <<"sign">> /\ mem[s] \in Signing
  BY <1>2, <1>7 DEF WalletStatement
<1>8. CASE todo[s] = <<"look", "link">> /\ mem[s] \in Linking
  BY <1>3, <1>8 DEF WalletStatement
<1>9. CASE todo[s] = <<"link">> /\ mem[s] \in Linking
  BY <1>2, <1>9 DEF WalletStatement
<1> QED
  BY <1>1, <1>4, <1>5, <1>6, <1>7, <1>8, <1>9 DEF Asked

LEMMA WalletOthers ==
  ASSUME WalletsSound, NEW s \in Slot, OthersWait(s)
  PROVE  \A t \in Slot \ {s} : /\ Asked(t)' /\ (\A x : At(t, x)' <=> At(t, x))
                               /\ \A w : Storing(t, w)' <=> Storing(t, w)
BY DEF WalletsSound, OthersWait, Asked, At, Storing

\* A step that leaves the links and the keys as they are.
LEMMA AsideKeeps ==
  ASSUME WalletsSound, NEW s \in Slot, Requested(WalletStatement)', OthersWait(s),
         Asked(s)', Seen(s)', ~At(s, "store"), ~At(s, "store")',
         WalletsTypeOK', UNCHANGED <<links, custody, walletHistory>>
  PROVE  WalletsSound'
<1>1. \A t \in Slot : Asked(t)' /\ Seen(t)'
  BY WalletOthers DEF WalletsSound, Seen, Belongs, Linked, OthersWait
<1>2. \A t \in Slot : \A w : Storing(t, w)' <=> Storing(t, w)
  BY WalletOthers DEF Storing
<1>3. \A t \in Slot : \A w : Storing(t, w) => mem'[t] = mem[t]
  BY DEF Storing, OthersWait
<1>4. ASSUME NEW w \in Wallet PROVE (Custodial(w) /\ Given(w) /\ Shown(w))'
  BY <1>2, <1>3 DEF WalletsSound, Custodial, Given, Shown, Linked, walletHistory
<1> QED
  BY <1>1, <1>4 DEF WalletsSound, walletHistory

LEMMA BeginsAside ==
  ASSUME WalletsSound, NEW s \in Slot, NEW steps, NEW m, Begin(s, steps, m),
         \/ steps = <<>>
         \/ /\ steps = <<"grant">>
            /\ m \in Granting
         \/ /\ steps = <<"consent", "sign">>
            /\ m \in Signing
         \/ /\ steps = <<"look", "link">>
            /\ m \in Linking
  PROVE  /\ Requested(WalletStatement)' /\ OthersWait(s) /\ Asked(s)' /\ Seen(s)'
         /\ (\A x : ~At(s, x)) /\ ~At(s, "store")'
<1>1. steps \in Seq(WalletStatement)
  BY ShortSeqs DEF WalletStatement
<1>2. /\ Requested(WalletStatement)' /\ OthersWait(s)
      /\ todo[s] = <<>> /\ todo'[s] = steps
      /\ steps # <<>> => mem'[s] = m
  BY <1>1, BeginMoves DEF WalletsSound
<1>4. Asked(s)' /\ ~At(s, "store")' /\ ~At(s, "link")'
  <2>1. CASE steps = <<>>
    BY <1>2, <2>1 DEF Asked, At
  <2>2. CASE steps = <<"grant">> /\ m \in Granting
    <3>1. todo'[s] = <<"grant">> /\ mem'[s] = m /\ Head(todo'[s]) = "grant"
      BY <1>2, <2>2, ShortHeads
    <3> QED
      BY <2>2, <3>1 DEF Asked, At
  <2>3. CASE steps = <<"consent", "sign">> /\ m \in Signing
    <3>1. todo'[s] = <<"consent", "sign">> /\ mem'[s] = m /\ Head(todo'[s]) = "consent"
      BY <1>2, <2>3, ShortHeads
    <3> QED
      BY <2>3, <3>1 DEF Asked, At
  <2>4. CASE steps = <<"look", "link">> /\ m \in Linking
    <3>1. todo'[s] = <<"look", "link">> /\ mem'[s] = m /\ Head(todo'[s]) = "look"
      BY <1>2, <2>4, ShortHeads
    <3> QED
      BY <2>4, <3>1 DEF Asked, At
  <2> QED
    BY <2>1, <2>2, <2>3, <2>4
<1>5. \A x : ~At(s, x)
  BY <1>2 DEF At
<1> QED
  BY <1>2, <1>4, <1>5 DEF Seen

LEMMA GoesOnAside ==
  ASSUME WalletsSound, NEW s \in Slot, NEW x \in {"consent", "sign", "grant", "look"},
         At(s, x), NEW m, Answer(s) \/ Note(s, m),
         x = "consent" => m = mem[s],
         x = "look" => \E none \in BOOLEAN :
           /\ m = [mem[s] EXCEPT !.none = none]
           /\ ~none => Belongs(mem[s].wallet, mem[s].owner),
         UNCHANGED links
  PROVE  /\ Requested(WalletStatement)' /\ OthersWait(s) /\ Asked(s)' /\ Seen(s)'
         /\ ~At(s, "store") /\ ~At(s, "store")'
<1>1. Requested(WalletStatement) /\ Asked(s)
  BY DEF WalletsSound
<1>2. ~At(s, "store")
  BY DEF At
<1>3. CASE Answer(s)
  <2>1. Requested(WalletStatement)' /\ OthersWait(s) /\ todo'[s] = <<>>
    BY <1>1, <1>3, AnswerMoves
  <2> QED
    BY <1>2, <2>1 DEF Asked, Seen, At
<1>4. CASE Note(s, m)
  <2>1. Requested(WalletStatement)' /\ OthersWait(s) /\ todo'[s] = Tail(todo[s])
    BY <1>1, <1>4, NoteMoves DEF Follows
  <2>2. mem'[s] = IF Tail(todo[s]) = <<>> THEN Nothing ELSE m
    BY <1>1, <1>4 DEF Note, Turn, Requested
  <2>3. CASE x \in {"sign", "grant"}
    <3>1. todo'[s] = <<>>
      BY <1>1, <2>1, <2>3, WalletCourses
    <3> QED
      BY <1>2, <2>1, <3>1 DEF Asked, Seen, At
  <2>4. CASE x = "consent"
    <3>1. /\ todo'[s] = <<"sign">> /\ mem'[s] = mem[s]
          /\ mem[s] \in Signing
      BY <1>1, <2>1, <2>2, <2>4, WalletCourses, ShortHeads
    <3>2. Head(<<"sign">>) = "sign"
      BY ShortHeads
    <3> QED
      BY <1>2, <2>1, <3>1, <3>2 DEF Asked, Seen, At
  <2>5. CASE x = "look"
    <3>1. /\ todo'[s] = <<"link">> /\ mem'[s] = m
          /\ mem[s] \in Linking
      BY <1>1, <2>1, <2>2, <2>5, WalletCourses, ShortHeads
    <3>2. PICK none \in BOOLEAN : /\ m = [mem[s] EXCEPT !.none = none]
                                  /\ ~none => Belongs(mem[s].wallet, mem[s].owner)
      BY <2>5
    <3>3. /\ m \in Linking
          /\ m.none = none /\ m.wallet = mem[s].wallet /\ m.owner = mem[s].owner
      BY <3>1, <3>2 DEF Linking
    <3>4. Head(<<"link">>) = "link"
      BY ShortHeads
    <3>5. Asked(s)' /\ ~At(s, "store")'
      BY <3>1, <3>3, <3>4 DEF Asked, At
    <3>6. Seen(s)'
      BY <3>1, <3>2, <3>3 DEF Seen, Belongs, Linked
    <3> QED
      BY <1>2, <2>1, <3>5, <3>6
  <2> QED
    BY <2>3, <2>4, <2>5
<1> QED
  BY <1>3, <1>4

\* A step that touches the links and the keys of one wallet only.
LEMMA OneWalletMoves ==
  ASSUME WalletsSound, NEW s \in Slot, NEW w \in Wallet,
         Requested(WalletStatement)', OthersWait(s), Asked(s)',
         \A t \in Slot : Seen(t)',
         WalletsTypeOK', Custodial(w)', Given(w)', Shown(w)', misused' \subseteq upgraded',
         \A x \in Wallet \ {w} :
           /\ links'[x] = links[x]
           /\ \A o \in Owner : <<o, x>> \in custody' <=> <<o, x>> \in custody
           /\ x \in upgraded' <=> x \in upgraded
           /\ x \in late' <=> x \in late
           /\ x \in misused' <=> x \in misused
           /\ x \in keyless => x \in keyless'
           /\ ~Storing(s, x) /\ ~Storing(s, x)'
  PROVE  WalletsSound'
<1>1. \A t \in Slot : Asked(t)'
  BY WalletOthers
<1>2. ASSUME NEW x \in Wallet \ {w}
      PROVE  (Custodial(x) /\ Given(x) /\ Shown(x))'
  <2>2. \A t \in Slot : (Storing(t, x)' <=> Storing(t, x)) /\ (Storing(t, x) => mem'[t] = mem[t])
    <3> TAKE t \in Slot
    <3>1. CASE t = s
      <4>1. ~Storing(s, x) /\ ~Storing(s, x)'
        BY <1>2
      <4> QED
        BY <3>1, <4>1 DEF Storing, At
    <3>2. CASE t # s
      BY <3>2, WalletOthers DEF OthersWait
    <3> QED
      BY <3>1, <3>2
  <2>3. Custodial(x)'
    <3>1. Custodial(x)
      BY DEF WalletsSound
    <3>2. SUFFICES ASSUME links[x].tier = 1
                   PROVE  /\ x \notin upgraded /\ links[x].owner \in Owner
                          /\ \A o \in Owner : <<o, x>> \in custody => o = links[x].owner
                          /\ \A t \in Slot : Storing(t, x)' => mem'[t].owner = links[x].owner
                          /\ \/ <<links[x].owner, x>> \in custody' \/ x \in keyless'
                             \/ \E t \in Slot : Storing(t, x)'
      BY <1>2 DEF Custodial
    <3> QED
      BY <1>2, <2>2, <3>1, <3>2 DEF Custodial
  <2>4. Given(x)' /\ Shown(x)'
    BY <1>2 DEF WalletsSound, Given, Shown, Linked
  <2> QED
    BY <2>3, <2>4
<1> QED
  BY <1>1, <1>2 DEF WalletsSound

\* Requests that only read, and those about consents, challenges and the
\* client's own blobs.
LEMMA AsidesKeep ==
  ASSUME WalletsSound, NEW s \in Slot,
         \/ \E o \in Owner, w \in Wallet : AskToSign(s, o, w) \/ StoreBlob(s, o, w)
         \/ \E o \in Owner, w \in Wallet, purpose \in {"link", "signin"} : Challenge(s, o, w, purpose)
         \/ \E o \in Owner, scope \in Wallet \cup {"all"} : GrantConsent(s, o, scope)
         \/ \E gone \in SUBSET consents : RevokeConsent(s, gone)
         \/ \E p \in proofs : Link(s, p) \/ SignInAssert(s, p)
  PROVE  WalletsSound'
<1>1. WalletsTypeOK
  BY DEF WalletsSound
<1>2. PICK steps, m :
        /\ Begin(s, steps, m)
        /\ \/ steps = <<>>
           \/ steps = <<"grant">> /\ m \in Granting
           \/ steps = <<"consent", "sign">> /\ m \in Signing
           \/ steps = <<"look", "link">> /\ m \in Linking
  <2>1. CASE \E o \in Owner, w \in Wallet : AskToSign(s, o, w)
    BY <2>1 DEF AskToSign, Signing
  <2>2. CASE \E o \in Owner, w \in Wallet : StoreBlob(s, o, w)
    BY <2>2 DEF StoreBlob, AtOnce
  <2>3. CASE \E o \in Owner, w \in Wallet, purpose \in {"link", "signin"} : Challenge(s, o, w, purpose)
    BY <2>3 DEF Challenge, AtOnce
  <2>4. CASE \E o \in Owner, scope \in Wallet \cup {"all"} : GrantConsent(s, o, scope)
    BY <2>4 DEF GrantConsent, Granting
  <2>5. CASE \E gone \in SUBSET consents : RevokeConsent(s, gone)
    BY <2>5 DEF RevokeConsent, AtOnce
  <2>6. CASE \E p \in proofs : SignInAssert(s, p)
    BY <2>6 DEF SignInAssert, AtOnce
  <2>7. CASE \E p \in proofs : Link(s, p)
    <3>1. PICK p \in proofs : Link(s, p)
      BY <2>7
    <3>2. p \in Proof
      BY <1>1 DEF WalletsTypeOK, Proof
    <3>3. [what |-> "link", owner |-> p.owner, wallet |-> p.wallet, proof |-> p, none |-> FALSE]
            \in Linking
      BY <3>2 DEF Linking, Proof
    <3> QED
      BY <3>1, <3>3 DEF Link
  <2> QED
    BY <2>1, <2>2, <2>3, <2>4, <2>5, <2>6, <2>7
<1>3. UNCHANGED <<links, custody, walletHistory>> /\ WalletsTypeOK'
  <2>1. CASE \E o \in Owner, w \in Wallet : AskToSign(s, o, w)
    BY <1>1, <2>1 DEF AskToSign, walletTables, walletHistory, WalletsTypeOK
  <2>2. CASE \E o \in Owner, w \in Wallet : StoreBlob(s, o, w)
    <3>1. PICK o \in Owner, w \in Wallet : StoreBlob(s, o, w)
      BY <2>2
    <3>2. /\ blobs' = {b \in blobs : b[1] # o} \cup {<<o, w>>}
          /\ UNCHANGED <<links, custody, consents, proofs, walletHistory>>
      BY <3>1 DEF StoreBlob
    <3>3. blobs' \subseteq Owner \X Wallet /\ \A b, c \in blobs' : b[1] = c[1] => b = c
      BY <1>1, <3>2 DEF WalletsTypeOK
    <3> QED
      BY <1>1, <3>2, <3>3 DEF walletHistory, WalletsTypeOK
  <2>3. CASE \E o \in Owner, w \in Wallet, purpose \in {"link", "signin"} : Challenge(s, o, w, purpose)
    BY <1>1, <2>3 DEF Challenge, walletHistory, WalletsTypeOK
  <2>4. CASE \E o \in Owner, scope \in Wallet \cup {"all"} : GrantConsent(s, o, scope)
    BY <1>1, <2>4 DEF GrantConsent, walletHistory, WalletsTypeOK
  <2>5. CASE \E gone \in SUBSET consents : RevokeConsent(s, gone)
    BY <1>1, <2>5 DEF RevokeConsent, walletHistory, WalletsTypeOK
  <2>6. CASE \E p \in proofs : SignInAssert(s, p) \/ Link(s, p)
    BY <1>1, <2>6 DEF SignInAssert, Link, walletTables, walletHistory, WalletsTypeOK
  <2> QED
    BY <2>1, <2>2, <2>3, <2>4, <2>5, <2>6
<1> QED
  BY <1>2, <1>3, BeginsAside, AsideKeeps

LEMMA ReadingsKeep ==
  ASSUME WalletsSound, NEW s \in Slot, AddConsent(s) \/ CheckConsent(s) \/ Look(s)
  PROVE  WalletsSound'
<1>1. WalletsTypeOK /\ Requested(WalletStatement) /\ Asked(s)
  BY DEF WalletsSound
<1>2. PICK x \in {"consent", "sign", "grant", "look"} : \E m :
        /\ At(s, x) /\ (Answer(s) \/ Note(s, m))
        /\ x = "consent" => m = mem[s]
        /\ x = "look" => \E none \in BOOLEAN :
             /\ m = [mem[s] EXCEPT !.none = none]
             /\ ~none => Belongs(mem[s].wallet, mem[s].owner)
  <2>1. CASE AddConsent(s)
    BY <2>1 DEF AddConsent, Pass, Note
  <2>2. CASE CheckConsent(s)
    BY <2>2 DEF CheckConsent, Pass, Note
  <2>3. CASE Look(s)
    <3>1. At(s, "look")
      BY <2>3 DEF Look
    <3>2. CASE Answer(s)
      BY <3>1, <3>2
    <3>3. CASE ~Answer(s)
      <4>1. /\ Linked(mem[s].wallet) => links[mem[s].wallet].owner = mem[s].owner
            /\ Note(s, [mem[s] EXCEPT !.none = ~Linked(mem[s].wallet)])
        BY <2>3, <3>3 DEF Look
      <4> DEFINE none == ~Linked(mem[s].wallet)
      <4>2. none \in BOOLEAN
        BY DEF Linked
      <4>3. ~none => Belongs(mem[s].wallet, mem[s].owner)
        BY <4>1 DEF Belongs
      <4>4. Note(s, [mem[s] EXCEPT !.none = none])
        BY <4>1
      <4> HIDE DEF none
      <4> QED
        BY <3>1, <4>2, <4>3, <4>4
    <3> QED
      BY <3>2, <3>3
  <2> QED
    BY <2>1, <2>2, <2>3
<1>3. UNCHANGED <<links, custody, walletHistory>> /\ WalletsTypeOK'
  <2>1. CASE AddConsent(s)
    <3>1. mem[s].owner \in Owner /\ mem[s].wallet \in Wallet \cup {"all"}
      BY <1>1, <2>1, WalletCourses DEF AddConsent, Granting
    <3> QED
      BY <1>1, <2>1, <3>1 DEF AddConsent, walletHistory, WalletsTypeOK
  <2>2. CASE CheckConsent(s) \/ Look(s)
    BY <1>1, <2>2 DEF CheckConsent, Look, walletTables, walletHistory, WalletsTypeOK
  <2> QED
    BY <2>1, <2>2
<1>4. PICK m :
        /\ At(s, x) /\ (Answer(s) \/ Note(s, m))
        /\ x = "consent" => m = mem[s]
        /\ x = "look" => \E none \in BOOLEAN :
             /\ m = [mem[s] EXCEPT !.none = none]
             /\ ~none => Belongs(mem[s].wallet, mem[s].owner)
  BY <1>2
<1> QED
  BY <1>3, <1>4, GoesOnAside, AsideKeeps

LEMMA LapsesKeep ==
  ASSUME WalletsSound,
         \/ \E c \in consents : ConsentLapses(c)
         \/ \E p \in proofs : ProofLapses(p)
  PROVE  WalletsSound'
<1>1. UNCHANGED <<links, custody, walletHistory, requests>> /\ WalletsTypeOK'
  BY DEF WalletsSound, ConsentLapses, ProofLapses, walletHistory, WalletsTypeOK
<1> QED
  BY <1>1 DEF WalletsSound, Requested, requests, walletHistory, Asked, Seen, At, Belongs, Linked,
     Custodial, Given, Shown, Storing

\* A request that begins about no wallet yet, or at once.
LEMMA ProvisionKeeps ==
  ASSUME WalletsSound, NEW s \in Slot, NEW o \in Owner, NEW w \in Wallet, Provision(s, o, w)
  PROVE  WalletsSound'
<1> DEFINE m == [what |-> "provision", owner |-> o, wallet |-> w]
<1>1. /\ Fresh(w) /\ Begin(s, <<"store">>, m)
      /\ links' = [links EXCEPT ![w] = [owner |-> o, tier |-> 1, primary |-> FALSE,
                                        proof |-> o, blind |-> FALSE]]
      /\ UNCHANGED <<custody, blobs, consents, proofs, upgraded, late, keyless, misused>>
  BY DEF Provision, walletHistory
<1>2. WalletsTypeOK /\ misused \subseteq upgraded
  BY DEF WalletsSound
<1>3. /\ Requested(WalletStatement)' /\ OthersWait(s)
      /\ todo[s] = <<>> /\ todo'[s] = <<"store">> /\ mem'[s] = m
  <2>1. <<"store">> \in Seq(WalletStatement) /\ <<"store">> # <<>>
    BY ShortSeqs, ShortHeads DEF WalletStatement
  <2> QED
    BY <1>1, <2>1, BeginMoves DEF WalletsSound
<1>4. Asked(s)' /\ At(s, "store")' /\ ~At(s, "link")' /\ \A x : ~At(s, x)
  BY <1>3, ShortHeads DEF Asked, At, Provisioning
<1>5. links' \in [Wallet -> WalletLink]
  BY <1>1, <1>2 DEF WalletsTypeOK, WalletLink
<1>6. WalletsTypeOK'
  BY <1>1, <1>2, <1>5 DEF WalletsTypeOK, WalletLink
<1>7. /\ links'[w].owner = o /\ links'[w].proof = o /\ links'[w].tier = 1
      /\ \A x \in Wallet \ {w} : links'[x] = links[x]
  BY <1>1, <1>2 DEF WalletsTypeOK
<1>8. \A t \in Slot \ {s} : At(t, "link") => mem[t].wallet # w
  BY <1>1 DEF Fresh, At
<1>9. \A t \in Slot : Seen(t)'
  <2>1. ASSUME NEW t \in Slot \ {s} PROVE Seen(t)'
    <3>1. (At(t, "link")' <=> At(t, "link")) /\ mem'[t] = mem[t] /\ Asked(t) /\ Seen(t)
      BY <1>3, WalletOthers DEF OthersWait, WalletsSound
    <3>2. At(t, "link") => mem[t].wallet \in Wallet \ {w}
      BY <1>8, <3>1, WalletCourses DEF Linking
    <3> QED
      BY <1>7, <3>1, <3>2 DEF Seen, Belongs, Linked
  <2> QED
    BY <1>4, <2>1 DEF Seen
<1>10. \A t \in Slot \ {s} : ~Storing(t, w) /\ ~Storing(t, w)'
  BY <1>1, <1>3, WalletOthers DEF Fresh, Storing, At
<1>11. Storing(s, w)' /\ mem'[s].owner = o
  BY <1>3, <1>4 DEF Storing
<1>12. (Custodial(w) /\ Given(w) /\ Shown(w))'
  <2>1. w \notin upgraded /\ \A p \in Owner : <<p, w>> \notin custody
    BY <1>1 DEF Fresh
  <2>2. \A t \in Slot : Storing(t, w)' => mem'[t].owner = o
    BY <1>10, <1>11
  <2> QED
    BY <1>1, <1>7, <1>11, <2>1, <2>2 DEF Custodial, Given, Shown, Linked
<1>13. \A x \in Wallet \ {w} : ~Storing(s, x) /\ ~Storing(s, x)'
  BY <1>3, <1>4 DEF Storing
<1> QED
  BY <1>1, <1>2, <1>3, <1>4, <1>6, <1>7, <1>9, <1>12, <1>13, OneWalletMoves

LEMMA StoreKeyKeeps ==
  ASSUME WalletsSound, NEW s \in Slot, StoreKey(s)
  PROVE  WalletsSound'
<1>0. SUFFICES ASSUME NEW w, w = mem[s].wallet, NEW o, o = mem[s].owner
               PROVE  WalletsSound'
  OBVIOUS
<1>1. /\ At(s, "store") /\ Pass(s)
      /\ custody' = custody \cup {<<o, w>>}
      /\ late' = IF w \in upgraded THEN late \cup {w} ELSE late
      /\ UNCHANGED <<links, blobs, consents, proofs, upgraded, keyless, misused>>
  BY <1>0 DEF StoreKey
<1>2. /\ WalletsTypeOK /\ Requested(WalletStatement) /\ Asked(s) /\ misused \subseteq upgraded
      /\ \A t \in Slot : Seen(t)
  BY DEF WalletsSound
<1>3. o \in Owner /\ w \in Wallet /\ Tail(todo[s]) = <<>>
  BY <1>0, <1>1, <1>2, WalletCourses DEF Provisioning
<1>4. Requested(WalletStatement)' /\ OthersWait(s) /\ todo'[s] = <<>>
  BY <1>1, <1>2, <1>3, PassMoves DEF Follows
<1>5. Asked(s)' /\ \A x : ~At(s, x)'
  BY <1>4 DEF Asked, At
<1>6. \A t \in Slot : Seen(t)'
  BY <1>1, <1>2, <1>4, <1>5, WalletOthers DEF Seen, Belongs, Linked, OthersWait
<1>7. WalletsTypeOK'
  BY <1>1, <1>2, <1>3 DEF WalletsTypeOK
<1>8. Custodial(w) /\ Given(w) /\ Shown(w) /\ Storing(s, w)
  BY <1>0, <1>1, <1>3 DEF WalletsSound, Storing
<1>9. \A x \in Wallet \ {w} : ~Storing(s, x) /\ ~Storing(s, x)'
  BY <1>0, <1>5 DEF Storing
<1>10. Custodial(w)'
  <2>1. SUFFICES ASSUME links[w].tier = 1
                 PROVE  /\ w \notin upgraded /\ links[w].owner \in Owner
                        /\ \A p \in Owner : <<p, w>> \in custody' => p = links[w].owner
                        /\ \A t \in Slot : Storing(t, w)' => mem'[t].owner = links[w].owner
                        /\ <<links[w].owner, w>> \in custody'
    BY <1>1 DEF Custodial
  <2>2. /\ w \notin upgraded /\ links[w].owner \in Owner
        /\ \A p \in Owner : <<p, w>> \in custody => p = links[w].owner
        /\ \A t \in Slot : Storing(t, w) => mem[t].owner = links[w].owner
    BY <1>8, <2>1 DEF Custodial
  <2>3. o = links[w].owner
    BY <1>0, <1>8, <2>2
  <2>4. ASSUME NEW t \in Slot, Storing(t, w)' PROVE mem'[t].owner = links[w].owner
    <3>1. t # s
      BY <1>5, <2>4 DEF Storing
    <3> QED
      BY <1>4, <2>2, <2>4, <3>1, WalletOthers DEF OthersWait
  <2> QED
    BY <1>1, <2>2, <2>3, <2>4
<1>11. Given(w)' /\ Shown(w)'
  BY <1>1, <1>8 DEF Given, Shown, Linked
<1> QED
  BY <1>1, <1>2, <1>3, <1>4, <1>5, <1>6, <1>7, <1>9, <1>10, <1>11, OneWalletMoves

\* A request that is one statement, about one wallet's link and keys.
LEMMA AtOnceMovesOne ==
  ASSUME WalletsSound, NEW s \in Slot, AtOnce(s)
  PROVE  /\ Requested(WalletStatement)' /\ OthersWait(s) /\ Asked(s)' /\ Seen(s)'
         /\ \A t \in Slot : (\A x : At(t, x)' <=> At(t, x)) /\ (todo[t] # <<>> => mem'[t] = mem[t])
         /\ \A t \in Slot : \A w : (Storing(t, w)' <=> Storing(t, w))
<1>1. Requested(WalletStatement)' /\ OthersWait(s) /\ todo[s] = <<>> /\ todo'[s] = <<>>
  BY AtOnceMoves DEF WalletsSound
<1>2. Asked(s)' /\ Seen(s)' /\ \A x : ~At(s, x) /\ ~At(s, x)'
  BY <1>1 DEF Asked, Seen, At
<1>3. ASSUME NEW t \in Slot
      PROVE  (\A x : At(t, x)' <=> At(t, x)) /\ (todo[t] # <<>> => mem'[t] = mem[t])
  BY <1>1, <1>2, WalletOthers DEF OthersWait, At
<1> QED
  BY <1>1, <1>2, <1>3 DEF Storing, At

\* Those who hold a row still have what they found, if the row keeps its owner.
LEMMA HeldStay ==
  ASSUME WalletsSound, NEW s \in Slot, AtOnce(s), WalletsTypeOK',
         \A x \in Wallet : Locked(x) /\ Linked(x) => Linked(x)' /\ links'[x].owner = links[x].owner
  PROVE  \A t \in Slot : Seen(t)'
<1> SUFFICES ASSUME NEW t \in Slot, At(t, "link")', ~mem'[t].none
             PROVE  Belongs(mem[t].wallet, mem[t].owner)' /\ mem'[t] = mem[t]
  BY DEF Seen, Belongs, Linked
<1>1. At(t, "link") /\ todo[t] # <<>> /\ mem'[t] = mem[t]
  BY AtOnceMovesOne DEF At
<1>2. /\ Asked(t) /\ Belongs(mem[t].wallet, mem[t].owner)
  BY <1>1 DEF WalletsSound, Seen
<1>3. mem[t].wallet \in Wallet /\ Locked(mem[t].wallet)
  BY <1>1, <1>2, WalletCourses DEF Linking, Locked
<1> QED
  BY <1>1, <1>2, <1>3 DEF Belongs, Linked

LEMMA TierChangeKeeps ==
  ASSUME WalletsSound, NEW s \in Slot, NEW o \in Owner, NEW w \in Wallet, NEW to \in 2 .. 3,
         TierChange(s, o, w, to)
  PROVE  WalletsSound'
<1>1. /\ Belongs(w, o) /\ links[w].tier < to /\ ~Locked(w) /\ AtOnce(s)
      /\ links' = [links EXCEPT ![w].tier = to]
      /\ custody' = IF links[w].tier = 1 THEN custody \ {<<o, w>>} ELSE custody
      /\ upgraded' = IF links[w].tier = 1 THEN upgraded \cup {w} ELSE upgraded
      /\ UNCHANGED <<proofs, late, keyless, misused>>
  BY DEF TierChange
<1>2. WalletsTypeOK /\ misused \subseteq upgraded /\ Custodial(w) /\ Given(w) /\ Shown(w)
  BY DEF WalletsSound
<1>3. /\ Requested(WalletStatement)' /\ OthersWait(s) /\ Asked(s)'
      /\ \A t \in Slot : \A x : (Storing(t, x)' <=> Storing(t, x))
      /\ \A x : ~Storing(s, x)
  <2>1. todo[s] = <<>>
    BY <1>1 DEF AtOnce, Begin
  <2> QED
    BY <1>1, <2>1, AtOnceMovesOne DEF Storing, At
<1>4. /\ links' \in [Wallet -> WalletLink]
      /\ links'[w].tier = to /\ links'[w].owner = links[w].owner /\ links'[w].proof = links[w].proof
      /\ links'[w].blind = links[w].blind
      /\ \A x \in Wallet \ {w} : links'[x] = links[x]
  BY <1>1, <1>2 DEF WalletsTypeOK, WalletLink
<1>5. WalletsTypeOK'
  <2>1. blobs' \subseteq Owner \X Wallet /\ \A b, c \in blobs' : b[1] = c[1] => b = c
    <3>1. blobs' \subseteq {b \in blobs : b[1] # o} \cup {<<o, w>>} \/ blobs' = blobs
      BY DEF TierChange
    <3> QED
      BY <1>2, <3>1 DEF WalletsTypeOK
  <2>2. consents' \subseteq consents
    BY DEF TierChange
  <2> QED
    BY <1>1, <1>2, <1>4, <2>1, <2>2 DEF WalletsTypeOK, WalletLink
<1>6. \A t \in Slot : Seen(t)'
  <2>1. ASSUME NEW x \in Wallet, Locked(x) /\ Linked(x)
        PROVE  Linked(x)' /\ links'[x].owner = links[x].owner
    BY <1>1, <1>4, <2>1 DEF Linked
  <2> QED
    BY <1>1, <1>5, <2>1, HeldStay
<1>7. Custodial(w)' /\ Shown(w)'
  BY <1>2, <1>4 DEF Custodial, Shown, Linked
<1>8. Given(w)'
  <2>1. CASE links[w].tier = 1
    <3>1. /\ w \notin misused' /\ custody' = custody \ {<<o, w>>}
          /\ \A p \in Owner : <<p, w>> \in custody => p = o
      BY <1>1, <1>2, <2>1 DEF Custodial, Belongs
    <3> QED
      BY <3>1 DEF Given
  <2>2. CASE links[w].tier # 1
    BY <1>1, <1>2, <2>2 DEF Given
  <2> QED
    BY <2>1, <2>2
<1> QED
  BY <1>1, <1>2, <1>3, <1>4, <1>5, <1>6, <1>7, <1>8, OneWalletMoves

LEMMA UnlinkKeeps ==
  ASSUME WalletsSound, NEW s \in Slot, NEW o \in Owner, NEW w \in Wallet, Unlink(s, o, w)
  PROVE  WalletsSound'
<1>1. /\ ~Locked(w) /\ AtOnce(s) /\ links' = [links EXCEPT ![w] = NoLink]
      /\ UNCHANGED <<custody, blobs, consents, proofs, upgraded, late, keyless, misused>>
  BY DEF Unlink, walletHistory
<1>2. WalletsTypeOK /\ misused \subseteq upgraded /\ Given(w)
  BY DEF WalletsSound
<1>3. /\ Requested(WalletStatement)' /\ OthersWait(s) /\ Asked(s)'
      /\ \A t \in Slot : \A x : (Storing(t, x)' <=> Storing(t, x))
      /\ \A x : ~Storing(s, x)
  <2>1. todo[s] = <<>>
    BY <1>1 DEF AtOnce, Begin
  <2> QED
    BY <1>1, <2>1, AtOnceMovesOne DEF Storing, At
<1>4. /\ links' \in [Wallet -> WalletLink]
      /\ links'[w].tier = 0 /\ links'[w].owner = links'[w].proof
      /\ \A x \in Wallet \ {w} : links'[x] = links[x]
  BY <1>1, <1>2 DEF WalletsTypeOK, WalletLink, NoLink
<1>4a. ~Linked(w)'
  BY <1>1, <1>2 DEF Linked, WalletsTypeOK
<1>5. WalletsTypeOK'
  BY <1>1, <1>2, <1>4 DEF WalletsTypeOK, WalletLink
<1>6. \A t \in Slot : Seen(t)'
  <2>1. ASSUME NEW x \in Wallet, Locked(x) /\ Linked(x)
        PROVE  Linked(x)' /\ links'[x].owner = links[x].owner
    BY <1>1, <1>4, <2>1 DEF Linked
  <2> QED
    BY <1>1, <1>5, <2>1, HeldStay
<1>7. Custodial(w)' /\ Shown(w)' /\ Given(w)'
  BY <1>1, <1>2, <1>4, <1>4a DEF Custodial, Shown, Linked, Given
<1> QED
  BY <1>1, <1>2, <1>3, <1>4, <1>5, <1>6, <1>7, OneWalletMoves

\* Of all links only the mark of the primary one changes.
LEMMA SetPrimaryKeeps ==
  ASSUME WalletsSound, NEW s \in Slot, NEW o \in Owner, NEW w \in Wallet, SetPrimary(s, o, w)
  PROVE  WalletsSound'
<1>1. /\ AtOnce(s)
      /\ links' = [x \in Wallet |->
           IF Belongs(x, o) THEN [links[x] EXCEPT !.primary = (x = w)] ELSE links[x]]
      /\ UNCHANGED <<custody, blobs, consents, proofs, upgraded, late, keyless, misused>>
  BY DEF SetPrimary, walletHistory
<1>2. WalletsTypeOK /\ misused \subseteq upgraded
  BY DEF WalletsSound
<1>3. /\ Requested(WalletStatement)' /\ OthersWait(s) /\ Asked(s)'
      /\ \A t \in Slot : \A x : (Storing(t, x)' <=> Storing(t, x)) /\ (todo[t] # <<>> => mem'[t] = mem[t])
  BY <1>1, AtOnceMovesOne
<1>4. ASSUME NEW x \in Wallet
      PROVE  /\ links'[x] \in WalletLink
             /\ links'[x].owner = links[x].owner /\ links'[x].proof = links[x].proof
             /\ links'[x].tier = links[x].tier /\ links'[x].blind = links[x].blind
  <2>1. links[x] \in WalletLink
    BY <1>2 DEF WalletsTypeOK, WalletLink
  <2>2. (x = w) \in BOOLEAN
    OBVIOUS
  <2>3. links'[x] = links[x] \/ links'[x] = [links[x] EXCEPT !.primary = (x = w)]
    BY <1>1
  <2> QED
    BY <2>1, <2>2, <2>3 DEF WalletLink
<1>5. WalletsTypeOK'
  BY <1>1, <1>2, <1>4 DEF WalletsTypeOK, WalletLink
<1>6. \A t \in Slot : Seen(t)'
  <2>1. ASSUME NEW x \in Wallet, Linked(x)
        PROVE  Linked(x)' /\ links'[x].owner = links[x].owner
    <3>1. CASE Belongs(x, o)
      <4>1. links[x].tier # 0
        BY <2>1 DEF WalletsSound, Shown, Linked
      <4> QED
        BY <1>4, <4>1 DEF Linked, NoLink
    <3>2. CASE ~Belongs(x, o)
      BY <1>1, <2>1, <3>2 DEF Linked
    <3> QED
      BY <3>1, <3>2
  <2> QED
    BY <1>1, <1>5, <2>1, HeldStay
<1>7. ASSUME NEW x \in Wallet PROVE (Custodial(x) /\ Given(x) /\ Shown(x))'
  <2>1. Custodial(x) /\ Given(x) /\ Shown(x)
    BY DEF WalletsSound
  <2>2. \A t \in Slot : Storing(t, x) => mem'[t] = mem[t]
    BY <1>3 DEF Storing, At
  <2>3. Custodial(x)'
    BY <1>1, <1>3, <1>4, <2>1, <2>2 DEF Custodial
  <2>4. Linked(x)' => Linked(x)
    BY <1>1 DEF Linked, Belongs
  <2> QED
    BY <1>1, <1>4, <2>1, <2>3, <2>4 DEF Given, Shown
<1> QED
  BY <1>1, <1>2, <1>3, <1>5, <1>6, <1>7, WalletOthers DEF WalletsSound

LEMMA WriteLinkKeeps ==
  ASSUME WalletsSound, NEW s \in Slot, WriteLink(s)
  PROVE  WalletsSound'
<1>0. SUFFICES ASSUME NEW w, w = mem[s].wallet, NEW o, o = mem[s].owner
               PROVE  WalletsSound'
  OBVIOUS
<1>1. /\ At(s, "link") /\ Pass(s)
      /\ links' = [links EXCEPT ![w] =
           IF Linked(w) THEN [links[w] EXCEPT !.proof = o, !.blind = mem[s].none]
           ELSE [owner |-> o, tier |-> 3, primary |-> FALSE, proof |-> o, blind |-> FALSE]]
      /\ proofs' = proofs \ {mem[s].proof}
      /\ UNCHANGED <<custody, blobs, consents, upgraded, late, keyless, misused>>
  BY <1>0 DEF WriteLink, walletHistory
<1>2. /\ WalletsTypeOK /\ Requested(WalletStatement) /\ Asked(s) /\ misused \subseteq upgraded
      /\ \A t \in Slot : Seen(t)
  BY DEF WalletsSound
<1>3. o \in Owner /\ w \in Wallet /\ mem[s].none \in BOOLEAN /\ Tail(todo[s]) = <<>>
  BY <1>0, <1>1, <1>2, WalletCourses DEF Linking
<1>4. Requested(WalletStatement)' /\ OthersWait(s) /\ todo'[s] = <<>>
  BY <1>1, <1>2, <1>3, PassMoves DEF Follows
<1>5. Asked(s)' /\ (\A x : ~At(s, x)') /\ ~At(s, "store")
  BY <1>1, <1>4 DEF Asked, At
<1>6. Custodial(w) /\ Given(w) /\ Shown(w)
  BY <1>3 DEF WalletsSound
<1>7. /\ links' \in [Wallet -> WalletLink]
      /\ \A x \in Wallet \ {w} : links'[x] = links[x]
      /\ links'[w].proof = o
      /\ Linked(w) => /\ links'[w].owner = links[w].owner /\ links'[w].tier = links[w].tier
                      /\ links'[w].blind = mem[s].none
      /\ ~Linked(w) => links'[w].owner = o /\ links'[w].tier = 3
  <2>1. links \in [Wallet -> WalletLink]
    BY <1>2 DEF WalletsTypeOK, WalletLink
  <2>2. CASE Linked(w)
    <3> DEFINE r == [links[w] EXCEPT !.proof = o, !.blind = mem[s].none]
    <3>1. links' = [links EXCEPT ![w] = r]
      BY <1>1, <2>2
    <3>2. /\ r \in WalletLink /\ r.proof = o /\ r.blind = mem[s].none
          /\ r.owner = links[w].owner /\ r.tier = links[w].tier
      BY <1>3, <2>1 DEF WalletLink
    <3> HIDE DEF r
    <3> QED
      BY <1>3, <2>1, <2>2, <3>1, <3>2
  <2>3. CASE ~Linked(w)
    <3> DEFINE r == [owner |-> o, tier |-> 3, primary |-> FALSE, proof |-> o, blind |-> FALSE]
    <3>1. links' = [links EXCEPT ![w] = r]
      BY <1>1, <2>3
    <3>2. r \in WalletLink /\ r.proof = o /\ r.owner = o /\ r.tier = 3
      BY <1>3 DEF WalletLink
    <3> HIDE DEF r
    <3> QED
      BY <1>3, <2>1, <2>3, <3>1, <3>2
  <2> QED
    BY <2>2, <2>3
<1>8. WalletsTypeOK'
  BY <1>1, <1>2, <1>7 DEF WalletsTypeOK, WalletLink
<1>9. ASSUME NEW t \in Slot PROVE Seen(t)'
  <2>1. CASE t = s
    BY <1>5, <2>1 DEF Seen, At
  <2>2. CASE t # s
    <3>1. (At(t, "link")' <=> At(t, "link")) /\ mem'[t] = mem[t] /\ Asked(t) /\ Seen(t)
      BY <1>2, <1>4, <2>2, WalletOthers DEF OthersWait, WalletsSound
    <3>2. At(t, "link") => mem[t].wallet \in Wallet
      BY <3>1, WalletCourses DEF Linking
    <3>3. \A x \in Wallet : Linked(x) => links'[x] # NoLink /\ links'[x].owner = links[x].owner
      <4> TAKE x \in Wallet
      <4>1. Linked(x) => links[x].tier # 0
        BY DEF WalletsSound, Shown, Linked
      <4> QED
        BY <1>7, <4>1 DEF Linked, NoLink
    <3> QED
      BY <3>1, <3>2, <3>3 DEF Seen, Belongs, Linked
  <2> QED
    BY <2>1, <2>2
<1>10. \A x : ~Storing(s, x) /\ ~Storing(s, x)'
  BY <1>5 DEF Storing
<1>11. \A t \in Slot : (Storing(t, w)' <=> Storing(t, w)) /\ (Storing(t, w) => mem'[t] = mem[t])
  BY <1>4, <1>10, WalletOthers DEF OthersWait, Storing, At
<1>12. Custodial(w)' /\ Given(w)'
  <2>1. CASE Linked(w)
    BY <1>1, <1>6, <1>7, <1>11, <2>1 DEF Custodial, Given
  <2>2. CASE ~Linked(w)
    BY <1>1, <1>6, <1>7, <2>2 DEF Custodial, Given
  <2> QED
    BY <2>1, <2>2
<1>13. Shown(w)'
  <2>1. CASE Linked(w) /\ ~mem[s].none
    <3>1. links[w].owner = o
      BY <1>0, <1>1, <1>2, <2>1 DEF Seen, Belongs
    <3> QED
      BY <1>6, <1>7, <2>1, <3>1 DEF Shown, Linked
  <2>2. CASE Linked(w) /\ mem[s].none
    BY <1>6, <1>7, <2>2 DEF Shown, Linked
  <2>3. CASE ~Linked(w)
    BY <1>7, <2>3 DEF Shown, Linked
  <2> QED
    BY <2>1, <2>2, <2>3
<1> QED
  BY <1>1, <1>2, <1>3, <1>4, <1>5, <1>7, <1>8, <1>9, <1>10, <1>12, <1>13, OneWalletMoves

\* Nothing is signed that was not late.
LEMMA SignKeeps ==
  ASSUME WalletsSound, NEW s \in Slot, Sign(s)
  PROVE  WalletsSound'
<1>0. SUFFICES ASSUME NEW w, w = mem[s].wallet, NEW o, o = mem[s].owner
               PROVE  WalletsSound'
  OBVIOUS
<1>1. /\ At(s, "sign") /\ Pass(s)
      /\ misused' = IF <<o, w>> \in custody /\ w \in upgraded THEN misused \cup {w} ELSE misused
      /\ UNCHANGED <<links, custody, blobs, consents, proofs, upgraded, late, keyless>>
  BY <1>0 DEF Sign, walletTables
<1>2. /\ WalletsTypeOK /\ Requested(WalletStatement) /\ Asked(s) /\ misused \subseteq upgraded
      /\ \A t \in Slot : Seen(t)
  BY DEF WalletsSound
<1>3. o \in Owner /\ w \in Wallet /\ Tail(todo[s]) = <<>>
  BY <1>0, <1>1, <1>2, WalletCourses DEF Signing
<1>4. Requested(WalletStatement)' /\ OthersWait(s) /\ todo'[s] = <<>>
  BY <1>1, <1>2, <1>3, PassMoves DEF Follows
<1>5. Asked(s)' /\ (\A x : ~At(s, x)') /\ ~At(s, "store")
  BY <1>1, <1>4 DEF Asked, At
<1>6. \A t \in Slot : Seen(t)'
  BY <1>1, <1>2, <1>4, <1>5, WalletOthers DEF Seen, Belongs, Linked, OthersWait
<1>7. Custodial(w) /\ Given(w) /\ Shown(w)
  BY <1>3 DEF WalletsSound
<1>8. \A x : ~Storing(s, x) /\ ~Storing(s, x)'
  BY <1>5 DEF Storing
<1>9. \A t \in Slot : (Storing(t, w)' <=> Storing(t, w)) /\ (Storing(t, w) => mem'[t] = mem[t])
  BY <1>4, <1>8, WalletOthers DEF OthersWait, Storing, At
<1>10. Custodial(w)' /\ Given(w)' /\ Shown(w)'
  BY <1>1, <1>3, <1>7, <1>9 DEF Custodial, Given, Shown, Linked
<1>11. WalletsTypeOK' /\ misused' \subseteq upgraded'
  BY <1>1, <1>2, <1>3 DEF WalletsTypeOK
<1> QED
  BY <1>1, <1>3, <1>4, <1>5, <1>6, <1>8, <1>10, <1>11, OneWalletMoves

LEMMA WalletFailsKeeps ==
  ASSUME WalletsSound, NEW s \in Slot, WalletFails(s)
  PROVE  WalletsSound'
<1>0. SUFFICES ASSUME NEW w, w = mem[s].wallet
               PROVE  WalletsSound'
  OBVIOUS
<1>1. /\ Answer(s) /\ keyless' = IF At(s, "store") THEN keyless \cup {w} ELSE keyless
      /\ UNCHANGED <<links, custody, blobs, consents, proofs, upgraded, late, misused>>
  BY <1>0 DEF WalletFails, walletTables
<1>2. /\ WalletsTypeOK /\ Requested(WalletStatement) /\ Asked(s) /\ misused \subseteq upgraded
      /\ \A t \in Slot : Seen(t)
  BY DEF WalletsSound
<1>3. Requested(WalletStatement)' /\ OthersWait(s) /\ todo'[s] = <<>>
  BY <1>1, <1>2, AnswerMoves
<1>4. Asked(s)' /\ (\A x : ~At(s, x)')
  BY <1>3 DEF Asked, At
<1>5. \A t \in Slot : Seen(t)'
  BY <1>1, <1>2, <1>3, <1>4, WalletOthers DEF Seen, Belongs, Linked, OthersWait
<1>6. CASE ~At(s, "store")
  BY <1>1, <1>2, <1>3, <1>4, <1>5, <1>6, AsideKeeps DEF WalletsTypeOK, walletHistory
<1>7. CASE At(s, "store")
  <2>1. w \in Wallet
    BY <1>0, <1>2, <1>7, WalletCourses DEF Provisioning
  <2>2. Custodial(w) /\ Given(w) /\ Shown(w)
    BY <2>1 DEF WalletsSound
  <2>3. \A t \in Slot : Storing(t, w)' => Storing(t, w) /\ mem'[t] = mem[t]
    BY <1>3, <1>4, WalletOthers DEF OthersWait, Storing, At
  <2>4. Custodial(w)' /\ Given(w)' /\ Shown(w)'
    BY <1>1, <1>7, <2>1, <2>2, <2>3 DEF Custodial, Given, Shown, Linked
  <2>5. WalletsTypeOK'
    BY <1>1, <1>2, <2>1 DEF WalletsTypeOK
  <2>6. \A x \in Wallet \ {w} : ~Storing(s, x) /\ ~Storing(s, x)'
    BY <1>0, <1>4 DEF Storing
  <2> QED
    BY <1>1, <1>2, <1>3, <1>4, <1>5, <1>7, <2>1, <2>4, <2>5, <2>6, OneWalletMoves
<1> QED
  BY <1>6, <1>7

THEOREM WalletsSoundAlways == WalletsSpec => []WalletsSound
<1>1. WalletsInit => WalletsSound
  <2> SUFFICES ASSUME WalletsInit PROVE WalletsSound
    OBVIOUS
  <2>1. Requested(WalletStatement) /\ \A s \in Slot : todo[s] = <<>>
    BY InitRequested DEF WalletsInit
  <2>2. WalletsTypeOK /\ \A w \in Wallet : links[w].tier = 0 /\ links[w].owner = links[w].proof
    BY DEF WalletsInit, WalletsTypeOK, NoLink
  <2> QED
    BY <2>1, <2>2 DEF WalletsInit, WalletsSound, Asked, Seen, At, Custodial, Given, Shown, Linked
<1>2. WalletsSound /\ [WalletsNext]_walletVars => WalletsSound'
  <2> SUFFICES ASSUME WalletsSound, [WalletsNext]_walletVars PROVE WalletsSound'
    OBVIOUS
  <2>1. CASE UNCHANGED walletVars
    <3>1. UNCHANGED <<todo, mem, links, custody, blobs, consents, proofs, upgraded, late, keyless, misused>>
      BY <2>1 DEF walletVars, walletTables, walletHistory, requests
    <3>2. WalletsTypeOK' /\ Requested(WalletStatement)' /\ misused' \subseteq upgraded'
      BY <3>1 DEF WalletsSound, WalletsTypeOK, Requested
    <3>3. \A s \in Slot : Asked(s)' /\ Seen(s)'
      BY <3>1 DEF WalletsSound, Asked, Seen, At, Belongs, Linked
    <3>4. \A w \in Wallet : (Custodial(w) /\ Given(w) /\ Shown(w))'
      BY <3>1 DEF WalletsSound, Custodial, Given, Shown, Linked, Storing, At
    <3> QED
      BY <3>2, <3>3, <3>4 DEF WalletsSound
  <2>2. CASE WalletsNext
    BY <2>2, AsidesKeep, ReadingsKeep, LapsesKeep, ProvisionKeeps, StoreKeyKeeps, TierChangeKeeps,
       UnlinkKeeps, SetPrimaryKeeps, WriteLinkKeeps, SignKeeps, WalletFailsKeeps DEF WalletsNext
  <2> QED
    BY <2>1, <2>2
<1> QED
  BY <1>1, <1>2, PTL DEF WalletsSpec

\* Links, keys, blobs, consents and challenges always have their types.
THEOREM WalletsTyped == WalletsSpec => []WalletsTypeOK
<1>1. WalletsSound => WalletsTypeOK
  BY DEF WalletsSound
<1> QED
  BY <1>1, WalletsSoundAlways, PTL

\* Whose a wallet is, and whether the server can sign with it, is what the tables
\* say, for any number of accounts, wallets and requests.
THEOREM WalletsAreHeld == WalletsSpec => []WalletsHold
<1>1. WalletsSound => WalletsHold
  <2> SUFFICES ASSUME WalletsSound PROVE WalletsHold
    OBVIOUS
  <2>1. CustodyMatchesTier
    <3>1. ASSUME NEW w \in Wallet, links[w].tier = 1
          PROVE  \/ <<links[w].owner, w>> \in custody \/ w \in keyless
                 \/ \E s \in Slot : At(s, "store") /\ mem[s].wallet = w
      BY <3>1 DEF WalletsSound, Custodial, Storing
    <3>2. ASSUME NEW w \in upgraded, (\E o \in Owner : <<o, w>> \in custody) \/ w \in misused
          PROVE  w \in late
      BY <3>2 DEF WalletsSound, WalletsTypeOK, Given
    <3> QED
      BY <3>1, <3>2 DEF CustodyMatchesTier
  <2>2. LinkShowsOwnersProof
    BY DEF WalletsSound, Shown, Linked, LinkShowsOwnersProof
  <2> QED
    BY <2>1, <2>2 DEF WalletsHold
<1> QED
  BY <1>1, WalletsSoundAlways, PTL

-----------------------------------------------------------------------------
(* Published keys.                                                         *)

KeysStatement == {"generate actor's", "generate service's", "read service's", "create epoch's"}
KeysCourse ==
  {<<>>, <<"generate actor's">>, <<"generate service's", "read service's">>,
   <<"read service's">>, <<"create epoch's">>}

\* What a request has found: the month it was made in, which is this or the
\* last one, and, of the server's own key, that there is one by now.
Sought(s) ==
  /\ todo[s] \in KeysCourse
  /\ todo[s] # <<>> => mem[s] \in [what : {"key"}, name : KeyNames, month : Nat \ {0}]
  /\ At(s, "create epoch's") =>
       /\ mem[s].name = epoch(mem[s].month)
       /\ mem[s].month = month \/ mem[s].month + 1 = month
  /\ At(s, "read service's") => stored[service] # 0

\* Nothing is known of a month to come.
Ahead(m) == stored[epoch(m)] = 0 /\ inMemory[epoch(m)] = 0 /\ published[epoch(m)] = {}

Excused(k) == (k = actor /\ actorsCrossed) \/ (k[1] = "epoch" /\ k \notin AcceptedEpochs)
OnlyStored(k) == published[k] \cup ({inMemory[k]} \ {0}) \subseteq {stored[k]}

KeysSound ==
  /\ Requested(KeysStatement) /\ \A s \in Slot : Sought(s)
  /\ minted \in Nat /\ month \in Nat \ {0} /\ actorsCrossed \in BOOLEAN
  /\ stored \in [KeyNames -> 0..minted] /\ inMemory \in [KeyNames -> 0..minted]
  /\ published \in [KeyNames -> SUBSET (1..minted)]
  /\ \A m \in 1..Months : m > month => Ahead(m)
  /\ \A k \in KeyNames : Excused(k) \/ OnlyStored(k)

LEMMA KeysCourses ==
  ASSUME NEW s, todo[s] \in KeysCourse
  PROVE  /\ At(s, "generate service's") => Tail(todo[s]) = <<"read service's">>
         /\ \A x : At(s, x) => x \in KeysStatement
<1>1. CASE todo[s] = <<>>
  BY <1>1 DEF At
<1>2. ASSUME NEW x, todo[s] = <<x>>
      PROVE  \A y : At(s, y) <=> y = x
  BY <1>2, ShortHeads DEF At
<1>3. CASE todo[s] = <<"generate service's", "read service's">>
  BY <1>3, ShortHeads DEF At, KeysStatement
<1>4. CASE todo[s] \in {<<"generate actor's">>, <<"read service's">>, <<"create epoch's">>}
  BY <1>2, <1>4 DEF KeysStatement
<1> QED
  BY <1>1, <1>3, <1>4 DEF KeysCourse

\* The names are distinct.
LEMMA KeyNamesApart ==
  /\ actor \in KeyNames /\ service \in KeyNames /\ actor # service
  /\ actor[1] = "actor" /\ service[1] = "service"
  /\ \A m : actor # epoch(m) /\ service # epoch(m) /\ epoch(m)[1] = "epoch"
  /\ \A m, n : epoch(m) = epoch(n) => m = n
  /\ \A m \in 1..Months : epoch(m) \in KeyNames
  /\ \A k \in KeyNames : k = actor \/ k = service \/ \E m \in 1..Months : k = epoch(m)
  /\ \A k \in KeyNames : k[1] = "epoch" => \E m \in 1..Months : k = epoch(m)
  /\ \A k \in KeyNames : k \in AcceptedEpochs => k[1] = "epoch"
BY DEF actor, service, epoch, KeyNames, AcceptedEpochs

LEMMA EpochsAccepted ==
  ASSUME NEW m \in 1..Months, month \in Nat \ {0}
  PROVE  epoch(m) \in AcceptedEpochs <=> (m = month \/ m + 1 = month)
<1>1. m \in Nat
  BY MonthsAssumption
<1> QED
  BY <1>1, KeyNamesApart DEF AcceptedEpochs

\* A step that leaves the month alone, and each key either as it was or as the
\* table has it.
LEMMA KeysMove ==
  ASSUME KeysSound, NEW s \in Slot, OthersWait(s), Requested(KeysStatement)', Sought(s)',
         minted' \in Nat, minted' >= minted, month' = month,
         actorsCrossed' \in BOOLEAN, actorsCrossed => actorsCrossed',
         stored' \in [KeyNames -> 0..minted'], inMemory' \in [KeyNames -> 0..minted'],
         published' \in [KeyNames -> SUBSET (1..minted')],
         stored[service] # 0 => stored'[service] # 0,
         \A k \in KeyNames :
           \/ k[1] = "epoch" /\ k \notin AcceptedEpochs
                /\ (stored[k] = 0 => stored'[k] = 0) /\ inMemory'[k] = inMemory[k] /\ published'[k] = published[k]
           \/ k = actor /\ actorsCrossed'
           \/ k \in {actor, service} \cup AcceptedEpochs /\ (OnlyStored(k) => OnlyStored(k)')
  PROVE  KeysSound'
<1>1. ASSUME NEW t \in Slot PROVE Sought(t)'
  <2>1. CASE t = s
    BY <2>1
  <2>2. CASE t # s
    <3>1. todo'[t] = todo[t] /\ mem'[t] = mem[t] /\ Sought(t)
      BY <2>2 DEF OthersWait, KeysSound
    <3>2. \A x : At(t, x)' <=> At(t, x)
      BY <3>1 DEF At
    <3> QED
      BY <3>1, <3>2 DEF Sought
  <2> QED
    BY <2>1, <2>2
<1>2. AcceptedEpochs' = AcceptedEpochs
  BY DEF AcceptedEpochs
<1>3. ASSUME NEW m \in 1..Months, m > month PROVE Ahead(m)'
  <2>1. Ahead(m) /\ month \in Nat \ {0} /\ m \in Nat
    BY <1>3, MonthsAssumption DEF KeysSound
  <2>2. epoch(m) \notin AcceptedEpochs
    BY <1>3, <2>1, EpochsAccepted
  <2>3. epoch(m) \in KeyNames /\ epoch(m) # actor /\ epoch(m) # service
    BY KeyNamesApart
  <2> QED
    BY <2>1, <2>2, <2>3 DEF Ahead
<1>4. ASSUME NEW k \in KeyNames PROVE (Excused(k) \/ OnlyStored(k))'
  <2>1. Excused(k) \/ OnlyStored(k)
    BY DEF KeysSound
  <2> QED
    BY <1>2, <2>1, KeyNamesApart DEF Excused
<1> QED
  BY <1>1, <1>3, <1>4 DEF KeysSound

LEMMA KeysAnswer ==
  ASSUME KeysSound, NEW s \in Slot, Answer(s)
  PROVE  Requested(KeysStatement)' /\ OthersWait(s) /\ Sought(s)'
<1>1. Requested(KeysStatement)' /\ OthersWait(s) /\ todo'[s] = <<>>
  BY AnswerMoves DEF KeysSound
<1> QED
  BY <1>1 DEF Sought, KeysCourse, At

LEMMA FindKeeps ==
  ASSUME KeysSound, NEW s \in Slot, NEW k \in KeyNames, Find(s, k)
  PROVE  KeysSound'
<1> DEFINE key == IF inMemory[k] # 0 THEN inMemory[k] ELSE stored[k]
<1>1. /\ minted \in Nat /\ month \in Nat \ {0} /\ actorsCrossed \in BOOLEAN
      /\ stored \in [KeyNames -> 0..minted] /\ inMemory \in [KeyNames -> 0..minted]
      /\ published \in [KeyNames -> SUBSET (1..minted)]
  BY DEF KeysSound
<1>2. /\ k \in {actor, service} \cup AcceptedEpochs /\ key # 0
      /\ published' = [published EXCEPT ![k] = @ \cup {key}]
      /\ inMemory' = IF Caches(k) THEN [inMemory EXCEPT ![k] = key] ELSE inMemory
      /\ UNCHANGED <<stored, minted, month, actorsCrossed>>
  BY DEF Find, Show, Remember
<1>3. key \in 1..minted
  BY <1>1, <1>2
<1>4. OnlyStored(k) => key = stored[k]
  BY DEF OnlyStored
<1> HIDE DEF key
<1>5. Requested(KeysStatement)' /\ OthersWait(s) /\ todo'[s] = <<>>
  BY AtOnceMoves DEF KeysSound, Find
<1>6. Sought(s)'
  BY <1>5 DEF Sought, KeysCourse, At
<1>7. /\ inMemory' \in [KeyNames -> 0..minted'] /\ published' \in [KeyNames -> SUBSET (1..minted')]
  BY <1>1, <1>2, <1>3
<1>8. \A n \in KeyNames \ {k} : published'[n] = published[n] /\ inMemory'[n] = inMemory[n]
  BY <1>1, <1>2
<1>9. OnlyStored(k) => OnlyStored(k)'
  <2>1. inMemory'[k] \in {key, inMemory[k]} /\ published'[k] = published[k] \cup {key}
    BY <1>1, <1>2
  <2> QED
    BY <1>2, <1>4, <2>1 DEF OnlyStored
<1>10. \A n \in KeyNames : OnlyStored(n) => OnlyStored(n)'
  BY <1>2, <1>8, <1>9 DEF OnlyStored
<1>11. \A n \in KeyNames : n \in {actor, service} \cup AcceptedEpochs \/ (n[1] = "epoch" /\ n \notin AcceptedEpochs)
  BY KeyNamesApart
<1>12. \A n \in KeyNames : (n[1] = "epoch" /\ n \notin AcceptedEpochs) => n # k
  BY <1>2, KeyNamesApart
<1> QED
  BY <1>1, <1>2, <1>5, <1>6, <1>7, <1>8, <1>10, <1>11, <1>12, KeysMove

LEMMA MissKeeps ==
  ASSUME KeysSound, NEW s \in Slot, NEW k \in KeyNames, Miss(s, k)
  PROVE  KeysSound'
<1> DEFINE m == [what |-> "key", name |-> k, month |-> month]
           steps == CASE k = actor -> <<"generate actor's">>
                      [] k = service -> <<"generate service's", "read service's">>
                      [] OTHER -> <<"create epoch's">>
<1>1. Begin(s, steps, m) /\ UNCHANGED <<keyTables, published, actorsCrossed>>
      /\ k \in {actor, service, epoch(month)}
  BY DEF Miss
<1>2. m \in [what : {"key"}, name : KeyNames, month : Nat \ {0}] /\ m.month = month /\ m.name = k
  BY DEF KeysSound
<1>3. \/ k # actor /\ k # service /\ steps = <<"create epoch's">>
      \/ steps \in {<<"generate actor's">>, <<"generate service's", "read service's">>}
  OBVIOUS
<1> HIDE DEF steps, m
<1>4. steps \in Seq(KeysStatement) /\ steps # <<>> /\ Head(steps) # "read service's"
      /\ (Head(steps) = "create epoch's" => k # actor /\ k # service)
  <2>1. CASE steps = <<"generate service's", "read service's">>
    <3>1. "generate service's" \in KeysStatement /\ "read service's" \in KeysStatement
      BY DEF KeysStatement
    <3>2. <<"generate service's", "read service's">> \in Seq(KeysStatement)
      BY <3>1, ShortSeqs
    <3>3. Head(steps) = "generate service's" /\ steps # <<>>
      BY <2>1, ShortHeads
    <3> QED
      BY <2>1, <3>2, <3>3
  <2>2. ASSUME NEW x \in {"generate actor's", "create epoch's"}, steps = <<x>>
        PROVE  steps \in Seq(KeysStatement) /\ steps # <<>> /\ Head(steps) = x
    BY <2>2, ShortSeqs, ShortHeads DEF KeysStatement
  <2> QED
    BY <1>3, <2>1, <2>2
<1>5. Requested(KeysStatement)' /\ OthersWait(s) /\ todo'[s] = steps /\ mem'[s] = m
  BY <1>1, <1>4, BeginMoves DEF KeysSound
<1>6. \A x : At(s, x)' <=> x = Head(steps)
  BY <1>4, <1>5 DEF At
<1>7. steps \in KeysCourse
  BY <1>3 DEF KeysCourse
<1>8. month' = month
  BY <1>1 DEF keyTables
<1>9. Sought(s)'
  BY <1>1, <1>2, <1>4, <1>5, <1>6, <1>7, <1>8 DEF Sought
<1>10. \A n \in KeyNames : n \in {actor, service} \cup AcceptedEpochs \/ (n[1] = "epoch" /\ n \notin AcceptedEpochs)
  BY KeyNamesApart
<1>11. \A n \in KeyNames : OnlyStored(n) => OnlyStored(n)'
  BY <1>1 DEF OnlyStored, keyTables
<1> QED
  BY <1>1, <1>5, <1>9, <1>10, <1>11, KeysMove DEF keyTables, KeysSound

LEMMA GenerateActorKeeps ==
  ASSUME KeysSound, NEW s \in Slot, GenerateActorKey(s)
  PROVE  KeysSound'
<1>1. /\ minted \in Nat /\ month \in Nat \ {0} /\ actorsCrossed \in BOOLEAN
      /\ stored \in [KeyNames -> 0..minted] /\ inMemory \in [KeyNames -> 0..minted]
      /\ published \in [KeyNames -> SUBSET (1..minted)]
  BY DEF KeysSound
<1> DEFINE new == minted + 1
<1>2. /\ minted' = new /\ month' = month
      /\ stored' = [stored EXCEPT ![actor] = IF @ = 0 THEN new ELSE @]
      /\ published' = [published EXCEPT ![actor] = @ \cup {new}]
      /\ inMemory' = [inMemory EXCEPT ![actor] = new]
      /\ actorsCrossed' = (actorsCrossed \/ stored[actor] # 0)
  BY KeyNamesApart DEF GenerateActorKey, Insert, Show, Remember, Caches
<1>3. new \in Nat /\ new > minted /\ new \in 1..new /\ 0..minted \subseteq 0..new /\ 1..minted \subseteq 1..new
  BY <1>1
<1> HIDE DEF new
<1>4. /\ stored' \in [KeyNames -> 0..new] /\ inMemory' \in [KeyNames -> 0..new]
      /\ published' \in [KeyNames -> SUBSET (1..new)]
      /\ \A n \in KeyNames \ {actor} : stored'[n] = stored[n] /\ inMemory'[n] = inMemory[n] /\ published'[n] = published[n]
      /\ inMemory'[actor] = new /\ published'[actor] = published[actor] \cup {new}
      /\ stored'[actor] = IF stored[actor] = 0 THEN new ELSE stored[actor]
  <2>1. actor \in KeyNames /\ new \in 0..new
    BY <1>3, KeyNamesApart
  <2>2. stored \in [KeyNames -> 0..new] /\ inMemory \in [KeyNames -> 0..new] /\ published \in [KeyNames -> SUBSET (1..new)]
    BY <1>1, <1>3
  <2> QED
    BY <1>2, <1>3, <2>1, <2>2
<1>5. Requested(KeysStatement)' /\ OthersWait(s) /\ Sought(s)'
  BY KeysAnswer DEF GenerateActorKey
<1>6. actorsCrossed' \/ (OnlyStored(actor) => OnlyStored(actor)')
  <2> SUFFICES ASSUME stored[actor] = 0, OnlyStored(actor) PROVE OnlyStored(actor)'
    BY <1>2
  <2>1. published[actor] \subseteq 1..minted /\ published[actor] \subseteq {0}
    BY <1>1, KeyNamesApart DEF OnlyStored
  <2>2. 0 \notin 1..minted
    BY <1>1
  <2>3. published[actor] = {}
    BY <2>1, <2>2
  <2> QED
    BY <1>4, <2>3 DEF OnlyStored
<1>7. \A n \in KeyNames \ {actor} : OnlyStored(n) => OnlyStored(n)'
  BY <1>4 DEF OnlyStored
<1>8. \A n \in KeyNames : n \in {actor, service} \cup AcceptedEpochs \/ (n[1] = "epoch" /\ n \notin AcceptedEpochs)
  BY KeyNamesApart
<1>9. /\ actorsCrossed' \in BOOLEAN /\ (actorsCrossed => actorsCrossed')
      /\ stored'[service] = stored[service] /\ minted' >= minted /\ minted' \in Nat
      /\ actor[1] # "epoch"
  BY <1>1, <1>2, <1>3, <1>4, KeyNamesApart
<1>10. ASSUME NEW k \in KeyNames
       PROVE  \/ k[1] = "epoch" /\ k \notin AcceptedEpochs
                 /\ (stored[k] = 0 => stored'[k] = 0) /\ inMemory'[k] = inMemory[k] /\ published'[k] = published[k]
              \/ k = actor /\ actorsCrossed'
              \/ k \in {actor, service} \cup AcceptedEpochs /\ (OnlyStored(k) => OnlyStored(k)')
  BY <1>4, <1>6, <1>7, <1>8, <1>9
<1> QED
  BY <1>2, <1>4, <1>5, <1>9, <1>10, KeysMove

LEMMA GenerateServiceKeeps ==
  ASSUME KeysSound, NEW s \in Slot, GenerateServiceKey(s)
  PROVE  KeysSound'
<1>1. /\ minted \in Nat /\ month \in Nat \ {0} /\ actorsCrossed \in BOOLEAN
      /\ stored \in [KeyNames -> 0..minted] /\ inMemory \in [KeyNames -> 0..minted]
      /\ published \in [KeyNames -> SUBSET (1..minted)]
  BY DEF KeysSound
<1> DEFINE new == minted + 1
<1>2. /\ minted' = new /\ At(s, "generate service's") /\ Pass(s)
      /\ stored' = [stored EXCEPT ![service] = IF @ = 0 THEN new ELSE @]
      /\ UNCHANGED <<inMemory, month, published, actorsCrossed>>
  BY DEF GenerateServiceKey, Insert
<1>3. new \in Nat /\ new > minted /\ 0..minted \subseteq 0..new /\ 1..minted \subseteq 1..new
  BY <1>1
<1>4. new \in 0..new /\ new # 0
  BY <1>1
<1> HIDE DEF new
<1>5. /\ stored' \in [KeyNames -> 0..new] /\ inMemory' \in [KeyNames -> 0..new]
      /\ published' \in [KeyNames -> SUBSET (1..new)]
      /\ \A n \in KeyNames \ {service} : stored'[n] = stored[n]
      /\ stored'[service] = IF stored[service] = 0 THEN new ELSE stored[service]
  <2>1. stored \in [KeyNames -> 0..new] /\ inMemory \in [KeyNames -> 0..new] /\ published \in [KeyNames -> SUBSET (1..new)]
    BY <1>1, <1>3
  <2> QED
    BY <1>2, <1>3, <1>4, <2>1, KeyNamesApart
<1>6. /\ Requested(KeysStatement)' /\ OthersWait(s) /\ todo'[s] = <<"read service's">> /\ mem'[s] = mem[s]
  <2>1. todo[s] \in KeysCourse /\ Requested(KeysStatement)
    BY DEF KeysSound, Sought
  <2>2. Tail(todo[s]) = <<"read service's">> /\ Tail(todo[s]) # <<>>
    BY <1>2, <2>1, KeysCourses, ShortHeads
  <2>3. Requested(KeysStatement)' /\ OthersWait(s) /\ todo'[s] = Tail(todo[s])
    BY <1>2, <2>1, PassMoves DEF Follows
  <2> QED
    BY <1>2, <2>1, <2>2, <2>3 DEF Pass, Turn, Requested
<1>7. Sought(s)'
  <2>1. \A x : At(s, x)' <=> x = "read service's"
    BY <1>6, ShortHeads DEF At
  <2>2. mem[s] \in [what : {"key"}, name : KeyNames, month : Nat \ {0}]
    BY <1>2 DEF KeysSound, Sought, At
  <2>3. stored'[service] # 0
    BY <1>4, <1>5
  <2> QED
    BY <1>6, <2>1, <2>2, <2>3 DEF Sought, KeysCourse
<1>8. OnlyStored(service) => OnlyStored(service)'
  <2>1. published[service] \subseteq 1..minted /\ 0 \notin 1..minted
    BY <1>1, KeyNamesApart
  <2> QED
    BY <1>2, <1>5, <2>1 DEF OnlyStored
<1>9. \A n \in KeyNames \ {service} : OnlyStored(n) => OnlyStored(n)'
  BY <1>2, <1>5 DEF OnlyStored
<1>10. \A n \in KeyNames : n \in {actor, service} \cup AcceptedEpochs \/ (n[1] = "epoch" /\ n \notin AcceptedEpochs)
  BY KeyNamesApart
<1>11. /\ actorsCrossed' \in BOOLEAN /\ (actorsCrossed => actorsCrossed')
      /\ (stored[service] # 0 => stored'[service] # 0) /\ minted' >= minted /\ minted' \in Nat
      /\ service[1] # "epoch"
  <2>1. minted' \in Nat /\ minted' >= minted
    <3>1. minted' = new /\ minted \in Nat
      BY <1>1, <1>2
    <3>2. new \in Nat /\ new > minted
      BY <1>3
    <3> QED
      BY <3>1, <3>2
  <2>2. stored[service] # 0 => stored'[service] # 0
    BY <1>5
  <2> QED
    BY <1>1, <1>2, <2>1, <2>2, KeyNamesApart
<1>12. ASSUME NEW k \in KeyNames
       PROVE  \/ k[1] = "epoch" /\ k \notin AcceptedEpochs
                 /\ (stored[k] = 0 => stored'[k] = 0) /\ inMemory'[k] = inMemory[k] /\ published'[k] = published[k]
              \/ k = actor /\ actorsCrossed'
              \/ k \in {actor, service} \cup AcceptedEpochs /\ (OnlyStored(k) => OnlyStored(k)')
  BY <1>2, <1>5, <1>8, <1>9, <1>10, <1>11
<1> QED
  BY <1>2, <1>5, <1>6, <1>7, <1>11, <1>12, KeysMove

LEMMA ReadServiceKeeps ==
  ASSUME KeysSound, NEW s \in Slot, ReadServiceKey(s)
  PROVE  KeysSound'
<1>1. /\ minted \in Nat /\ month \in Nat \ {0} /\ actorsCrossed \in BOOLEAN
      /\ stored \in [KeyNames -> 0..minted] /\ inMemory \in [KeyNames -> 0..minted]
      /\ published \in [KeyNames -> SUBSET (1..minted)]
      /\ stored[service] # 0 /\ service \in KeyNames
  BY KeyNamesApart DEF KeysSound, Sought, ReadServiceKey
<1>2. /\ published' = [published EXCEPT ![service] = @ \cup {stored[service]}]
      /\ UNCHANGED <<stored, inMemory, minted, month, actorsCrossed>>
  BY DEF ReadServiceKey, Show, keyTables
<1>3. stored[service] \in 1..minted
  BY <1>1
<1>4. published' \in [KeyNames -> SUBSET (1..minted')]
  BY <1>1, <1>2, <1>3
<1>5. Requested(KeysStatement)' /\ OthersWait(s) /\ Sought(s)'
  BY KeysAnswer DEF ReadServiceKey
<1>6. \A n \in KeyNames : n # service => published'[n] = published[n]
  BY <1>1, <1>2
<1>7. \A n \in KeyNames : OnlyStored(n) => OnlyStored(n)'
  BY <1>1, <1>2 DEF OnlyStored
<1>8. \A n \in KeyNames : n \in {actor, service} \cup AcceptedEpochs \/ (n[1] = "epoch" /\ n \notin AcceptedEpochs)
  BY KeyNamesApart
<1>9. service[1] # "epoch" /\ minted' >= minted
  BY <1>1, <1>2, KeyNamesApart
<1> QED
  BY <1>1, <1>2, <1>4, <1>5, <1>6, <1>7, <1>8, <1>9, KeysMove

LEMMA CreateEpochKeeps ==
  ASSUME KeysSound, NEW s \in Slot, CreateEpochKey(s)
  PROVE  KeysSound'
<1> DEFINE key == EpochKey(mem[s].name)
<1>1. /\ minted \in Nat /\ month \in Nat \ {0} /\ actorsCrossed \in BOOLEAN
      /\ stored \in [KeyNames -> 0..minted] /\ inMemory \in [KeyNames -> 0..minted]
      /\ published \in [KeyNames -> SUBSET (1..minted)]
  BY DEF KeysSound
<1> SUFFICES ASSUME NEW k, k = mem[s].name PROVE KeysSound'
  OBVIOUS
<1>2. /\ k \in KeyNames /\ k \in AcceptedEpochs /\ k # service /\ k # actor /\ k[1] = "epoch"
  <2> DEFINE m == mem[s].month
  <2>1. /\ k \in KeyNames /\ m \in Nat \ {0} /\ k = epoch(m) /\ (m = month \/ m + 1 = month)
    BY DEF CreateEpochKey, KeysSound, Sought, At
  <2> HIDE DEF m
  <2>2. PICK n \in 1..Months : k = epoch(n)
    BY <2>1, KeyNamesApart
  <2>3. n = m
    BY <2>1, <2>2, KeyNamesApart
  <2> QED
    BY <1>1, <2>1, <2>2, <2>3, EpochsAccepted, KeyNamesApart
<1> SUFFICES ASSUME NEW new, new = EpochKey(k) PROVE KeysSound'
  OBVIOUS
<1>3. /\ published' = [published EXCEPT ![k] = @ \cup {new}]
      /\ inMemory' = [inMemory EXCEPT ![k] = new]
      /\ month' = month /\ actorsCrossed' = actorsCrossed
      /\ StoreEpochKey(k)
  BY <1>2 DEF CreateEpochKey, Show, Remember, Caches
<1>4. /\ minted' \in Nat /\ minted' >= minted /\ new \in 1..minted'
      /\ stored' \in [KeyNames -> 0..minted'] /\ stored'[k] = new
      /\ \A n \in KeyNames \ {k} :
           \/ stored'[n] = stored[n]
           \/ n \notin {actor, service} \cup AcceptedEpochs /\ stored'[n] = 0
  <2>1. CASE stored[k] # 0
    BY <1>1, <1>2, <1>3, <2>1 DEF StoreEpochKey, EpochKey
  <2>2. CASE stored[k] = 0
    <3>1. /\ minted' = minted + 1 /\ new = minted + 1
          /\ stored' = [n \in KeyNames |->
               IF n = k THEN minted + 1
               ELSE IF n \in {actor, service} \cup AcceptedEpochs THEN stored[n] ELSE 0]
      BY <1>3, <2>2 DEF StoreEpochKey, EpochKey
    <3>2. \A n \in KeyNames : stored[n] \in 0..minted
      BY <1>1
    <3>3. 0..minted \subseteq 0..minted + 1 /\ minted + 1 \in 0..minted + 1 /\ 0 \in 0..minted + 1
          /\ minted + 1 \in 1..minted + 1
      BY <1>1
    <3> QED
      BY <1>1, <1>2, <3>1, <3>2, <3>3
  <2> QED
    BY <2>1, <2>2
<1>5. /\ inMemory' \in [KeyNames -> 0..minted'] /\ published' \in [KeyNames -> SUBSET (1..minted')]
      /\ inMemory'[k] = new /\ published'[k] = published[k] \cup {new}
      /\ \A n \in KeyNames \ {k} : inMemory'[n] = inMemory[n] /\ published'[n] = published[n]
  <2>1. 0..minted \subseteq 0..minted' /\ 1..minted \subseteq 1..minted' /\ new \in 0..minted'
    BY <1>1, <1>4
  <2>2. inMemory \in [KeyNames -> 0..minted'] /\ published \in [KeyNames -> SUBSET (1..minted')]
    BY <1>1, <2>1
  <2> QED
    BY <1>2, <1>3, <1>4, <2>1, <2>2
<1>6. Requested(KeysStatement)' /\ OthersWait(s) /\ Sought(s)'
  BY KeysAnswer DEF CreateEpochKey
<1>7. OnlyStored(k) => OnlyStored(k)'
  <2>1. stored[k] # 0 => new = stored[k]
    BY DEF EpochKey
  <2>2. published[k] \subseteq 1..minted /\ 0 \notin 1..minted
    BY <1>1, <1>2
  <2> QED
    BY <1>4, <1>5, <2>1, <2>2 DEF OnlyStored
<1>8. \A n \in KeyNames : n \in {actor, service} \cup AcceptedEpochs \/ (n[1] = "epoch" /\ n \notin AcceptedEpochs)
  BY KeyNamesApart
<1>9. ASSUME NEW n \in KeyNames
      PROVE  \/ n[1] = "epoch" /\ n \notin AcceptedEpochs
                /\ (stored[n] = 0 => stored'[n] = 0) /\ inMemory'[n] = inMemory[n] /\ published'[n] = published[n]
             \/ n = actor /\ actorsCrossed'
             \/ n \in {actor, service} \cup AcceptedEpochs /\ (OnlyStored(n) => OnlyStored(n)')
  <2>1. CASE n = k
    BY <1>2, <1>7, <2>1
  <2>2. CASE n # k /\ n \in {actor, service} \cup AcceptedEpochs
    BY <1>4, <1>5, <2>2 DEF OnlyStored
  <2>3. CASE n # k /\ n \notin {actor, service} \cup AcceptedEpochs
    BY <1>4, <1>5, <1>8, <2>3
  <2> QED
    BY <2>1, <2>2, <2>3
<1>10. stored[service] # 0 => stored'[service] # 0
  BY <1>2, <1>4, KeyNamesApart
<1> QED
  BY <1>1, <1>3, <1>4, <1>5, <1>6, <1>9, <1>10, KeysMove

LEMMA NextMonthKeeps ==
  ASSUME KeysSound, NextMonth
  PROVE  KeysSound'
<1>1. /\ minted \in Nat /\ month \in Nat \ {0} /\ month' = month + 1
      /\ UNCHANGED <<requests, stored, inMemory, minted, published, actorsCrossed>>
  BY DEF KeysSound, NextMonth
<1>2. ASSUME NEW s \in Slot PROVE Sought(s)'
  <2>1. Sought(s) /\ todo' = todo /\ mem' = mem /\ stored' = stored
    BY <1>1 DEF KeysSound, requests
  <2>2. \A x : At(s, x)' <=> At(s, x)
    BY <2>1 DEF At
  <2>3. At(s, "create epoch's") => mem[s].month = month
    <3>1. mem[s] \in [what : {"key"}, name : KeyNames, month : Nat \ {0}] => "month" \in DOMAIN mem[s]
      OBVIOUS
    <3> QED
      BY <2>1, <3>1 DEF NextMonth, At, Sought
  <2> QED
    BY <1>1, <2>1, <2>2, <2>3 DEF Sought
<1>3. \A m \in 1..Months : m > month' => Ahead(m)'
  <2> TAKE m \in 1..Months
  <2>1. m \in Nat
    BY MonthsAssumption
  <2>2. m > month + 1 => m > month
    BY <1>1, <2>1
  <2> QED
    BY <1>1, <2>2 DEF KeysSound, Ahead
<1>4. ASSUME NEW k \in KeyNames PROVE (Excused(k) \/ OnlyStored(k))'
  <2>1. OnlyStored(k) => OnlyStored(k)'
    BY <1>1 DEF OnlyStored
  <2>2. CASE k[1] # "epoch"
    BY <1>1, <2>1, <2>2 DEF KeysSound, Excused
  <2>3. CASE k[1] = "epoch"
    <3>1. PICK m \in 1..Months : k = epoch(m)
      BY <2>3, KeyNamesApart
    <3>2. m \in Nat /\ k # actor
      BY <3>1, MonthsAssumption, KeyNamesApart
    <3>3. k \in AcceptedEpochs <=> (m = month \/ m + 1 = month)
      BY <1>1, <3>1, EpochsAccepted
    <3>4. (k \in AcceptedEpochs)' <=> (m = month + 1 \/ m + 1 = month + 1)
      <4>1. AcceptedEpochs' = {epoch(n) : n \in {month, month + 1} \cap (1..Months)}
        BY <1>1 DEF AcceptedEpochs
      <4> QED
        BY <1>1, <3>1, <3>2, <4>1, KeyNamesApart
    <3>5. CASE m = month + 1
      <4>1. Ahead(m)
        BY <1>1, <3>2, <3>5 DEF KeysSound
      <4>2. OnlyStored(k)
        BY <3>1, <4>1 DEF Ahead, OnlyStored
      <4> QED
        BY <2>1, <4>2
    <3>6. CASE m = month
      BY <2>1, <3>2, <3>3, <3>6 DEF KeysSound, Excused
    <3>7. CASE m # month + 1 /\ m # month
      BY <1>1, <2>3, <3>2, <3>4, <3>7 DEF Excused
    <3> QED
      BY <3>5, <3>6, <3>7
  <2> QED
    BY <2>2, <2>3
<1> QED
  BY <1>1, <1>2, <1>3, <1>4 DEF KeysSound, requests, Requested

LEMMA RestartKeeps ==
  ASSUME KeysSound, KeysRestart
  PROVE  KeysSound'
<1>1. /\ inMemory' = [k \in KeyNames |-> 0] /\ minted \in Nat
      /\ todo' = [s \in Slot |-> <<>>] /\ mem' = [s \in Slot |-> Nothing]
      /\ UNCHANGED <<stored, minted, month, published, actorsCrossed>>
  BY DEF KeysRestart, KeysSound
<1>2. Requested(KeysStatement)' /\ \A s \in Slot : Sought(s)'
  BY <1>1 DEF Requested, Sought, KeysCourse, At
<1>3. inMemory' \in [KeyNames -> 0..minted']
  BY <1>1
<1>4. \A m \in 1..Months : m > month => Ahead(m)'
  BY <1>1, KeyNamesApart DEF KeysSound, Ahead
<1>5. \A k \in KeyNames : (Excused(k) \/ OnlyStored(k))'
  BY <1>1 DEF KeysSound, Excused, OnlyStored, AcceptedEpochs
<1> QED
  BY <1>1, <1>2, <1>3, <1>4, <1>5 DEF KeysSound

LEMMA KeysFailKeeps ==
  ASSUME KeysSound, NEW s \in Slot, KeysFail(s)
  PROVE  KeysSound'
<1>1. Requested(KeysStatement)' /\ OthersWait(s) /\ Sought(s)'
  BY KeysAnswer DEF KeysFail
<1>2. \A n \in KeyNames : n \in {actor, service} \cup AcceptedEpochs \/ (n[1] = "epoch" /\ n \notin AcceptedEpochs)
  BY KeyNamesApart
<1>3. UNCHANGED <<stored, inMemory, minted, month, published, actorsCrossed>> /\ minted >= minted
  BY DEF KeysFail, keyTables, KeysSound
<1>4. \A n \in KeyNames : OnlyStored(n) => OnlyStored(n)'
  BY <1>3 DEF OnlyStored
<1> QED
  BY <1>1, <1>2, <1>3, <1>4, KeysMove DEF KeysSound

LEMMA InitKeysSound == PublishedKeysInit => KeysSound
<1> SUFFICES ASSUME PublishedKeysInit PROVE KeysSound
  OBVIOUS
<1>1. Requested(KeysStatement) /\ \A s \in Slot : todo[s] = <<>>
  BY InitRequested DEF PublishedKeysInit
<1>2. \A s \in Slot : Sought(s)
  BY <1>1 DEF Sought, KeysCourse, At
<1>3. \A k \in KeyNames : OnlyStored(k)
  BY DEF PublishedKeysInit, OnlyStored
<1>4. \A m \in 1..Months : Ahead(m)
  BY KeyNamesApart DEF PublishedKeysInit, Ahead
<1>5. /\ minted = 0 /\ month = 1 /\ actorsCrossed = FALSE /\ 0 \in 0..0
      /\ stored = [k \in KeyNames |-> 0] /\ inMemory = [k \in KeyNames |-> 0]
      /\ published = [k \in KeyNames |-> {}]
  BY DEF PublishedKeysInit
<1>6. /\ stored \in [KeyNames -> 0..minted] /\ inMemory \in [KeyNames -> 0..minted]
      /\ published \in [KeyNames -> SUBSET (1..minted)]
  BY <1>5
<1>7. minted \in Nat /\ month \in Nat \ {0} /\ actorsCrossed \in BOOLEAN
  <2>1. minted = 0 /\ month = 1 /\ actorsCrossed = FALSE
    BY <1>5
  <2>2. minted \in Nat /\ month \in Nat \ {0}
    BY <2>1
  <2>3. actorsCrossed \in BOOLEAN
    BY <2>1
  <2> QED
    BY <2>2, <2>3
<1> QED
  BY <1>1, <1>2, <1>3, <1>4, <1>6, <1>7 DEF KeysSound

LEMMA NextKeysSound == KeysSound /\ [PublishedKeysNext]_publishedKeysVars => KeysSound'
<1> SUFFICES ASSUME KeysSound, [PublishedKeysNext]_publishedKeysVars PROVE KeysSound'
  OBVIOUS
<1>1. CASE UNCHANGED publishedKeysVars
  BY <1>1 DEF publishedKeysVars, keyTables, requests, KeysSound, Requested, Sought, At, Ahead, Excused,
              OnlyStored, AcceptedEpochs
<1>2. CASE PublishedKeysNext
  BY <1>2, FindKeeps, MissKeeps, GenerateActorKeeps, GenerateServiceKeeps, ReadServiceKeeps, CreateEpochKeeps,
     NextMonthKeeps, RestartKeeps, KeysFailKeeps DEF PublishedKeysNext
<1> QED
  BY <1>1, <1>2

\* The invariant of the keys made on first use (getOrCreateSigningKey of the
\* actors, the service's key, the monthly epoch keys): what each request that
\* makes one rests on, and that months to come have none yet.
THEOREM KeysSoundAlways == PublishedKeysSpec => []KeysSound
BY InitKeysSound, NextKeysSound, PTL DEF PublishedKeysSpec

\* KeysAreKept for any number of months and requests.
THEOREM PublishedKeysAreKept == PublishedKeysSpec => []KeysAreKept
<1>1. KeysSound => KeysAreKept
  BY DEF KeysSound, KeysAreKept, Excused, OnlyStored
<1> QED
  BY <1>1, KeysSoundAlways, PTL

-----------------------------------------------------------------------------
(* Attestations.                                                           *)

AttestationWrites ==
  {"put attestation", "keys", "list", "delete attestation", "revoke all", "unwrap", "unlist",
   "subject", "grant"}
AttestationStatement ==
  AttestationWrites \cup {"revoked", "wrapped", "claim", "session", "log", "record", "authorize"}

AttestationCourse ==
  {<<>>, <<"put attestation", "keys", "list">>, <<"put attestation", "list">>, <<"keys", "list">>, <<"list">>,
   <<"delete attestation", "revoke all", "unwrap", "unlist">>, <<"revoke all", "unwrap", "unlist">>,
   <<"unwrap", "unlist">>, <<"unlist">>, <<"subject", "grant">>, <<"grant">>, <<"revoked">>,
   <<"wrapped", "claim", "session", "log">>, <<"claim", "session", "log">>, <<"session", "log">>, <<"log">>,
   <<"record", "authorize">>, <<"authorize">>}

DossierRecord ==
  [what : {"attestation"}, about : Attestation, kind : {"none", "public", "private"}, open : BOOLEAN,
   grant : Nat, right : BOOLEAN, made : Nat]

\* A request that has written a part of what it is to write.
Unfinished(s) == \E x \in {"keys", "list", "revoke all", "unwrap", "unlist"} : At(s, x)

\* What may have had its keys wrapped.
Secret(a) == records[a].kind \in {"private", "deleted"}
Gone(a) == records[a].kind = "deleted"

\* The grants there were when a request was made are no right of its own.
Foreseen(s) ==
  \/ mem[s].right
  \/ \A g \in GrantsFor(Topic(s)) : g <= mem[s].made => ~Valid(g)

\* What a request was asked and has found.
Charged(s) ==
  /\ todo[s] \in AttestationCourse
  /\ todo[s] # <<>> => mem[s] \in DossierRecord /\ mem[s].made <= Len(viewing)
  /\ At(s, "put attestation") =>
       /\ \/ mem[s].kind = "private" /\ Tail(todo[s]) = <<"keys", "list">>
          \/ mem[s].kind = "public" /\ Tail(todo[s]) = <<"list">>
       /\ records[Topic(s)].kind = "none"
       /\ \A t \in Slot \ {s} : todo[t] # <<>> => Topic(t) # Topic(s)
  /\ At(s, "keys") \/ At(s, "subject") \/ At(s, "grant") => Secret(Topic(s))
  /\ (\E x \in {"revoked", "wrapped", "claim", "session", "log"} : At(s, x)) =>
       mem[s].grant \in 1 .. Len(viewing)
  /\ At(s, "wrapped") \/ At(s, "claim") => mem[s].right \/ Gone(Topic(s))
  /\ At(s, "session") \/ At(s, "log") => mem[s].right
  /\ At(s, "record") => Gone(Topic(s)) \/ Foreseen(s)
  /\ At(s, "authorize") => Foreseen(s)

\* An attestation nobody is halfway through writing.
AtRest(a) ==
  /\ a \in wrapped <=> records[a].kind = "private"
  /\ a \in listed <=> Kept(a)
  /\ ~Kept(a) => \A g \in GrantsFor(a) : viewing[g].status = "revoked"

\* What one who is halfway has written.
Halfway(s, a) ==
  /\ At(s, "keys") => records[a].kind = "private" /\ a \notin wrapped /\ a \notin listed
  /\ At(s, "list") => Kept(a) /\ (a \in wrapped <=> records[a].kind = "private")
  /\ At(s, "revoke all") \/ At(s, "unwrap") \/ At(s, "unlist") => Gone(a)
  /\ At(s, "unwrap") \/ At(s, "unlist") => \A g \in GrantsFor(a) : viewing[g].status = "revoked"
  /\ At(s, "unlist") => a \notin wrapped

WholeOf(a) ==
  /\ (\A s \in Slot : Unfinished(s) => Topic(s) # a) => AtRest(a)
  /\ \A s \in Slot : Unfinished(s) /\ Topic(s) = a =>
       Halfway(s, a) /\ \A t \in Slot \ {s} : Unfinished(t) => Topic(t) # a
  /\ \A s \in Slot : At(s, "grant") /\ Topic(s) = a => Kept(a)

\* The redemptions of a grant that have their session and are not logged yet.
Logging(g) == {s \in Slot : At(s, "log") /\ mem[s].grant = g}

Accounted(g) ==
  answered[g] <= logged[g] /\ logged[g] + Cardinality(Logging(g)) <= sessionsOf[g]

AttestationsSound ==
  /\ Requested(AttestationStatement) /\ AttestationsTypeOK
  /\ \A s \in Slot : Charged(s)
  /\ \A a \in wrapped : Secret(a)
  /\ \A g \in 1 .. Len(viewing) : Secret(viewing[g].about) /\ Accounted(g)
  /\ \A a \in Attestation \ torn : WholeOf(a)
  /\ wrongly = FALSE

LEMMA ItemsOf ==
  /\ \A a : {<<a>>[i] : i \in DOMAIN <<a>>} = {a}
  /\ \A a, b : {<<a, b>>[i] : i \in DOMAIN <<a, b>>} = {a, b}
  /\ \A a, b, c : {<<a, b, c>>[i] : i \in DOMAIN <<a, b, c>>} = {a, b, c}
  /\ \A a, b, c, d : {<<a, b, c, d>>[i] : i \in DOMAIN <<a, b, c, d>>} = {a, b, c, d}
<1>1. ASSUME NEW a PROVE {<<a>>[i] : i \in DOMAIN <<a>>} = {a}
  OBVIOUS
<1>2. ASSUME NEW a, NEW b PROVE {<<a, b>>[i] : i \in DOMAIN <<a, b>>} = {a, b}
  OBVIOUS
<1>3. ASSUME NEW a, NEW b, NEW c PROVE {<<a, b, c>>[i] : i \in DOMAIN <<a, b, c>>} = {a, b, c}
  <2>1. DOMAIN <<a, b, c>> = {1, 2, 3} /\ <<a, b, c>>[1] = a /\ <<a, b, c>>[2] = b /\ <<a, b, c>>[3] = c
    OBVIOUS
  <2> QED
    BY <2>1
<1>4. ASSUME NEW a, NEW b, NEW c, NEW d PROVE {<<a, b, c, d>>[i] : i \in DOMAIN <<a, b, c, d>>} = {a, b, c, d}
  <2>1. /\ DOMAIN <<a, b, c, d>> = {1, 2, 3, 4} /\ <<a, b, c, d>>[1] = a /\ <<a, b, c, d>>[2] = b
        /\ <<a, b, c, d>>[3] = c /\ <<a, b, c, d>>[4] = d
    OBVIOUS
  <2> QED
    BY <2>1
<1> QED
  BY <1>1, <1>2, <1>3, <1>4

LEMMA LongHeads ==
  /\ \A a, b, c : Tail(<<a, b, c>>) = <<b, c>> /\ Head(<<a, b, c>>) = a /\ <<a, b, c>> # <<>>
  /\ \A a, b, c, d : Tail(<<a, b, c, d>>) = <<b, c, d>> /\ Head(<<a, b, c, d>>) = a /\ <<a, b, c, d>> # <<>>
OBVIOUS

\* What follows what, and who has something yet to write.
LEMMA AttestationCourses ==
  ASSUME NEW s, todo[s] \in AttestationCourse
  PROVE  /\ \A x : At(s, x) => x \in AttestationStatement
         /\ todo[s] # <<>> => \E x \in AttestationStatement : At(s, x)
         /\ Writing(s) <=> \E x \in AttestationWrites : At(s, x)
         /\ At(s, "keys") => Tail(todo[s]) = <<"list">>
         /\ At(s, "delete attestation") => Tail(todo[s]) = <<"revoke all", "unwrap", "unlist">>
         /\ At(s, "revoke all") => Tail(todo[s]) = <<"unwrap", "unlist">>
         /\ At(s, "unwrap") => Tail(todo[s]) = <<"unlist">>
         /\ At(s, "subject") => Tail(todo[s]) = <<"grant">>
         /\ At(s, "wrapped") => Tail(todo[s]) = <<"claim", "session", "log">>
         /\ At(s, "claim") => Tail(todo[s]) = <<"session", "log">>
         /\ At(s, "session") => Tail(todo[s]) = <<"log">>
         /\ At(s, "record") => Tail(todo[s]) = <<"authorize">>
         /\ (\E x \in {"list", "unlist", "grant", "revoked", "log", "authorize"} : At(s, x)) => Tail(todo[s]) = <<>>
<1> DEFINE Goal ==
         /\ \A x : At(s, x) => x \in AttestationStatement
         /\ todo[s] # <<>> => \E x \in AttestationStatement : At(s, x)
         /\ Writing(s) <=> \E x \in AttestationWrites : At(s, x)
         /\ At(s, "keys") => Tail(todo[s]) = <<"list">>
         /\ At(s, "delete attestation") => Tail(todo[s]) = <<"revoke all", "unwrap", "unlist">>
         /\ At(s, "revoke all") => Tail(todo[s]) = <<"unwrap", "unlist">>
         /\ At(s, "unwrap") => Tail(todo[s]) = <<"unlist">>
         /\ At(s, "subject") => Tail(todo[s]) = <<"grant">>
         /\ At(s, "wrapped") => Tail(todo[s]) = <<"claim", "session", "log">>
         /\ At(s, "claim") => Tail(todo[s]) = <<"session", "log">>
         /\ At(s, "session") => Tail(todo[s]) = <<"log">>
         /\ At(s, "record") => Tail(todo[s]) = <<"authorize">>
         /\ (\E x \in {"list", "unlist", "grant", "revoked", "log", "authorize"} : At(s, x)) => Tail(todo[s]) = <<>>
<1>1. CASE todo[s] = <<>>
  <2>1. Steps(s) = {} /\ \A x : ~At(s, x)
    BY <1>1, NoSteps
  <2> QED
    BY <1>1, <2>1 DEF Writing
<1>2. ASSUME NEW x \in AttestationStatement, \A y : At(s, y) <=> y = x, todo[s] # <<>>,
             x \in AttestationWrites <=> Steps(s) \cap AttestationWrites # {}
      PROVE  /\ \A y : At(s, y) => y \in AttestationStatement
             /\ todo[s] # <<>> => \E y \in AttestationStatement : At(s, y)
             /\ Writing(s) <=> \E y \in AttestationWrites : At(s, y)
  BY <1>2 DEF Writing, AttestationWrites
<1>3. ASSUME NEW x, todo[s] = <<x>>
      PROVE  /\ \A y : At(s, y) <=> y = x
             /\ Tail(todo[s]) = <<>> /\ todo[s] # <<>> /\ Steps(s) = {x}
  BY <1>3, ShortHeads, ItemsOf DEF At, Steps
<1>4. ASSUME NEW x, NEW y, todo[s] = <<x, y>>
      PROVE  /\ \A z : At(s, z) <=> z = x
             /\ Tail(todo[s]) = <<y>> /\ todo[s] # <<>> /\ Steps(s) = {x, y}
  BY <1>4, ShortHeads, ItemsOf DEF At, Steps
<1>5. ASSUME NEW x, NEW y, NEW z, todo[s] = <<x, y, z>>
      PROVE  /\ \A u : At(s, u) <=> u = x
             /\ Tail(todo[s]) = <<y, z>> /\ todo[s] # <<>> /\ Steps(s) = {x, y, z}
  BY <1>5, LongHeads, ItemsOf DEF At, Steps
<1>6. ASSUME NEW x, NEW y, NEW z, NEW u, todo[s] = <<x, y, z, u>>
      PROVE  /\ \A v : At(s, v) <=> v = x
             /\ Tail(todo[s]) = <<y, z, u>> /\ todo[s] # <<>> /\ Steps(s) = {x, y, z, u}
  BY <1>6, LongHeads, ItemsOf DEF At, Steps
<1>7. CASE todo[s] \in {<<"list">>, <<"unlist">>, <<"grant">>, <<"revoked">>, <<"log">>, <<"authorize">>}
  <2> SUFFICES ASSUME NEW x \in {"list", "unlist", "grant", "revoked", "log", "authorize"}, todo[s] = <<x>>
               PROVE  Goal
    BY <1>7
  <2>1. /\ x \in AttestationStatement
        /\ x \in AttestationWrites <=> {x} \cap AttestationWrites # {}
    BY DEF AttestationStatement, AttestationWrites
  <2>2. /\ \A y : At(s, y) <=> y = x
        /\ Tail(todo[s]) = <<>> /\ todo[s] # <<>> /\ Steps(s) = {x}
    BY <1>3
  <2> QED
    BY <1>2, <2>1, <2>2
<1>8. CASE todo[s] \in {<<"put attestation", "list">>, <<"keys", "list">>, <<"unwrap", "unlist">>,
                        <<"subject", "grant">>, <<"session", "log">>, <<"record", "authorize">>}
  <2> SUFFICES ASSUME NEW x, NEW y, todo[s] = <<x, y>>,
                      <<x, y>> \in {<<"put attestation", "list">>, <<"keys", "list">>, <<"unwrap", "unlist">>,
                                    <<"subject", "grant">>, <<"session", "log">>, <<"record", "authorize">>}
               PROVE  Goal
    BY <1>8
  <2>1. /\ x \in AttestationStatement
        /\ x \in AttestationWrites <=> {x, y} \cap AttestationWrites # {}
    BY DEF AttestationStatement, AttestationWrites
  <2>2. /\ \A z : At(s, z) <=> z = x
        /\ Tail(todo[s]) = <<y>> /\ todo[s] # <<>> /\ Steps(s) = {x, y}
    BY <1>4
  <2> QED
    BY <1>2, <2>1, <2>2
<1>9. CASE todo[s] \in {<<"put attestation", "keys", "list">>, <<"revoke all", "unwrap", "unlist">>,
                        <<"claim", "session", "log">>}
  <2> SUFFICES ASSUME NEW x, NEW y, NEW z, todo[s] = <<x, y, z>>,
                      <<x, y, z>> \in {<<"put attestation", "keys", "list">>, <<"revoke all", "unwrap", "unlist">>,
                                       <<"claim", "session", "log">>}
               PROVE  Goal
    BY <1>9
  <2>1. /\ x \in AttestationStatement
        /\ x \in AttestationWrites <=> {x, y, z} \cap AttestationWrites # {}
    BY DEF AttestationStatement, AttestationWrites
  <2>2. /\ \A u : At(s, u) <=> u = x
        /\ Tail(todo[s]) = <<y, z>> /\ todo[s] # <<>> /\ Steps(s) = {x, y, z}
    BY <1>5
  <2> QED
    BY <1>2, <2>1, <2>2
<1>10. ASSUME NEW x \in AttestationStatement, NEW y, NEW z, NEW u, todo[s] = <<x, y, z, u>>,
              x \in AttestationWrites <=> {x, y, z, u} \cap AttestationWrites # {}
       PROVE  /\ \A v : At(s, v) => v \in AttestationStatement
              /\ todo[s] # <<>> => \E v \in AttestationStatement : At(s, v)
              /\ Writing(s) <=> \E v \in AttestationWrites : At(s, v)
  <2>1. /\ \A v : At(s, v) <=> v = x
        /\ todo[s] # <<>> /\ Steps(s) = {x, y, z, u}
    BY <1>10, <1>6
  <2> QED
    BY <1>2, <1>10, <2>1
<1>11. CASE todo[s] = <<"delete attestation", "revoke all", "unwrap", "unlist">>
  <2> DEFINE four == <<"delete attestation", "revoke all", "unwrap", "unlist">>
  <2>3. Tail(four) = <<"revoke all", "unwrap", "unlist">> /\ Head(four) = "delete attestation" /\ four # <<>>
    <3>1. ASSUME NEW a, NEW b, NEW c, NEW d, a = "delete attestation", b = "revoke all", c = "unwrap", d = "unlist"
          PROVE  Tail(<<a, b, c, d>>) = <<b, c, d>> /\ Head(<<a, b, c, d>>) = a /\ <<a, b, c, d>> # <<>>
      BY LongHeads
    <3> QED
      BY <3>1, Zenon
  <2> HIDE DEF four
  <2>1. /\ \A v : At(s, v) <=> v = "delete attestation"
        /\ Tail(todo[s]) = <<"revoke all", "unwrap", "unlist">>
    BY <1>11, <2>3 DEF At, four
  <2>2. /\ "delete attestation" \in AttestationStatement
        /\ "delete attestation" \in AttestationWrites
    BY DEF AttestationStatement, AttestationWrites
  <2> QED
    BY <1>10, <1>11, <2>1, <2>2
<1>12. CASE todo[s] = <<"wrapped", "claim", "session", "log">>
  <2> DEFINE four == <<"wrapped", "claim", "session", "log">>
  <2>3. Tail(four) = <<"claim", "session", "log">> /\ Head(four) = "wrapped" /\ four # <<>>
    BY LongHeads
  <2> HIDE DEF four
  <2>1. /\ \A v : At(s, v) <=> v = "wrapped"
        /\ Tail(todo[s]) = <<"claim", "session", "log">>
    BY <1>12, <2>3 DEF At, four
  <2>2. /\ "wrapped" \in AttestationStatement
        /\ "wrapped" \notin AttestationWrites /\ "claim" \notin AttestationWrites
        /\ "session" \notin AttestationWrites /\ "log" \notin AttestationWrites
    BY DEF AttestationStatement, AttestationWrites
  <2> QED
    BY <1>10, <1>12, <2>1, <2>2
<1> QED
  BY <1>1, <1>7, <1>8, <1>9, <1>11, <1>12 DEF AttestationCourse

\* How a course goes on.
LEMMA AttestationGoesOn ==
  ASSUME AttestationsSound, NEW s \in Slot, NEW x, At(s, x), Pass(s)
  PROVE  /\ Requested(AttestationStatement)' /\ OthersWait(s) /\ todo'[s] \in AttestationCourse
         /\ todo'[s] # <<>> => mem'[s] = mem[s]
         /\ x = "put attestation" => todo'[s] = Tail(todo[s])
              /\ \A y : At(s, y)' <=> y = IF mem[s].kind = "private" THEN "keys" ELSE "list"
         /\ x = "keys" => \A y : At(s, y)' <=> y = "list"
         /\ x = "delete attestation" => \A y : At(s, y)' <=> y = "revoke all"
         /\ x = "revoke all" => \A y : At(s, y)' <=> y = "unwrap"
         /\ x = "unwrap" => \A y : At(s, y)' <=> y = "unlist"
         /\ x = "subject" => \A y : At(s, y)' <=> y = "grant"
         /\ x = "wrapped" => \A y : At(s, y)' <=> y = "claim"
         /\ x = "claim" => \A y : At(s, y)' <=> y = "session"
         /\ x = "session" => \A y : At(s, y)' <=> y = "log"
         /\ x = "record" => \A y : At(s, y)' <=> y = "authorize"
         /\ x \in {"list", "unlist", "grant", "revoked", "log", "authorize"} => \A y : ~At(s, y)'
<1>1. Requested(AttestationStatement) /\ todo[s] \in AttestationCourse /\ Charged(s)
  BY DEF AttestationsSound, Charged
<1>2. /\ Requested(AttestationStatement)' /\ OthersWait(s) /\ todo'[s] = Tail(todo[s])
  BY <1>1, PassMoves DEF Follows
<1>3. todo'[s] # <<>> => mem'[s] = mem[s]
  BY <1>1, <1>2 DEF Pass, Turn, Requested
<1>4. ASSUME NEW y, Tail(todo[s]) = <<y>> PROVE \A z : At(s, z)' <=> z = y
  <2>1. Head(<<y>>) = y /\ <<y>> # <<>>
    BY ShortHeads
  <2>2. todo'[s] # <<>> /\ Head(todo'[s]) = y
    BY <1>2, <1>4, <2>1
  <2> QED
    BY <2>2 DEF At
<1>5. ASSUME NEW y, NEW z, Tail(todo[s]) = <<y, z>> PROVE \A u : At(s, u)' <=> u = y
  <2>1. Head(<<y, z>>) = y /\ <<y, z>> # <<>>
    BY ShortHeads
  <2>2. todo'[s] # <<>> /\ Head(todo'[s]) = y
    BY <1>2, <1>5, <2>1
  <2> QED
    BY <2>2 DEF At
<1>6. ASSUME NEW y, NEW z, NEW u, Tail(todo[s]) = <<y, z, u>> PROVE \A v : At(s, v)' <=> v = y
  <2>1. Head(<<y, z, u>>) = y /\ <<y, z, u>> # <<>>
    BY LongHeads
  <2>2. todo'[s] # <<>> /\ Head(todo'[s]) = y
    BY <1>2, <1>6, <2>1
  <2> QED
    BY <2>2 DEF At
<1> DEFINE In == todo'[s] \in AttestationCourse
<1>7. CASE x \in {"list", "unlist", "grant", "revoked", "log", "authorize"}
  <2>1. Tail(todo[s]) = <<>>
    BY <1>1, <1>7, AttestationCourses
  <2> QED
    BY <1>2, <1>3, <1>7, <2>1 DEF AttestationCourse, At
<1>8. CASE x = "keys"
  <2>1. Tail(todo[s]) = <<"list">>
    BY <1>1, <1>8, AttestationCourses
  <2>2. \A v : At(s, v)' <=> v = "list"
    BY <1>4, <2>1
  <2>3. In
    BY <1>2, <2>1 DEF AttestationCourse
  <2> QED
    BY <1>2, <1>3, <1>8, <2>2, <2>3
<1>9. CASE x = "unwrap"
  <2>1. Tail(todo[s]) = <<"unlist">>
    BY <1>1, <1>9, AttestationCourses
  <2>2. \A v : At(s, v)' <=> v = "unlist"
    BY <1>4, <2>1
  <2>3. In
    BY <1>2, <2>1 DEF AttestationCourse
  <2> QED
    BY <1>2, <1>3, <1>9, <2>2, <2>3
<1>10. CASE x = "subject"
  <2>1. Tail(todo[s]) = <<"grant">>
    BY <1>1, <1>10, AttestationCourses
  <2>2. \A v : At(s, v)' <=> v = "grant"
    BY <1>4, <2>1
  <2>3. In
    BY <1>2, <2>1 DEF AttestationCourse
  <2> QED
    BY <1>2, <1>3, <1>10, <2>2, <2>3
<1>11. CASE x = "session"
  <2>1. Tail(todo[s]) = <<"log">>
    BY <1>1, <1>11, AttestationCourses
  <2>2. \A v : At(s, v)' <=> v = "log"
    BY <1>4, <2>1
  <2>3. In
    BY <1>2, <2>1 DEF AttestationCourse
  <2> QED
    BY <1>2, <1>3, <1>11, <2>2, <2>3
<1>12. CASE x = "record"
  <2>1. Tail(todo[s]) = <<"authorize">>
    BY <1>1, <1>12, AttestationCourses
  <2>2. \A v : At(s, v)' <=> v = "authorize"
    BY <1>4, <2>1
  <2>3. In
    BY <1>2, <2>1 DEF AttestationCourse
  <2> QED
    BY <1>2, <1>3, <1>12, <2>2, <2>3
<1>13. CASE x = "revoke all"
  <2>1. Tail(todo[s]) = <<"unwrap", "unlist">>
    BY <1>1, <1>13, AttestationCourses
  <2>2. \A v : At(s, v)' <=> v = "unwrap"
    BY <1>5, <2>1
  <2>3. In
    BY <1>2, <2>1 DEF AttestationCourse
  <2> QED
    BY <1>2, <1>3, <1>13, <2>2, <2>3
<1>14. CASE x = "claim"
  <2>1. Tail(todo[s]) = <<"session", "log">>
    BY <1>1, <1>14, AttestationCourses
  <2>2. \A v : At(s, v)' <=> v = "session"
    BY <1>5, <2>1
  <2>3. In
    BY <1>2, <2>1 DEF AttestationCourse
  <2> QED
    BY <1>2, <1>3, <1>14, <2>2, <2>3
<1>15. CASE x = "delete attestation"
  <2>1. Tail(todo[s]) = <<"revoke all", "unwrap", "unlist">>
    BY <1>1, <1>15, AttestationCourses
  <2>2. \A v : At(s, v)' <=> v = "revoke all"
    BY <1>6, <2>1
  <2> QED
    BY <1>2, <1>3, <1>15, <2>1, <2>2 DEF AttestationCourse
<1>16. CASE x = "wrapped"
  <2>1. Tail(todo[s]) = <<"claim", "session", "log">>
    BY <1>1, <1>16, AttestationCourses
  <2>2. \A v : At(s, v)' <=> v = "claim"
    BY <1>6, <2>1
  <2> QED
    BY <1>2, <1>3, <1>16, <2>1, <2>2 DEF AttestationCourse
<1>17. CASE x = "put attestation"
  <2>1. CASE mem[s].kind = "private" /\ Tail(todo[s]) = <<"keys", "list">>
    <3>1. \A v : At(s, v)' <=> v = "keys"
      BY <1>5, <2>1
    <3> QED
      BY <1>2, <1>3, <1>17, <2>1, <3>1 DEF AttestationCourse
  <2>2. CASE mem[s].kind = "public" /\ Tail(todo[s]) = <<"list">>
    <3>1. \A v : At(s, v)' <=> v = "list"
      BY <1>4, <2>2
    <3> QED
      BY <1>2, <1>3, <1>17, <2>2, <3>1 DEF AttestationCourse
  <2> QED
    BY <1>1, <1>17, <2>1, <2>2 DEF Charged
<1>18. x \in AttestationStatement
  BY <1>1, AttestationCourses
<1> QED
  BY <1>2, <1>3, <1>7, <1>15, <1>16, <1>17, <1>18, <1>8, <1>9, <1>10, <1>11, <1>12, <1>13, <1>14 DEF AttestationStatement, AttestationWrites

LEMMA AttestationAnswers ==
  ASSUME AttestationsSound, NEW s \in Slot, Answer(s)
  PROVE  /\ Requested(AttestationStatement)' /\ OthersWait(s) /\ todo'[s] = <<>>
         /\ todo'[s] \in AttestationCourse /\ \A y : ~At(s, y)'
BY AnswerMoves DEF AttestationsSound, At, AttestationCourse

LEMMA AttestationBegins ==
  ASSUME AttestationsSound, NEW s \in Slot, NEW steps \in AttestationCourse, NEW m, Begin(s, steps, m),
         steps # <<>>
  PROVE  /\ Requested(AttestationStatement)' /\ OthersWait(s) /\ todo[s] = <<>>
         /\ todo'[s] = steps /\ mem'[s] = m
         /\ \A y : At(s, y)' <=> y = Head(steps)
<1>1. steps \in Seq(AttestationStatement)
  <2> DEFINE T == AttestationStatement
  <2>1. {"put attestation", "keys", "list", "delete attestation", "revoke all", "unwrap", "unlist", "subject",
         "grant", "revoked", "wrapped", "claim", "session", "log", "record", "authorize"} \subseteq T
    BY DEF AttestationStatement, AttestationWrites
  <2> HIDE DEF T
  <2>2. CASE steps \in {<<"list">>, <<"unlist">>, <<"grant">>, <<"revoked">>, <<"log">>, <<"authorize">>}
    BY <2>1, <2>2, ShortSeqs DEF T
  <2>3. CASE steps \in {<<"put attestation", "list">>, <<"keys", "list">>, <<"unwrap", "unlist">>,
                        <<"subject", "grant">>, <<"session", "log">>, <<"record", "authorize">>}
    <3>1. \A x, y \in T : <<x, y>> \in Seq(T)
      BY ShortSeqs
    <3> SUFFICES ASSUME NEW x \in T, NEW y \in T, steps = <<x, y>> PROVE steps \in Seq(T)
      BY <2>1, <2>3 DEF T
    <3> QED
      BY <3>1
  <2>4. CASE steps \in {<<"put attestation", "keys", "list">>, <<"revoke all", "unwrap", "unlist">>,
                        <<"claim", "session", "log">>}
    <3>1. \A x, y, z \in T : <<x, y, z>> \in Seq(T)
      BY ShortSeqs
    <3> SUFFICES ASSUME NEW x \in T, NEW y \in T, NEW z \in T, steps = <<x, y, z>> PROVE steps \in Seq(T)
      BY <2>1, <2>4 DEF T
    <3> QED
      BY <3>1
  <2>5. ASSUME NEW a \in T, NEW b \in T, NEW c \in T, NEW d \in T, steps = <<a, b, c, d>>
        PROVE  steps \in Seq(T)
    BY <2>5, ShortSeqs
  <2>6. CASE steps = <<"delete attestation", "revoke all", "unwrap", "unlist">>
    <3>1. /\ "delete attestation" \in T /\ "revoke all" \in T /\ "unwrap" \in T /\ "unlist" \in T
      BY <2>1
    <3> QED
      BY <2>5, <2>6, <3>1, Zenon DEF T
  <2>7. CASE steps = <<"wrapped", "claim", "session", "log">>
    <3>1. /\ "wrapped" \in T /\ "claim" \in T /\ "session" \in T /\ "log" \in T
      BY <2>1
    <3> QED
      BY <2>5, <2>7, <3>1, Zenon DEF T
  <2> QED
    BY <2>2, <2>3, <2>4, <2>6, <2>7 DEF AttestationCourse
<1>2. /\ Requested(AttestationStatement)' /\ OthersWait(s) /\ todo[s] = <<>>
      /\ todo'[s] = steps /\ mem'[s] = m
  BY <1>1, BeginMoves DEF AttestationsSound
<1> QED
  BY <1>2 DEF At

-----------------------------------------------------------------------------
\* Grants are never forgotten, and none comes back to life.
ViewingKept ==
  /\ Len(viewing') >= Len(viewing) /\ Len(viewing') \in Nat
  /\ DOMAIN viewing' = 1 .. Len(viewing')
  /\ \A g \in 1 .. Len(viewing) :
       /\ viewing'[g].about = viewing[g].about
       /\ Valid(g)' => Valid(g)
       /\ viewing[g].status = "revoked" => viewing'[g].status = "revoked"

\* Nor does an attestation that was deleted.
RecordsKept == \A a \in Attestation : (Secret(a) => Secret(a)') /\ (Gone(a) => Gone(a)')

LEMMA ViewingTyped ==
  ASSUME AttestationsSound
  PROVE  /\ Len(viewing) \in Nat /\ DOMAIN viewing = 1 .. Len(viewing)
         /\ \A g \in 1 .. Len(viewing) :
              /\ viewing[g] \in [about : Attestation, status : {"active", "revoked"}, lapsed : BOOLEAN]
              /\ sessionsOf[g] \in Nat /\ logged[g] \in Nat /\ answered[g] \in Nat
         /\ \A list \in {sessionsOf, logged, answered} : list \in Seq(Nat) /\ Len(list) = Len(viewing)
<1>1. viewing \in Seq([about : Attestation, status : {"active", "revoked"}, lapsed : BOOLEAN])
  BY DEF AttestationsSound, AttestationsTypeOK
<1>2. \A list \in {sessionsOf, logged, answered} : list \in Seq(Nat) /\ Len(list) = Len(viewing)
  BY DEF AttestationsSound, AttestationsTypeOK
<1>3. Len(viewing) \in Nat /\ DOMAIN viewing = 1 .. Len(viewing)
  BY <1>1, LenProperties
<1>4. \A g \in 1 .. Len(viewing) :
        viewing[g] \in [about : Attestation, status : {"active", "revoked"}, lapsed : BOOLEAN]
  BY <1>1, ElementOfSeq
<1>5. \A g \in 1 .. Len(viewing) : sessionsOf[g] \in Nat /\ logged[g] \in Nat /\ answered[g] \in Nat
  BY <1>2, ElementOfSeq
<1> QED
  BY <1>2, <1>3, <1>4, <1>5

\* What was within a bound stays within a wider one, and what is below one is within it.
LEMMA Bounds ==
  /\ \A l, n, i, k \in Nat : l <= n => (i <= l => i <= n) /\ (k \in 1 .. l => k \in 1 .. n)
  /\ \A l, n, i \in Nat : \A k \in 1 .. n : i <= l /\ k <= i => k \in 1 .. l
OBVIOUS

\* A request that waits still has what it was asked and has found.
LEMMA ChargeStands ==
  ASSUME AttestationsSound, NEW t \in Slot, todo'[t] = todo[t], mem'[t] = mem[t], ViewingKept, RecordsKept,
         At(t, "put attestation") =>
           /\ records'[Topic(t)].kind = "none"
           /\ \A u \in Slot \ {t} : todo'[u] # <<>> => Topic(u)' # Topic(t)'
  PROVE  Charged(t)'
<1>1. todo'[t] = todo[t] /\ mem'[t] = mem[t] /\ Charged(t)
  BY DEF AttestationsSound
<1>2. \A x : At(t, x)' <=> At(t, x)
  BY <1>1 DEF At
<1>4. /\ Len(viewing) \in Nat /\ DOMAIN viewing = 1 .. Len(viewing)
  BY ViewingTyped
<1>5. CASE todo[t] = <<>>
  BY <1>1, <1>2, <1>5 DEF Charged, At
<1>6. CASE todo[t] # <<>>
  <2> SUFFICES ASSUME NEW a, a = mem[t].about PROVE Charged(t)'
    OBVIOUS
  <2>1. /\ mem[t] \in DossierRecord /\ mem[t].made <= Len(viewing)
    BY <1>1, <1>6 DEF Charged
  <2>2. /\ a \in Attestation /\ mem[t].grant \in Nat /\ mem[t].right \in BOOLEAN /\ mem[t].made \in Nat
    BY <2>1 DEF DossierRecord
  <2>3. mem[t].made <= Len(viewing') /\ (mem[t].grant \in 1 .. Len(viewing) => mem[t].grant \in 1 .. Len(viewing'))
    <3>1. Len(viewing) <= Len(viewing') /\ Len(viewing') \in Nat
      BY DEF ViewingKept
    <3> QED
      BY <1>4, <2>1, <2>2, <3>1, Bounds
  <2>5. Topic(t)' = a /\ Topic(t) = a
    BY <1>1 DEF Topic
  <2>6. Foreseen(t) => Foreseen(t)'
    <3> SUFFICES ASSUME Foreseen(t), ~mem[t].right PROVE Foreseen(t)'
      BY <1>1 DEF Foreseen
    <3>1. \A g \in GrantsFor(a) : g <= mem[t].made => ~Valid(g)
      BY <2>5 DEF Foreseen
    <3>2. ASSUME NEW g \in GrantsFor(a)', g <= mem[t].made PROVE ~Valid(g)'
      <4>1. g \in 1 .. Len(viewing') /\ viewing'[g].about = a
        BY <3>2 DEF GrantsFor, ViewingKept
      <4>2. g \in 1 .. Len(viewing)
        <5>1. Len(viewing') \in Nat
          BY DEF ViewingKept
        <5> QED
          BY <1>4, <2>1, <2>2, <3>2, <4>1, <5>1, Bounds
      <4>3. viewing'[g].about = viewing[g].about /\ (Valid(g)' => Valid(g))
        BY <4>2 DEF ViewingKept
      <4>4. g \in GrantsFor(a)
        BY <1>4, <4>1, <4>2, <4>3 DEF GrantsFor
      <4> QED
        BY <3>1, <3>2, <4>3, <4>4
    <3>3. \A g \in GrantsFor(Topic(t))' : g <= mem'[t].made => ~Valid(g)'
      BY <1>1, <2>5, <3>2
    <3> QED
      BY <3>3 DEF Foreseen
  <2>7. Secret(Topic(t)) => Secret(Topic(t))'
    BY <2>2, <2>5 DEF RecordsKept
  <2>8. Gone(Topic(t)) => Gone(Topic(t))'
    BY <2>2, <2>5 DEF RecordsKept
  <2>9. At(t, "put attestation") =>
          /\ records'[Topic(t)'].kind = "none"
          /\ \A u \in Slot \ {t} : todo'[u] # <<>> => Topic(u)' # Topic(t)'
    BY <2>5
  <2>10. /\ At(t, "put attestation") =>
              \/ mem[t].kind = "private" /\ Tail(todo[t]) = <<"keys", "list">>
              \/ mem[t].kind = "public" /\ Tail(todo[t]) = <<"list">>
         /\ At(t, "keys") \/ At(t, "subject") \/ At(t, "grant") => Secret(Topic(t))
         /\ (\E x \in {"revoked", "wrapped", "claim", "session", "log"} : At(t, x)) =>
              mem[t].grant \in 1 .. Len(viewing)
         /\ At(t, "wrapped") \/ At(t, "claim") => mem[t].right \/ Gone(Topic(t))
         /\ At(t, "session") \/ At(t, "log") => mem[t].right
         /\ At(t, "record") => Gone(Topic(t)) \/ Foreseen(t)
         /\ At(t, "authorize") => Foreseen(t)
    BY <1>1 DEF Charged
  <2> QED
    BY <1>1, <1>2, <2>1, <2>3, <2>6, <2>7, <2>8, <2>9, <2>10 DEF Charged
<1> QED
  BY <1>5, <1>6

\* So do all the others, if whoever issues an attestation is left alone with it.
LEMMA ChargesStand ==
  ASSUME AttestationsSound, NEW s \in Slot, OthersWait(s), ViewingKept, RecordsKept, Charged(s)',
         \A t \in Slot \ {s} : At(t, "put attestation") =>
           records'[Topic(t)].kind = "none" /\ (todo'[s] # <<>> => Topic(s)' # Topic(t))
  PROVE  \A t \in Slot : Charged(t)'
<1> SUFFICES ASSUME NEW t \in Slot \ {s} PROVE Charged(t)'
  OBVIOUS
<1>1. todo'[t] = todo[t] /\ mem'[t] = mem[t] /\ Charged(t)
  BY DEF AttestationsSound, OthersWait
<1>2. Topic(t)' = Topic(t)
  BY <1>1 DEF Topic
<1>3. \A u \in Slot \ {s} : todo'[u] = todo[u] /\ Topic(u)' = Topic(u)
  BY DEF OthersWait, Topic
<1>4. At(t, "put attestation") => \A u \in Slot \ {t} : todo'[u] # <<>> => Topic(u)' # Topic(t)'
  <2> SUFFICES ASSUME At(t, "put attestation"), NEW u \in Slot \ {t}, todo'[u] # <<>>
               PROVE  Topic(u)' # Topic(t)
    BY <1>2
  <2>1. \A v \in Slot \ {t} : todo[v] # <<>> => Topic(v) # Topic(t)
    BY <1>1 DEF Charged
  <2>2. CASE u = s
    BY <2>2
  <2>3. CASE u # s
    BY <1>3, <2>1, <2>3
  <2> QED
    BY <2>2, <2>3
<1> QED
  BY <1>1, <1>4, ChargeStands

\* While one goes on with an attestation, another that issues one issues another.
LEMMA IssuersAreAlone ==
  ASSUME AttestationsSound, NEW s \in Slot, todo[s] # <<>>, todo'[s] # <<>> => mem'[s] = mem[s],
         \A a \in Attestation : a # Topic(s) => records'[a] = records[a]
  PROVE  \A t \in Slot \ {s} : At(t, "put attestation") =>
           records'[Topic(t)].kind = "none" /\ (todo'[s] # <<>> => Topic(s)' # Topic(t))
<1> SUFFICES ASSUME NEW t \in Slot \ {s}, At(t, "put attestation")
             PROVE  records'[Topic(t)].kind = "none" /\ (todo'[s] # <<>> => Topic(s)' # Topic(t))
  OBVIOUS
<1>1. /\ records[Topic(t)].kind = "none" /\ Topic(s) # Topic(t) /\ mem[t] \in DossierRecord
  BY DEF AttestationsSound, Charged, At
<1>2. Topic(t) \in Attestation
  BY <1>1 DEF DossierRecord, Topic
<1> QED
  BY <1>1, <1>2 DEF Topic

\* One who is at work on an attestation.
Amid(s, a) == (Unfinished(s) \/ At(s, "grant")) /\ Topic(s) = a

LEMMA AmidIsWriting ==
  ASSUME AttestationsSound, NEW s \in Slot, NEW a, Amid(s, a)
  PROVE  Writing(s) /\ Topic(s) = a
<1>1. todo[s] \in AttestationCourse
  BY DEF AttestationsSound, Charged
<1>2. \E x \in AttestationWrites : At(s, x)
  BY DEF Amid, Unfinished, AttestationWrites
<1> QED
  BY <1>1, <1>2, AttestationCourses DEF Amid

LEMMA AmidStands ==
  ASSUME NEW s \in Slot, NEW t \in Slot \ {s}, OthersWait(s)
  PROVE  /\ Unfinished(t)' <=> Unfinished(t)
         /\ \A x : At(t, x)' <=> At(t, x)
         /\ Topic(t)' = Topic(t)
         /\ \A a : Amid(t, a)' <=> Amid(t, a)
<1>1. todo'[t] = todo[t] /\ mem'[t] = mem[t]
  BY DEF OthersWait
<1> QED
  BY <1>1 DEF Unfinished, At, Topic, Amid

LEMMA WholeElsewhere ==
  ASSUME NEW s \in Slot, OthersWait(s), NEW b, WholeOf(b),
         records'[b] = records[b], b \in wrapped' <=> b \in wrapped, b \in listed' <=> b \in listed,
         \A g \in GrantsFor(b)' : g \in GrantsFor(b) /\ (viewing[g].status = "revoked" => viewing'[g].status = "revoked"),
         ~(Unfinished(s) /\ Topic(s) = b), ~(Unfinished(s) /\ Topic(s) = b)',
         (At(s, "grant") /\ Topic(s) = b)' => Kept(b)
  PROVE  WholeOf(b)'
<1>1. AtRest(b) => AtRest(b)'
  BY DEF AtRest, Kept
<1>2. Kept(b)' <=> Kept(b)
  BY DEF Kept
<1>3. ASSUME NEW t \in Slot \ {s}, Halfway(t, b)
      PROVE  Halfway(t, b)'
  <2>1. \A x : At(t, x)' <=> At(t, x)
    BY AmidStands
  <2> QED
    BY <1>2, <1>3, <2>1 DEF Halfway, Gone
<1>4. \A t \in Slot : (Unfinished(t) /\ Topic(t) = b)' <=> (Unfinished(t) /\ Topic(t) = b)
  BY AmidStands
<1>5. \A t \in Slot \ {s} : (At(t, "grant") /\ Topic(t) = b)' <=> (At(t, "grant") /\ Topic(t) = b)
  BY AmidStands
<1>6. (\A t \in Slot : Unfinished(t) => Topic(t) # b)' => AtRest(b)'
  BY <1>1, <1>4 DEF WholeOf
<1>7. \A t \in Slot : (Unfinished(t) /\ Topic(t) = b)' =>
        Halfway(t, b)' /\ \A u \in Slot \ {t} : (Unfinished(u) => Topic(u) # b)'
  BY <1>3, <1>4 DEF WholeOf
<1>8. \A t \in Slot : (At(t, "grant") /\ Topic(t) = b)' => Kept(b)'
  BY <1>2, <1>5 DEF WholeOf
<1> QED
  BY <1>6, <1>7, <1>8 DEF WholeOf

LEMMA WholeAlone ==
  ASSUME NEW s \in Slot, OthersWait(s), NEW a, \A t \in Slot \ {s} : ~Amid(t, a),
         Unfinished(s)' => Topic(s)' = a,
         ~Unfinished(s)' => AtRest(a)',
         Unfinished(s)' => Halfway(s, a)',
         At(s, "grant")' => Kept(a)'
  PROVE  WholeOf(a)'
<1>1. \A t \in Slot \ {s} : ~(Unfinished(t) /\ Topic(t) = a)' /\ ~(At(t, "grant") /\ Topic(t) = a)'
  BY AmidStands DEF Amid
<1> QED
  BY <1>1 DEF WholeOf

\* Whoever writes an attestation that is not torn writes it alone.
LEMMA NobodyElse ==
  ASSUME AttestationsSound, NEW s \in Slot, Tearing(s), NEW a, a = Topic(s), a \notin torn'
  PROVE  a \notin torn /\ \A t \in Slot \ {s} : ~Amid(t, a)
<1>1. \A t \in Slot \ {s} : Writing(t) => Topic(t) # Topic(s)
  BY DEF Tearing
<1> QED
  BY <1>1, AmidIsWriting DEF Tearing

LEMMA AccountsStand ==
  ASSUME AttestationsSound, NEW s \in Slot, OthersWait(s), NEW g \in 1 .. Len(viewing),
         answered'[g] = answered[g], logged'[g] = logged[g], sessionsOf'[g] = sessionsOf[g],
         ~At(s, "log")'
  PROVE  Accounted(g)'
<1>1. Logging(g)' \subseteq Logging(g)
  BY DEF Logging, OthersWait, At
<1>2. IsFiniteSet(Logging(g))
  BY SlotAssumption, FS_Subset DEF Logging
<1>3. /\ Cardinality(Logging(g)) \in Nat /\ Cardinality(Logging(g)') \in Nat
      /\ Cardinality(Logging(g)') <= Cardinality(Logging(g))
  BY <1>1, <1>2, FS_Subset, FS_CardinalityType
<1>4. logged[g] \in Nat /\ sessionsOf[g] \in Nat /\ answered[g] \in Nat
  BY ViewingTyped
<1>5. answered[g] <= logged[g] /\ logged[g] + Cardinality(Logging(g)) <= sessionsOf[g]
  BY DEF AttestationsSound, Accounted
<1>6. logged[g] + Cardinality(Logging(g)') <= sessionsOf[g]
  BY <1>3, <1>4, <1>5
<1> QED
  BY <1>5, <1>6 DEF Accounted

\* What whoever writes an attestation alone found there.
LEMMA WholeBefore ==
  ASSUME AttestationsSound, NEW s \in Slot, NEW a \in Attestation, a = Topic(s), a \notin torn,
         \A t \in Slot \ {s} : ~Amid(t, a)
  PROVE  /\ Unfinished(s) => Halfway(s, a)
         /\ ~Unfinished(s) => AtRest(a)
         /\ At(s, "grant") => Kept(a)
<1>1. WholeOf(a)
  BY DEF AttestationsSound
<1>2. \A t \in Slot \ {s} : Unfinished(t) => Topic(t) # a
  BY DEF Amid
<1>3. Unfinished(s) => Halfway(s, a)
  BY <1>1 DEF WholeOf
<1>4. ~Unfinished(s) => AtRest(a)
  BY <1>1, <1>2 DEF WholeOf
<1>5. At(s, "grant") => Kept(a)
  BY <1>1 DEF WholeOf
<1> QED
  BY <1>3, <1>4, <1>5

\* Only the attestation a statement is about is written.
Apart(a) ==
  \A b \in Attestation \ {a} :
    /\ records'[b] = records[b] /\ (b \in wrapped' <=> b \in wrapped) /\ (b \in listed' <=> b \in listed)
    /\ \A g \in GrantsFor(b)' :
         g \in GrantsFor(b) /\ (viewing[g].status = "revoked" => viewing'[g].status = "revoked")

LEMMA WholeAfter ==
  ASSUME AttestationsSound, NEW s \in Slot, OthersWait(s), todo'[s] # <<>> => mem'[s] = mem[s],
         NEW a \in Attestation, a = Topic(s), torn \subseteq torn', Apart(a),
         a \notin torn' =>
           /\ \A t \in Slot \ {s} : ~Amid(t, a)
           /\ ~Unfinished(s)' => AtRest(a)'
           /\ Unfinished(s)' => Halfway(s, a)'
           /\ At(s, "grant")' => Kept(a)'
  PROVE  \A b \in Attestation \ torn' : WholeOf(b)'
<1> SUFFICES ASSUME NEW b \in Attestation \ torn' PROVE WholeOf(b)'
  OBVIOUS
<1>1. WholeOf(b)
  BY DEF AttestationsSound
<1>2. (\E x : At(s, x)') => todo'[s] # <<>> /\ Topic(s)' = a
  BY DEF At, Topic
<1>3. Unfinished(s)' => Topic(s)' = a
  BY <1>2 DEF Unfinished
<1>4. CASE b = a
  BY <1>3, <1>4, WholeAlone
<1>5. CASE b # a
  <2>1. b \in Attestation \ {a}
    BY <1>5
  <2>2. /\ records'[b] = records[b] /\ (b \in wrapped' <=> b \in wrapped) /\ (b \in listed' <=> b \in listed)
        /\ \A g \in GrantsFor(b)' :
             g \in GrantsFor(b) /\ (viewing[g].status = "revoked" => viewing'[g].status = "revoked")
    BY <2>1 DEF Apart
  <2>3. ~(Unfinished(s) /\ Topic(s) = b)
    BY <1>5
  <2>4. ~(Unfinished(s) /\ Topic(s) = b)' /\ ~(At(s, "grant") /\ Topic(s) = b)'
    BY <1>2, <1>3, <1>5
  <2> QED
    BY <1>1, <2>2, <2>3, <2>4, WholeElsewhere
<1> QED
  BY <1>4, <1>5

\* A statement keeps what holds of the attestations if it does not touch their past ...
LEMMA AttestationsKept ==
  ASSUME AttestationsSound, NEW s \in Slot, OthersWait(s), Requested(AttestationStatement)',
         AttestationsTypeOK', ViewingKept, RecordsKept, Charged(s)',
         \A t \in Slot \ {s} : At(t, "put attestation") =>
           records'[Topic(t)].kind = "none" /\ (todo'[s] # <<>> => Topic(s)' # Topic(t)),
         \A a \in wrapped' : a \in wrapped \/ Secret(a)',
         \A g \in 1 .. Len(viewing') : (g \in 1 .. Len(viewing) \/ Secret(viewing[g].about)') /\ Accounted(g)',
         \A a \in Attestation \ torn' : WholeOf(a)',
         wrongly' = FALSE
  PROVE  AttestationsSound'
<1>1. \A t \in Slot : Charged(t)'
  BY ChargesStand
<1>2. \A a \in wrapped' : Secret(a)'
  <2>1. \A a \in wrapped : Secret(a) /\ a \in Attestation
    BY DEF AttestationsSound, AttestationsTypeOK
  <2> QED
    BY <2>1 DEF RecordsKept
<1>3. \A g \in 1 .. Len(viewing') : Secret(viewing[g].about)'
  <2> SUFFICES ASSUME NEW g \in 1 .. Len(viewing') PROVE Secret(viewing[g].about)'
    OBVIOUS
  <2>1. CASE g \in 1 .. Len(viewing)
    <3>1. Secret(viewing[g].about) /\ viewing[g].about \in Attestation
      BY <2>1, ViewingTyped DEF AttestationsSound
    <3>2. viewing'[g].about = viewing[g].about
      BY <2>1 DEF ViewingKept
    <3>3. Secret(viewing[g].about)'
      BY <3>1, <3>2 DEF RecordsKept, Secret
    <3> QED
      BY <3>3
  <2> QED
    BY <2>1
<1>4. \A g \in 1 .. Len(viewing') : Accounted(g)'
  OBVIOUS
<1> QED
  BY <1>1, <1>2, <1>3, <1>4 DEF AttestationsSound

\* ... and none of the counts: nobody comes to the log by it.
LEMMA AttestationsKeptUncounted ==
  ASSUME AttestationsSound, NEW s \in Slot, OthersWait(s), Requested(AttestationStatement)',
         AttestationsTypeOK', ViewingKept, RecordsKept, Charged(s)',
         \A t \in Slot \ {s} : At(t, "put attestation") =>
           records'[Topic(t)].kind = "none" /\ (todo'[s] # <<>> => Topic(s)' # Topic(t)),
         \A a \in wrapped' : a \in wrapped \/ Secret(a)',
         Len(viewing') = Len(viewing), UNCHANGED <<sessionsOf, logged, answered>>, ~At(s, "log")',
         \A a \in Attestation \ torn' : WholeOf(a)',
         wrongly' = FALSE
  PROVE  AttestationsSound'
<1>1. \A g \in 1 .. Len(viewing) : Accounted(g)'
  BY AccountsStand
<1>2. \A g \in 1 .. Len(viewing') : (g \in 1 .. Len(viewing) \/ Secret(viewing[g].about)') /\ Accounted(g)'
  BY <1>1
<1> QED
  BY <1>2, AttestationsKept

LEMMA TablesStand ==
  ASSUME AttestationsSound, UNCHANGED attestTables
  PROVE  /\ ViewingKept /\ RecordsKept /\ Len(viewing') = Len(viewing)
         /\ UNCHANGED <<records, wrapped, listed, viewing, belongs, sessionsOf, logged>>
         /\ \A a : Apart(a) /\ (Kept(a)' <=> Kept(a)) /\ (Secret(a)' <=> Secret(a)) /\ (Gone(a)' <=> Gone(a))
         /\ \A a : GrantsFor(a)' = GrantsFor(a)
         /\ \A g : Valid(g)' <=> Valid(g)
<1>1. UNCHANGED <<records, wrapped, listed, viewing, belongs, sessionsOf, logged>>
  BY DEF attestTables
<1>2. /\ \A a : (Kept(a)' <=> Kept(a)) /\ (Secret(a)' <=> Secret(a)) /\ (Gone(a)' <=> Gone(a))
      /\ \A a : GrantsFor(a)' = GrantsFor(a)
      /\ \A g : Valid(g)' <=> Valid(g)
  BY <1>1 DEF Kept, Secret, Gone, GrantsFor, Valid
<1>3. ViewingKept
  BY <1>1, <1>2, ViewingTyped DEF ViewingKept
<1>4. \A a : Apart(a)
  BY <1>1, <1>2 DEF Apart
<1> QED
  BY <1>1, <1>2, <1>3, <1>4 DEF RecordsKept

\* A statement that writes no table of the attestations.
LEMMA ReadingKeeps ==
  ASSUME AttestationsSound, NEW s \in Slot, OthersWait(s), Requested(AttestationStatement)',
         UNCHANGED attestTables, answered' = answered, wrongly' = FALSE,
         torn \subseteq torn', torn' \subseteq Attestation,
         Charged(s)', ~At(s, "log")', ~Unfinished(s)',
         \A t \in Slot \ {s} : At(t, "put attestation") => (todo'[s] # <<>> => Topic(s)' # Topic(t)),
         \A a \in Attestation \ torn' : ~(Unfinished(s) /\ Topic(s) = a),
         At(s, "grant")' => Kept(Topic(s))'
  PROVE  AttestationsSound'
<1>1. /\ ViewingKept /\ RecordsKept /\ Len(viewing') = Len(viewing)
      /\ UNCHANGED <<records, wrapped, listed, viewing, belongs, sessionsOf, logged>>
      /\ \A a : Apart(a)
  BY TablesStand
<1>2. AttestationsTypeOK'
  BY <1>1 DEF AttestationsSound, AttestationsTypeOK
<1>3. ASSUME NEW a \in Attestation \ torn' PROVE WholeOf(a)'
  <2>1. WholeOf(a)
    BY DEF AttestationsSound
  <2>2. \A g \in GrantsFor(a)' :
          g \in GrantsFor(a) /\ (viewing[g].status = "revoked" => viewing'[g].status = "revoked")
    BY <1>1 DEF GrantsFor
  <2>3. (At(s, "grant") /\ Topic(s) = a)' => Kept(a)
    BY <1>1 DEF Kept
  <2> QED
    BY <1>1, <2>1, <2>2, <2>3, WholeElsewhere
<1>4. \A t \in Slot \ {s} : At(t, "put attestation") =>
        records'[Topic(t)].kind = "none" /\ (todo'[s] # <<>> => Topic(s)' # Topic(t))
  BY <1>1 DEF AttestationsSound, Charged
<1> QED
  BY <1>1, <1>2, <1>3, <1>4, AttestationsKeptUncounted

\* A request that is made.
LEMMA BeginningKeeps ==
  ASSUME AttestationsSound, NEW s \in Slot, NEW steps \in AttestationCourse, NEW m, Begin(s, steps, m),
         steps # <<>>, UNCHANGED <<attestTables, attestPast>>,
         Head(steps) \in {"put attestation", "delete attestation", "subject", "record", "wrapped", "revoked"},
         Charged(s)', \A t \in Slot \ {s} : At(t, "put attestation") => m.about # Topic(t)
  PROVE  AttestationsSound'
<1>1. /\ Requested(AttestationStatement)' /\ OthersWait(s) /\ todo[s] = <<>>
      /\ todo'[s] = steps /\ mem'[s] = m
      /\ \A y : At(s, y)' <=> y = Head(steps)
  BY AttestationBegins
<1>2. answered' = answered /\ wrongly' = FALSE /\ torn' = torn /\ torn \subseteq Attestation
  BY DEF attestPast, AttestationsSound, AttestationsTypeOK
<1>3. ~At(s, "log")' /\ ~Unfinished(s)' /\ ~At(s, "grant")'
  BY <1>1 DEF Unfinished
<1>4. \A a : ~(Unfinished(s) /\ Topic(s) = a)
  BY <1>1, NoSteps DEF Unfinished
<1>5. Topic(s)' = m.about
  BY <1>1 DEF Topic
<1> QED
  BY <1>1, <1>2, <1>3, <1>4, <1>5, ReadingKeeps

LEMMA AsMany ==
  ASSUME AttestationsSound
  PROVE  Len(viewing) \in Nat /\ Len(viewing) <= Len(viewing)
<1>1. Len(viewing) \in Nat
  BY ViewingTyped
<1> QED
  BY <1>1

LEMMA FourHeads == \A a, b, c, d : Head(<<a, b, c, d>>) = a /\ <<a, b, c, d>> # <<>>
BY LongHeads

ToIssue(d, kind, open) == [d EXCEPT !.kind = kind, !.open = open]
OfGrant(d, g) == [d EXCEPT !.grant = g]

LEMMA DossierFields ==
  ASSUME NEW d \in DossierRecord
  PROVE  /\ \A kind \in {"none", "public", "private"}, open \in BOOLEAN :
              /\ ToIssue(d, kind, open) \in DossierRecord
              /\ ToIssue(d, kind, open).about = d.about
              /\ ToIssue(d, kind, open).made = d.made
              /\ ToIssue(d, kind, open).kind = kind
         /\ \A g \in Nat :
              /\ OfGrant(d, g) \in DossierRecord
              /\ OfGrant(d, g).about = d.about
              /\ OfGrant(d, g).made = d.made
              /\ OfGrant(d, g).grant = g
              /\ OfGrant(d, g).right = d.right
<1>1. ASSUME NEW kind \in {"none", "public", "private"}, NEW open \in BOOLEAN
      PROVE  /\ ToIssue(d, kind, open) \in DossierRecord
             /\ ToIssue(d, kind, open).about = d.about
             /\ ToIssue(d, kind, open).made = d.made
             /\ ToIssue(d, kind, open).kind = kind
  BY DEF DossierRecord, ToIssue, OfGrant
<1>2. ASSUME NEW g \in Nat
      PROVE  /\ OfGrant(d, g) \in DossierRecord
             /\ OfGrant(d, g).about = d.about
             /\ OfGrant(d, g).made = d.made
             /\ OfGrant(d, g).grant = g
             /\ OfGrant(d, g).right = d.right
  BY DEF DossierRecord, ToIssue, OfGrant
<1> QED
  BY <1>1, <1>2

LEMMA DossierTyped ==
  ASSUME AttestationsSound, NEW a \in Attestation
  PROVE  /\ Dossier(a) \in DossierRecord /\ Dossier(a).about = a
         /\ Dossier(a).made = Len(viewing) /\ Dossier(a).made \in Nat
         /\ Dossier(a).right <=> Right(a)
         /\ \A kind \in {"none", "public", "private"}, open \in BOOLEAN :
              /\ ToIssue(Dossier(a), kind, open) \in DossierRecord
              /\ ToIssue(Dossier(a), kind, open).about = a
              /\ ToIssue(Dossier(a), kind, open).made = Len(viewing)
              /\ ToIssue(Dossier(a), kind, open).kind = kind
         /\ \A g \in Nat :
              /\ OfGrant(Dossier(a), g) \in DossierRecord
              /\ OfGrant(Dossier(a), g).about = a
              /\ OfGrant(Dossier(a), g).made = Len(viewing)
              /\ OfGrant(Dossier(a), g).grant = g
              /\ OfGrant(Dossier(a), g).right <=> Right(a)
<1>1. Right(a) \in BOOLEAN
  BY DEF Right
<1>2. Len(viewing) \in Nat
  BY ViewingTyped
<1> DEFINE r == Right(a)
           l == Len(viewing)
<1>3. Dossier(a) = [what |-> "attestation", about |-> a, kind |-> "none", open |-> FALSE,
                    grant |-> 0, right |-> r, made |-> l]
  BY DEF Dossier
<1>4. r \in BOOLEAN /\ l \in Nat
  BY <1>1, <1>2
<1> HIDE DEF r, l
<1>5. /\ Dossier(a) \in DossierRecord /\ Dossier(a).about = a
      /\ Dossier(a).made = l /\ Dossier(a).right = r
  BY <1>3, <1>4 DEF DossierRecord
<1>6. ASSUME NEW kind \in {"none", "public", "private"}, NEW open \in BOOLEAN
      PROVE  /\ ToIssue(Dossier(a), kind, open) \in DossierRecord
             /\ ToIssue(Dossier(a), kind, open).about = a
             /\ ToIssue(Dossier(a), kind, open).made = l
             /\ ToIssue(Dossier(a), kind, open).kind = kind
  BY <1>5, DossierFields
<1>7. ASSUME NEW g \in Nat
      PROVE  /\ OfGrant(Dossier(a), g) \in DossierRecord
             /\ OfGrant(Dossier(a), g).about = a
             /\ OfGrant(Dossier(a), g).made = l
             /\ OfGrant(Dossier(a), g).grant = g
             /\ OfGrant(Dossier(a), g).right = r
  BY <1>5, DossierFields
<1>8. r <=> Right(a)
  BY DEF r
<1>9. l = Len(viewing)
  BY DEF l
<1> QED
  <2>1. /\ Dossier(a).right <=> Right(a)
        /\ \A g \in Nat : OfGrant(Dossier(a), g).right <=> Right(a)
    BY <1>5, <1>7, <1>8
  <2> QED
    BY <1>4, <1>5, <1>6, <1>7, <1>9, <2>1

\* An attestation that is there, or was, is not one that is being issued.
LEMMA IssuedBefore ==
  ASSUME AttestationsSound, NEW a \in Attestation, records[a].kind # "none"
  PROVE  \A t \in Slot : At(t, "put attestation") => a # Topic(t)
BY DEF AttestationsSound, Charged

LEMMA IssueKeeps ==
  ASSUME AttestationsSound, NEW s \in Slot, NEW a \in Attestation, NEW kind \in {"public", "private"},
         NEW open \in BOOLEAN, IssueAttestation(s, a, kind, open)
  PROVE  AttestationsSound'
<1>1. UNCHANGED <<attestTables, attestPast>> /\ records[a].kind = "none"
  BY DEF IssueAttestation
<1>2. \A t \in Slot \ {s} : todo[t] # <<>> => Topic(t) # a
  BY DEF IssueAttestation
<1>3. ASSUME NEW m, NEW steps \in AttestationCourse, Begin(s, steps, m), steps # <<>>,
             Head(steps) = "put attestation", m \in DossierRecord, m.about = a, m.made = Len(viewing),
             \/ m.kind = "private" /\ Tail(steps) = <<"keys", "list">>
             \/ m.kind = "public" /\ Tail(steps) = <<"list">>
      PROVE  AttestationsSound'
  <2> DEFINE h == Head(steps)
  <2> HIDE DEF h
  <2>1. /\ todo'[s] = steps /\ mem'[s] = m /\ OthersWait(s)
        /\ \A y : At(s, y)' <=> y = h
    BY <1>3, AttestationBegins, Zenon DEF h
  <2>1a. h = "put attestation"
    BY <1>3 DEF h
  <2>2. \A t \in Slot \ {s} : todo'[t] # <<>> => Topic(t)' # a
    BY <1>2, <2>1 DEF OthersWait, Topic
  <2>3. viewing' = viewing /\ records' = records
    BY <1>1 DEF attestTables
  <2>4. m.made <= Len(viewing')
    BY <1>3, <2>3, AsMany
  <2>5. Topic(s)' = a
    BY <1>3, <2>1 DEF Topic
  <2>6. Charged(s)'
    BY <1>1, <1>3, <2>1, <2>1a, <2>2, <2>3, <2>4, <2>5 DEF Charged
  <2>7. \A t \in Slot \ {s} : At(t, "put attestation") => m.about # Topic(t)
    BY <1>2, <1>3 DEF At
  <2> QED
    BY <1>1, <1>3, <2>6, <2>7, BeginningKeeps
<1>4. ASSUME NEW m, m = ToIssue(Dossier(a), kind, open)
      PROVE  m \in DossierRecord /\ m.about = a /\ m.made = Len(viewing) /\ m.kind = kind
  <2>1. kind \in {"none", "public", "private"}
    OBVIOUS
  <2> QED
    BY <1>4, <2>1, DossierTyped
<1>5. CASE kind = "private"
  <2> SUFFICES ASSUME NEW m, m = ToIssue(Dossier(a), kind, open),
                      NEW steps, steps = <<"put attestation", "keys", "list">>
               PROVE  AttestationsSound'
    OBVIOUS
  <2>1. Begin(s, steps, m)
    BY <1>5 DEF IssueAttestation, ToIssue
  <2>2. /\ steps \in AttestationCourse /\ steps # <<>> /\ Head(steps) = "put attestation"
        /\ Tail(steps) = <<"keys", "list">>
    BY LongHeads DEF AttestationCourse
  <2> QED
    BY <1>3, <1>4, <1>5, <2>1, <2>2
<1>6. CASE kind = "public"
  <2> SUFFICES ASSUME NEW m, m = ToIssue(Dossier(a), kind, open),
                      NEW steps, steps = <<"put attestation", "list">>
               PROVE  AttestationsSound'
    OBVIOUS
  <2>1. Begin(s, steps, m)
    BY <1>6 DEF IssueAttestation, ToIssue
  <2>2. /\ steps \in AttestationCourse /\ steps # <<>> /\ Head(steps) = "put attestation"
        /\ Tail(steps) = <<"list">>
    BY ShortHeads DEF AttestationCourse
  <2> QED
    BY <1>3, <1>4, <1>6, <2>1, <2>2
<1> QED
  BY <1>5, <1>6

LEMMA DeleteKeeps ==
  ASSUME AttestationsSound, NEW s \in Slot, NEW a \in Attestation, DeleteAttestation(s, a)
  PROVE  AttestationsSound'
<1> SUFFICES ASSUME NEW m, m = Dossier(a),
                    NEW steps, steps = <<"delete attestation", "revoke all", "unwrap", "unlist">>
             PROVE  AttestationsSound'
  OBVIOUS
<1>1. Begin(s, steps, m) /\ UNCHANGED <<attestTables, attestPast>> /\ Kept(a)
  BY DEF DeleteAttestation
<1>2. steps \in AttestationCourse /\ steps # <<>> /\ Head(steps) = "delete attestation"
  <2>1. steps \in AttestationCourse
    BY DEF AttestationCourse
  <2> QED
    BY <2>1, FourHeads
<1>3. m \in DossierRecord /\ m.about = a /\ m.made = Len(viewing)
  BY DossierTyped
<1>4. /\ todo'[s] = steps /\ mem'[s] = m
      /\ \A y : At(s, y)' <=> y = "delete attestation"
  BY <1>1, <1>2, AttestationBegins
<1>5. viewing' = viewing
  BY <1>1 DEF attestTables
<1>6. m.made <= Len(viewing')
  BY <1>3, <1>5, AsMany
<1>7. Charged(s)'
  BY <1>2, <1>3, <1>4, <1>6 DEF Charged
<1>8. \A t \in Slot \ {s} : At(t, "put attestation") => m.about # Topic(t)
  BY <1>1, <1>3, IssuedBefore DEF Kept
<1> QED
  BY <1>1, <1>2, <1>7, <1>8, BeginningKeeps

LEMMA CreateGrantKeeps ==
  ASSUME AttestationsSound, NEW s \in Slot, NEW a \in Attestation, CreateViewingGrant(s, a)
  PROVE  AttestationsSound'
<1> SUFFICES ASSUME NEW m, m = Dossier(a), NEW steps, steps = <<"subject", "grant">>
             PROVE  AttestationsSound'
  OBVIOUS
<1>1. Begin(s, steps, m) /\ UNCHANGED <<attestTables, attestPast>> /\ Secret(a)
  BY DEF CreateViewingGrant, AttestationsSound
<1>2. steps \in AttestationCourse /\ steps # <<>> /\ Head(steps) = "subject"
  BY ShortHeads DEF AttestationCourse
<1>3. m \in DossierRecord /\ m.about = a /\ m.made = Len(viewing)
  BY DossierTyped
<1>4. todo'[s] = steps /\ mem'[s] = m /\ \A y : At(s, y)' <=> y = "subject"
  BY <1>1, <1>2, AttestationBegins
<1>5. viewing' = viewing /\ Topic(s)' = a /\ records' = records
  BY <1>1, <1>3, <1>4 DEF attestTables, Topic
<1>6. m.made <= Len(viewing')
  BY <1>3, <1>5, AsMany
<1>7. Secret(Topic(s))'
  BY <1>1, <1>5 DEF Secret
<1>8. Charged(s)'
  BY <1>2, <1>3, <1>4, <1>6, <1>7 DEF Charged
<1>9. \A t \in Slot \ {s} : At(t, "put attestation") => m.about # Topic(t)
  BY <1>1, <1>3, IssuedBefore DEF Secret
<1> QED
  BY <1>1, <1>2, <1>8, <1>9, BeginningKeeps

LEMMA RequestDisclosureKeeps ==
  ASSUME AttestationsSound, NEW s \in Slot, NEW a \in Attestation, RequestDisclosure(s, a)
  PROVE  AttestationsSound'
<1> SUFFICES ASSUME NEW m, m = Dossier(a), NEW steps, steps = <<"record", "authorize">>
             PROVE  AttestationsSound'
  OBVIOUS
<1>1. Begin(s, steps, m) /\ UNCHANGED <<attestTables, attestPast>> /\ Secret(a)
  BY DEF RequestDisclosure, AttestationsSound
<1>2. steps \in AttestationCourse /\ steps # <<>> /\ Head(steps) = "record"
  BY ShortHeads DEF AttestationCourse
<1>3. m \in DossierRecord /\ m.about = a /\ m.made = Len(viewing) /\ (m.right <=> Right(a))
  BY DossierTyped
<1>4. todo'[s] = steps /\ mem'[s] = m /\ \A y : At(s, y)' <=> y = "record"
  BY <1>1, <1>2, AttestationBegins
<1>5. viewing' = viewing /\ Topic(s)' = a /\ records' = records
  BY <1>1, <1>3, <1>4 DEF attestTables, Topic
<1>6. m.made <= Len(viewing')
  BY <1>3, <1>5, AsMany
<1>7. Gone(Topic(s))' \/ Foreseen(s)'
  <2> SUFFICES ASSUME ~Gone(a), ~Right(a) PROVE Foreseen(s)'
    <3>1. Right(a) => Foreseen(s)'
      BY <1>3, <1>4 DEF Foreseen
    <3>2. Gone(a) => Gone(Topic(s))'
      BY <1>5 DEF Gone
    <3> QED
      BY <3>1, <3>2
  <2>1. \A g \in GrantsFor(a) : ~Valid(g)
    BY <1>1 DEF Right, Secret, Gone
  <2>2. \A g \in GrantsFor(Topic(s))' : g \in GrantsFor(a) /\ (Valid(g)' <=> Valid(g))
    BY <1>5 DEF GrantsFor, Valid
  <2> QED
    BY <2>1, <2>2 DEF Foreseen
<1>8. Charged(s)'
  BY <1>2, <1>3, <1>4, <1>6, <1>7 DEF Charged
<1>9. \A t \in Slot \ {s} : At(t, "put attestation") => m.about # Topic(t)
  BY <1>1, <1>3, IssuedBefore DEF Secret
<1> QED
  BY <1>1, <1>2, <1>8, <1>9, BeginningKeeps

LEMMA RevokeGrantKeeps ==
  ASSUME AttestationsSound, NEW s \in Slot, NEW g \in 1 .. Len(viewing), RevokeGrant(s, g)
  PROVE  AttestationsSound'
<1> SUFFICES ASSUME NEW a, a = viewing[g].about, NEW m, m = OfGrant(Dossier(a), g),
                    NEW steps, steps = <<"revoked">>
             PROVE  AttestationsSound'
  OBVIOUS
<1>1. Begin(s, steps, m) /\ UNCHANGED <<attestTables, attestPast>>
  BY DEF RevokeGrant, OfGrant
<1>2. steps \in AttestationCourse /\ steps # <<>> /\ Head(steps) = "revoked"
  BY ShortHeads DEF AttestationCourse
<1>3. a \in Attestation /\ Secret(a)
  BY ViewingTyped DEF AttestationsSound
<1>4. m \in DossierRecord /\ m.about = a /\ m.made = Len(viewing) /\ m.grant = g
  <2>1. g \in Nat
    OBVIOUS
  <2> QED
    BY <1>3, <2>1, DossierTyped
<1>5. todo'[s] = steps /\ mem'[s] = m /\ \A y : At(s, y)' <=> y = "revoked"
  BY <1>1, <1>2, AttestationBegins
<1>6. viewing' = viewing
  BY <1>1 DEF attestTables
<1>7. m.made <= Len(viewing')
  BY <1>4, <1>6, AsMany
<1>8. Charged(s)'
  BY <1>2, <1>4, <1>5, <1>6, <1>7 DEF Charged
<1>9. \A t \in Slot \ {s} : At(t, "put attestation") => m.about # Topic(t)
  BY <1>3, <1>4, IssuedBefore DEF Secret
<1> QED
  BY <1>1, <1>2, <1>8, <1>9, BeginningKeeps

LEMMA RedeemGrantKeeps ==
  ASSUME AttestationsSound, NEW s \in Slot, NEW g \in 1 .. Len(viewing), RedeemGrant(s, g)
  PROVE  AttestationsSound'
<1> SUFFICES ASSUME NEW a, a = viewing[g].about, NEW m, m = OfGrant(Dossier(a), g),
                    NEW steps, steps = <<"wrapped", "claim", "session", "log">>
             PROVE  AttestationsSound'
  OBVIOUS
<1>1. Begin(s, steps, m) /\ UNCHANGED <<attestTables, attestPast>> /\ Valid(g)
  BY DEF RedeemGrant, OfGrant
<1>2. steps \in AttestationCourse /\ steps # <<>> /\ Head(steps) = "wrapped"
  <2>1. steps \in AttestationCourse
    BY DEF AttestationCourse
  <2> QED
    BY <2>1, FourHeads
<1>3. a \in Attestation /\ Secret(a)
  BY ViewingTyped DEF AttestationsSound
<1>4. m \in DossierRecord /\ m.about = a /\ m.made = Len(viewing) /\ m.grant = g /\ (m.right <=> Right(a))
  <2>1. g \in Nat
    OBVIOUS
  <2> QED
    BY <1>3, <2>1, DossierTyped
<1>5. todo'[s] = steps /\ mem'[s] = m /\ \A y : At(s, y)' <=> y = "wrapped"
  BY <1>1, <1>2, AttestationBegins
<1>6. viewing' = viewing /\ Topic(s)' = a /\ records' = records
  BY <1>1, <1>4, <1>5 DEF attestTables, Topic
<1>7. m.made <= Len(viewing')
  BY <1>4, <1>6, AsMany
<1>8. m.right \/ Gone(Topic(s))'
  <2>1. g \in GrantsFor(a)
    BY ViewingTyped DEF GrantsFor
  <2>2. Right(a) \/ Gone(a)
    BY <1>1, <1>3, <2>1 DEF Right, Secret, Gone
  <2> QED
    BY <1>4, <1>6, <2>2 DEF Gone
<1>9. Charged(s)'
  BY <1>2, <1>4, <1>5, <1>6, <1>7, <1>8 DEF Charged
<1>10. \A t \in Slot \ {s} : At(t, "put attestation") => m.about # Topic(t)
  BY <1>3, <1>4, IssuedBefore DEF Secret
<1> QED
  BY <1>1, <1>2, <1>9, <1>10, BeginningKeeps

-----------------------------------------------------------------------------
\* One who is at a statement was asked something; and still is, going on.
LEMMA AskedOf ==
  ASSUME AttestationsSound, NEW s \in Slot, NEW x, At(s, x)
  PROVE  /\ Charged(s) /\ todo[s] # <<>> /\ mem[s] \in DossierRecord /\ Topic(s) \in Attestation
         /\ mem[s].made \in Nat /\ mem[s].made <= Len(viewing) /\ mem[s].grant \in Nat
         /\ Unfinished(s) <=> x \in {"keys", "list", "revoke all", "unwrap", "unlist"}
         /\ At(s, "grant") <=> x = "grant"
<1>1. Charged(s) /\ todo[s] # <<>>
  BY DEF AttestationsSound, At
<1>2. mem[s] \in DossierRecord /\ mem[s].made <= Len(viewing)
  BY <1>1 DEF Charged
<1>3. \A y : At(s, y) <=> y = x
  BY DEF At
<1> QED
  BY <1>1, <1>2, <1>3 DEF DossierRecord, Topic, Unfinished

LEMMA GoingOn ==
  ASSUME AttestationsSound, NEW s \in Slot, NEW x, At(s, x), Pass(s), ViewingKept
  PROVE  /\ todo'[s] # <<>> => /\ mem'[s] = mem[s] /\ mem'[s] \in DossierRecord
                               /\ mem'[s].made <= Len(viewing') /\ Topic(s)' = Topic(s)
         /\ mem[s].grant \in 1 .. Len(viewing) => mem[s].grant \in 1 .. Len(viewing')
<1>1. /\ mem[s] \in DossierRecord /\ mem[s].made \in Nat /\ mem[s].made <= Len(viewing) /\ mem[s].grant \in Nat
  BY AskedOf
<1>2. todo'[s] # <<>> => mem'[s] = mem[s]
  BY AttestationGoesOn
<1>3. Len(viewing) \in Nat /\ Len(viewing') \in Nat /\ Len(viewing) <= Len(viewing')
  BY AsMany DEF ViewingKept
<1>4. /\ mem[s].made <= Len(viewing')
      /\ mem[s].grant \in 1 .. Len(viewing) => mem[s].grant \in 1 .. Len(viewing')
  BY <1>1, <1>3, Bounds
<1> QED
  BY <1>1, <1>2, <1>4 DEF Topic

LEMMA AnsweringKeeps ==
  ASSUME AttestationsSound, NEW s \in Slot, Answer(s), UNCHANGED <<attestTables, answered, wrongly>>,
         torn \subseteq torn', torn' \subseteq Attestation,
         \A a \in Attestation \ torn' : ~(Unfinished(s) /\ Topic(s) = a)
  PROVE  AttestationsSound'
<1>1. /\ Requested(AttestationStatement)' /\ OthersWait(s) /\ todo'[s] = <<>>
      /\ todo'[s] \in AttestationCourse /\ \A y : ~At(s, y)'
  BY AttestationAnswers
<1>2. Charged(s)' /\ ~Unfinished(s)'
  BY <1>1 DEF Charged, Unfinished
<1>3. wrongly' = FALSE
  BY DEF AttestationsSound
<1> QED
  BY <1>1, <1>2, <1>3, ReadingKeeps

\* A statement that only reads, by which the request goes on.
LEMMA PassingKeeps ==
  ASSUME AttestationsSound, NEW s \in Slot, NEW x \in {"subject", "wrapped", "claim", "record", "authorize"},
         At(s, x), Pass(s), UNCHANGED <<attestTables, answered, torn>>, wrongly' = FALSE, Charged(s)',
         x = "subject" => Kept(Topic(s))
  PROVE  AttestationsSound'
<1>1. /\ Requested(AttestationStatement)' /\ OthersWait(s)
      /\ ~At(s, "log")' /\ ~Unfinished(s)' /\ (At(s, "grant")' => x = "subject")
  <2>1. /\ x = "subject" => \A y : At(s, y)' <=> y = "grant"
        /\ x = "wrapped" => \A y : At(s, y)' <=> y = "claim"
        /\ x = "claim" => \A y : At(s, y)' <=> y = "session"
        /\ x = "record" => \A y : At(s, y)' <=> y = "authorize"
        /\ x = "authorize" => \A y : ~At(s, y)'
    BY AttestationGoesOn
  <2> QED
    BY <2>1, AttestationGoesOn DEF Unfinished
<1>2. ViewingKept /\ (Kept(Topic(s)) => records'[Topic(s)].kind \in {"public", "private"}) /\ records' = records
  BY TablesStand DEF Kept
<1>3. todo'[s] # <<>> => mem'[s] = mem[s] /\ Topic(s)' = Topic(s)
  BY <1>2, GoingOn
<1>4. At(s, "grant")' => Kept(Topic(s))'
  BY <1>1, <1>2, <1>3 DEF At, Kept
<1>5. ~Unfinished(s) /\ todo[s] # <<>>
  BY AskedOf
<1>6. \A t \in Slot \ {s} : At(t, "put attestation") =>
           records'[Topic(t)].kind = "none" /\ (todo'[s] # <<>> => Topic(s)' # Topic(t))
  BY <1>2, <1>3, <1>5, IssuersAreAlone
<1>7. torn \subseteq torn' /\ torn' \subseteq Attestation
  BY DEF AttestationsSound, AttestationsTypeOK
<1> QED
  BY <1>1, <1>4, <1>5, <1>6, <1>7, ReadingKeeps

LEMMA ReadSubjectKeeps ==
  ASSUME AttestationsSound, NEW s \in Slot, ReadSubject(s)
  PROVE  AttestationsSound'
<1>1. At(s, "subject") /\ UNCHANGED <<attestTables, answered, wrongly, torn>>
  BY DEF ReadSubject, attestPast
<1>2. wrongly' = FALSE /\ torn' \subseteq Attestation
  BY <1>1 DEF AttestationsSound, AttestationsTypeOK
<1>3. CASE Kept(Topic(s))
  <2>1. Pass(s)
    BY <1>3 DEF ReadSubject
  <2>2. ViewingKept /\ records' = records
    BY <1>1, TablesStand
  <2>3. todo'[s] \in AttestationCourse /\ \A y : At(s, y)' <=> y = "grant"
    BY <1>1, <2>1, AttestationGoesOn
  <2>4. Secret(Topic(s))
    BY <1>1, AskedOf DEF Charged
  <2>5. todo'[s] # <<>> => mem'[s] \in DossierRecord /\ mem'[s].made <= Len(viewing') /\ Topic(s)' = Topic(s)
    BY <1>1, <2>1, <2>2, GoingOn
  <2>6. At(s, "grant")' => Secret(Topic(s))'
    BY <2>2, <2>4, <2>5 DEF Secret, At
  <2>7. Charged(s)'
    BY <2>3, <2>5, <2>6 DEF Charged
  <2> QED
    BY <1>1, <1>2, <1>3, <2>1, <2>7, PassingKeeps
<1>4. CASE ~Kept(Topic(s))
  <2>1. Answer(s)
    BY <1>4 DEF ReadSubject
  <2>2. ~Unfinished(s)
    BY <1>1 DEF Unfinished, At
  <2>3. torn \subseteq torn'
    BY <1>1
  <2> QED
    BY <1>1, <1>2, <2>1, <2>2, <2>3, AnsweringKeeps
<1> QED
  BY <1>3, <1>4

LEMMA ReadKeysKeeps ==
  ASSUME AttestationsSound, NEW s \in Slot, ReadKeys(s)
  PROVE  AttestationsSound'
<1>1. At(s, "wrapped") /\ UNCHANGED <<attestTables, answered, wrongly, torn>>
  BY DEF ReadKeys, attestPast
<1>2. wrongly' = FALSE /\ torn' \subseteq Attestation
  BY <1>1 DEF AttestationsSound, AttestationsTypeOK
<1>3. CASE Topic(s) \in wrapped
  <2>1. Pass(s)
    BY <1>3 DEF ReadKeys
  <2>2. ViewingKept /\ records' = records /\ viewing' = viewing
    BY <1>1, TablesStand
  <2>3. todo'[s] \in AttestationCourse /\ \A y : At(s, y)' <=> y = "claim"
    BY <1>1, <2>1, AttestationGoesOn
  <2>4. (mem[s].right \/ Gone(Topic(s))) /\ mem[s].grant \in 1 .. Len(viewing)
    BY <1>1, AskedOf DEF Charged
  <2>5. todo'[s] # <<>> => /\ mem'[s] = mem[s] /\ mem'[s] \in DossierRecord
                           /\ mem'[s].made <= Len(viewing') /\ Topic(s)' = Topic(s)
    BY <1>1, <2>1, <2>2, GoingOn
  <2>6. At(s, "claim")' => (mem'[s].right \/ Gone(Topic(s))') /\ mem'[s].grant \in 1 .. Len(viewing')
    BY <2>2, <2>4, <2>5 DEF Gone, At
  <2>7. Charged(s)'
    BY <2>3, <2>5, <2>6 DEF Charged
  <2> QED
    BY <1>1, <1>2, <2>1, <2>7, PassingKeeps
<1>4. CASE Topic(s) \notin wrapped
  <2>1. Answer(s)
    BY <1>4 DEF ReadKeys
  <2>2. ~Unfinished(s)
    BY <1>1 DEF Unfinished, At
  <2>3. torn \subseteq torn'
    BY <1>1
  <2> QED
    BY <1>1, <1>2, <2>1, <2>2, <2>3, AnsweringKeeps
<1> QED
  BY <1>3, <1>4

LEMMA ReadClaimKeeps ==
  ASSUME AttestationsSound, NEW s \in Slot, ReadClaim(s)
  PROVE  AttestationsSound'
<1>1. At(s, "claim") /\ UNCHANGED <<attestTables, answered, wrongly, torn>>
  BY DEF ReadClaim, attestPast
<1>2. wrongly' = FALSE /\ torn' \subseteq Attestation
  BY <1>1 DEF AttestationsSound, AttestationsTypeOK
<1>3. CASE Kept(Topic(s))
  <2>1. Pass(s)
    BY <1>3 DEF ReadClaim
  <2>2. ViewingKept /\ viewing' = viewing
    BY <1>1, TablesStand
  <2>3. todo'[s] \in AttestationCourse /\ \A y : At(s, y)' <=> y = "session"
    BY <1>1, <2>1, AttestationGoesOn
  <2>4. (mem[s].right \/ Gone(Topic(s))) /\ mem[s].grant \in 1 .. Len(viewing)
    BY <1>1, AskedOf DEF Charged
  <2>5. todo'[s] # <<>> => /\ mem'[s] = mem[s] /\ mem'[s] \in DossierRecord
                           /\ mem'[s].made <= Len(viewing') /\ Topic(s)' = Topic(s)
    BY <1>1, <2>1, <2>2, GoingOn
  <2>6. mem[s].right
    BY <1>3, <2>4 DEF Gone, Kept
  <2>7. At(s, "session")' => mem'[s].right /\ mem'[s].grant \in 1 .. Len(viewing')
    BY <2>2, <2>4, <2>5, <2>6 DEF At
  <2>8. Charged(s)'
    BY <2>3, <2>5, <2>7 DEF Charged
  <2> QED
    BY <1>1, <1>2, <2>1, <2>8, PassingKeeps
<1>4. CASE ~Kept(Topic(s))
  <2>1. Answer(s)
    BY <1>4 DEF ReadClaim
  <2>2. ~Unfinished(s)
    BY <1>1 DEF Unfinished, At
  <2>3. torn \subseteq torn'
    BY <1>1
  <2> QED
    BY <1>1, <1>2, <2>1, <2>2, <2>3, AnsweringKeeps
<1> QED
  BY <1>3, <1>4

LEMMA ReadAttestationKeeps ==
  ASSUME AttestationsSound, NEW s \in Slot, ReadAttestation(s)
  PROVE  AttestationsSound'
<1>1. At(s, "record") /\ UNCHANGED <<attestTables, answered, wrongly, torn>>
  BY DEF ReadAttestation, attestPast
<1>2. wrongly' = FALSE /\ torn' \subseteq Attestation
  BY <1>1 DEF AttestationsSound, AttestationsTypeOK
<1>3. CASE Kept(Topic(s))
  <2>1. Pass(s)
    BY <1>3 DEF ReadAttestation
  <2>2. ViewingKept /\ viewing' = viewing
    BY <1>1, TablesStand
  <2>3. todo'[s] \in AttestationCourse /\ \A y : At(s, y)' <=> y = "authorize"
    BY <1>1, <2>1, AttestationGoesOn
  <2>4. Gone(Topic(s)) \/ Foreseen(s)
    BY <1>1, AskedOf DEF Charged
  <2>5. Foreseen(s)
    BY <1>3, <2>4 DEF Gone, Kept
  <2>6. todo'[s] # <<>> => /\ mem'[s] = mem[s] /\ mem'[s] \in DossierRecord
                           /\ mem'[s].made <= Len(viewing') /\ Topic(s)' = Topic(s)
    BY <1>1, <2>1, <2>2, GoingOn
  <2>7. At(s, "authorize")' => Foreseen(s)'
    BY <2>2, <2>5, <2>6 DEF Foreseen, GrantsFor, Valid, At
  <2>8. Charged(s)'
    BY <2>3, <2>6, <2>7 DEF Charged
  <2> QED
    BY <1>1, <1>2, <2>1, <2>8, PassingKeeps
<1>4. CASE ~Kept(Topic(s))
  <2>1. Answer(s)
    BY <1>4 DEF ReadAttestation
  <2>2. ~Unfinished(s)
    BY <1>1 DEF Unfinished, At
  <2>3. torn \subseteq torn'
    BY <1>1
  <2> QED
    BY <1>1, <1>2, <2>1, <2>2, <2>3, AnsweringKeeps
<1> QED
  BY <1>3, <1>4

\* Whoever is let in by a grant had it when they asked.
LEMMA AuthorizeKeeps ==
  ASSUME AttestationsSound, NEW s \in Slot, Authorize(s)
  PROVE  AttestationsSound'
<1>1. At(s, "authorize") /\ Pass(s) /\ UNCHANGED <<attestTables, answered, torn>>
  BY DEF Authorize
<1>2. Foreseen(s)
  BY <1>1, AskedOf DEF Charged
<1>3. wrongly' = FALSE
  <2> SUFFICES ASSUME ShownWrongly(s), NEW g \in GrantsFor(Topic(s)), Valid(g) PROVE FALSE
    <3>1. wrongly = FALSE
      BY DEF AttestationsSound
    <3>2. ShownWrongly(s) => ~ByPolicy(Topic(s))
      BY DEF ShownWrongly
    <3> QED
      BY <3>1, <3>2 DEF Authorize
  <2>1. ~mem[s].right /\ ~(Len(viewing) > mem[s].made)
    BY DEF ShownWrongly
  <2>2. g \in 1 .. Len(viewing)
    BY ViewingTyped DEF GrantsFor
  <2>3. ~(g <= mem[s].made)
    BY <1>2, <2>1 DEF Foreseen
  <2>4. mem[s].made \in Nat /\ Len(viewing) \in Nat
    BY <1>1, AskedOf, AsMany
  <2>5. \A l, m \in Nat : \A k \in 1 .. l : ~(l > m) => k <= m
    OBVIOUS
  <2> QED
    BY <2>1, <2>2, <2>3, <2>4, <2>5
<1>4. todo'[s] \in AttestationCourse /\ \A y : ~At(s, y)'
  BY <1>1, AttestationGoesOn
<1>5. ViewingKept
  BY <1>1, TablesStand
<1>6. todo'[s] # <<>> => mem'[s] \in DossierRecord /\ mem'[s].made <= Len(viewing')
  BY <1>1, <1>5, GoingOn
<1>7. Charged(s)'
  BY <1>4, <1>6 DEF Charged
<1> QED
  BY <1>1, <1>3, <1>7, PassingKeeps

LEMMA FailingKeeps ==
  ASSUME AttestationsSound, NEW s \in Slot, AttestationFails(s)
  PROVE  AttestationsSound'
<1>1. Answer(s) /\ UNCHANGED <<attestTables, answered, wrongly>> /\ todo[s] # <<>>
  BY DEF AttestationFails
<1>2. torn' = IF Writing(s) THEN torn \cup {Topic(s)} ELSE torn
  BY DEF AttestationFails
<1>3. torn \subseteq torn' /\ torn' \subseteq Attestation
  <2>1. torn \subseteq Attestation
    BY DEF AttestationsSound, AttestationsTypeOK
  <2>2. Topic(s) \in Attestation
    BY <1>1, AskedOf DEF At
  <2> QED
    BY <1>2, <2>1, <2>2
<1>4. ASSUME NEW a \in Attestation \ torn', Unfinished(s), Topic(s) = a PROVE FALSE
  <2>1. Writing(s)
    BY <1>4, AmidIsWriting DEF Amid
  <2> QED
    BY <1>2, <1>4, <2>1
<1> QED
  BY <1>1, <1>3, <1>4, AnsweringKeeps

-----------------------------------------------------------------------------
\* A statement that writes the tables.
LEMMA WritingKeeps ==
  ASSUME AttestationsSound, NEW s \in Slot, NEW x, At(s, x), Pass(s), NEW a \in Attestation, a = Topic(s),
         AttestationsTypeOK', ViewingKept, RecordsKept, Charged(s)', ~At(s, "log")', Apart(a),
         \A b \in wrapped' : b \in wrapped \/ Secret(b)',
         Len(viewing') = Len(viewing), UNCHANGED <<sessionsOf, logged, answered, wrongly>>,
         torn \subseteq torn',
         a \notin torn' =>
           /\ \A t \in Slot \ {s} : ~Amid(t, a)
           /\ ~Unfinished(s)' => AtRest(a)'
           /\ Unfinished(s)' => Halfway(s, a)'
           /\ At(s, "grant")' => Kept(a)'
  PROVE  AttestationsSound'
<1>1. Requested(AttestationStatement)' /\ OthersWait(s) /\ todo[s] # <<>>
  BY AttestationGoesOn DEF At
<1>2. todo'[s] # <<>> => mem'[s] = mem[s]
  BY GoingOn
<1>3. \A b \in Attestation \ torn' : WholeOf(b)'
  BY <1>1, <1>2, WholeAfter
<1>4. \A t \in Slot \ {s} : At(t, "put attestation") =>
        records'[Topic(t)].kind = "none" /\ (todo'[s] # <<>> => Topic(s)' # Topic(t))
  <2>1. \A b \in Attestation : b # Topic(s) => records'[b] = records[b]
    BY DEF Apart
  <2> QED
    BY <1>1, <1>2, <2>1, IssuersAreAlone
<1>5. wrongly' = FALSE
  BY DEF AttestationsSound
<1> QED
  BY <1>1, <1>3, <1>4, <1>5, AttestationsKeptUncounted

\* The grants are as they were.
LEMMA ViewingStands ==
  ASSUME AttestationsSound, viewing' = viewing
  PROVE  /\ ViewingKept /\ Len(viewing') = Len(viewing)
         /\ \A b : GrantsFor(b)' = GrantsFor(b)
<1>1. \A b : GrantsFor(b)' = GrantsFor(b)
  BY DEF GrantsFor
<1>2. Len(viewing') >= Len(viewing)
  BY AsMany
<1>3. \A g \in 1 .. Len(viewing) : Valid(g)' <=> Valid(g)
  BY DEF Valid
<1> QED
  BY <1>1, <1>2, <1>3, ViewingTyped DEF ViewingKept

\* The records are as they were.
LEMMA RecordsStand ==
  ASSUME records' = records
  PROVE  RecordsKept /\ \A a : (Secret(a)' <=> Secret(a)) /\ (Gone(a)' <=> Gone(a)) /\ (Kept(a)' <=> Kept(a))
BY DEF RecordsKept, Secret, Gone, Kept

LEMMA PutAttestationKeeps ==
  ASSUME AttestationsSound, NEW s \in Slot, PutAttestation(s)
  PROVE  AttestationsSound'
<1> SUFFICES ASSUME NEW a, a = Topic(s), NEW k, k = mem[s].kind, NEW o, o = mem[s].open
             PROVE  AttestationsSound'
  OBVIOUS
<1>1. At(s, "put attestation") /\ Pass(s)
  BY DEF PutAttestation
<1>2. /\ records' = [records EXCEPT ![a] = [kind |-> k, open |-> o]]
      /\ UNCHANGED <<wrapped, listed, viewing, belongs, sessionsOf, logged, answered, wrongly, torn>>
  BY DEF PutAttestation, attestPast
<1>3. a \in Attestation /\ o \in BOOLEAN /\ Charged(s)
  BY <1>1, AskedOf DEF DossierRecord
<1>4. /\ k \in {"private", "public"} /\ records[a].kind = "none"
      /\ \A t \in Slot \ {s} : todo[t] # <<>> => Topic(t) # a
  BY <1>1, <1>3 DEF Charged
<1>5. records \in [Attestation -> [kind : {"none", "public", "private", "deleted"}, open : BOOLEAN]]
  BY DEF AttestationsSound, AttestationsTypeOK
<1>6. /\ records' \in [Attestation -> [kind : {"none", "public", "private", "deleted"}, open : BOOLEAN]]
      /\ records'[a].kind = k /\ \A b \in Attestation \ {a} : records'[b] = records[b]
  BY <1>2, <1>3, <1>4, <1>5
<1>7. AttestationsTypeOK'
  BY <1>2, <1>6 DEF AttestationsSound, AttestationsTypeOK
<1>8. ViewingKept /\ Len(viewing') = Len(viewing) /\ \A b : GrantsFor(b)' = GrantsFor(b)
  BY <1>2, ViewingStands
<1>9. RecordsKept
  BY <1>4, <1>6 DEF RecordsKept, Secret, Gone
<1>10. Apart(a)
  BY <1>2, <1>6, <1>8 DEF Apart
<1>11. \A y : At(s, y)' <=> y = IF k = "private" THEN "keys" ELSE "list"
  BY <1>1, AttestationGoesOn
<1>12. todo'[s] \in AttestationCourse /\ ~At(s, "log")' /\ ~At(s, "grant")' /\ Unfinished(s)'
       /\ \A t \in Slot \ {s} : ~Amid(t, a)
  <2>1. todo'[s] \in AttestationCourse
    BY <1>1, AttestationGoesOn
  <2>2. ~At(s, "log")' /\ ~At(s, "grant")' /\ Unfinished(s)'
    BY <1>11 DEF Unfinished
  <2>3. \A t \in Slot \ {s} : ~Amid(t, a)
    BY <1>4 DEF Amid, Unfinished, At
  <2> QED
    BY <2>1, <2>2, <2>3
<1>13. todo'[s] # <<>> => mem'[s] \in DossierRecord /\ mem'[s].made <= Len(viewing') /\ Topic(s)' = a
  BY <1>1, <1>8, GoingOn
<1>14. Charged(s)'
  <2>1. At(s, "keys")' => Secret(Topic(s))'
    BY <1>6, <1>11, <1>13 DEF Secret, At
  <2> QED
    BY <1>11, <1>12, <1>13, <2>1 DEF Charged
<1>15. a \notin torn => Halfway(s, a)'
  <2> SUFFICES ASSUME a \notin torn PROVE Halfway(s, a)'
    OBVIOUS
  <2>1. AtRest(a)
    BY <1>1, <1>3, <1>12, WholeBefore DEF Unfinished, At
  <2>2. a \notin wrapped' /\ a \notin listed'
    BY <1>2, <1>4, <2>1 DEF AtRest, Kept
  <2> QED
    BY <1>4, <1>6, <1>11, <2>2 DEF Halfway, Kept
<1> QED
  BY <1>1, <1>2, <1>3, <1>7, <1>8, <1>9, <1>10, <1>12, <1>14, <1>15, WritingKeeps

\* What writes alone, and what it found.
LEMMA Alone ==
  ASSUME AttestationsSound, NEW s \in Slot, NEW x, At(s, x), Tearing(s), NEW a, a = Topic(s)
  PROVE  /\ a \in Attestation /\ torn \subseteq torn' /\ torn' \subseteq Attestation
         /\ a \notin torn' =>
              /\ \A t \in Slot \ {s} : ~Amid(t, a)
              /\ Unfinished(s) => Halfway(s, a)
              /\ ~Unfinished(s) => AtRest(a)
              /\ At(s, "grant") => Kept(a)
<1>1. a \in Attestation
  BY AskedOf
<1>2. torn \subseteq torn' /\ torn' \subseteq Attestation
  BY <1>1 DEF Tearing, AttestationsSound, AttestationsTypeOK
<1>3. a \notin torn' => a \notin torn /\ \A t \in Slot \ {s} : ~Amid(t, a)
  BY NobodyElse
<1> QED
  BY <1>1, <1>2, <1>3, WholeBefore

LEMMA StoreKeysKeeps ==
  ASSUME AttestationsSound, NEW s \in Slot, StoreKeys(s)
  PROVE  AttestationsSound'
<1> SUFFICES ASSUME NEW a, a = Topic(s) PROVE AttestationsSound'
  OBVIOUS
<1>1. At(s, "keys") /\ Pass(s) /\ Tearing(s)
  BY DEF StoreKeys
<1>2. /\ wrapped' = wrapped \cup {a}
      /\ UNCHANGED <<records, listed, viewing, belongs, sessionsOf, logged, answered, wrongly>>
  BY DEF StoreKeys
<1>3. a \in Attestation /\ torn \subseteq torn' /\ torn' \subseteq Attestation
  BY <1>1, Alone
<1>4. AttestationsTypeOK'
  BY <1>2, <1>3 DEF AttestationsSound, AttestationsTypeOK
<1>5. ViewingKept /\ Len(viewing') = Len(viewing) /\ \A b : GrantsFor(b)' = GrantsFor(b)
  BY <1>2, ViewingStands
<1>6. RecordsKept /\ \A b : (Secret(b)' <=> Secret(b)) /\ (Kept(b)' <=> Kept(b))
  BY <1>2, RecordsStand
<1>7. Apart(a)
  BY <1>2, <1>5 DEF Apart
<1>8. todo'[s] \in AttestationCourse /\ \A y : At(s, y)' <=> y = "list"
  BY <1>1, AttestationGoesOn
<1>9. todo'[s] # <<>> => mem'[s] \in DossierRecord /\ mem'[s].made <= Len(viewing')
  BY <1>1, <1>5, GoingOn
<1>10. Charged(s)' /\ ~At(s, "log")' /\ ~At(s, "grant")' /\ Unfinished(s)'
  BY <1>8, <1>9 DEF Charged, Unfinished
<1>11. Secret(a)
  BY <1>1, AskedOf DEF Charged
<1>12. \A b \in wrapped' : b \in wrapped \/ Secret(b)'
  BY <1>2, <1>6, <1>11
<1>13. Unfinished(s)
  BY <1>1 DEF Unfinished
<1>14. a \notin torn' => (\A t \in Slot \ {s} : ~Amid(t, a)) /\ Halfway(s, a)'
  <2> SUFFICES ASSUME a \notin torn' PROVE (\A t \in Slot \ {s} : ~Amid(t, a)) /\ Halfway(s, a)'
    OBVIOUS
  <2>1. (\A t \in Slot \ {s} : ~Amid(t, a)) /\ Halfway(s, a)
    BY <1>1, <1>13, Alone
  <2>2. records'[a].kind = "private" /\ a \in wrapped'
    BY <1>1, <1>2, <2>1 DEF Halfway
  <2> QED
    BY <1>8, <2>1, <2>2 DEF Halfway, Kept
<1> QED
  BY <1>1, <1>2, <1>3, <1>4, <1>5, <1>6, <1>7, <1>10, <1>12, <1>14, WritingKeeps

LEMMA ListAttestationKeeps ==
  ASSUME AttestationsSound, NEW s \in Slot, ListAttestation(s)
  PROVE  AttestationsSound'
<1> SUFFICES ASSUME NEW a, a = Topic(s) PROVE AttestationsSound'
  OBVIOUS
<1>1. At(s, "list") /\ Pass(s) /\ Tearing(s)
  BY DEF ListAttestation
<1>2. /\ listed' = listed \cup {a}
      /\ UNCHANGED <<records, wrapped, viewing, belongs, sessionsOf, logged, answered, wrongly>>
  BY DEF ListAttestation
<1>3. a \in Attestation /\ torn \subseteq torn' /\ torn' \subseteq Attestation
  BY <1>1, Alone
<1>4. AttestationsTypeOK'
  BY <1>2, <1>3 DEF AttestationsSound, AttestationsTypeOK
<1>5. ViewingKept /\ Len(viewing') = Len(viewing) /\ \A b : GrantsFor(b)' = GrantsFor(b)
  BY <1>2, ViewingStands
<1>6. RecordsKept /\ \A b : (Secret(b)' <=> Secret(b)) /\ (Kept(b)' <=> Kept(b))
  BY <1>2, RecordsStand
<1>7. Apart(a)
  BY <1>2, <1>5 DEF Apart
<1>8. todo'[s] \in AttestationCourse /\ \A y : ~At(s, y)'
  BY <1>1, AttestationGoesOn
<1>9. todo'[s] # <<>> => mem'[s] \in DossierRecord /\ mem'[s].made <= Len(viewing')
  BY <1>1, <1>5, GoingOn
<1>10. Charged(s)' /\ ~At(s, "log")' /\ ~At(s, "grant")' /\ ~Unfinished(s)'
  BY <1>8, <1>9 DEF Charged, Unfinished
<1>11. \A b \in wrapped' : b \in wrapped \/ Secret(b)'
  BY <1>2
<1>12. Unfinished(s)
  BY <1>1 DEF Unfinished
<1>13. a \notin torn' => (\A t \in Slot \ {s} : ~Amid(t, a)) /\ AtRest(a)'
  <2> SUFFICES ASSUME a \notin torn' PROVE (\A t \in Slot \ {s} : ~Amid(t, a)) /\ AtRest(a)'
    OBVIOUS
  <2>1. (\A t \in Slot \ {s} : ~Amid(t, a)) /\ Halfway(s, a)
    BY <1>1, <1>12, Alone
  <2>2. Kept(a) /\ (a \in wrapped <=> records[a].kind = "private")
    BY <1>1, <2>1 DEF Halfway
  <2>3. Kept(a)' /\ (a \in wrapped' <=> records'[a].kind = "private") /\ a \in listed'
    BY <1>2, <1>6, <2>2
  <2> QED
    BY <2>1, <2>3 DEF AtRest
<1> QED
  BY <1>1, <1>2, <1>3, <1>4, <1>5, <1>6, <1>7, <1>10, <1>11, <1>13, WritingKeeps

LEMMA DropKeysKeeps ==
  ASSUME AttestationsSound, NEW s \in Slot, DropKeys(s)
  PROVE  AttestationsSound'
<1> SUFFICES ASSUME NEW a, a = Topic(s) PROVE AttestationsSound'
  OBVIOUS
<1>1. At(s, "unwrap") /\ Pass(s) /\ Tearing(s)
  BY DEF DropKeys
<1>2. /\ wrapped' = wrapped \ {a}
      /\ UNCHANGED <<records, listed, viewing, belongs, sessionsOf, logged, answered, wrongly>>
  BY DEF DropKeys
<1>3. a \in Attestation /\ torn \subseteq torn' /\ torn' \subseteq Attestation
  BY <1>1, Alone
<1>4. AttestationsTypeOK'
  BY <1>2, <1>3 DEF AttestationsSound, AttestationsTypeOK
<1>5. ViewingKept /\ Len(viewing') = Len(viewing) /\ \A b : GrantsFor(b)' = GrantsFor(b)
  BY <1>2, ViewingStands
<1>6. RecordsKept
  BY <1>2, RecordsStand
<1>7. Apart(a)
  BY <1>2, <1>5 DEF Apart
<1>8. todo'[s] \in AttestationCourse /\ \A y : At(s, y)' <=> y = "unlist"
  BY <1>1, AttestationGoesOn
<1>9. todo'[s] # <<>> => mem'[s] \in DossierRecord /\ mem'[s].made <= Len(viewing')
  BY <1>1, <1>5, GoingOn
<1>10. Charged(s)' /\ ~At(s, "log")' /\ ~At(s, "grant")' /\ Unfinished(s)'
  BY <1>8, <1>9 DEF Charged, Unfinished
<1>11. \A b \in wrapped' : b \in wrapped \/ Secret(b)'
  BY <1>2
<1>12. Unfinished(s)
  BY <1>1 DEF Unfinished
<1>13. a \notin torn' => (\A t \in Slot \ {s} : ~Amid(t, a)) /\ Halfway(s, a)'
  <2> SUFFICES ASSUME a \notin torn' PROVE (\A t \in Slot \ {s} : ~Amid(t, a)) /\ Halfway(s, a)'
    OBVIOUS
  <2>1. (\A t \in Slot \ {s} : ~Amid(t, a)) /\ Halfway(s, a)
    BY <1>1, <1>12, Alone
  <2>2. Gone(a) /\ \A g \in GrantsFor(a) : viewing[g].status = "revoked"
    BY <1>1, <2>1 DEF Halfway
  <2>3. Gone(a)' /\ (\A g \in GrantsFor(a)' : viewing'[g].status = "revoked") /\ a \notin wrapped'
    BY <1>2, <1>5, <2>2 DEF Gone
  <2> QED
    BY <1>8, <2>1, <2>3 DEF Halfway
<1> QED
  BY <1>1, <1>2, <1>3, <1>4, <1>5, <1>6, <1>7, <1>10, <1>11, <1>13, WritingKeeps

LEMMA UnlistKeeps ==
  ASSUME AttestationsSound, NEW s \in Slot, Unlist(s)
  PROVE  AttestationsSound'
<1> SUFFICES ASSUME NEW a, a = Topic(s) PROVE AttestationsSound'
  OBVIOUS
<1>1. At(s, "unlist") /\ Pass(s) /\ Tearing(s)
  BY DEF Unlist
<1>2. /\ listed' = listed \ {a}
      /\ UNCHANGED <<records, wrapped, viewing, belongs, sessionsOf, logged, answered, wrongly>>
  BY DEF Unlist
<1>3. a \in Attestation /\ torn \subseteq torn' /\ torn' \subseteq Attestation
  BY <1>1, Alone
<1>4. AttestationsTypeOK'
  BY <1>2, <1>3 DEF AttestationsSound, AttestationsTypeOK
<1>5. ViewingKept /\ Len(viewing') = Len(viewing) /\ \A b : GrantsFor(b)' = GrantsFor(b)
  BY <1>2, ViewingStands
<1>6. RecordsKept
  BY <1>2, RecordsStand
<1>7. Apart(a)
  BY <1>2, <1>5 DEF Apart
<1>8. todo'[s] \in AttestationCourse /\ \A y : ~At(s, y)'
  BY <1>1, AttestationGoesOn
<1>9. todo'[s] # <<>> => mem'[s] \in DossierRecord /\ mem'[s].made <= Len(viewing')
  BY <1>1, <1>5, GoingOn
<1>10. Charged(s)' /\ ~At(s, "log")' /\ ~At(s, "grant")' /\ ~Unfinished(s)'
  BY <1>8, <1>9 DEF Charged, Unfinished
<1>11. \A b \in wrapped' : b \in wrapped \/ Secret(b)'
  BY <1>2
<1>12. Unfinished(s)
  BY <1>1 DEF Unfinished
<1>13. a \notin torn' => (\A t \in Slot \ {s} : ~Amid(t, a)) /\ AtRest(a)'
  <2> SUFFICES ASSUME a \notin torn' PROVE (\A t \in Slot \ {s} : ~Amid(t, a)) /\ AtRest(a)'
    OBVIOUS
  <2>1. (\A t \in Slot \ {s} : ~Amid(t, a)) /\ Halfway(s, a)
    BY <1>1, <1>12, Alone
  <2>2. Gone(a) /\ a \notin wrapped /\ \A g \in GrantsFor(a) : viewing[g].status = "revoked"
    BY <1>1, <2>1 DEF Halfway
  <2>3. /\ records'[a].kind = "deleted" /\ a \notin wrapped' /\ a \notin listed'
        /\ \A g \in GrantsFor(a)' : viewing'[g].status = "revoked"
    BY <1>2, <1>5, <2>2 DEF Gone
  <2> QED
    BY <2>1, <2>3 DEF AtRest, Kept
<1> QED
  BY <1>1, <1>2, <1>3, <1>4, <1>5, <1>6, <1>7, <1>10, <1>11, <1>13, WritingKeeps

-----------------------------------------------------------------------------
AttestationRecord == [kind : {"none", "public", "private", "deleted"}, open : BOOLEAN]
GrantRecord == [about : Attestation, status : {"active", "revoked"}, lapsed : BOOLEAN]

LEMMA RecordUpdates ==
  /\ \A r \in AttestationRecord :
       /\ [r EXCEPT !.kind = "deleted"] \in AttestationRecord /\ [r EXCEPT !.kind = "deleted"].kind = "deleted"
       /\ [r EXCEPT !.kind = r.kind] = r
  /\ \A v \in GrantRecord :
       /\ [v EXCEPT !.status = "revoked"] \in GrantRecord /\ [v EXCEPT !.lapsed = TRUE] \in GrantRecord
       /\ [v EXCEPT !.status = "revoked"].about = v.about /\ [v EXCEPT !.lapsed = TRUE].about = v.about
       /\ [v EXCEPT !.status = "revoked"].status = "revoked" /\ [v EXCEPT !.lapsed = TRUE].status = v.status
       /\ [v EXCEPT !.status = "revoked"].lapsed = v.lapsed /\ [v EXCEPT !.lapsed = TRUE].lapsed
<1>1. ASSUME NEW r \in AttestationRecord
      PROVE  /\ [r EXCEPT !.kind = "deleted"] \in AttestationRecord /\ [r EXCEPT !.kind = "deleted"].kind = "deleted"
             /\ [r EXCEPT !.kind = r.kind] = r
  BY DEF AttestationRecord
<1>2. ASSUME NEW v \in GrantRecord
      PROVE  /\ [v EXCEPT !.status = "revoked"] \in GrantRecord
             /\ [v EXCEPT !.status = "revoked"].about = v.about
             /\ [v EXCEPT !.status = "revoked"].status = "revoked"
             /\ [v EXCEPT !.status = "revoked"].lapsed = v.lapsed
  BY DEF GrantRecord
<1>3. ASSUME NEW v \in GrantRecord
      PROVE  /\ [v EXCEPT !.lapsed = TRUE] \in GrantRecord
             /\ [v EXCEPT !.lapsed = TRUE].about = v.about
             /\ [v EXCEPT !.lapsed = TRUE].status = v.status
             /\ [v EXCEPT !.lapsed = TRUE].lapsed
  BY DEF GrantRecord
<1> QED
  BY <1>1, <1>2, <1>3

\* Grants that are revoked or lapse are the same grants.
LEMMA ViewingChanges ==
  ASSUME AttestationsSound, viewing' \in Seq(GrantRecord), Len(viewing') = Len(viewing),
         \A g \in 1 .. Len(viewing) :
           /\ viewing'[g].about = viewing[g].about
           /\ viewing'[g].status \in {viewing[g].status, "revoked"}
           /\ viewing[g].lapsed => viewing'[g].lapsed
  PROVE  /\ ViewingKept /\ \A b : GrantsFor(b)' = GrantsFor(b)
         /\ \A g \in 1 .. Len(viewing) : viewing[g].status = "revoked" => viewing'[g].status = "revoked"
<1>1. DOMAIN viewing' = 1 .. Len(viewing) /\ DOMAIN viewing = 1 .. Len(viewing)
  BY ViewingTyped, LenProperties
<1>2. \A g \in 1 .. Len(viewing) : viewing[g].status = "revoked" => viewing'[g].status = "revoked"
  OBVIOUS
<1>3. \A g \in 1 .. Len(viewing) : Valid(g)' => Valid(g)
  BY <1>1 DEF Valid
<1>4. Len(viewing') >= Len(viewing) /\ Len(viewing') \in Nat
  BY AsMany
<1>5. ASSUME NEW b PROVE GrantsFor(b)' = GrantsFor(b)
  BY <1>1 DEF GrantsFor
<1> QED
  BY <1>1, <1>2, <1>3, <1>4, <1>5 DEF ViewingKept

LEMMA DropAttestationKeeps ==
  ASSUME AttestationsSound, NEW s \in Slot, DropAttestation(s)
  PROVE  AttestationsSound'
<1> SUFFICES ASSUME NEW a, a = Topic(s) PROVE AttestationsSound'
  OBVIOUS
<1>1. At(s, "delete attestation")
  BY DEF DropAttestation
<1>2. UNCHANGED <<wrapped, listed, viewing, belongs, sessionsOf, logged, answered, wrongly>>
  BY DEF DropAttestation
<1>3. a \in Attestation
  BY <1>1, AskedOf
<1>4. records \in [Attestation -> AttestationRecord] /\ torn \subseteq Attestation
  BY DEF AttestationsSound, AttestationsTypeOK, AttestationRecord
<1>5. ~Unfinished(s)
  BY <1>1 DEF Unfinished, At
<1>6. CASE Kept(a)
  <2> DEFINE new == [records[a] EXCEPT !.kind = "deleted"]
  <2>1. Pass(s) /\ Tearing(s)
    BY <1>6 DEF DropAttestation
  <2>2. records' = [records EXCEPT ![a] = new]
    BY <1>6 DEF DropAttestation
  <2>3. new \in AttestationRecord /\ new.kind = "deleted"
    BY <1>3, <1>4, RecordUpdates
  <2> HIDE DEF new
  <2>4. /\ records' \in [Attestation -> AttestationRecord] /\ records'[a].kind = "deleted"
        /\ \A b \in Attestation \ {a} : records'[b] = records[b]
    BY <1>3, <1>4, <2>2, <2>3
  <2>5. torn \subseteq torn' /\ torn' \subseteq Attestation
    BY <1>1, <2>1, Alone
  <2>6. AttestationsTypeOK'
    BY <1>2, <2>4, <2>5 DEF AttestationsSound, AttestationsTypeOK, AttestationRecord
  <2>7. ViewingKept /\ Len(viewing') = Len(viewing) /\ \A b : GrantsFor(b)' = GrantsFor(b)
    BY <1>2, ViewingStands
  <2>8. RecordsKept
    BY <2>4 DEF RecordsKept, Secret, Gone
  <2>9. Apart(a)
    BY <1>2, <2>4, <2>7 DEF Apart
  <2>10. todo'[s] \in AttestationCourse /\ \A y : At(s, y)' <=> y = "revoke all"
    BY <1>1, <2>1, AttestationGoesOn
  <2>11. todo'[s] # <<>> => mem'[s] \in DossierRecord /\ mem'[s].made <= Len(viewing')
    BY <1>1, <2>1, <2>7, GoingOn
  <2>12. Charged(s)' /\ ~At(s, "log")' /\ ~At(s, "grant")' /\ Unfinished(s)'
    BY <2>10, <2>11 DEF Charged, Unfinished
  <2>13. \A b \in wrapped' : b \in wrapped \/ Secret(b)'
    BY <1>2
  <2>14. Halfway(s, a)'
    BY <2>4, <2>10 DEF Halfway, Gone
  <2>15. a \notin torn' => \A t \in Slot \ {s} : ~Amid(t, a)
    BY <1>1, <2>1, Alone
  <2> QED
    BY <1>1, <1>2, <1>3, <2>1, <2>5, <2>6, <2>7, <2>8, <2>9, <2>12, <2>13, <2>14, <2>15, WritingKeeps
<1>7. CASE ~Kept(a)
  <2> DEFINE same == [records[a] EXCEPT !.kind = records[a].kind]
  <2>1. Answer(s) /\ torn' = torn
    BY <1>7 DEF DropAttestation
  <2>2. records' = [records EXCEPT ![a] = same]
    BY <1>7 DEF DropAttestation
  <2>3. same = records[a]
    BY <1>3, <1>4, RecordUpdates
  <2> HIDE DEF same
  <2>4. records' = records
    BY <1>3, <1>4, <2>2, <2>3
  <2> QED
    BY <1>2, <1>4, <1>5, <2>1, <2>4, AnsweringKeeps DEF attestTables
<1> QED
  BY <1>6, <1>7

LEMMA RevokeGrantsKeeps ==
  ASSUME AttestationsSound, NEW s \in Slot, RevokeGrants(s)
  PROVE  AttestationsSound'
<1> SUFFICES ASSUME NEW a, a = Topic(s) PROVE AttestationsSound'
  OBVIOUS
<1> DEFINE now(g) == IF viewing[g].about = a THEN [viewing[g] EXCEPT !.status = "revoked"] ELSE viewing[g]
<1>1. At(s, "revoke all") /\ Pass(s) /\ Tearing(s)
  BY DEF RevokeGrants
<1>2. /\ viewing' = [g \in DOMAIN viewing |-> now(g)]
      /\ UNCHANGED <<records, wrapped, listed, belongs, sessionsOf, logged, answered, wrongly>>
  BY DEF RevokeGrants
<1>3. a \in Attestation /\ torn \subseteq torn' /\ torn' \subseteq Attestation
  BY <1>1, Alone
<1>4. \A g \in 1 .. Len(viewing) : viewing[g] \in GrantRecord
  BY ViewingTyped DEF GrantRecord
<1>5. ASSUME NEW g \in 1 .. Len(viewing)
      PROVE  /\ now(g) \in GrantRecord /\ now(g).about = viewing[g].about
             /\ now(g).status \in {viewing[g].status, "revoked"}
             /\ now(g).lapsed = viewing[g].lapsed
             /\ viewing[g].about = a => now(g).status = "revoked"
  BY <1>4, RecordUpdates
<1> HIDE DEF now
<1>6. /\ viewing' \in Seq(GrantRecord) /\ Len(viewing') = Len(viewing)
      /\ \A g \in 1 .. Len(viewing) : viewing'[g] = now(g)
  <2>1. viewing' = [g \in 1 .. Len(viewing) |-> now(g)] /\ Len(viewing) \in Nat
    BY <1>2, ViewingTyped
  <2>2. viewing' \in [1 .. Len(viewing) -> GrantRecord]
    BY <1>5, <2>1
  <2> QED
    BY <2>1, <2>2
<1>7. ViewingKept /\ \A b : GrantsFor(b)' = GrantsFor(b)
  BY <1>5, <1>6, ViewingChanges
<1>8. \A g \in 1 .. Len(viewing) : viewing[g].status = "revoked" => viewing'[g].status = "revoked"
  BY <1>5, <1>6
<1>9. \A b : \A g \in GrantsFor(b) : g \in 1 .. Len(viewing) /\ viewing[g].about = b
  BY ViewingTyped DEF GrantsFor
<1>10. \A g \in GrantsFor(a)' : viewing'[g].status = "revoked"
  BY <1>5, <1>6, <1>7, <1>9
<1>11. AttestationsTypeOK'
  BY <1>2, <1>3, <1>6 DEF AttestationsSound, AttestationsTypeOK, GrantRecord
<1>12. RecordsKept
  BY <1>2, RecordsStand
<1>13. Apart(a)
  BY <1>2, <1>7, <1>8, <1>9 DEF Apart
<1>14. todo'[s] \in AttestationCourse /\ \A y : At(s, y)' <=> y = "unwrap"
  BY <1>1, AttestationGoesOn
<1>15. todo'[s] # <<>> => mem'[s] \in DossierRecord /\ mem'[s].made <= Len(viewing')
  BY <1>1, <1>7, GoingOn
<1>16. Charged(s)' /\ ~At(s, "log")' /\ ~At(s, "grant")' /\ Unfinished(s)'
  BY <1>14, <1>15 DEF Charged, Unfinished
<1>17. \A b \in wrapped' : b \in wrapped \/ Secret(b)'
  BY <1>2
<1>18. Unfinished(s)
  BY <1>1 DEF Unfinished
<1>19. a \notin torn' => (\A t \in Slot \ {s} : ~Amid(t, a)) /\ Halfway(s, a)'
  <2> SUFFICES ASSUME a \notin torn' PROVE (\A t \in Slot \ {s} : ~Amid(t, a)) /\ Halfway(s, a)'
    OBVIOUS
  <2>1. (\A t \in Slot \ {s} : ~Amid(t, a)) /\ Halfway(s, a)
    BY <1>1, <1>18, Alone
  <2>2. Gone(a)'
    BY <1>1, <1>2, <2>1 DEF Halfway, Gone
  <2> QED
    BY <1>10, <1>14, <2>1, <2>2 DEF Halfway
<1> QED
  BY <1>1, <1>2, <1>3, <1>6, <1>7, <1>11, <1>12, <1>13, <1>16, <1>17, <1>19, WritingKeeps

LEMMA WriteGrantRevokedKeeps ==
  ASSUME AttestationsSound, NEW s \in Slot, WriteGrantRevoked(s)
  PROVE  AttestationsSound'
<1> SUFFICES ASSUME NEW k, k = mem[s].grant PROVE AttestationsSound'
  OBVIOUS
<1> DEFINE new == [viewing[k] EXCEPT !.status = "revoked"]
<1>1. At(s, "revoked") /\ Pass(s)
  BY DEF WriteGrantRevoked
<1>2. /\ viewing' = [viewing EXCEPT ![k] = new]
      /\ UNCHANGED <<records, wrapped, listed, belongs, sessionsOf, logged, answered, wrongly, torn>>
  BY DEF WriteGrantRevoked, attestPast
<1>3. k \in 1 .. Len(viewing)
  BY <1>1, AskedOf DEF Charged
<1>4. viewing[k] \in GrantRecord /\ viewing \in Seq(GrantRecord)
  BY <1>3, ViewingTyped DEF GrantRecord, AttestationsSound, AttestationsTypeOK
<1>5. new \in GrantRecord /\ new.about = viewing[k].about /\ new.status = "revoked" /\ new.lapsed = viewing[k].lapsed
  BY <1>4, RecordUpdates
<1> HIDE DEF new
<1>6. /\ viewing' \in Seq(GrantRecord) /\ Len(viewing') = Len(viewing)
      /\ \A g \in 1 .. Len(viewing) : viewing'[g] = IF g = k THEN new ELSE viewing[g]
  BY <1>2, <1>3, <1>4, <1>5, ExceptSeq
<1>7. \A g \in 1 .. Len(viewing) :
        /\ viewing'[g].about = viewing[g].about
        /\ viewing'[g].status \in {viewing[g].status, "revoked"}
        /\ viewing[g].lapsed => viewing'[g].lapsed
  BY <1>5, <1>6
<1>8. /\ ViewingKept /\ \A b : GrantsFor(b)' = GrantsFor(b)
      /\ \A g \in 1 .. Len(viewing) : viewing[g].status = "revoked" => viewing'[g].status = "revoked"
  BY <1>6, <1>7, ViewingChanges
<1>9. AttestationsTypeOK'
  BY <1>2, <1>6 DEF AttestationsSound, AttestationsTypeOK, GrantRecord
<1>10. Requested(AttestationStatement)' /\ OthersWait(s) /\ todo'[s] \in AttestationCourse /\ \A y : ~At(s, y)'
  BY <1>1, AttestationGoesOn
<1>11. todo'[s] # <<>> => mem'[s] = mem[s] /\ mem'[s] \in DossierRecord /\ mem'[s].made <= Len(viewing')
  BY <1>1, <1>8, GoingOn
<1>12. Charged(s)' /\ ~Unfinished(s)'
  BY <1>10, <1>11 DEF Charged, Unfinished
<1>13. ~Unfinished(s) /\ todo[s] # <<>>
  BY <1>1 DEF Unfinished, At
<1>14. \A t \in Slot \ {s} : At(t, "put attestation") =>
         records'[Topic(t)].kind = "none" /\ (todo'[s] # <<>> => Topic(s)' # Topic(t))
  BY <1>2, <1>11, <1>13, IssuersAreAlone
<1>15. ASSUME NEW b \in Attestation \ torn' PROVE WholeOf(b)'
  <2>1. WholeOf(b)
    BY <1>2 DEF AttestationsSound
  <2>2. \A g \in GrantsFor(b) : g \in 1 .. Len(viewing)
    BY ViewingTyped DEF GrantsFor
  <2> QED
    BY <1>2, <1>8, <1>10, <1>12, <1>13, <2>1, <2>2, WholeElsewhere
<1>16. RecordsKept /\ wrongly' = FALSE /\ \A b \in wrapped' : b \in wrapped
  BY <1>2, RecordsStand DEF AttestationsSound
<1> QED
  BY <1>2, <1>6, <1>8, <1>9, <1>10, <1>12, <1>14, <1>15, <1>16, AttestationsKeptUncounted

\* What happens while every request waits: a grant lapses, the viewer joins or leaves.
LEMMA WaitingKeeps ==
  ASSUME AttestationsSound, AttestationsTypeOK', UNCHANGED requests,
         UNCHANGED <<records, wrapped, listed, sessionsOf, logged, answered, wrongly, torn>>,
         viewing' \in Seq(GrantRecord), Len(viewing') = Len(viewing),
         \A g \in 1 .. Len(viewing) :
           /\ viewing'[g].about = viewing[g].about
           /\ viewing'[g].status \in {viewing[g].status, "revoked"}
           /\ viewing[g].lapsed => viewing'[g].lapsed
  PROVE  AttestationsSound'
<1>1. todo' = todo /\ mem' = mem
  BY DEF requests
<1>2. /\ ViewingKept /\ \A b : GrantsFor(b)' = GrantsFor(b)
      /\ \A g \in 1 .. Len(viewing) : viewing[g].status = "revoked" => viewing'[g].status = "revoked"
  BY ViewingChanges
<1>3. RecordsKept /\ \A a : (Secret(a)' <=> Secret(a)) /\ (Gone(a)' <=> Gone(a)) /\ (Kept(a)' <=> Kept(a))
  BY RecordsStand
<1>4. Requested(AttestationStatement)'
  BY <1>1 DEF AttestationsSound, Requested
<1>5. /\ \A t : Topic(t)' = Topic(t)
      /\ \A t, x : At(t, x)' <=> At(t, x)
      /\ \A t : Unfinished(t)' <=> Unfinished(t)
  BY <1>1 DEF Topic, At, Unfinished
<1>6. ASSUME NEW t \in Slot PROVE Charged(t)'
  <2>1. Charged(t)
    BY DEF AttestationsSound
  <2>2. At(t, "put attestation") =>
          /\ records'[Topic(t)].kind = "none"
          /\ \A u \in Slot \ {t} : todo'[u] # <<>> => Topic(u)' # Topic(t)'
    BY <1>1, <1>5, <2>1 DEF Charged
  <2> QED
    BY <1>1, <1>2, <1>3, <2>2, ChargeStands
<1>7. \A a \in wrapped' : Secret(a)'
  BY <1>3 DEF AttestationsSound
<1>8. ASSUME NEW g \in 1 .. Len(viewing') PROVE Secret(viewing[g].about)' /\ Accounted(g)'
  <2>1. Secret(viewing[g].about) /\ Accounted(g)
    BY DEF AttestationsSound
  <2>2. viewing'[g].about = viewing[g].about
    OBVIOUS
  <2>3. Secret(viewing[g].about)'
    BY <2>1, <2>2 DEF Secret
  <2>4. Logging(g)' = Logging(g)
    BY <1>1 DEF Logging, At
  <2> QED
    BY <2>1, <2>3, <2>4 DEF Accounted
<1>9. ASSUME NEW a \in Attestation \ torn' PROVE WholeOf(a)'
  <2>1. WholeOf(a)
    BY DEF AttestationsSound
  <2>2. \A g \in GrantsFor(a) : g \in 1 .. Len(viewing)
    BY ViewingTyped DEF GrantsFor
  <2>3. \A g \in GrantsFor(a)' : g \in GrantsFor(a) /\ (viewing[g].status = "revoked" => viewing'[g].status = "revoked")
    BY <1>2, <2>2
  <2>4. AtRest(a) => AtRest(a)'
    BY <1>3, <2>3 DEF AtRest
  <2>5. \A t \in Slot : Halfway(t, a) => Halfway(t, a)'
    BY <1>3, <1>5, <2>3 DEF Halfway
  <2> QED
    BY <1>3, <1>5, <2>1, <2>4, <2>5 DEF WholeOf
<1>10. wrongly' = FALSE
  BY DEF AttestationsSound
<1> QED
  BY <1>4, <1>6, <1>7, <1>8, <1>9, <1>10 DEF AttestationsSound

LEMMA GrantLapsesKeeps ==
  ASSUME AttestationsSound, NEW k \in 1 .. Len(viewing), GrantLapses(k)
  PROVE  AttestationsSound'
<1> DEFINE new == [viewing[k] EXCEPT !.lapsed = TRUE]
<1>1. /\ viewing' = [viewing EXCEPT ![k] = new] /\ UNCHANGED requests
      /\ UNCHANGED <<records, wrapped, listed, belongs, sessionsOf, logged, answered, wrongly, torn>>
  BY DEF GrantLapses, attestPast
<1>2. viewing[k] \in GrantRecord /\ viewing \in Seq(GrantRecord)
  BY ViewingTyped DEF GrantRecord, AttestationsSound, AttestationsTypeOK
<1>3. new \in GrantRecord /\ new.about = viewing[k].about /\ new.status = viewing[k].status /\ new.lapsed
  BY <1>2, RecordUpdates
<1> HIDE DEF new
<1>4. /\ viewing' \in Seq(GrantRecord) /\ Len(viewing') = Len(viewing)
      /\ \A g \in 1 .. Len(viewing) : viewing'[g] = IF g = k THEN new ELSE viewing[g]
  BY <1>1, <1>2, <1>3, ExceptSeq
<1>5. \A g \in 1 .. Len(viewing) :
        /\ viewing'[g].about = viewing[g].about
        /\ viewing'[g].status \in {viewing[g].status, "revoked"}
        /\ viewing[g].lapsed => viewing'[g].lapsed
  BY <1>3, <1>4
<1>6. AttestationsTypeOK'
  BY <1>1, <1>4 DEF AttestationsSound, AttestationsTypeOK, GrantRecord
<1> QED
  BY <1>1, <1>4, <1>5, <1>6, WaitingKeeps

LEMMA ViewerMovesKeeps ==
  ASSUME AttestationsSound, ViewerMoves
  PROVE  AttestationsSound'
<1>1. /\ viewing' = viewing /\ UNCHANGED requests /\ belongs' = ~belongs
      /\ UNCHANGED <<records, wrapped, listed, sessionsOf, logged, answered, wrongly, torn>>
  BY DEF ViewerMoves, attestPast
<1>2. viewing \in Seq(GrantRecord)
  BY DEF GrantRecord, AttestationsSound, AttestationsTypeOK
<1>3. AttestationsTypeOK'
  <2>1. belongs' \in BOOLEAN
    BY <1>1
  <2> QED
    BY <1>1, <2>1 DEF AttestationsSound, AttestationsTypeOK
<1> QED
  BY <1>1, <1>2, <1>3, WaitingKeeps

\* A grant that is made has not been redeemed.
LEMMA InsertGrantKeeps ==
  ASSUME AttestationsSound, NEW s \in Slot, InsertGrant(s)
  PROVE  AttestationsSound'
<1> SUFFICES ASSUME NEW a, a = Topic(s) PROVE AttestationsSound'
  OBVIOUS
<1> DEFINE new == [about |-> a, status |-> "active", lapsed |-> FALSE]
           n == Len(viewing)
<1>1. At(s, "grant") /\ Pass(s) /\ Tearing(s)
  BY DEF InsertGrant
<1>2. /\ viewing' = Append(viewing, new) /\ sessionsOf' = Append(sessionsOf, 0)
      /\ logged' = Append(logged, 0) /\ answered' = Append(answered, 0)
      /\ UNCHANGED <<records, wrapped, listed, belongs, wrongly>>
  BY DEF InsertGrant
<1>3. a \in Attestation /\ torn \subseteq torn' /\ torn' \subseteq Attestation
  BY <1>1, Alone
<1>4. new \in GrantRecord /\ new.about = a
  BY <1>3 DEF GrantRecord
<1> HIDE DEF new
<1>5. /\ viewing \in Seq(GrantRecord) /\ n \in Nat
      /\ \A list \in {sessionsOf, logged, answered} : list \in Seq(Nat) /\ Len(list) = n
  BY ViewingTyped, AsMany DEF GrantRecord, AttestationsSound, AttestationsTypeOK
<1>6. /\ viewing' \in Seq(GrantRecord) /\ Len(viewing') = n + 1 /\ viewing'[n + 1] = new
      /\ \A g \in 1 .. n : viewing'[g] = viewing[g]
  BY <1>2, <1>4, <1>5, AppendProperties
<1>7. ASSUME NEW list \in {sessionsOf, logged, answered}
      PROVE  /\ Append(list, 0) \in Seq(Nat) /\ Len(Append(list, 0)) = n + 1 /\ Append(list, 0)[n + 1] = 0
             /\ \A g \in 1 .. n : Append(list, 0)[g] = list[g]
  <2>1. list \in Seq(Nat) /\ Len(list) = n /\ 0 \in Nat
    BY <1>5
  <2> QED
    BY <2>1, AppendProperties
<1>8. /\ \A list \in {sessionsOf', logged', answered'} : list \in Seq(Nat) /\ Len(list) = n + 1
      /\ sessionsOf'[n + 1] = 0 /\ logged'[n + 1] = 0 /\ answered'[n + 1] = 0
      /\ \A g \in 1 .. n : sessionsOf'[g] = sessionsOf[g] /\ logged'[g] = logged[g] /\ answered'[g] = answered[g]
  BY <1>2, <1>7
<1>9. /\ DOMAIN viewing' = 1 .. Len(viewing') /\ Len(viewing') \in Nat
      /\ DOMAIN viewing = 1 .. n
      /\ \A g \in 1 .. Len(viewing') : g \in 1 .. n \/ g = n + 1
      /\ \A g \in 1 .. n : g \in 1 .. Len(viewing')
      /\ Len(viewing') >= n
  BY <1>5, <1>6, LenProperties
<1>10. ViewingKept
  <2>1. \A g \in 1 .. n : Valid(g)' <=> Valid(g)
    BY <1>6 DEF Valid
  <2> QED
    BY <1>6, <1>9, <2>1 DEF ViewingKept
<1>11. \A b : b # a => GrantsFor(b)' = GrantsFor(b)
  <2>1. ASSUME NEW b, b # a PROVE GrantsFor(b)' \subseteq GrantsFor(b)
    BY <1>4, <1>6, <1>9, <2>1 DEF GrantsFor
  <2>2. ASSUME NEW b PROVE GrantsFor(b) \subseteq GrantsFor(b)'
    BY <1>6, <1>9 DEF GrantsFor
  <2> QED
    BY <2>1, <2>2
<1>12. AttestationsTypeOK'
  <2>1. \A list \in {sessionsOf, logged, answered}' : list \in Seq(Nat) /\ Len(list) = Len(viewing')
    BY <1>6, <1>8
  <2> QED
    BY <1>2, <1>3, <1>6, <2>1 DEF AttestationsSound, AttestationsTypeOK, GrantRecord
<1>13. RecordsKept /\ \A b : (Secret(b)' <=> Secret(b)) /\ (Gone(b)' <=> Gone(b)) /\ (Kept(b)' <=> Kept(b))
  BY <1>2, RecordsStand
<1>14. \A b \in Attestation \ {a} : \A g \in GrantsFor(b) : g \in 1 .. n
  BY <1>9 DEF GrantsFor
<1>15. Apart(a)
  BY <1>2, <1>6, <1>11, <1>14 DEF Apart
<1>16. Requested(AttestationStatement)' /\ OthersWait(s) /\ todo'[s] \in AttestationCourse /\ \A y : ~At(s, y)'
  BY <1>1, AttestationGoesOn
<1>17. todo'[s] # <<>> => mem'[s] = mem[s] /\ mem'[s] \in DossierRecord /\ mem'[s].made <= Len(viewing')
  BY <1>1, <1>10, GoingOn
<1>18. Charged(s)' /\ ~Unfinished(s)'
  BY <1>16, <1>17 DEF Charged, Unfinished
<1>19. ~Unfinished(s) /\ todo[s] # <<>>
  BY <1>1 DEF Unfinished, At
<1>20. \A t \in Slot \ {s} : At(t, "put attestation") =>
         records'[Topic(t)].kind = "none" /\ (todo'[s] # <<>> => Topic(s)' # Topic(t))
  BY <1>2, <1>17, <1>19, IssuersAreAlone
<1>21. a \notin torn' => (\A t \in Slot \ {s} : ~Amid(t, a)) /\ AtRest(a)'
  <2> SUFFICES ASSUME a \notin torn' PROVE (\A t \in Slot \ {s} : ~Amid(t, a)) /\ AtRest(a)'
    OBVIOUS
  <2>1. (\A t \in Slot \ {s} : ~Amid(t, a)) /\ AtRest(a) /\ Kept(a)
    BY <1>1, <1>19, Alone
  <2> QED
    BY <1>2, <1>13, <2>1 DEF AtRest
<1>22. \A b \in Attestation \ torn' : WholeOf(b)'
  BY <1>3, <1>15, <1>16, <1>17, <1>18, <1>21, WholeAfter
<1>23. ASSUME NEW g \in 1 .. Len(viewing')
       PROVE  (g \in 1 .. Len(viewing) \/ Secret(viewing[g].about)') /\ Accounted(g)'
  <2>1. CASE g \in 1 .. n
    <3>1. Accounted(g)'
      BY <1>8, <1>16, <2>1, AccountsStand
    <3> QED
      BY <2>1, <3>1
  <2>2. CASE g = n + 1
    <3>1. Secret(a)
      BY <1>1, AskedOf DEF Charged
    <3>2. Secret(viewing[g].about)'
      BY <1>2, <1>4, <1>6, <2>2, <3>1 DEF Secret
    <3>3. \A t \in Slot \ {s} : At(t, "log") => mem[t].grant \in 1 .. n
      BY AskedOf DEF Charged
    <3>4. ~(n + 1 \in 1 .. n)
      BY <1>5
    <3>5. Logging(g)' = {}
      BY <1>16, <2>2, <3>3, <3>4 DEF Logging, OthersWait, At
    <3>6. Cardinality(Logging(g)') = 0
      BY <3>5, FS_EmptySet
    <3>7. answered'[g] <= logged'[g] /\ logged'[g] + 0 <= sessionsOf'[g]
      BY <1>8, <2>2
    <3> QED
      BY <3>2, <3>6, <3>7 DEF Accounted
  <2> QED
    BY <1>9, <2>1, <2>2
<1>24. wrongly' = FALSE /\ \A b \in wrapped' : b \in wrapped
  BY <1>2 DEF AttestationsSound
<1> QED
  BY <1>10, <1>12, <1>13, <1>16, <1>18, <1>20, <1>22, <1>23, <1>24, AttestationsKept

LEMMA OneMore ==
  ASSUME NEW list \in Seq(Nat), NEW n, Len(list) = n, NEW k \in 1 .. n, NEW new,
         new = [list EXCEPT ![k] = @ + 1]
  PROVE  /\ new \in Seq(Nat) /\ Len(new) = n
         /\ \A g \in 1 .. n : new[g] = IF g = k THEN list[g] + 1 ELSE list[g]
<1> SUFFICES ASSUME NEW e, e = list[k] + 1
             PROVE  /\ new \in Seq(Nat) /\ Len(new) = n
                    /\ \A g \in 1 .. n : new[g] = IF g = k THEN list[g] + 1 ELSE list[g]
  OBVIOUS
<1>1. e \in Nat
  <2>1. list[k] \in Nat
    BY ElementOfSeq
  <2> QED
    BY <2>1
<1>2. /\ [list EXCEPT ![k] = e] \in Seq(Nat) /\ Len([list EXCEPT ![k] = e]) = Len(list)
      /\ \A g \in 1 .. Len(list) : [list EXCEPT ![k] = e][g] = IF g = k THEN e ELSE list[g]
  BY <1>1, ExceptSeq
<1> QED
  BY <1>2

LEMMA InsertSessionKeeps ==
  ASSUME AttestationsSound, NEW s \in Slot, InsertSessionOf(s)
  PROVE  AttestationsSound'
<1> SUFFICES ASSUME NEW k, k = mem[s].grant, NEW n, n = Len(viewing)
             PROVE  AttestationsSound'
  OBVIOUS
<1>1. At(s, "session") /\ Pass(s)
  BY DEF InsertSessionOf
<1>2. /\ sessionsOf' = [sessionsOf EXCEPT ![k] = @ + 1]
      /\ UNCHANGED <<records, wrapped, listed, viewing, belongs, logged, answered, wrongly, torn>>
  BY DEF InsertSessionOf, attestPast
<1>3. k \in 1 .. n /\ mem[s].right
  BY <1>1, AskedOf DEF Charged
<1>4. /\ sessionsOf \in Seq(Nat) /\ Len(sessionsOf) = n
      /\ logged \in Seq(Nat) /\ Len(logged) = n /\ answered \in Seq(Nat) /\ Len(answered) = n
  BY ViewingTyped
<1>5. /\ sessionsOf' \in Seq(Nat) /\ Len(sessionsOf') = n
      /\ \A g \in 1 .. n : sessionsOf'[g] = IF g = k THEN sessionsOf[g] + 1 ELSE sessionsOf[g]
  <2>1. sessionsOf \in Seq(Nat) /\ Len(sessionsOf) = n
    BY <1>4
  <2>2. sessionsOf' = [sessionsOf EXCEPT ![k] = @ + 1]
    BY <1>2
  <2> QED
    BY <1>3, <2>1, <2>2, OneMore
<1>6. AttestationsTypeOK'
  <2>1. \A list \in {sessionsOf, logged, answered}' : list \in Seq(Nat) /\ Len(list) = Len(viewing')
    BY <1>2, <1>4, <1>5
  <2> QED
    BY <1>2, <2>1 DEF AttestationsSound, AttestationsTypeOK
<1>7. ViewingKept /\ \A b : GrantsFor(b)' = GrantsFor(b)
  BY <1>2, ViewingStands
<1>8. RecordsKept
  BY <1>2, RecordsStand
<1>9. Requested(AttestationStatement)' /\ OthersWait(s) /\ todo'[s] \in AttestationCourse
      /\ \A y : At(s, y)' <=> y = "log"
  BY <1>1, AttestationGoesOn
<1>10. /\ todo'[s] # <<>> => mem'[s] = mem[s] /\ mem'[s] \in DossierRecord /\ mem'[s].made <= Len(viewing')
       /\ todo'[s] # <<>>
  BY <1>1, <1>7, <1>9, GoingOn DEF At
<1>11. Charged(s)' /\ ~Unfinished(s)' /\ ~At(s, "grant")'
  <2>1. At(s, "log")' => mem'[s].right /\ mem'[s].grant \in 1 .. Len(viewing')
    BY <1>2, <1>3, <1>10
  <2> QED
    BY <1>9, <1>10, <2>1 DEF Charged, Unfinished
<1>12. ~Unfinished(s) /\ ~At(s, "log") /\ todo[s] # <<>>
  BY <1>1 DEF Unfinished, At
<1>13. \A t \in Slot \ {s} : At(t, "put attestation") =>
         records'[Topic(t)].kind = "none" /\ (todo'[s] # <<>> => Topic(s)' # Topic(t))
  BY <1>2, <1>10, <1>12, IssuersAreAlone
<1>14. ASSUME NEW b \in Attestation \ torn' PROVE WholeOf(b)'
  <2>1. WholeOf(b)
    BY <1>2 DEF AttestationsSound
  <2> QED
    BY <1>2, <1>7, <1>9, <1>11, <1>12, <2>1, WholeElsewhere
<1>15. \A t \in Slot \ {s} : (At(t, "log")' <=> At(t, "log")) /\ mem'[t] = mem[t]
  BY <1>9, AmidStands DEF OthersWait
<1>16. ASSUME NEW g \in 1 .. n PROVE Accounted(g)'
  <2>1. /\ answered[g] <= logged[g] /\ logged[g] + Cardinality(Logging(g)) <= sessionsOf[g]
    BY DEF AttestationsSound, Accounted
  <2>2. IsFiniteSet(Logging(g)) /\ Cardinality(Logging(g)) \in Nat
    BY SlotAssumption, FS_Subset, FS_CardinalityType DEF Logging
  <2>3. logged[g] \in Nat /\ sessionsOf[g] \in Nat
    BY ViewingTyped
  <2>4. CASE g = k
    <3>1. Logging(g)' = Logging(g) \cup {s} /\ s \notin Logging(g)
      BY <1>9, <1>10, <1>12, <1>15, <2>4 DEF Logging
    <3>2. Cardinality(Logging(g)') = Cardinality(Logging(g)) + 1
      BY <2>2, <3>1, FS_AddElement
    <3>3. sessionsOf'[g] = sessionsOf[g] + 1
      BY <1>5, <2>4
    <3>4. logged[g] + Cardinality(Logging(g)') <= sessionsOf'[g]
      BY <2>1, <2>2, <2>3, <3>2, <3>3
    <3> QED
      BY <1>2, <2>1, <3>4 DEF Accounted
  <2>5. CASE g # k
    <3>1. Logging(g)' = Logging(g)
      BY <1>9, <1>10, <1>12, <1>15, <2>5 DEF Logging
    <3>2. sessionsOf'[g] = sessionsOf[g]
      BY <1>5, <2>5
    <3> QED
      BY <1>2, <2>1, <3>1, <3>2 DEF Accounted
  <2> QED
    BY <2>4, <2>5
<1>17. wrongly' = FALSE /\ \A b \in wrapped' : b \in wrapped
  BY <1>2 DEF AttestationsSound
<1>18. \A g \in 1 .. Len(viewing') : g \in 1 .. Len(viewing) /\ Accounted(g)'
  BY <1>2, <1>16
<1> QED
  BY <1>6, <1>7, <1>8, <1>9, <1>11, <1>13, <1>14, <1>17, <1>18, AttestationsKept

LEMMA LogRedemptionKeeps ==
  ASSUME AttestationsSound, NEW s \in Slot, LogRedemption(s)
  PROVE  AttestationsSound'
<1> SUFFICES ASSUME NEW k, k = mem[s].grant, NEW n, n = Len(viewing)
             PROVE  AttestationsSound'
  OBVIOUS
<1>1. At(s, "log") /\ Pass(s)
  BY DEF LogRedemption
<1>2. /\ logged' = [logged EXCEPT ![k] = @ + 1] /\ answered' = [answered EXCEPT ![k] = @ + 1]
      /\ UNCHANGED <<records, wrapped, listed, viewing, belongs, sessionsOf, torn>>
  BY DEF LogRedemption
<1>3. k \in 1 .. n /\ mem[s].right
  BY <1>1, AskedOf DEF Charged
<1>4. /\ sessionsOf \in Seq(Nat) /\ Len(sessionsOf) = n
      /\ logged \in Seq(Nat) /\ Len(logged) = n
      /\ answered \in Seq(Nat) /\ Len(answered) = n
  BY ViewingTyped
<1>5. /\ logged' \in Seq(Nat) /\ Len(logged') = n
      /\ \A g \in 1 .. n : logged'[g] = IF g = k THEN logged[g] + 1 ELSE logged[g]
  <2>1. logged \in Seq(Nat) /\ Len(logged) = n
    BY <1>4
  <2>2. logged' = [logged EXCEPT ![k] = @ + 1]
    BY <1>2
  <2> QED
    BY <1>3, <2>1, <2>2, OneMore
<1>6. /\ answered' \in Seq(Nat) /\ Len(answered') = n
      /\ \A g \in 1 .. n : answered'[g] = IF g = k THEN answered[g] + 1 ELSE answered[g]
  <2>1. answered \in Seq(Nat) /\ Len(answered) = n
    BY <1>4
  <2>2. answered' = [answered EXCEPT ![k] = @ + 1]
    BY <1>2
  <2> QED
    BY <1>3, <2>1, <2>2, OneMore
<1>7. wrongly' = FALSE
  BY <1>3 DEF LogRedemption, ShownWrongly, AttestationsSound
<1>8. AttestationsTypeOK'
  <2>1. \A list \in {sessionsOf, logged, answered}' : list \in Seq(Nat) /\ Len(list) = Len(viewing')
    BY <1>2, <1>4, <1>5, <1>6
  <2> QED
    BY <1>2, <1>7, <2>1 DEF AttestationsSound, AttestationsTypeOK
<1>9. ViewingKept /\ \A b : GrantsFor(b)' = GrantsFor(b)
  BY <1>2, ViewingStands
<1>10. RecordsKept
  BY <1>2, RecordsStand
<1>11. Requested(AttestationStatement)' /\ OthersWait(s) /\ todo'[s] \in AttestationCourse /\ \A y : ~At(s, y)'
  BY <1>1, AttestationGoesOn
<1>12. todo'[s] # <<>> => mem'[s] = mem[s] /\ mem'[s] \in DossierRecord /\ mem'[s].made <= Len(viewing')
  BY <1>1, <1>9, GoingOn
<1>13. Charged(s)' /\ ~Unfinished(s)' /\ ~At(s, "grant")'
  BY <1>11, <1>12 DEF Charged, Unfinished
<1>14. ~Unfinished(s) /\ todo[s] # <<>>
  BY <1>1 DEF Unfinished, At
<1>15. \A t \in Slot \ {s} : At(t, "put attestation") =>
         records'[Topic(t)].kind = "none" /\ (todo'[s] # <<>> => Topic(s)' # Topic(t))
  BY <1>2, <1>12, <1>14, IssuersAreAlone
<1>16. ASSUME NEW b \in Attestation \ torn' PROVE WholeOf(b)'
  <2>1. WholeOf(b)
    BY <1>2 DEF AttestationsSound
  <2> QED
    BY <1>2, <1>9, <1>11, <1>13, <1>14, <2>1, WholeElsewhere
<1>17. \A t \in Slot \ {s} : (At(t, "log")' <=> At(t, "log")) /\ mem'[t] = mem[t]
  BY <1>11, AmidStands DEF OthersWait
<1>18. ASSUME NEW g \in 1 .. n PROVE Accounted(g)'
  <2>1. CASE g = k
    <3>1. answered[g] <= logged[g] /\ logged[g] + Cardinality(Logging(g)) <= sessionsOf[g]
      BY DEF AttestationsSound, Accounted
    <3>2. IsFiniteSet(Logging(g)) /\ Cardinality(Logging(g)) \in Nat
      BY SlotAssumption, FS_Subset, FS_CardinalityType DEF Logging
    <3>3. Logging(g)' = Logging(g) \ {s} /\ s \in Logging(g)
      BY <1>1, <1>11, <1>17, <2>1 DEF Logging
    <3>4. Cardinality(Logging(g)') = Cardinality(Logging(g)) - 1
      BY <3>2, <3>3, FS_RemoveElement
    <3>5. logged'[g] = logged[g] + 1 /\ answered'[g] = answered[g] + 1 /\ sessionsOf'[g] = sessionsOf[g]
      BY <1>2, <1>5, <1>6, <2>1
    <3>6. logged[g] \in Nat /\ answered[g] \in Nat /\ sessionsOf[g] \in Nat
      BY ViewingTyped
    <3>7. answered'[g] <= logged'[g] /\ logged'[g] + Cardinality(Logging(g)') <= sessionsOf'[g]
      BY <3>1, <3>2, <3>4, <3>5, <3>6
    <3> QED
      BY <3>7 DEF Accounted
  <2>2. CASE g # k
    <3>1. logged'[g] = logged[g] /\ answered'[g] = answered[g] /\ sessionsOf'[g] = sessionsOf[g]
      BY <1>2, <1>5, <1>6, <2>2
    <3> QED
      BY <1>11, <3>1, AccountsStand
  <2> QED
    BY <2>1, <2>2
<1>19. \A g \in 1 .. Len(viewing') : g \in 1 .. Len(viewing) /\ Accounted(g)'
  BY <1>2, <1>18
<1>20. \A b \in wrapped' : b \in wrapped
  BY <1>2
<1> QED
  BY <1>7, <1>8, <1>9, <1>10, <1>11, <1>13, <1>15, <1>16, <1>19, <1>20, AttestationsKept

-----------------------------------------------------------------------------
LEMMA AttestationsInitSound == AttestationsInit => AttestationsSound
<1> SUFFICES ASSUME AttestationsInit PROVE AttestationsSound
  OBVIOUS
<1>1. Requested(AttestationStatement) /\ \A s \in Slot : todo[s] = <<>>
  BY InitRequested DEF AttestationsInit
<1>2. /\ viewing = <<>> /\ sessionsOf = <<>> /\ logged = <<>> /\ answered = <<>> /\ wrapped = {} /\ listed = {}
      /\ torn = {} /\ records = [a \in Attestation |-> [kind |-> "none", open |-> FALSE]]
      /\ belongs \in BOOLEAN /\ wrongly = FALSE
  BY DEF AttestationsInit
<1>3. \A s \in Slot : \A x : ~At(s, x)
  BY <1>1 DEF At
<1>4. \A s \in Slot : Charged(s)
  BY <1>1, <1>3 DEF Charged, AttestationCourse
<1>5. /\ Len(viewing) = 0 /\ 1 .. Len(viewing) = {} /\ DOMAIN viewing = {}
      /\ \A list \in {sessionsOf, logged, answered} : list \in Seq(Nat) /\ Len(list) = 0
      /\ viewing \in Seq([about : Attestation, status : {"active", "revoked"}, lapsed : BOOLEAN])
  BY <1>2
<1>6. records \in [Attestation -> [kind : {"none", "public", "private", "deleted"}, open : BOOLEAN]]
  BY <1>2
<1>7. AttestationsTypeOK
  BY <1>2, <1>5, <1>6 DEF AttestationsTypeOK
<1>8. \A a \in Attestation : AtRest(a)
  BY <1>2, <1>5 DEF AtRest, Kept, GrantsFor
<1>9. \A a \in Attestation : WholeOf(a)
  BY <1>3, <1>8 DEF WholeOf, Unfinished
<1> QED
  BY <1>1, <1>2, <1>4, <1>5, <1>7, <1>9 DEF AttestationsSound

LEMMA AttestationsNextSound == AttestationsSound /\ [AttestationsNext]_attestationsVars => AttestationsSound'
<1> SUFFICES ASSUME AttestationsSound, [AttestationsNext]_attestationsVars PROVE AttestationsSound'
  OBVIOUS
<1>1. DOMAIN viewing = 1 .. Len(viewing)
  BY ViewingTyped
<1>2. ASSUME NEW s \in Slot, NEW a \in Attestation, NEW open \in BOOLEAN, IssueAttestation(s, a, "private", open)
      PROVE  AttestationsSound'
  BY <1>2, IssueKeeps
<1>3. ASSUME NEW s \in Slot, NEW a \in Attestation,
             \/ IssueAttestation(s, a, "public", FALSE) \/ DeleteAttestation(s, a)
             \/ CreateViewingGrant(s, a) \/ RequestDisclosure(s, a)
      PROVE  AttestationsSound'
  BY <1>3, IssueKeeps, DeleteKeeps, CreateGrantKeeps, RequestDisclosureKeeps
<1>4. ASSUME NEW s \in Slot, NEW g \in DOMAIN viewing, RevokeGrant(s, g) \/ RedeemGrant(s, g)
      PROVE  AttestationsSound'
  BY <1>1, <1>4, RevokeGrantKeeps, RedeemGrantKeeps
<1>5. ASSUME NEW s \in Slot,
             \/ PutAttestation(s) \/ StoreKeys(s) \/ ListAttestation(s) \/ DropAttestation(s)
             \/ RevokeGrants(s) \/ DropKeys(s) \/ Unlist(s) \/ ReadSubject(s) \/ InsertGrant(s)
      PROVE  AttestationsSound'
  BY <1>5, PutAttestationKeeps, StoreKeysKeeps, ListAttestationKeeps, DropAttestationKeeps, RevokeGrantsKeeps,
     DropKeysKeeps, UnlistKeeps, ReadSubjectKeeps, InsertGrantKeeps
<1>6. ASSUME NEW s \in Slot,
             \/ WriteGrantRevoked(s) \/ ReadKeys(s) \/ ReadClaim(s) \/ InsertSessionOf(s)
             \/ LogRedemption(s) \/ ReadAttestation(s) \/ Authorize(s) \/ AttestationFails(s)
      PROVE  AttestationsSound'
  BY <1>6, WriteGrantRevokedKeeps, ReadKeysKeeps, ReadClaimKeeps, InsertSessionKeeps, LogRedemptionKeeps,
     ReadAttestationKeeps, AuthorizeKeeps, FailingKeeps
<1>7. ASSUME NEW g \in DOMAIN viewing, GrantLapses(g) PROVE AttestationsSound'
  BY <1>1, <1>7, GrantLapsesKeeps
<1>8. CASE ViewerMoves
  BY <1>8, ViewerMovesKeeps
<1>9. CASE UNCHANGED attestationsVars
  <2>1. /\ UNCHANGED requests /\ viewing' = viewing
        /\ UNCHANGED <<records, wrapped, listed, belongs, sessionsOf, logged, answered, wrongly, torn>>
    BY <1>9 DEF attestationsVars, attestTables, attestPast
  <2>2. AttestationsTypeOK' /\ viewing \in Seq(GrantRecord)
    BY <2>1 DEF AttestationsSound, AttestationsTypeOK, GrantRecord
  <2> QED
    BY <2>1, <2>2, WaitingKeeps
<1> QED
  BY <1>2, <1>3, <1>4, <1>5, <1>6, <1>7, <1>8, <1>9 DEF AttestationsNext

\* In every run of the attestations' handlers, for any number of requests,
\* attestations and grants: what each request has found still holds, what is
\* half written is so only on behalf of the request that writes it, and every
\* redemption in the log has a session of its own.
THEOREM AttestationsSoundAlways == AttestationsSpec => []AttestationsSound
<1>1. AttestationsInit => AttestationsSound
  BY AttestationsInitSound
<1>2. AttestationsSound /\ [AttestationsNext]_attestationsVars => AttestationsSound'
  BY AttestationsNextSound
<1> QED
  BY <1>1, <1>2, PTL DEF AttestationsSpec

THEOREM AttestationsTyped == AttestationsSpec => []AttestationsTypeOK
<1>1. AttestationsSound => AttestationsTypeOK
  BY DEF AttestationsSound
<1> QED
  BY <1>1, AttestationsSoundAlways, PTL

\* What is closed is shown to nobody, and what is gone leaves nothing that
\* would open it: deleteAttestation's four commits, the grants' and the
\* redemptions', however they interleave and wherever one of them fails.
THEOREM AttestationsAreClosed == AttestationsSpec => []AttestationsHold
<1>1. AttestationsSound => AttestationsHold
  <2> SUFFICES ASSUME AttestationsSound PROVE AttestationsHold
    OBVIOUS
  <2>1. ASSUME NEW g \in DOMAIN viewing PROVE answered[g] <= logged[g] /\ logged[g] <= sessionsOf[g]
    <3>1. g \in 1 .. Len(viewing)
      BY ViewingTyped
    <3>2. answered[g] <= logged[g] /\ logged[g] + Cardinality(Logging(g)) <= sessionsOf[g]
      BY <3>1 DEF AttestationsSound, Accounted
    <3>3. Cardinality(Logging(g)) \in Nat
      BY SlotAssumption, FS_Subset, FS_CardinalityType DEF Logging
    <3>4. logged[g] \in Nat /\ sessionsOf[g] \in Nat
      BY <3>1, ViewingTyped
    <3> QED
      BY <3>2, <3>3, <3>4
  <2>2. ClosedStaysClosed
    BY <2>1 DEF ClosedStaysClosed, AttestationsSound
  <2>3. AttestationsAreWhole
    <3> SUFFICES ASSUME Quiet, NEW a \in Attestation \ torn
                 PROVE  /\ a \in wrapped <=> records[a].kind = "private"
                        /\ a \in listed <=> Kept(a)
                        /\ ~Kept(a) => \A g \in GrantsFor(a) : viewing[g].status = "revoked"
      BY DEF AttestationsAreWhole
    <3>1. \A s \in Slot : ~Unfinished(s)
      BY DEF Quiet, Unfinished, At
    <3>2. AtRest(a)
      BY <3>1 DEF AttestationsSound, WholeOf
    <3> QED
      BY <3>2 DEF AtRest
  <2> QED
    BY <2>2, <2>3 DEF AttestationsHold
<1> QED
  BY <1>1, AttestationsSoundAlways, PTL
=============================================================================

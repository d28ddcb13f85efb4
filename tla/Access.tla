------------------------------- MODULE Access -------------------------------
(***************************************************************************)
(* Who may read a community and who may write to it.  One query reads what *)
(* is known of a caller, and two dozen endpoints put their own question to *)
(* it: some through the guards, some with a check or a WHERE of their own. *)
(* The answers are computed on one reading and the content is fetched with *)
(* a later one, and the community and the caller's standing change between *)
(* the two.                                                                *)
(***************************************************************************)
EXTENDS Requests

VARIABLES
  community,   \* its row and the visibility its settings give it
  caller,      \* what the database says of the one who asks
  exposed      \* history: a private community was shown to one it was private from

accessTables == <<community, caller>>

\* Permissions told apart, and what the roles before role records held.
Permissions == {"forum", "moderate", "calendar", "application", "keep", "remove"}
Legacy(role) ==
  CASE role = "owner" -> Permissions
    [] role = "moderator" -> {"forum", "moderate", "keep", "remove"}
    [] OTHER -> {}

\* row: in members_unique.  record: the role its member record names, "role"
\* for one that names a role record; holds: what that record permits, nothing
\* when it is gone.  asked: the state of a join request.
Visitor == [known |-> TRUE, admin |-> FALSE, owner |-> FALSE, status |-> "approved",
            verified |-> TRUE, row |-> FALSE, record |-> "none", holds |-> {}, asked |-> "none"]
Member == [Visitor EXCEPT !.row = TRUE, !.record = "member"]

\* Bound: the kinds of caller there are.
Callers ==
  {[Visitor EXCEPT !.known = FALSE], Visitor, Member,
   [Visitor EXCEPT !.asked = "pending"],
   [Visitor EXCEPT !.admin = TRUE],
   [Visitor EXCEPT !.owner = TRUE],
   [Member EXCEPT !.owner = TRUE, !.record = "owner"],
   [Member EXCEPT !.record = "moderator"],
   [Member EXCEPT !.record = "role", !.holds = {"forum", "calendar"}],
   [Member EXCEPT !.record = "moderator", !.verified = FALSE],
   [Member EXCEPT !.owner = TRUE, !.record = "owner", !.status = "deactivated"],
   [Member EXCEPT !.record = "none"],           \* left, but for the row
   [Visitor EXCEPT !.record = "member"]}        \* removed, but for the record

Communities ==
  [status : {"absent", "active", "suspended", "takendown", "moved", "importing"},
   visibility : {"public", "private"}]

AccessInit ==
  /\ community \in {c \in Communities : c.status = "absent" => c.visibility = "public"}
  /\ caller \in {p \in Callers : community.status = "absent" => p \in {Visitor, [Visitor EXCEPT !.known = FALSE]}}
  /\ exposed = FALSE

-----------------------------------------------------------------------------
(* What is known of the caller: one reading of everything. *)

CommunityExists == community.status # "absent"
Private == community.visibility = "private"
Admin == caller.known /\ caller.admin
Owns == caller.known /\ caller.owner
Membership == IF caller.known /\ caller.row THEN "member" ELSE caller.asked

HasAllPermissions == CommunityExists /\ (Admin \/ Owns)

\* getCallerCommunityCapabilities: a role record decides for whom names one.
Capabilities ==
  IF HasAllPermissions THEN Permissions
  ELSE IF ~CommunityExists \/ Membership # "member" THEN {}
  ELSE IF caller.record = "role" THEN caller.holds
  ELSE Legacy(IF caller.record = "none" THEN "member" ELSE caller.record)

CanViewPrivateCommunity == Admin \/ Owns \/ Membership = "member"

-----------------------------------------------------------------------------
(* The guards. *)

RequireAuth == caller.known
RequireApprovedUser == RequireAuth /\ caller.verified /\ caller.status = "approved"
RequireActiveCommunity == community.status = "active"
WritableStatus == community.status \notin {"moved", "importing"}

RequireCommunityReadable == CommunityExists /\ (Private => CanViewPrivateCommunity)
RequireRepoReadable == (CommunityExists /\ Private) => CanViewPrivateCommunity

RequireCommunityPermission(permission) ==
  RequireAuth /\ CommunityExists /\ WritableStatus /\ permission \in Capabilities

\* The older guard asks for a role; an owner who left counts where owners are asked for.
Level(role) == CASE role = "owner" -> 3 [] role = "moderator" -> 2 [] role = "member" -> 1 [] OTHER -> 0
RequireCommunityRole(role) ==
  /\ RequireAuth
  /\ \/ Admin
     \/ /\ CommunityExists /\ WritableStatus
        /\ \/ Owns /\ (role = "owner" \/ caller.row)
           \/ /\ caller.row
              /\ Level(IF caller.record \in {"none", "role"} THEN "member" ELSE caller.record) >= Level(role)

\* The throwing variants.
AssertApprovedUser == RequireAuth /\ caller.status = "approved"
AssertCommunityPermission(permission) == RequireAuth /\ CommunityExists /\ permission \in Capabilities

CallerCanModerateForum == RequireAuth /\ "moderate" \in Capabilities

\* communityFederationView
FederationView ==
  IF community.status # "active" THEN "absent" ELSE IF Private THEN "private" ELSE "public"

-----------------------------------------------------------------------------
(* The endpoints that read, each by what it asks before it answers. *)

GetRecord          == RequireRepoReadable /\ CommunityExists
ListRecords        == RequireRepoReadable /\ CommunityExists
DescribeRepo       == RequireRepoReadable /\ CommunityExists
SyncGetRepo        == RequireRepoReadable /\ CommunityExists
ListBlobs          == RequireRepoReadable /\ CommunityExists
ListRoles          == RequireCommunityReadable
GetProposal        == RequireCommunityReadable
ListProposals      == RequireCommunityReadable
ListAttestations   == RequireCommunityReadable
VerifyMembership   == RequireCommunityReadable
ListMembers        == RequireAuth /\ CommunityExists /\ (Private => CanViewPrivateCommunity)
ListJoinRequests   == RequireAuth /\ CommunityExists /\ (Owns \/ Admin)
ListMyCommunities  == RequireAuth /\ CommunityExists /\ caller.row

\* A slip the runs must notice: anybody signed in is taken for a member.
GetCommunityKnown == CommunityExists /\ (Private => RequireAuth)

\* community.get has a check of its own.
GetCommunity ==
  /\ CommunityExists
  /\ community.status = "takendown" => Admin
  /\ Private => (Owns \/ Admin \/ (caller.known /\ caller.row))

\* Who has joined finds it among their own; an admin may ask for all there are.
ListAllCommunities ==
  /\ CommunityExists
  /\ \/ Admin
     \/ community.status = "active" /\ ~Private /\ ~(caller.known /\ caller.row)

\* For the network beyond this server, which nobody here vouches for.
Actor == community.status = "active" /\ FederationView = "public"
Webfinger == CommunityExists /\ FederationView = "public"

Endpoints ==
  {"getRecord", "listRecords", "describeRepo", "getRepo", "listBlobs", "listRoles", "getProposal",
   "listProposals", "listAttestations", "verifyMembership", "listMembers", "listJoinRequests",
   "listMine", "get", "listAll", "actor", "webfinger"}

Answers(e) ==
  CASE e = "getRecord" -> GetRecord [] e = "listRecords" -> ListRecords
    [] e = "describeRepo" -> DescribeRepo [] e = "getRepo" -> SyncGetRepo
    [] e = "listBlobs" -> ListBlobs [] e = "listRoles" -> ListRoles
    [] e = "getProposal" -> GetProposal [] e = "listProposals" -> ListProposals
    [] e = "listAttestations" -> ListAttestations [] e = "verifyMembership" -> VerifyMembership
    [] e = "listMembers" -> ListMembers [] e = "listJoinRequests" -> ListJoinRequests
    [] e = "listMine" -> ListMyCommunities [] e = "get" -> GetCommunity
    [] e = "listAll" -> ListAllCommunities [] e = "actor" -> Actor [] e = "webfinger" -> Webfinger

\* What somebody whose account is switched off may still ask for; the last two
\* are asked without an account.
WhileDeactivated ==
  {"getRecord", "listRecords", "describeRepo", "getRepo", "listBlobs", "actor", "webfinger"}
Dispatched(e) == (caller.known /\ caller.status = "deactivated") => e \in WhileDeactivated

\* Whom a private community is private from, said without any of the above.
\* One who left halfway still has the row, and one removed halfway has not.
Entitled == ~Private \/ (caller.known /\ (caller.admin \/ caller.owner \/ caller.row))

-----------------------------------------------------------------------------
(* Asked on one reading, answered with another. *)

Ask(s, e) ==
  /\ Dispatched(e) /\ Answers(e)
  /\ Begin(s, <<"fetch">>, [what |-> "ask", entitled |-> Entitled])
  /\ UNCHANGED <<accessTables, exposed>>

Fetch(s) ==
  /\ At(s, "fetch") /\ Pass(s)
  /\ exposed' = (exposed \/ ~(mem[s].entitled \/ Entitled))
  /\ UNCHANGED accessTables

\* What others do meanwhile: each is another component's business.
SettingsChange(s) ==
  /\ CommunityExists /\ AtOnce(s)
  /\ \E v \in {"public", "private"} : community' = [community EXCEPT !.visibility = v]
  /\ UNCHANGED <<caller, exposed>>
StatusChange(s) ==
  /\ CommunityExists /\ AtOnce(s)
  /\ \E t \in {"active", "suspended", "moved"} : community' = [community EXCEPT !.status = t]
  /\ UNCHANGED <<caller, exposed>>
StandingChange(s) ==
  /\ CommunityExists /\ caller.known /\ AtOnce(s)
  /\ caller' \in {Visitor, Member, [caller EXCEPT !.holds = {}], [caller EXCEPT !.status = "deactivated"],
                  [Member EXCEPT !.record = "role", !.holds = {"forum", "moderate"}]}
  /\ caller' # caller
  /\ UNCHANGED <<community, exposed>>

AccessNext ==
  \E s \in Slot :
    \/ \E e \in Endpoints : Ask(s, e)
    \/ Fetch(s) \/ SettingsChange(s) \/ StatusChange(s) \/ StandingChange(s)

-----------------------------------------------------------------------------
AccessTypeOK == community \in Communities /\ DOMAIN caller = DOMAIN Visitor /\ exposed \in BOOLEAN

\* Nobody is answered with what a community keeps private who was not of it
\* when the question was put or when it was answered, whichever endpoint is
\* asked.  The endpoints agree: what one shows of a community that is up, the
\* others show, and who may write to it may read it, by either kind of guard.
AccessAgrees ==
  /\ ~exposed
  /\ community.status # "takendown" => (GetCommunity <=> RequireCommunityReadable)
  /\ CommunityExists => (RequireRepoReadable <=> RequireCommunityReadable)
  /\ RequireAuth => (ListMembers <=> RequireCommunityReadable)
  /\ \A p \in Permissions : RequireCommunityPermission(p) => RequireCommunityReadable
  /\ \A r \in {"member", "moderator"} :
       RequireCommunityRole(r) /\ CommunityExists => RequireCommunityReadable /\ (Admin \/ WritableStatus)
  /\ caller.record # "role" /\ WritableStatus /\ (Owns => caller.row)
       => ((\E p \in Permissions : RequireCommunityPermission(p))
             <=> (CommunityExists /\ RequireCommunityRole("moderator")))
  /\ FederationView = "public" => RequireCommunityReadable

accessVars == <<requests, accessTables, exposed>>
AccessSpec == RequestsInit /\ AccessInit /\ [][AccessNext]_accessVars
=============================================================================

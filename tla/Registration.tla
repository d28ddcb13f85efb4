--------------------------- MODULE Registration ---------------------------
(***************************************************************************)
(* How accounts come to be: sign-up here and at the OAuth provider, a      *)
(* partner's registrations, an account or a pseudonym that moves in, and a *)
(* new pseudonym.  Each is one transaction around a few statements, with   *)
(* row locks and unique indexes doing the arbitration, then a repository   *)
(* of its own.  A transaction's writes are in its request's memory until   *)
(* it commits; whoever needs a row one of them holds waits.                *)
(*                                                                         *)
(* A name stands for handle, email and DID, which are all unique.  The PLC *)
(* directory, password rules, proofs of the DID's keys and what an invite  *)
(* is bound to are answered before and left out.                           *)
(***************************************************************************)
EXTENDS Requests

CONSTANTS
  Name,          \* what accounts may be called
  InviteUses,    \* max_uses of the one invite
  PartnerLimit   \* rate_limit_per_hour of the one partner key

ASSUME LimitsAssumption == InviteUses \in Nat /\ PartnerLimit \in Nat

VARIABLES
  accounts,  \* rows of users, committed
  invite,    \* uses_count
  partner,   \* the key: is it active, and its total_registrations
  blind,     \* the one blind token: is its epoch accepted, is it marked spent
  seats      \* history: accounts committed on the invite, by the partner, by a void key

registrationTables == <<accounts, invite, partner, blind, seats>>

SignUpWays == {"register", "oauth", "partner", "moveIn", "moveInByToken", "pseudonym"}
ByInvite == {"register", "oauth", "moveIn"}
ByToken  == {"moveInByToken", "pseudonym"}
MovesIn  == {"moveIn", "moveInByToken"}

RegistrationInit ==
  /\ RequestsInit
  /\ accounts = {} /\ invite = 0
  /\ partner = [active |-> TRUE, total |-> 0]
  /\ blind = [accepted |-> TRUE, spent |-> FALSE]
  /\ seats = [invite |-> 0, partner |-> 0, void |-> FALSE]

\* The statements of each way in, in the handler's order.
Route(way) ==
  CASE way = "register"      -> <<"check", "insert", "claim", "commit", "repo">>
    [] way = "oauth"         -> <<"check", "claim", "insert", "commit", "repo">>
    [] way = "partner"       -> <<"quota", "check", "insert", "commit", "repo">>
    [] way = "moveIn"        -> <<"check", "insert", "claim", "commit", "repo">>
    [] way = "moveInByToken" -> <<"check", "accept", "spend", "insert", "commit", "repo">>
    [] way = "pseudonym"     -> <<"check", "accept", "spend", "insert", "commit", "repo">>

Wrote(s) == IF todo[s] # <<>> /\ mem[s].what = "signup" THEN mem[s].wrote ELSE {}
Free(s, row) == \A o \in Slot \ {s} : row \notin Wrote(o)
Hold(s, row) == Note(s, [mem[s] EXCEPT !.wrote = @ \cup {row}])
Taken(name) == \E a \in accounts : a.name = name
Lately == {a \in accounts : a.way = "partner" /\ a.lately}

SignUp(s, way, name) ==
  /\ Begin(s, Route(way), [what |-> "signup", way |-> way, name |-> name,
                           late |-> FALSE, wrote |-> {}])
  /\ UNCHANGED registrationTables

\* The partner's key is locked before its last hour is counted.
\* A slip the runs must notice: counted without the lock.
CountQuotaUnlocked(s) ==
  /\ At(s, "quota")
  /\ IF partner.active /\ Cardinality(Lately) < PartnerLimit
       THEN Pass(s) ELSE Answer(s)
  /\ UNCHANGED registrationTables

CountQuota(s) ==
  /\ At(s, "quota") /\ Free(s, "key")
  /\ IF partner.active /\ Cardinality(Lately) < PartnerLimit
       THEN Hold(s, "key") ELSE Answer(s)
  /\ UNCHANGED registrationTables

\* ensureHandleEmailAvailable and its likes: nobody else's open insert is seen.
CheckName(s) ==
  /\ At(s, "check")
  /\ IF Taken(mem[s].name) THEN Answer(s) ELSE Pass(s)
  /\ UNCHANGED registrationTables

\* The unique index waits for an open insert of the same name, then decides.
InsertUser(s) ==
  /\ At(s, "insert")
  /\ \A o \in Slot \ {s} : "row" \in Wrote(o) => mem[o].name # mem[s].name
  /\ IF Taken(mem[s].name) THEN Answer(s) ELSE Hold(s, "row")
  /\ UNCHANGED registrationTables

\* claimInvite: the invite's row is locked, then its uses are compared.
\* A slip the runs must notice: compared without the lock.
ClaimInviteUnlocked(s) ==
  /\ At(s, "claim")
  /\ IF invite < InviteUses THEN Hold(s, "invite") ELSE Answer(s)
  /\ UNCHANGED registrationTables

ClaimInvite(s) ==
  /\ At(s, "claim") /\ Free(s, "invite")
  /\ IF invite < InviteUses THEN Hold(s, "invite") ELSE Answer(s)
  /\ UNCHANGED registrationTables

\* redeemToken: the epoch first, then INSERT ... ON CONFLICT DO NOTHING.
AcceptToken(s) ==
  /\ At(s, "accept")
  /\ IF blind.accepted THEN Pass(s) ELSE Answer(s)
  /\ UNCHANGED registrationTables

\* A slip the runs must notice: the marker is looked for, and not waited for.
SpendTokenAtOnce(s) ==
  /\ At(s, "spend")
  /\ IF blind.spent THEN Answer(s)
     ELSE Note(s, [mem[s] EXCEPT !.wrote = @ \cup {"token"}, !.late = ~blind.accepted])
  /\ UNCHANGED registrationTables

SpendToken(s) ==
  /\ At(s, "spend") /\ Free(s, "token")
  /\ IF blind.spent THEN Answer(s)
     ELSE Note(s, [mem[s] EXCEPT !.wrote = @ \cup {"token"}, !.late = ~blind.accepted])
  /\ UNCHANGED registrationTables

CommitSignUp(s) ==
  /\ At(s, "commit")
  /\ LET r == mem[s] IN
       /\ Note(s, [r EXCEPT !.wrote = {}])
       /\ accounts' = accounts \cup {[name |-> r.name, way |-> r.way, lately |-> r.way = "partner",
                                      repo |-> FALSE, late |-> r.late]}
       /\ invite' = IF "invite" \in r.wrote THEN invite + 1 ELSE invite
       /\ partner' = IF r.way = "partner" THEN [partner EXCEPT !.total = @ + 1] ELSE partner
       /\ blind' = IF "token" \in r.wrote THEN [blind EXCEPT !.spent = TRUE] ELSE blind
       /\ seats' = [invite  |-> seats.invite + (IF r.way \in ByInvite THEN 1 ELSE 0),
                    partner |-> seats.partner + (IF r.way = "partner" THEN 1 ELSE 0),
                    void    |-> seats.void \/ (r.way = "partner" /\ ~partner.active)]

Own(s) == {a \in accounts : a.name = mem[s].name}

\* createRepo.  One that fails is logged, and removes only a move-in's account.
MakeRepo(s) ==
  /\ At(s, "repo") /\ Answer(s)
  /\ accounts' = (accounts \ Own(s)) \cup {[a EXCEPT !.repo = TRUE] : a \in Own(s)}
  /\ UNCHANGED <<invite, partner, blind, seats>>

FailRepo(s) ==
  /\ At(s, "repo") /\ Answer(s)
  /\ accounts' = IF mem[s].way \in MovesIn THEN accounts \ Own(s) ELSE accounts
  /\ UNCHANGED <<invite, partner, blind, seats>>

\* The process dies, or a statement fails: what is not committed is undone.
BreakOff(s) == todo[s] # <<>> /\ Answer(s) /\ UNCHANGED registrationTables

RevokeKey(s) ==
  /\ partner.active /\ Begin(s, <<"revokeKey">>, [what |-> "revokeKey"])
  /\ UNCHANGED registrationTables

WriteRevoked(s) ==
  /\ At(s, "revokeKey") /\ Free(s, "key") /\ Pass(s)
  /\ partner' = [partner EXCEPT !.active = FALSE]
  /\ UNCHANGED <<accounts, invite, blind, seats>>

\* A transaction does not last an hour.
HourPasses ==
  /\ Lately # {} /\ \A s \in Slot : "key" \notin Wrote(s)
  /\ accounts' = {[a EXCEPT !.lately = FALSE] : a \in accounts}
  /\ UNCHANGED <<invite, partner, blind, seats, requests>>

\* The epoch leaves the accepted window; the next key's creation removes its
\* spent markers.
EpochPasses ==
  /\ blind.accepted /\ blind' = [blind EXCEPT !.accepted = FALSE]
  /\ UNCHANGED <<accounts, invite, partner, seats, requests>>

RetireEpoch ==
  /\ ~blind.accepted /\ blind.spent /\ blind' = [blind EXCEPT !.spent = FALSE]
  /\ UNCHANGED <<accounts, invite, partner, seats, requests>>

RegistrationNext ==
  \/ \E s \in Slot :
       \/ \E way \in SignUpWays, name \in Name : SignUp(s, way, name)
       \/ CountQuota(s) \/ CheckName(s) \/ InsertUser(s) \/ ClaimInvite(s)
       \/ AcceptToken(s) \/ SpendToken(s) \/ CommitSignUp(s)
       \/ MakeRepo(s) \/ FailRepo(s) \/ BreakOff(s) \/ RevokeKey(s) \/ WriteRevoked(s)
  \/ HourPasses \/ EpochPasses \/ RetireEpoch

registrationVars == <<registrationTables, requests>>
RegistrationSpec == RegistrationInit /\ [][RegistrationNext]_registrationVars

-----------------------------------------------------------------------------
RegistrationTypeOK ==
  /\ accounts \subseteq [name : Name, way : SignUpWays, lately : BOOLEAN, repo : BOOLEAN, late : BOOLEAN]
  /\ invite \in Nat /\ partner \in [active : BOOLEAN, total : Nat]
  /\ blind \in [accepted : BOOLEAN, spent : BOOLEAN]
  /\ seats \in [invite : Nat, partner : Nat, void : BOOLEAN]

\* An invite admits no more accounts than it has uses, whichever of the three
\* handlers claims it and in whichever order they insert the account and lock
\* the invite; each account that came by it was counted.
InvitesWithinUses == seats.invite = invite /\ invite <= InviteUses

\* However many registrations of one partner overlap, an hour sees no more
\* than its limit, the key's total is the accounts it made, and none is made
\* once the key's revocation committed: the lock on its row holds that off.
PartnerWithinQuota ==
  /\ Cardinality(Lately) <= PartnerLimit
  /\ partner.total = seats.partner /\ ~seats.void

\* A blind token makes one account, but for a request that had it accepted
\* before the epoch ended and marks it spent after the markers were removed.
TokenSpentOnce ==
  \A a, b \in accounts : a.way \in ByToken /\ b.way \in ByToken => a = b \/ a.late \/ b.late

\* What admits an account is never spent twice: the three above.
LimitsHold == InvitesWithinUses /\ PartnerWithinQuota /\ TokenSpentOnce
=============================================================================

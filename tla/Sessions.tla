----------------------------- MODULE Sessions -----------------------------
(***************************************************************************)
(* One account's row in users, its refresh sessions, the access tokens     *)
(* handed out for it, the context cached for its OAuth and service-auth    *)
(* requests, and the handlers that sign in, refresh, revoke, moderate and  *)
(* change the password, statement by statement.  None of them locks the    *)
(* account; all but completeRecovery and deleteAccount commit each         *)
(* statement for itself.                                                   *)
(*                                                                         *)
(* An access token verifies while users.token_version is the one it        *)
(* carries, and is then believed about status and roles.  The role         *)
(* followed is admin.  Hashing, mail, audit rows and token lifetimes are   *)
(* left out, so every token below lives until something ends it.           *)
(***************************************************************************)
EXTENDS Requests

CONSTANTS
  FirstLock   \* wrong passwords in a row that lock the account (5 in the code)

ASSUME FirstLockAssumption == FirstLock \in Nat

VARIABLES
  user,       \* the row: status, version, password, wrong attempts, lock
  admin,      \* user_roles has admin for it
  sessions,   \* rows of sessions, oldest first
  refreshes,  \* refresh tokens generated so far
  access,     \* access tokens handed out
  resets,     \* password_reset_tokens and pending recovery_attempts, unused
  mailed,     \* such tokens generated so far
  cached,     \* the AuthContext in auth-context-cache
  exchanged,  \* history: which refresh token was given for which
  undone      \* history: what dying requests left undone and nobody did since

account == <<user, admin, sessions, refreshes, access, resets, mailed, cached>>
history == <<exchanged, undone>>

Statuses == {"pending", "approved", "rejected", "suspended", "takendown",
             "deactivated", "deleted"}
Barred  == {"suspended", "takendown"}
MaySignIn == {"approved", "deactivated"}
Owed == {"bump", "revoke", "drop", "forget", "refuse"}

NoContext == [status |-> "none", admin |-> FALSE, late |-> FALSE]

\* An account just registered, or approved and signed in once.
SessionsInit ==
  /\ RequestsInit
  /\ \E status \in {"pending", "approved"} :
       /\ user = [status |-> status, version |-> 0, password |-> 0,
                  wrong |-> 0, locked |-> FALSE]
       /\ IF status = "approved"
            THEN /\ sessions = <<[token |-> 1, previous |-> 0, state |-> "live",
                                  password |-> 0, late |-> FALSE]>>
                 /\ refreshes = 1
                 /\ access = {[version |-> 0, status |-> status, admin |-> FALSE]}
            ELSE sessions = <<>> /\ refreshes = 0 /\ access = {}
  /\ admin = FALSE /\ resets = {} /\ mailed = 0 /\ cached = NoContext
  /\ exchanged = {} /\ undone = {}

Exists == user.status # "deleted"
Verifies(a) == Exists /\ a.version = user.version
OfToken(t) == {i \in DOMAIN sessions : sessions[i].token = t}
Settled(statements) == undone' = undone \ statements

-----------------------------------------------------------------------------
(* Signing in: the row is read once, and believed until the session is in. *)

Login(s, given) ==
  /\ Exists /\ ~user.locked
  /\ LET steps ==
           IF given # user.password THEN <<"fail">>
           ELSE (IF user.wrong > 0 THEN <<"clear">> ELSE <<>>) \o
                (IF user.status \in MaySignIn THEN <<"roles", "session">> ELSE <<>>)
     IN steps # <<>> /\ Begin(s, steps, [what |-> "login", row |-> user, admin |-> FALSE])
  /\ UNCHANGED <<account, history>>

CountWrong(s) ==
  /\ At(s, "fail") /\ Pass(s)
  /\ user' = [user EXCEPT !.wrong = @ + 1, !.locked = user.wrong + 1 >= FirstLock]
  /\ UNCHANGED <<admin, sessions, refreshes, access, resets, mailed, cached, history>>

ClearWrong(s) ==
  /\ At(s, "clear") /\ Pass(s)
  /\ user' = [user EXCEPT !.wrong = 0, !.locked = FALSE]
  /\ UNCHANGED <<admin, sessions, refreshes, access, resets, mailed, cached, history>>

LockLapses ==
  /\ user.locked /\ user' = [user EXCEPT !.locked = FALSE]
  /\ UNCHANGED <<admin, sessions, refreshes, access, resets, mailed, cached, requests, history>>

ReadRoles(s) ==
  /\ At(s, "roles") /\ Note(s, [mem[s] EXCEPT !.admin = admin])
  /\ UNCHANGED <<account, history>>

Token(row, isAdmin) == [version |-> row.version, status |-> row.status, admin |-> isAdmin]

InsertSession(s) ==
  /\ At(s, "session") /\ Pass(s)
  /\ LET row == mem[s].row IN
       IF Exists
         THEN /\ sessions' = Append(sessions,
                   [token |-> refreshes + 1, previous |-> 0, state |-> "live",
                    password |-> row.password, late |-> row.password # user.password])
              /\ refreshes' = refreshes + 1
              /\ access' = access \cup {Token(row, mem[s].admin)}
         ELSE UNCHANGED <<sessions, refreshes, access>>
  /\ UNCHANGED <<user, admin, resets, mailed, cached, history>>

-----------------------------------------------------------------------------
(* refreshSession: find the session, read the account, claim the rotation. *)

Reused(t) == \E i \in DOMAIN sessions : sessions[i].previous = t
OnReuse(t) == IF Reused(t) THEN <<"revoke", "bump">> ELSE <<>>

Refresh(s, t) ==
  /\ t \in 1..refreshes
  /\ LET found == OfToken(t) IN
       /\ \A i \in found : sessions[i].state = "live"
       /\ Begin(s, IF found # {} THEN <<"account", "rotate">> ELSE <<"reuse">>,
                [what |-> "refresh", token |-> t])
  /\ UNCHANGED <<account, history>>

ReadAccount(s) ==
  /\ At(s, "account")
  /\ IF user.status \in MaySignIn
       THEN Note(s, [what |-> "refresh", token |-> mem[s].token, row |-> user, admin |-> admin])
       ELSE Answer(s)
  /\ UNCHANGED <<account, history>>

\* A slip the runs must notice: the row is rotated by its id alone.
RotateAny(s) ==
  /\ At(s, "rotate")
  /\ LET t == mem[s].token
         held == {i \in DOMAIN sessions : sessions[i].token = t \/ sessions[i].previous = t}
     IN /\ held # {} /\ Pass(s)
        /\ sessions' = [i \in DOMAIN sessions |-> IF i \in held
              THEN [sessions[i] EXCEPT !.token = refreshes + 1, !.previous = t, !.state = "live"]
              ELSE sessions[i]]
        /\ refreshes' = refreshes + 1
        /\ access' = access \cup {Token(mem[s].row, mem[s].admin)}
        /\ exchanged' = exchanged \cup {<<t, refreshes + 1>>}
  /\ UNCHANGED <<user, admin, resets, mailed, cached, undone>>

Rotate(s) ==
  /\ At(s, "rotate")
  /\ LET t == mem[s].token
         claimed == {i \in OfToken(t) : sessions[i].state # "revoked"}
     IN IF claimed # {}
          THEN /\ Pass(s)
               /\ sessions' = [i \in DOMAIN sessions |-> IF i \in claimed
                     THEN [sessions[i] EXCEPT !.token = refreshes + 1, !.previous = t, !.state = "live"]
                     ELSE sessions[i]]
               /\ refreshes' = refreshes + 1
               /\ access' = access \cup {Token(mem[s].row, mem[s].admin)}
               /\ exchanged' = exchanged \cup {<<t, refreshes + 1>>}
          ELSE /\ Turn(s, <<"reuse">>, [what |-> "refresh", token |-> t])
               /\ UNCHANGED <<sessions, refreshes, access, exchanged>>
  /\ UNCHANGED <<user, admin, resets, mailed, cached, undone>>

CheckReuse(s) ==
  /\ At(s, "reuse") /\ Turn(s, OnReuse(mem[s].token), mem[s])
  /\ UNCHANGED <<account, history>>

SessionExpires(i) ==
  /\ sessions[i].state = "live"
  /\ sessions' = [sessions EXCEPT ![i].state = "expired"]
  /\ UNCHANGED <<user, admin, refreshes, access, resets, mailed, cached, requests, history>>

-----------------------------------------------------------------------------
(* Ending sessions. *)

Ended(is) == [i \in DOMAIN sessions |->
                IF i \in is THEN [sessions[i] EXCEPT !.state = "revoked"] ELSE sessions[i]]
Unrevoked == {i \in DOMAIN sessions : sessions[i].state # "revoked"}

RevokeAll(s) ==
  /\ At(s, "revoke") /\ Pass(s)
  /\ sessions' = Ended(Unrevoked) /\ Settled({"revoke", "drop"})
  /\ UNCHANGED <<user, admin, refreshes, access, resets, mailed, cached, exchanged>>

\* changePassword deletes the rows, and with them the memory of what was rotated.
DropAll(s) ==
  /\ At(s, "drop") /\ Pass(s)
  /\ sessions' = <<>> /\ Settled({"revoke", "drop"})
  /\ UNCHANGED <<user, admin, refreshes, access, resets, mailed, cached, exchanged>>

Bump(s) ==
  /\ At(s, "bump") /\ Pass(s)
  /\ user' = IF Exists THEN [user EXCEPT !.version = @ + 1] ELSE user
  /\ Settled({"bump"})
  /\ UNCHANGED <<admin, sessions, refreshes, access, resets, mailed, cached, exchanged>>

\* deleteSession, and revokeSession for one session or for all: an update,
\* and the version if it found a row.
RevokeSessions(s, is) ==
  /\ is \subseteq Unrevoked /\ is # {}
  /\ Cardinality(is) = 1 \/ is = Unrevoked
  /\ Begin(s, <<"bump">>, [what |-> "revokeSession"])
  /\ sessions' = Ended(is)
  /\ UNCHANGED <<user, admin, refreshes, access, resets, mailed, cached, history>>

-----------------------------------------------------------------------------
(* The account's status, by its owner and by moderators. *)

\* A slip the runs must notice: the version stays.
SetStatusOnly(s, to) ==
  /\ At(s, to) /\ Pass(s) /\ Exists
  /\ user' = [user EXCEPT !.status = to]
  /\ Settled({"bump"})
  /\ UNCHANGED <<admin, sessions, refreshes, access, resets, mailed, cached, exchanged>>

SetStatus(s, to) ==
  /\ At(s, to) /\ Pass(s)
  /\ user' = IF Exists THEN [user EXCEPT !.status = to, !.version = @ + 1] ELSE user
  /\ Settled({"bump"})
  /\ UNCHANGED <<admin, sessions, refreshes, access, resets, mailed, cached, exchanged>>

\* A slip the runs must notice: the cached context is left alone.
DeactivateCached(s) ==
  /\ user.status = "approved"
  /\ Begin(s, <<"deactivated", "revoke">>, [what |-> "owner", row |-> user])
  /\ UNCHANGED <<account, history>>

Deactivate(s) ==
  /\ user.status = "approved"
  /\ Begin(s, <<"deactivated", "revoke", "forget">>, [what |-> "owner", row |-> user])
  /\ UNCHANGED <<account, history>>

\* A slip the runs must notice: whatever is not in use can be activated.
ActivateBarred(s) ==
  /\ Exists /\ user.status # "approved"
  /\ Begin(s, <<"approved", "forget">>, [what |-> "owner", row |-> user])
  /\ UNCHANGED <<account, history>>

Activate(s) ==
  /\ user.status = "deactivated"
  /\ Begin(s, <<"approved", "forget">>, [what |-> "owner", row |-> user])
  /\ UNCHANGED <<account, history>>

Approve(s, to) ==
  /\ user.status = "pending" /\ AtOnce(s)
  /\ user' = [user EXCEPT !.status = to]
  /\ UNCHANGED <<admin, sessions, refreshes, access, resets, mailed, cached, history>>

TakedownPart(status) ==
  IF status = "takendown" THEN {<<"approved">>} ELSE {<<"takendown", "revoke">>}

SuspendPart(status) ==
  CASE status = "suspended" -> {<<"approved">>}
    [] status = "takendown" -> {}
    [] OTHER -> {<<"suspended", "revoke">>}

\* updateSubjectStatus may be asked for both, on the status read at first; a
\* second part that is refused ends the request before the cache is told.
Orders(status) ==
  {<<"target">> \o a \o <<"forget">> : a \in TakedownPart(status) \cup SuspendPart(status)}
  \cup {<<"target">> \o a \o <<"refuse">> : a \in TakedownPart(status)}
  \cup {<<"target">> \o a \o b \o <<"forget">> :
          a \in TakedownPart(status), b \in SuspendPart(status)}

Moderate(s) ==
  /\ Exists
  /\ \E steps \in Orders(user.status) : Begin(s, steps, [what |-> "moderator"])
  /\ UNCHANGED <<account, history>>

\* Administrators are not moderated: asked after the row was read.
CheckTarget(s) ==
  /\ At(s, "target")
  /\ IF admin THEN Answer(s) ELSE Pass(s)
  /\ UNCHANGED <<account, history>>

Refuse(s) ==
  /\ At(s, "refuse") /\ Pass(s)
  /\ undone' = undone \cup {"refuse"}
  /\ UNCHANGED <<account, exchanged>>

Delete(s) ==
  /\ Exists
  /\ Begin(s, <<"target", "delete", "forget">>, [what |-> "moderator"])
  /\ UNCHANGED <<account, history>>

\* deleteAccountData.
DeleteAll(s) ==
  /\ At(s, "delete") /\ Pass(s)
  /\ user' = [user EXCEPT !.status = "deleted"] /\ admin' = FALSE /\ sessions' = <<>>
  /\ resets' = {} /\ Settled({"bump", "revoke", "drop"})
  /\ UNCHANGED <<refreshes, access, mailed, cached, exchanged>>

\* A slip the runs must notice: tokens are voided before the roles change.
UpdateRolesBumpingFirst(s) ==
  /\ Exists
  /\ \E step \in {"grant", "demote"} : Begin(s, <<"bump", step, "forget">>, [what |-> "roles"])
  /\ UNCHANGED <<account, history>>

\* updateRoles.  The count of other administrators is another account's story.
UpdateRoles(s) ==
  /\ Exists
  /\ \E step \in {"grant", "demote"} : Begin(s, <<step, "bump", "forget">>, [what |-> "roles"])
  /\ UNCHANGED <<account, history>>

SetRole(s) ==
  /\ At(s, "grant") \/ At(s, "demote")
  /\ IF Exists \/ At(s, "demote") THEN Pass(s) ELSE Answer(s)
  /\ admin' = (At(s, "grant") /\ Exists)
  /\ UNCHANGED <<user, sessions, refreshes, access, resets, mailed, cached, history>>

-----------------------------------------------------------------------------
(* Passwords. *)

ChangePassword(s, given) ==
  /\ Exists /\ given = user.password
  /\ Begin(s, <<"password", "drop">>, [what |-> "password"])
  /\ UNCHANGED <<account, history>>

SetPassword(s) ==
  /\ At(s, "password") /\ Pass(s)
  /\ user' = IF Exists THEN [user EXCEPT !.password = @ + 1, !.version = @ + 1] ELSE user
  /\ Settled({"bump"})
  /\ UNCHANGED <<admin, sessions, refreshes, access, resets, mailed, cached, exchanged>>

\* requestPasswordReset voids the tokens there are and adds one.
RequestReset(s) ==
  /\ Exists /\ Begin(s, <<"void", "mail">>, [what |-> "reset"])
  /\ UNCHANGED <<account, history>>

VoidResets(s) ==
  /\ At(s, "void") /\ Pass(s)
  /\ resets' = {r \in resets : r[1] # "reset"}
  /\ UNCHANGED <<user, admin, sessions, refreshes, access, mailed, cached, history>>

\* initiateRecovery does nothing while an attempt is pending.
InitiateRecovery(s) ==
  /\ Exists /\ \A r \in resets : r[1] # "recovery"
  /\ Begin(s, <<"mail">>, [what |-> "recovery"])
  /\ UNCHANGED <<account, history>>

Mail(s) ==
  /\ At(s, "mail") /\ Pass(s)
  /\ resets' = IF Exists THEN resets \cup {<<mem[s].what, mailed + 1>>} ELSE resets
  /\ mailed' = mailed + 1
  /\ UNCHANGED <<user, admin, sessions, refreshes, access, cached, history>>

MailLapses(r) ==
  /\ resets' = resets \ {r}
  /\ UNCHANGED <<user, admin, sessions, refreshes, access, mailed, cached, requests, history>>

\* A slip the runs must notice: who is signed in stays signed in.
ConfirmResetKeeping(s, r) ==
  /\ r[1] = "reset"
  /\ Begin(s, <<"password", "use", "clear">>, [what |-> "confirm", token |-> r])
  /\ UNCHANGED <<account, history>>

ConfirmReset(s, r) ==
  /\ r[1] = "reset"
  /\ Begin(s, <<"password", "use", "revoke", "clear">>, [what |-> "confirm", token |-> r])
  /\ UNCHANGED <<account, history>>

UseReset(s) ==
  /\ At(s, "use") /\ Pass(s)
  /\ resets' = resets \ {mem[s].token}
  /\ UNCHANGED <<user, admin, sessions, refreshes, access, mailed, cached, history>>

\* completeRecovery is one transaction, and locks what it reads.
CompleteRecovery(s, r) ==
  /\ r[1] = "recovery" /\ Exists /\ AtOnce(s)
  /\ user' = [user EXCEPT !.password = @ + 1, !.version = @ + 1, !.wrong = 0, !.locked = FALSE]
  /\ resets' = resets \ {r}
  /\ sessions' = Ended(Unrevoked) /\ Settled({"bump", "revoke", "drop"})
  /\ UNCHANGED <<admin, refreshes, access, mailed, cached, exchanged>>

-----------------------------------------------------------------------------
(* The context of OAuth and service-auth requests, and the process. *)

Authenticate(s) ==
  /\ Exists /\ cached = NoContext
  /\ Begin(s, <<"roles", "cache">>, [what |-> "context", row |-> user, admin |-> FALSE])
  /\ UNCHANGED <<account, history>>

FillCache(s) ==
  /\ At(s, "cache") /\ Pass(s)
  /\ cached' = [status |-> mem[s].row.status, admin |-> mem[s].admin,
                late |-> mem[s].row.version # user.version \/ ~Exists]
  /\ UNCHANGED <<user, admin, sessions, refreshes, access, resets, mailed, history>>

Forget(s) ==
  /\ At(s, "forget") /\ Pass(s)
  /\ cached' = NoContext /\ Settled({"forget", "refuse"})
  /\ UNCHANGED <<user, admin, sessions, refreshes, access, resets, mailed, exchanged>>

ContextLapses ==
  /\ cached # NoContext /\ cached' = NoContext /\ Settled({"forget", "refuse"})
  /\ UNCHANGED <<user, admin, sessions, refreshes, access, resets, mailed, requests, exchanged>>

\* A statement fails, and the handler answers with an error.
Die(s) ==
  /\ todo[s] # <<>> /\ Answer(s)
  /\ undone' = undone \cup (Owed \cap Steps(s))
  /\ UNCHANGED <<account, exchanged>>

SessionsStep(s) ==
  \/ \E given \in 0..user.password + 1 : Login(s, given) \/ ChangePassword(s, given)
  \/ \E t \in 1..refreshes : Refresh(s, t)
  \/ \E is \in SUBSET DOMAIN sessions : RevokeSessions(s, is)
  \/ Deactivate(s) \/ Activate(s) \/ Moderate(s) \/ Delete(s) \/ UpdateRoles(s)
  \/ \E to \in {"approved", "rejected"} : Approve(s, to)
  \/ RequestReset(s) \/ InitiateRecovery(s) \/ Authenticate(s)
  \/ \E r \in resets : ConfirmReset(s, r) \/ CompleteRecovery(s, r)
  \/ CountWrong(s) \/ ClearWrong(s) \/ ReadRoles(s) \/ InsertSession(s)
  \/ ReadAccount(s) \/ Rotate(s) \/ CheckReuse(s)
  \/ RevokeAll(s) \/ DropAll(s) \/ Bump(s)
  \/ \E to \in Statuses : SetStatus(s, to)
  \/ CheckTarget(s) \/ Refuse(s) \/ DeleteAll(s) \/ SetRole(s)
  \/ SetPassword(s) \/ VoidResets(s) \/ Mail(s) \/ UseReset(s)
  \/ FillCache(s) \/ Forget(s) \/ Die(s)

SessionsNext ==
  \/ \E s \in Slot : SessionsStep(s)
  \/ \E i \in DOMAIN sessions : SessionExpires(i)
  \/ \E r \in resets : MailLapses(r)
  \/ LockLapses \/ ContextLapses

sessionsVars == <<account, history, requests>>
SessionsSpec == SessionsInit /\ [][SessionsNext]_sessionsVars

-----------------------------------------------------------------------------
SessionsTypeOK ==
  /\ user \in [status : Statuses, version : Nat, password : Nat, wrong : Nat, locked : BOOLEAN]
  /\ admin \in BOOLEAN
  /\ sessions \in Seq([token : Nat \ {0}, previous : Nat, password : Nat, late : BOOLEAN,
                       state : {"live", "expired", "revoked"}])
  /\ refreshes \in Nat /\ mailed \in Nat
  /\ access \subseteq [version : Nat, status : Statuses, admin : BOOLEAN]
  /\ resets \subseteq {"reset", "recovery"} \X Nat
  /\ cached \in [status : Statuses \cup {"none"}, admin : BOOLEAN, late : BOOLEAN]
  /\ exchanged \subseteq Nat \X Nat /\ undone \subseteq Owed

\* What stands in for reading the account's row agrees with the row, however
\* sign-in, refresh, moderation and the owner's own requests overlap.
\* verifyAccessToken believes what a token says of the status, so every token
\* that still verifies says what the row says now.
TokensFollowStatus == \A a \in access : Verifies(a) => a.status = user.status

\* ... and of the roles, but for the moment between updateRoles' write and
\* the version it bumps after it (for good, when it dies in between).
TokensFollowRoles ==
  "bump" \notin undone /\ (\A s \in Slot : ~At(s, "bump")) =>
    \A a \in access : Verifies(a) => a.admin = admin

\* The cached context says approved of an account that is not only until the
\* request that changed it has come to its end, when that one died or refused
\* its second half, or when the context was read before and cached after.
ContextFollowsStatus ==
  cached.status = "approved" /\ user.status # "approved" =>
    \/ cached.late \/ undone \cap {"forget", "refuse"} # {}
    \/ \E s \in Slot : Pending(s, "forget") \/ Pending(s, "refuse")

\* No credential outlives what was decided about its account: the three above.
CredentialsFollowAccount == TokensFollowStatus /\ TokensFollowRoles /\ ContextFollowsStatus

\* However many refreshes present one token, one of them gets its successor,
\* and the token is no session's any more.
ExchangeIsExclusive ==
  /\ \A x, y \in exchanged : x[1] = y[1] => x = y
  /\ \A x \in exchanged : OfToken(x[1]) = {}

\* Changing, resetting and recovering a password end every session that an
\* earlier password opened, once all their statements ran.  Not so the session
\* of a sign-in that read the account before and inserts its row after.
PasswordEndsSessions ==
  /\ undone \cap {"revoke", "drop"} = {}
  /\ \A s \in Slot : Pending(s, "revoke") \/ Pending(s, "drop") => Pending(s, "password")
  => \A i \in DOMAIN sessions :
       sessions[i].state = "live" => sessions[i].password = user.password \/ sessions[i].late

\* Only a moderator brings back a suspended or taken down account, or a request
\* of its owner that had read the account before the moderator's came.
SuspensionHolds ==
  [][user.status \in Barred /\ user'.status \notin Barred =>
       \E s \in Slot :
         /\ At(s, user'.status) \/ At(s, "delete")
         /\ mem[s].what = "moderator" \/ mem[s].row.version # user.version]_sessionsVars
=============================================================================

---------------------------- MODULE PartnerKeys ----------------------------
(***************************************************************************)
(* Partners' keys.  A key is made for some origins and does nothing until  *)
(* each of them has published the token that came with it.  A request with *)
(* a key is let through by the middleware, and what it then does asks once *)
(* more, under a lock, whether the key is still active.  Browsers of the   *)
(* origins are admitted from a list kept in memory for five minutes.       *)
(*                                                                         *)
(* Outside: what the owner of an origin publishes, one token at a time.    *)
(***************************************************************************)
EXTENDS Requests

CONSTANTS
  PartnerKey,  \* keys a manager may make
  Origin,      \* origins of partners
  NoKey        \* an origin that publishes nothing

VARIABLES
  partnerKeys,  \* partner_keys
  wellKnown,    \* origin -> the key whose token it publishes
  cors,         \* cachedOrigins, whether they are fresh, and a refresh in flight
  partnerPast   \* history: see PartnerKeysInit

partnerTables == <<partnerKeys, wellKnown, cors>>

PartnerKeysInit ==
  /\ RequestsInit
  /\ partnerKeys = [k \in PartnerKey |->
       [status |-> "none", origins |-> {}, verified |-> FALSE, token |-> FALSE]]
  /\ wellKnown = [o \in Origin |-> NoKey]
  /\ cors = [origins |-> {}, fresh |-> FALSE, inFlight |-> FALSE, as |-> 0]
  /\ partnerPast = [proven    |-> {},      \* key and origin: its token was found there
                    revoked   |-> {},      \* keys whose revocation committed
                    accounts  |-> {},      \* made: key, origin, and after a revocation
                    readings  |-> 0,       \* of the origins, for the list
                    backwards |-> FALSE]   \* the list went back to an older reading

Working(k) == partnerKeys[k].status = "active" /\ partnerKeys[k].verified

-----------------------------------------------------------------------------
(* What the managers do *)

CreateKey(s, k, origins) ==
  /\ partnerKeys[k].status = "none" /\ origins # {}
  /\ AtOnce(s)
  /\ partnerKeys' = [partnerKeys EXCEPT ![k] =
       [status |-> "active", origins |-> origins, verified |-> FALSE, token |-> TRUE]]
  /\ UNCHANGED <<wellKnown, cors, partnerPast>>

\* The row is read once; the origins are asked all together.
VerifyKey(s, k) ==
  /\ partnerKeys[k].status = "active" /\ ~partnerKeys[k].verified /\ partnerKeys[k].token
  /\ Begin(s, <<"checkOrigins", "markVerified">>,
           [what |-> "verify", key |-> k, left |-> partnerKeys[k].origins])
  /\ UNCHANGED <<partnerTables, partnerPast>>

CheckOrigin(s, o) ==
  /\ At(s, "checkOrigins") /\ o \in mem[s].left
  /\ wellKnown[o] = mem[s].key
  /\ LET left == mem[s].left \ {o} IN
       Turn(s, IF left = {} THEN Tail(todo[s]) ELSE todo[s], [mem[s] EXCEPT !.left = left])
  /\ partnerPast' = [partnerPast EXCEPT !.proven = @ \cup {<<mem[s].key, o>>}]
  /\ UNCHANGED partnerTables

\* Another token, none, a timeout: one origin that fails fails the key.
RefuseOrigin(s) ==
  /\ At(s, "checkOrigins") /\ Answer(s) /\ UNCHANGED <<partnerTables, partnerPast>>

\* Whatever became of the key meanwhile; its status is left as it is.
MarkKeyVerified(s) ==
  /\ At(s, "markVerified") /\ Answer(s)
  /\ partnerKeys' = [partnerKeys EXCEPT ![mem[s].key].verified = TRUE, ![mem[s].key].token = FALSE]
  /\ UNCHANGED <<wellKnown, cors, partnerPast>>

AskToRevoke(s, k) ==
  /\ partnerKeys[k].status = "active"
  /\ Begin(s, <<"writeRevoked">>, [what |-> "revoke", key |-> k])
  /\ UNCHANGED <<partnerTables, partnerPast>>

RevokePartnerKey(s) ==
  /\ At(s, "writeRevoked") /\ Answer(s)
  /\ partnerKeys' = [partnerKeys EXCEPT ![mem[s].key].status = "revoked"]
  /\ partnerPast' = [partnerPast EXCEPT !.revoked = @ \cup {mem[s].key}]
  /\ UNCHANGED <<wellKnown, cors>>

-----------------------------------------------------------------------------
(* What a partner does *)

\* The middleware's reading of the row: active, verified, from one of its origins.
PresentKey(s, k, o) ==
  /\ Working(k) /\ o \in partnerKeys[k].origins
  /\ Begin(s, <<"register">>, [what |-> "register", key |-> k, origin |-> o])
  /\ UNCHANGED <<partnerTables, partnerPast>>

AccountMade(s) == [key |-> mem[s].key, origin |-> mem[s].origin, void |-> mem[s].key \in partnerPast.revoked]

\* A slip the runs must notice: what the middleware read is relied on.
RegisterUnlocked(s) ==
  /\ At(s, "register") /\ Answer(s)
  /\ partnerPast' = [partnerPast EXCEPT !.accounts = @ \cup {AccountMade(s)}]
  /\ UNCHANGED partnerTables

\* The transaction locks the row if it is active still, and makes the account.
PartnerRegister(s) ==
  /\ At(s, "register") /\ Answer(s)
  /\ partnerPast' =
       IF partnerKeys[mem[s].key].status = "active"
       THEN [partnerPast EXCEPT !.accounts = @ \cup {AccountMade(s)}] ELSE partnerPast
  /\ UNCHANGED partnerTables

Publish(o, k) ==
  /\ k # wellKnown[o] /\ (k # NoKey => partnerKeys[k].status # "none")
  /\ wellKnown' = [wellKnown EXCEPT ![o] = k]
  /\ UNCHANGED <<requests, partnerKeys, cors, partnerPast>>

-----------------------------------------------------------------------------
(* getCachedPartnerOrigins *)

\* One refresh at a time; others wait for it.
BeginRefresh(s) ==
  /\ ~cors.fresh /\ ~cors.inFlight
  /\ Begin(s, <<"readOrigins", "storeOrigins">>, [what |-> "refresh"])
  /\ cors' = [cors EXCEPT !.inFlight = TRUE]
  /\ UNCHANGED <<partnerKeys, wellKnown, partnerPast>>

ReadOrigins(s) ==
  /\ At(s, "readOrigins")
  /\ Note(s, [what |-> "refresh", as |-> partnerPast.readings + 1,
              origins |-> UNION {partnerKeys[k].origins : k \in {j \in PartnerKey : Working(j)}}])
  /\ partnerPast' = [partnerPast EXCEPT !.readings = @ + 1]
  /\ UNCHANGED partnerTables

StoreOrigins(s) ==
  /\ At(s, "storeOrigins") /\ Answer(s)
  /\ cors' = [origins |-> mem[s].origins, fresh |-> TRUE, inFlight |-> FALSE, as |-> mem[s].as]
  /\ partnerPast' = [partnerPast EXCEPT !.backwards = @ \/ mem[s].as < cors.as]
  /\ UNCHANGED <<partnerKeys, wellKnown>>

\* The list is kept, and is no fresher.
RefreshFails(s) ==
  /\ At(s, "readOrigins") /\ Answer(s)
  /\ cors' = [cors EXCEPT !.inFlight = FALSE]
  /\ UNCHANGED <<partnerKeys, wellKnown, partnerPast>>

FiveMinutesPass ==
  /\ cors.fresh /\ cors' = [cors EXCEPT !.fresh = FALSE]
  /\ UNCHANGED <<requests, partnerKeys, wellKnown, partnerPast>>

PartnerRestart ==
  /\ cors # [origins |-> {}, fresh |-> FALSE, inFlight |-> FALSE, as |-> 0]
  /\ todo' = [s \in Slot |-> <<>>] /\ mem' = [s \in Slot |-> Nothing] /\ spent' = spent
  /\ cors' = [origins |-> {}, fresh |-> FALSE, inFlight |-> FALSE, as |-> 0]
  /\ UNCHANGED <<partnerKeys, wellKnown, partnerPast>>

PartnerKeysNext ==
  \/ \E s \in Slot :
       \/ \E k \in PartnerKey :
            \/ \E origins \in SUBSET Origin : CreateKey(s, k, origins)
            \/ VerifyKey(s, k) \/ AskToRevoke(s, k)
            \/ \E o \in Origin : PresentKey(s, k, o)
       \/ \E o \in Origin : CheckOrigin(s, o)
       \/ RefuseOrigin(s) \/ MarkKeyVerified(s) \/ RevokePartnerKey(s) \/ PartnerRegister(s)
       \/ BeginRefresh(s) \/ ReadOrigins(s) \/ StoreOrigins(s) \/ RefreshFails(s)
  \/ \E o \in Origin, k \in PartnerKey \cup {NoKey} : Publish(o, k)
  \/ FiveMinutesPass \/ PartnerRestart

-----------------------------------------------------------------------------
PartnerKeysTypeOK ==
  /\ \A k \in PartnerKey :
       /\ partnerKeys[k].status \in {"none", "active", "revoked"} /\ partnerKeys[k].origins \subseteq Origin
       /\ (partnerKeys[k].verified \/ partnerKeys[k].status = "none") <=> ~partnerKeys[k].token
  /\ cors.origins \subseteq Origin

\* An account is made through a key only where each of the key's origins has
\* shown its token, and never once its revocation committed, though it was let
\* through before; a verification that crosses a revocation does not undo it.
\* A browser is admitted only for an origin that has shown a token of its own,
\* and the list never goes back to an older reading.
PartnersAreProven ==
  /\ \A account \in partnerPast.accounts :
       ~account.void /\ {account.key} \X partnerKeys[account.key].origins \subseteq partnerPast.proven
  /\ \A k \in partnerPast.revoked : partnerKeys[k].status = "revoked"
  /\ \A o \in cors.origins : \E k \in PartnerKey : <<k, o>> \in partnerPast.proven
  /\ ~partnerPast.backwards

partnerVars == <<requests, partnerTables, partnerPast>>
PartnerKeysSpec == PartnerKeysInit /\ [][PartnerKeysNext]_partnerVars
=============================================================================

------------------------------- MODULE OAuth -------------------------------
(***************************************************************************)
(* The stores behind the OAuth provider, and the sign-in of people whose   *)
(* account is on another server.                                           *)
(*                                                                         *)
(* The provider library decides when a store is called: a code is consumed *)
(* and then a token created, a refresh token is looked up and then rotated *)
(* or, when it was used before, its token deleted.  The stores decide what *)
(* two such sequences do to each other.  PKCE, DPoP, scopes and devices    *)
(* are the library's and left out.                                         *)
(***************************************************************************)
EXTENDS Requests

CONSTANTS
  Outsider,     \* people of other servers
  HandoffRoom   \* codes kept for the browser's callback page (10000 in the code)

ASSUME HandoffRoomAssumption == HandoffRoom \in Nat \ {0}

VARIABLES
  grant,      \* the one authorization request: not made, asked, with its code, or gone
  grants,     \* rows of oauth_tokens: id, current refresh token (0 for none)
  used,       \* rows of oauth_used_refresh_tokens, each of a token's id
  named,      \* ids and refresh tokens generated so far
  outsiders,  \* users rows of people from elsewhere, all with an empty email
  handoffs,   \* pendingCodes, oldest first
  bought,     \* history: tokens created for the code
  redeemed    \* history: handoff codes exchanged for tokens

oauthTables == <<grant, grants, used, named, outsiders, handoffs, bought, redeemed>>

OAuthInit ==
  /\ RequestsInit
  /\ grant = "none" /\ grants = {} /\ used = {} /\ named = 0
  /\ outsiders = {} /\ handoffs = <<>> /\ bought = 0 /\ redeemed = <<>>

\* oauth_used_refresh_tokens.token_id REFERENCES oauth_tokens(id).
ReferencesHold(tokens, spentTokens) == \A u \in spentTokens : \E g \in tokens : g.id = u.id

-----------------------------------------------------------------------------
(* One request, from the row made for it to the row's end; ids are random. *)

RequestStands == grant \in {"asked", "granted"}

CreateRequest(s) ==
  /\ grant = "none" /\ AtOnce(s) /\ grant' = "asked"
  /\ UNCHANGED <<grants, used, named, outsiders, handoffs, bought, redeemed>>

\* updateRequest reads the row, and writes all of it back with what is new.
UpdateRequest(s) ==
  /\ RequestStands
  /\ \E new \in {grant, "granted"} : Begin(s, <<"merge">>, [what |-> "update", data |-> new])
  /\ UNCHANGED oauthTables

MergeRequest(s) ==
  /\ At(s, "merge") /\ Pass(s)
  /\ grant' = IF RequestStands THEN mem[s].data ELSE grant
  /\ UNCHANGED <<grants, used, named, outsiders, handoffs, bought, redeemed>>

DeleteRequest(s) ==
  /\ RequestStands /\ AtOnce(s) /\ grant' = "gone"
  /\ UNCHANGED <<grants, used, named, outsiders, handoffs, bought, redeemed>>

\* A slip the runs must notice: the request is read, and deleted with the token.
ConsumeCodeReading(s) ==
  /\ grant = "granted" /\ Begin(s, <<"token">>, [what |-> "code"])
  /\ UNCHANGED oauthTables

\* consumeRequestCode: SELECT ... FOR UPDATE SKIP LOCKED and DELETE in one.
ConsumeCode(s) ==
  /\ grant = "granted" /\ Begin(s, <<"token">>, [what |-> "code"])
  /\ grant' = "gone"
  /\ UNCHANGED <<grants, used, named, outsiders, handoffs, bought, redeemed>>

CreateToken(s) ==
  /\ At(s, "token") /\ Pass(s)
  /\ \E refresh \in {0, named + 2} :
       grants' = grants \cup {[id |-> named + 1, refresh |-> refresh, byCode |-> TRUE]}
  /\ named' = named + 2 /\ bought' = bought + 1
  /\ UNCHANGED <<grant, used, outsiders, handoffs, redeemed>>

\* A code presented again finds its token, which the library then deletes.
ReplayCode(s) ==
  /\ grant = "gone"
  /\ \E g \in grants : g.byCode /\ Begin(s, <<"delete">>, [what |-> "replay", id |-> g.id])
  /\ UNCHANGED oauthTables

-----------------------------------------------------------------------------
(* Refreshing. *)

\* findTokenByRefreshToken: the current ones first, then those used before.
FindByRefresh(s, r) ==
  /\ \/ \E g \in grants :
          g.refresh = r /\ Begin(s, <<"rotate">>, [what |-> "refresh", id |-> g.id, refresh |-> r])
     \/ /\ \A g \in grants : g.refresh # r
        /\ \E u \in used : u.refresh = r /\ Begin(s, <<"delete">>, [what |-> "replay", id |-> u.id])
  /\ UNCHANGED oauthTables

\* rotateToken: one transaction, with the row locked.  The used token is
\* stored under the token's old id before the row gets its new one.  The
\* constraint has no ON UPDATE, so the new id leaves the stored one referring
\* to nothing, and the transaction is undone.
Rotated(g) == [g EXCEPT !.id = named + 1, !.refresh = named + 2]

RotateToken(s) ==
  /\ At(s, "rotate") /\ Pass(s)
  /\ LET old == {g \in grants : g.id = mem[s].id}
         spentNow == used \cup {[refresh |-> g.refresh, id |-> g.id] : g \in old}
         new == (grants \ old) \cup {Rotated(g) : g \in old}
     IN IF old # {} /\ ReferencesHold(new, spentNow)
          THEN grants' = new /\ used' = spentNow /\ named' = named + 2
          ELSE UNCHANGED <<grants, used, named>>
  /\ UNCHANGED <<grant, outsiders, handoffs, bought, redeemed>>

\* deleteToken takes the used refresh tokens with it.
DeleteToken(s) ==
  /\ At(s, "delete") /\ Pass(s)
  /\ grants' = {g \in grants : g.id # mem[s].id}
  /\ used' = {u \in used : u.id # mem[s].id}
  /\ UNCHANGED <<grant, named, outsiders, handoffs, bought, redeemed>>

-----------------------------------------------------------------------------
(* People of other servers: the callback, and the handoff to the browser. *)

\* ensureExternalUser.  Web callbacks carry the browser's challenge; those of
\* client applications may have none.
ExternalCallback(s, who) ==
  /\ \E web \in BOOLEAN, challenge \in BOOLEAN :
       Begin(s, IF who \in outsiders THEN <<"handoff">> ELSE <<"outsider", "handoff">>,
             [what |-> "callback", who |-> who, web |-> web, challenge |-> challenge])
  /\ UNCHANGED oauthTables

\* users.did and users.email are unique, and every outsider's email is ''.
InsertOutsider(s) ==
  /\ At(s, "outsider")
  /\ IF outsiders = {}
       THEN Pass(s) /\ outsiders' = {mem[s].who}
       ELSE Answer(s) /\ UNCHANGED outsiders
  /\ UNCHANGED <<grant, grants, used, named, handoffs, bought, redeemed>>

\* A slip the runs must notice: no code makes room for the new one.
AddHandoffAnyway(s) ==
  /\ At(s, "handoff") /\ Pass(s)
  /\ handoffs' = Append(handoffs, [code |-> named + 1, web |-> mem[s].web,
                                  challenge |-> mem[s].challenge])
  /\ named' = named + 1
  /\ UNCHANGED <<grant, grants, used, outsiders, bought, redeemed>>

\* addPendingCode, the oldest code making room.
AddHandoff(s) ==
  /\ At(s, "handoff") /\ Pass(s)
  /\ LET kept == IF Len(handoffs) >= HandoffRoom THEN Tail(handoffs) ELSE handoffs
     IN handoffs' = Append(kept, [code |-> named + 1, web |-> mem[s].web,
                                  challenge |-> mem[s].challenge])
  /\ named' = named + 1
  /\ UNCHANGED <<grant, grants, used, outsiders, bought, redeemed>>

Without(i) == SubSeq(handoffs, 1, i - 1) \o SubSeq(handoffs, i + 1, Len(handoffs))

\* A code is gone with the first attempt, whatever its verifier.
Redeem(s, i, verifier) ==
  /\ AtOnce(s) /\ handoffs' = Without(i)
  /\ LET h == handoffs[i] IN
       redeemed' = IF (h.web \/ h.challenge) => (h.challenge /\ verifier)
                     THEN Append(redeemed, h.code) ELSE redeemed
  /\ UNCHANGED <<grant, grants, used, named, outsiders, bought>>

HandoffLapses(i) ==
  /\ handoffs' = Without(i)
  /\ UNCHANGED <<grant, grants, used, named, outsiders, bought, redeemed, requests>>

\* The process dies: its codes are gone with its requests.
Restart ==
  /\ handoffs # <<>> /\ handoffs' = <<>>
  /\ todo' = [s \in Slot |-> <<>>] /\ mem' = [s \in Slot |-> Nothing] /\ spent' = spent
  /\ UNCHANGED <<grant, grants, used, named, outsiders, bought, redeemed>>

OAuthNext ==
  \/ \E s \in Slot :
       \/ CreateRequest(s) \/ UpdateRequest(s) \/ MergeRequest(s) \/ DeleteRequest(s)
       \/ ConsumeCode(s) \/ CreateToken(s) \/ ReplayCode(s)
       \/ \E r \in 1..named : FindByRefresh(s, r)
       \/ RotateToken(s) \/ DeleteToken(s)
       \/ \E who \in Outsider : ExternalCallback(s, who)
       \/ InsertOutsider(s) \/ AddHandoff(s)
       \/ \E i \in DOMAIN handoffs, verifier \in BOOLEAN : Redeem(s, i, verifier)
  \/ \E i \in DOMAIN handoffs : HandoffLapses(i)
  \/ Restart

oauthVars == <<oauthTables, requests>>
OAuthSpec == OAuthInit /\ [][OAuthNext]_oauthVars

-----------------------------------------------------------------------------
OAuthTypeOK ==
  /\ grant \in {"none", "asked", "granted", "gone"}
  /\ grants \subseteq [id : Nat, refresh : Nat, byCode : BOOLEAN]
  /\ used \subseteq [refresh : Nat, id : Nat] /\ ReferencesHold(grants, used)
  /\ named \in Nat /\ bought \in Nat /\ outsiders \subseteq Outsider
  /\ handoffs \in Seq([code : Nat, web : BOOLEAN, challenge : BOOLEAN])
  /\ Len(handoffs) <= HandoffRoom /\ redeemed \in Seq(Nat)

\* An authorization code buys one token and a handoff code is exchanged once,
\* however many clients present it, with the request updated meanwhile.
CodesBuyOnce ==
  /\ bought <= 1
  /\ \A i, j \in DOMAIN redeemed : redeemed[i] = redeemed[j] => i = j

=============================================================================

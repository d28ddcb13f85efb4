----------------------------- MODULE MCServer -----------------------------
(***************************************************************************)
(* The components around the governance core, checked one after another in *)
(* one run: no two of them share a table, but for the forum and the guards *)
(* it extends and the pseudonyms and the keys they extend, so what one does *)
(* is seen by another only as a request that takes a slot.  (Eligibility   *)
(* has member records of its own, with what Communities leaves out.)       *)
(* Which of them a behaviour is about is chosen at the start and never     *)
(* changes.                                                                *)
(***************************************************************************)
EXTENDS Sessions, Registration, OAuth, Wallets, Communities, CommunityHomes,
        AccountHomes, Attestations, Oracle, Clients, Contacts, Settings, Forum,
        Anchoring, Pseudonyms, PseudonymMove, PartnerKeys, Vault, Email,
        ServiceAuth, Peers, Eligibility, Blobs, TLC

CONSTANTS a, b, c, d   \* people, servers, tokens: whatever comes in twos

VARIABLE focus   \* the component this behaviour is about

\* Bound: requests made in a behaviour about each component.
Budget ==
  [sessions |-> 3, registration |-> 3, oauth |-> 5, wallets |-> 4,
   communities |-> 3, communityHomes |-> 5, accountHomes |-> 4,
   attestations |-> 4, oracle |-> 4, clients |-> 4, contacts |-> 4,
   settings |-> 4, access |-> 3, forum |-> 3, anchoring |-> 3,
   publishedKeys |-> 4, pseudonyms |-> 4, pseudonymMove |-> 3, partnerKeys |-> 4,
   vault |-> 5, email |-> 3, serviceAuth |-> 4, peers |-> 2,
   eligibility |-> 3, blobs |-> 5]

\* While the behaviour is about something else, the account that moves is nowhere.
NobodyMoves ==
  IF focus = "accountHomes" THEN AccountsInit
  ELSE /\ lives = <<>> /\ users = [p \in Host |-> NoCopy]
       /\ signed = {} /\ codes = [p \in Host |-> 0]
       /\ sightings = [p \in Host |-> FALSE] /\ spoiled = FALSE

\* In the forum: a moderator, a member, somebody unknown and the owner.
InTheForum ==
  /\ community.status = "active"
  /\ caller \in {[Member EXCEPT !.record = "role", !.holds = {"forum", "calendar", "moderate"}],
                 [Member EXCEPT !.record = "role", !.holds = {"forum", "calendar"}],
                 [Visitor EXCEPT !.known = FALSE],
                 [Member EXCEPT !.owner = TRUE, !.record = "owner"]}

\* The guards are asked about every community and every caller there is.
Who ==
  CASE focus = "access" -> ForumInit
    [] focus = "forum"  -> ForumInit /\ InTheForum
    [] OTHER -> ForumInit /\ community.status = "absent" /\ ~caller.known

\* At a vote: moderators by their role record, and administrators who are no members yet.
AtTheVote ==
  \A v \in Elector : IF v \in Staff THEN memberRecords[v] = NoSeat ELSE memberRecords[v].office = 2

\* A component the behaviour is not about stays as one of its initial states has it.
ServerInit ==
  /\ focus \in DOMAIN Budget
  /\ SessionsInit /\ CommunitiesInit /\ AttestationsInit
  /\ focus # "sessions" => user.status = "pending"
  /\ focus # "communities" => policy = "open"
  /\ focus # "attestations" => belongs
  /\ OracleInit /\ ClientsInit /\ AnchoringInit
  /\ focus # "oracle" => evidence = <<>>
  /\ focus # "clients" => client = "sdk"
  /\ focus # "anchoring" => registered
  /\ MoveInit /\ ServiceAuthInit /\ EligibilityInit
  /\ focus # "pseudonymMove" => oldHome.records = 1
  /\ focus # "serviceAuth" => \A t \in ServiceToken : serviceTokens[t] = Unsigned
  /\ IF focus = "eligibility" THEN AtTheVote ELSE \A v \in Elector : memberRecords[v] = NoSeat
  /\ RegistrationInit /\ OAuthInit /\ WalletsInit /\ HomesInit /\ NobodyMoves /\ ContactsInit
  /\ SettingsInit /\ PseudonymsInit /\ PartnerKeysInit /\ VaultInit /\ MailInit /\ PeersInit
  /\ BlobsInit /\ Who

Still(f) ==
  /\ f # "sessions"       => UNCHANGED <<account, history>>
  /\ f # "registration"   => UNCHANGED registrationTables
  /\ f # "oauth"          => UNCHANGED oauthTables
  /\ f # "wallets"        => UNCHANGED <<walletTables, walletHistory>>
  /\ f # "communities"    => UNCHANGED <<tables, tangled, crossed>>
  /\ f # "communityHomes" => UNCHANGED <<home, copies, excused>>
  /\ f # "accountHomes"   => UNCHANGED <<lives, signed, codes, users, sightings, spoiled>>
  /\ f # "attestations"   => UNCHANGED <<attestTables, attestPast>>
  /\ f # "oracle"         => UNCHANGED <<oracleTables, oraclePast>>
  /\ f # "clients"        => UNCHANGED <<clientVars, clientPast>>
  /\ f # "contacts"       => UNCHANGED <<contactTables, contactPast>>
  /\ f # "settings"       => UNCHANGED <<rules, carried, settingsPast>>
  /\ f \notin {"access", "forum"} => UNCHANGED <<accessTables, exposed>>
  /\ f # "forum"          => UNCHANGED <<forumTables, forumPast>>
  /\ f # "anchoring"      => UNCHANGED <<anchoringTables, anchorPast>>
  /\ f \notin {"publishedKeys", "pseudonyms"} => UNCHANGED <<keyTables, published, actorsCrossed>>
  /\ f # "pseudonyms"     => UNCHANGED <<pseudonymTables, pseudonymPast>>
  /\ f # "pseudonymMove"  => UNCHANGED <<moveTables, movePast>>
  /\ f # "partnerKeys"    => UNCHANGED <<partnerTables, partnerPast>>
  /\ f # "vault"          => UNCHANGED <<vaultTables, vaultPast>>
  /\ f # "email"          => UNCHANGED <<mailTables, mailPast>>
  /\ f # "serviceAuth"    => UNCHANGED <<serviceTables, servicePast>>
  /\ f # "peers"          => UNCHANGED <<peerTables, editions>>
  /\ f # "eligibility"    => UNCHANGED <<eligibilityTables, wavered>>
  /\ f # "blobs"          => UNCHANGED <<blobTables, blobPast>>

\* Bound: what the last request there is room for is asked of: where requests cross
\* widely it comes when no other is under way; otherwise once somebody has signed in, and
\* while nothing has happened that most properties of its component excuse (a death that
\* left something undone, an answer lost, two at a link at once), and while the issuer
\* has the key it had.
OneAtMost == \E s \in Slot : \A t \in Slot \ {s} : todo[t] = <<>>

WorthOneMore ==
  CASE focus \in {"registration", "communityHomes", "accountHomes", "contacts"} -> OneAtMost
    [] focus = "sessions"    -> refreshes > 0 /\ undone = {}
    [] focus = "clients"     -> ~blamed
    [] focus = "serviceAuth" -> issuerKey = 1
    [] focus = "email"       -> ~mailPast.crossed
    [] OTHER -> TRUE

Step(f, Of) ==
  /\ focus = f /\ Of
  /\ spent' <= Budget[f]
  /\ Still(f) /\ UNCHANGED focus
  /\ spent' = Budget[f] => WorthOneMore'

ServerNext ==
  \/ Step("sessions", SessionsNext)
  \/ Step("registration", RegistrationNext)
  \/ Step("oauth", OAuthNext)
  \/ Step("wallets", WalletsNext)
  \/ Step("communities", CommunitiesNext)
  \/ Step("communityHomes", HomesNext)
  \/ Step("accountHomes", AccountsNext)
  \/ Step("attestations", AttestationsNext)
  \/ Step("oracle", OracleNext)
  \/ Step("clients", ClientsNext)
  \/ Step("contacts", ContactsNext)
  \/ Step("settings", SettingsNext)
  \/ Step("access", AccessNext)
  \/ Step("forum", ForumNext)
  \/ Step("anchoring", AnchoringNext)
  \/ Step("publishedKeys", PublishedKeysNext)
  \/ Step("pseudonyms", PseudonymsNext)
  \/ Step("pseudonymMove", MoveNext)
  \/ Step("partnerKeys", PartnerKeysNext)
  \/ Step("vault", VaultNext)
  \/ Step("email", MailNext)
  \/ Step("serviceAuth", ServiceAuthNext)
  \/ Step("peers", PeersNext)
  \/ Step("eligibility", EligibilityNext)
  \/ Step("blobs", BlobsNext)

serverVars ==
  <<focus, requests, account, history, registrationTables, oauthTables, walletTables,
    walletHistory, tables, tangled, crossed, home, copies, excused, lives, signed, codes,
    users, sightings, spoiled, attestTables, attestPast, oracleTables, oraclePast,
    clientVars, clientPast, contactTables, contactPast, rules, carried, settingsPast,
    accessTables, exposed, forumTables, forumPast, anchoringTables, anchorPast, keyTables,
    published, actorsCrossed, pseudonymTables, pseudonymPast, moveTables, movePast, partnerTables, partnerPast, vaultTables,
    vaultPast, mailTables, mailPast, serviceTables, servicePast, peerTables, editions,
    eligibilityTables, wavered, blobTables, blobPast>>

ServerSpec == ServerInit /\ [][ServerNext]_serverVars

Symmetry == Permutations({a, b}) \cup Permutations(Slot)

-----------------------------------------------------------------------------
\* What each component keeps has its type.
ServerTypeOK ==
  CASE focus = "sessions"       -> SessionsTypeOK
    [] focus = "registration"   -> RegistrationTypeOK
    [] focus = "oauth"          -> OAuthTypeOK
    [] focus = "wallets"        -> WalletsTypeOK
    [] focus = "communities"    -> CommunitiesTypeOK
    [] focus = "communityHomes" -> HomesTypeOK
    [] focus = "accountHomes"   -> AccountsTypeOK
    [] focus = "attestations"   -> AttestationsTypeOK
    [] focus = "oracle"         -> OracleTypeOK
    [] focus = "clients"        -> ClientsTypeOK
    [] focus = "contacts"       -> ContactsTypeOK
    [] focus = "settings"       -> SettingsTypeOK
    [] focus = "access"         -> AccessTypeOK
    [] focus = "forum"          -> ForumTypeOK /\ AccessTypeOK
    [] focus = "anchoring"      -> AnchoringTypeOK
    [] focus = "publishedKeys"  -> PublishedKeysTypeOK
    [] focus = "pseudonyms"     -> PseudonymsTypeOK /\ PublishedKeysTypeOK
    [] focus = "pseudonymMove"  -> MoveTypeOK
    [] focus = "partnerKeys"    -> PartnerKeysTypeOK
    [] focus = "vault"          -> VaultTypeOK
    [] focus = "email"          -> MailTypeOK
    [] focus = "serviceAuth"    -> ServiceAuthTypeOK
    [] focus = "peers"          -> PeersTypeOK
    [] focus = "eligibility"    -> EligibilityTypeOK
    [] focus = "blobs"          -> BlobsTypeOK

\* What is told stays true: to the notary of decisions, to whoever checks a
\* signature by a key once published, to the owner of a mailbox, about peers,
\* and to whoever checks that those who voted were entitled to.
OthersAreToldTrue ==
  AnchorsHold /\ KeysAreKept /\ MailHolds /\ PeerListsHold /\ EligibilityHolds

\* What is kept in two places agrees: posts and the index they are listed
\* from, blobs and the rows of those who own them.
StoresAgree == ForumHolds /\ BlobsHold

\* What is handed out goes to those who proved who they are and were not
\* turned away since: accounts made by partners, the shares of a key, tokens
\* and sessions of pseudonyms, and access by a token of another server.
GivenToTheProven == PartnersAreProven /\ VaultIsAccounted /\ PseudonymsHold /\ ServiceTokensHold
=============================================================================

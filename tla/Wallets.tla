------------------------------ MODULE Wallets ------------------------------
(***************************************************************************)
(* Wallets of one chain: which account each is linked to, who holds its    *)
(* key (tier 1: the server; 2: the server, wrapped by the user; 3: only    *)
(* the user), the consents under which the server signs, and the proofs by *)
(* which a wallet is linked or its owner signs in elsewhere.               *)
(*                                                                         *)
(* An address is a member of Wallet and is generated once.  Passwords, the *)
(* request's Origin header, consent lifetimes and what is signed are       *)
(* checked before the tables are read and left out.                        *)
(***************************************************************************)
EXTENDS Requests

CONSTANTS
  Owner,    \* accounts
  Wallet    \* addresses

VARIABLES
  links,     \* wallet -> owner, tier, primary, and whose proof the row shows
  custody,   \* rows of wallet_custody: owner and wallet
  blobs,     \* rows of custodial_secrets: owner -> the wallet its one blob is for
  consents,  \* active rows of wallet_dapp_consents: owner, scope, number
  proofs,    \* rows of wallet_link_challenges: owner, wallet, purpose
  upgraded,  \* history: wallets that finalizeTierChange took from tier 1
  late,      \* history: wallets whose key was stored after the tier changed
  keyless,   \* history: provisioned wallets whose key was never stored
  misused    \* history: wallets signed with after they were upgraded

walletTables == <<links, custody, blobs, consents, proofs>>
walletHistory == <<upgraded, late, keyless, misused>>

NoLink == [owner |-> "none", tier |-> 0, primary |-> FALSE, proof |-> "none", blind |-> FALSE]
Linked(w) == links[w] # NoLink
Belongs(w, o) == Linked(w) /\ links[w].owner = o

WalletsInit ==
  /\ RequestsInit
  /\ links = [w \in Wallet |-> NoLink]
  /\ custody = {} /\ blobs = {} /\ consents = {} /\ proofs = {}
  /\ upgraded = {} /\ late = {} /\ keyless = {} /\ misused = {}

Fresh(w) ==
  /\ ~Linked(w) /\ \A c \in custody : c[2] # w
  /\ w \notin upgraded \cup keyless /\ \A p \in proofs : p.wallet # w
  /\ \A s \in Slot : todo[s] # <<>> => mem[s].wallet # w

\* verifyAndLink keeps the row it found, and its challenge, locked until it commits.
Locked(w) == \E t \in Slot : At(t, "link") /\ mem[t].wallet = w /\ ~mem[t].none
Answering(p) == \E t \in Slot : At(t, "link") /\ mem[t].proof = p

-----------------------------------------------------------------------------
(* Tier 1: provisioning, and changing to tier 2 or 3. *)

\* provision generates a key; linkCustodialWallet commits before it is stored.
Provision(s, o, w) ==
  /\ Fresh(w) /\ Begin(s, <<"store">>, [what |-> "provision", owner |-> o, wallet |-> w])
  /\ links' = [links EXCEPT ![w] = [owner |-> o, tier |-> 1, primary |-> FALSE,
                                    proof |-> o, blind |-> FALSE]]
  /\ UNCHANGED <<custody, blobs, consents, proofs, walletHistory>>

StoreKey(s) ==
  /\ At(s, "store") /\ Pass(s)
  /\ LET w == mem[s].wallet IN
       /\ custody' = custody \cup {<<mem[s].owner, w>>}
       /\ late' = IF w \in upgraded THEN late \cup {w} ELSE late
  /\ UNCHANGED <<links, blobs, consents, proofs, upgraded, keyless, misused>>

\* A slip the runs must notice: the server's key goes only with tier 3.
TierChangeKeeping(s, o, w, to) ==
  /\ Belongs(w, o) /\ links[w].tier < to /\ ~Locked(w) /\ AtOnce(s)
  /\ links' = [links EXCEPT ![w].tier = to]
  /\ custody' = IF to = 3 THEN custody \ {<<o, w>>} ELSE custody
  /\ blobs' = IF to = 2 THEN {b \in blobs : b[1] # o} \cup {<<o, w>>} ELSE blobs
  /\ consents' = {c \in consents : c.owner # o \/ c.scope # w}
  /\ upgraded' = IF links[w].tier = 1 THEN upgraded \cup {w} ELSE upgraded
  /\ UNCHANGED <<proofs, late, keyless, misused>>

\* finalizeTierChange: one transaction, with the link's row locked.  There is
\* one blob per owner and chain: the wallet's replaces another's, and leaving
\* tier 2 removes whichever is there.
TierChange(s, o, w, to) ==
  /\ Belongs(w, o) /\ links[w].tier < to /\ ~Locked(w) /\ AtOnce(s)
  /\ links' = [links EXCEPT ![w].tier = to]
  /\ custody' = IF links[w].tier = 1 THEN custody \ {<<o, w>>} ELSE custody
  /\ LET kept == {b \in blobs : b[1] # o} IN
       blobs' = IF to = 2 THEN kept \cup {<<o, w>>}
                ELSE IF links[w].tier = 2 THEN kept ELSE blobs
  /\ consents' = {c \in consents : c.owner # o \/ c.scope # w}
  /\ upgraded' = IF links[w].tier = 1 THEN upgraded \cup {w} ELSE upgraded
  /\ UNCHANGED <<proofs, late, keyless, misused>>

\* storeCustodialSecret: the client's own blob, for whichever wallet it says.
StoreBlob(s, o, w) ==
  /\ AtOnce(s) /\ blobs' = {b \in blobs : b[1] # o} \cup {<<o, w>>}
  /\ UNCHANGED <<links, custody, consents, proofs, walletHistory>>

-----------------------------------------------------------------------------
(* Consents, and signing for an application. *)

\* grantConsent ends the grants of the same scope, and adds one: two commits.
GrantConsent(s, o, scope) ==
  /\ Begin(s, <<"grant">>, [what |-> "grant", owner |-> o, wallet |-> scope])
  /\ consents' = {c \in consents : c.owner # o \/ c.scope # scope}
  /\ UNCHANGED <<links, custody, blobs, proofs, walletHistory>>

AddConsent(s) ==
  /\ At(s, "grant") /\ Pass(s)
  /\ consents' = consents \cup {[owner |-> mem[s].owner, scope |-> mem[s].wallet, by |-> s]}
  /\ UNCHANGED <<links, custody, blobs, proofs, walletHistory>>

\* revokeConsent, of one grant or of all that match; or one's time is up.
RevokeConsent(s, gone) ==
  /\ gone # {} /\ AtOnce(s) /\ consents' = consents \ gone
  /\ UNCHANGED <<links, custody, blobs, proofs, walletHistory>>

ConsentLapses(c) ==
  /\ consents' = consents \ {c}
  /\ UNCHANGED <<links, custody, blobs, proofs, walletHistory, requests>>

\* assertCustodialSigningEligible asks for the tier, then for a consent.
AskToSign(s, o, w) ==
  /\ Belongs(w, o) /\ links[w].tier = 1
  /\ Begin(s, <<"consent", "sign">>, [what |-> "sign", owner |-> o, wallet |-> w])
  /\ UNCHANGED <<walletTables, walletHistory>>

CheckConsent(s) ==
  /\ At(s, "consent")
  /\ IF \E c \in consents : c.owner = mem[s].owner /\ c.scope \in {"all", mem[s].wallet}
       THEN Pass(s) ELSE Answer(s)
  /\ UNCHANGED <<walletTables, walletHistory>>

\* loadCustodialKey: a key that is gone answers SigningFailed.
Sign(s) ==
  /\ At(s, "sign") /\ Pass(s)
  /\ misused' = IF <<mem[s].owner, mem[s].wallet>> \in custody /\ mem[s].wallet \in upgraded
                  THEN misused \cup {mem[s].wallet} ELSE misused
  /\ UNCHANGED <<walletTables, upgraded, late, keyless>>

-----------------------------------------------------------------------------
(* Linking a wallet of one's own, and signing in with a linked one. *)

\* getWalletLinkChallenge for any wallet, signInChallenge for a linked one.
Challenge(s, o, w, purpose) ==
  /\ purpose = "signin" => Belongs(w, o)
  /\ AtOnce(s) /\ proofs' = proofs \cup {[owner |-> o, wallet |-> w, purpose |-> purpose]}
  /\ UNCHANGED <<links, custody, blobs, consents, walletHistory>>

ProofLapses(p) ==
  /\ ~Answering(p) /\ proofs' = proofs \ {p}
  /\ UNCHANGED <<links, custody, blobs, consents, walletHistory, requests>>

\* verifyAndLink locks its challenge, whatever it was made for, then the wallet's
\* row; a row that is not there cannot be locked.
Link(s, p) ==
  /\ \A t \in Slot \ {s} : todo[t] # <<>> /\ mem[t].what = "link" => mem[t].proof # p
  /\ Begin(s, <<"look", "link">>,
           [what |-> "link", owner |-> p.owner, wallet |-> p.wallet, proof |-> p, none |-> FALSE])
  /\ UNCHANGED <<walletTables, walletHistory>>

Look(s) ==
  /\ At(s, "look") /\ ~Locked(mem[s].wallet)
  /\ LET w == mem[s].wallet IN
       IF mem[s].proof \in proofs /\ (Linked(w) => links[w].owner = mem[s].owner)
         THEN Note(s, [mem[s] EXCEPT !.none = ~Linked(w)])
         ELSE Answer(s)
  /\ UNCHANGED <<walletTables, walletHistory>>

\* INSERT ... ON CONFLICT DO UPDATE: the label, challenge and signature are
\* the request's, owner and tier are the row's.
WriteLink(s) ==
  /\ At(s, "link") /\ (mem[s].none => ~Locked(mem[s].wallet)) /\ Pass(s)
  /\ LET w == mem[s].wallet  o == mem[s].owner IN
       links' = [links EXCEPT ![w] =
         IF Linked(w) THEN [@ EXCEPT !.proof = o, !.blind = mem[s].none]
         ELSE [owner |-> o, tier |-> 3, primary |-> FALSE, proof |-> o, blind |-> FALSE]]
  /\ proofs' = proofs \ {mem[s].proof}
  /\ UNCHANGED <<custody, blobs, consents, walletHistory>>

\* unlinkWallet leaves the key, the blob and the consents where they are.
Unlink(s, o, w) ==
  /\ Belongs(w, o) /\ ~Locked(w) /\ AtOnce(s) /\ links' = [links EXCEPT ![w] = NoLink]
  /\ UNCHANGED <<custody, blobs, consents, proofs, walletHistory>>

\* signInAssert uses the challenge up, and does not ask for the link again.
SignInAssert(s, p) ==
  /\ p.purpose = "signin" /\ ~Answering(p) /\ AtOnce(s) /\ proofs' = proofs \ {p}
  /\ UNCHANGED <<links, custody, blobs, consents, walletHistory>>

\* setPrimaryWallet; the index lets one of two through.
SetPrimary(s, o, w) ==
  /\ Belongs(w, o) /\ AtOnce(s)
  /\ \A x \in Wallet : Belongs(x, o) /\ (x = w \/ links[x].primary) => ~Locked(x)
  /\ links' = [x \in Wallet |->
       IF Belongs(x, o) THEN [links[x] EXCEPT !.primary = (x = w)] ELSE links[x]]
  /\ UNCHANGED <<custody, blobs, consents, proofs, walletHistory>>

WalletFails(s) ==
  /\ todo[s] # <<>> /\ Answer(s)
  /\ keyless' = IF At(s, "store") THEN keyless \cup {mem[s].wallet} ELSE keyless
  /\ UNCHANGED <<walletTables, upgraded, late, misused>>

WalletsNext ==
  \/ \E s \in Slot, o \in Owner, w \in Wallet :
       \/ Provision(s, o, w) \/ AskToSign(s, o, w) \/ StoreBlob(s, o, w)
       \/ \E to \in 2..3 : TierChange(s, o, w, to)
       \/ \E purpose \in {"link", "signin"} : Challenge(s, o, w, purpose)
       \/ Unlink(s, o, w) \/ SetPrimary(s, o, w)
  \/ \E s \in Slot, o \in Owner, scope \in Wallet \cup {"all"} : GrantConsent(s, o, scope)
  \/ \E s \in Slot, gone \in SUBSET consents : RevokeConsent(s, gone)
  \/ \E s \in Slot, p \in proofs : Link(s, p) \/ SignInAssert(s, p)
  \/ \E s \in Slot :
       \/ StoreKey(s) \/ AddConsent(s) \/ CheckConsent(s) \/ Sign(s)
       \/ Look(s) \/ WriteLink(s) \/ WalletFails(s)
  \/ \E c \in consents : ConsentLapses(c)
  \/ \E p \in proofs : ProofLapses(p)

walletVars == <<walletTables, walletHistory, requests>>
WalletsSpec == WalletsInit /\ [][WalletsNext]_walletVars

-----------------------------------------------------------------------------
WalletsTypeOK ==
  /\ links \in [Wallet -> [owner : Owner \cup {"none"}, tier : 0..3, primary : BOOLEAN,
                           proof : Owner \cup {"none"}, blind : BOOLEAN]]
  /\ custody \subseteq Owner \X Wallet /\ blobs \subseteq Owner \X Wallet
  /\ \A b, c \in blobs : b[1] = c[1] => b = c
  /\ consents \subseteq [owner : Owner, scope : Wallet \cup {"all"}, by : Slot]
  /\ proofs \subseteq [owner : Owner, wallet : Wallet, purpose : {"link", "signin"}]
  /\ \A h \in {upgraded, late, keyless, misused} : h \subseteq Wallet

\* What the table says of a tier 1 wallet is true: the server has its key, but
\* while it is being stored and when storing failed.  Once a wallet was taken
\* from tier 1 the server has no key for it and signs nothing with it, not even
\* for a request that had passed every check before; but for a key stored late.
CustodyMatchesTier ==
  /\ \A w \in Wallet : links[w].tier = 1 =>
       \/ <<links[w].owner, w>> \in custody \/ w \in keyless
       \/ \E s \in Slot : At(s, "store") /\ mem[s].wallet = w
  /\ \A w \in upgraded : (\E o \in Owner : <<o, w>> \in custody) \/ w \in misused => w \in late

\* A link shows the proof of the account it belongs to.  Not so when two
\* accounts link one wallet at a time and neither sees the other's row: the
\* later proof, and the later answer, go to the earlier one's link.
LinkShowsOwnersProof ==
  \A w \in Wallet : links[w].proof # links[w].owner => links[w].blind

\* What is recorded of a wallet is so, both above: whose it is, and whether
\* the server can sign with it.
WalletsHold == CustodyMatchesTier /\ LinkShowsOwnersProof
=============================================================================

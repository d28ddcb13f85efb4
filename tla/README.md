# OpenFederation PDS in TLA+

OpenFederation PDS is an AT Protocol personal data server for communities: it
keeps people's and communities' repositories, and lets a community decide by vote
on changes to its own records. This directory models what in it is hard to test:
requests that overlap without a common lock, requests that die half-way, windows
that are ended by whoever looks next, caches that are told late, moves between
servers that stop in the middle, and records that others will verify later.

Paths below are relative to the repository (`src/src/...` in `PROJECT.json` is
`src/...` in the repository's own tree).

## 1. The system

The server is one or more Node processes over PostgreSQL. An XRPC request runs a
handler; a handler is sequential between its `await`s and interleaves with every
other handler at them. Most handlers commit each statement for itself; a few open a
transaction and take row locks, and votes take an advisory lock. There is no
background scheduler for governance: what is due is done by the next request that
looks (`listProposals`, `getProposal`, `voteOnProposal`, `objectToProposal`). What runs by
the clock is the sweep of accounts that never arrived, and exports.

| Component | State | Operations | Modelled |
|---|---|---|---|
| Governance rules (`governance/decision-rules.ts`, `settings-rules.ts`) | none | outcomes, quorums, epochs, lineage, override bars | `GovernanceRules` |
| Proposal lifecycle (`governance/timelock.ts`, `proposal-resolution.ts`, `*-records.ts`, the proposal endpoints) | the proposal record, decision records and the governed records in the community's repo; vote and objection records in members' repos; the proposal's advisory lock | create, vote, object, amend, read; lazy application and expiry | `Proposal` |
| Decision and application verification (`governance/verify-*.ts`, `eligibility-evidence.ts`, `electorate.ts`) | none | judge a decision from the exported records alone, and the membership each vote cites | `Verification`, `Eligibility`, partly |
| Governance model and enforcement (`governance/enforcement.ts`, `setGovernanceModel`, `community.update`, `applyProposedChange`) | the settings record | change the rules by request or by proposal, let a write through or not | `Settings` |
| Anchoring (`governance/anchoring.ts`) | the audit log as a queue of failures | anchor after a decision, retry with the next | `Anchoring` |
| Repository engine (`repo/`) | `repo_roots`, `repo_blocks`, `records_index`, a block cache | create, put, delete, batches, import, export | `RepoEngine`, partly |
| Sessions and account status (`auth/`, `com.atproto.server.*`, `account.*`) | `users`, `sessions`, reset tokens, recovery attempts, a cached context | sign in, refresh, revoke, moderate, change or recover a password | `Sessions` |
| Registration and invites (`auth/account-creation.ts`, `invites.ts`, `partner-guard.ts`) | `users`, `invites`, counts | register at four places, move in, become a pseudonym | `Registration` |
| Partners' keys (`partner.*`, `auth/partner-guard.ts`) | `partner_keys`, the list of admitted origins | make, verify, revoke, register with | `PartnerKeys` |
| Authorization guards (`auth/guards.ts`, `community/visibility.ts`) | none of their own | let a caller read or write, endpoint by endpoint | `Access` |
| Service authentication (`auth/service-auth.ts`, `identity/did-resolver.ts`) | seen tokens, cached DID documents | take a token of another server once | `ServiceAuth` |
| OAuth provider (`oauth/`) | requests, codes, tokens, hand-over codes | consume, rotate, exchange | `OAuth` |
| Communities and membership (`community/`, `net.openfederation.community.*`) | member, role and delegation records, `members_unique`, join requests | join, ask, approve, leave, remove, roles, delegations | `Communities` |
| Community and account migration (`community/migration.ts`, `identity/account-migration.ts`, the sweep) | a status per server, PLC operations and codes | export, import, activate, retire, suspend, sweep | `CommunityHomes`, `AccountHomes` |
| Pseudonyms (`identity/pseudonym/`, `openfederation-pseudonym`) | token batches, challenges, monthly keys | collect, sign in by phrase, move | `Pseudonyms`, `PublishedKeys`, `PseudonymMove` |
| Wallets, consent, custody (`wallet/`, `identity/wallet-*.ts`) | links, keys, tiers, consents, challenges | provision, link, change tier, sign, assert | `Wallets` |
| Vault and recovery (`vault/`) | shares, tiers, codes, an append-only log | release, escrow, export | `Vault` |
| Chain oracle (`modules/chain/`) | credentials, cached verdicts, the audit log as reservation of proofs | verify, write once per proof | `Oracle` |
| Attestations and disclosure (`attestation/`, `disclosure/`) | records, keys, viewing grants, an index row | issue, delete, grant, redeem, revoke | `Attestations` |
| Contacts; forum and calendar (`contact/`, `forum/`) | records in repositories and rows of an index | ask, accept, block; post, moderate, answer | `Contacts`, `Forum` |
| Email (`email/`) | links, suppressions | issue, confirm, send with retries, take bounces | `Email` |
| Federation, ActivityPub, HTTP (`federation/`, `activitypub/`, `server/`) | lists of peers, actors' keys | fetch once for all, publish a key | `Peers`, `PublishedKeys`, partly |
| Clients (SDK, web interface, command line) | a stored pair of tokens | sign in, refresh, sign out | `Clients`, partly |
| Blobs (`blob/`, `uploadBlob`, `identity/delete-account.ts`) | two files per blob, `blobs`, `blob_owners` | upload, pull, delete an account | `Blobs` |
| Audit log, lexicon | | storage and generated code | no, but for what others need of it |

### What makes each part correct

* **Proposals.** The text moves only while a proposal is open; it closes once; a
  change is carried out at most once, together with the close, and with the text
  that was decided. A decision can be recomputed from the signed votes it cites,
  and cites every vote that counts. Enough timely objections hold a change,
  whichever request looks first; a carried override rests on votes cast in the
  round, against the bar frozen when it opened. Windows and rounds end. Who checks
  what an honest server exports finds its decision, its hold and its change in order;
  two findings such a server does meet with are runs of their own (`proposal_verify`,
  `proposal_early`).
* **Repository engine.** The repository can be walked from its root; nothing in
  storage is out of the root's reach; no committed batch is taken back by another
  request; the index differs from the tree only by what is still being indexed.
* **Credentials.** What was decided about an account (a suspension, a reset, a
  revocation) ends every credential from before, once its statements ran; whatever
  is for one use (refresh token, code, invite, link, challenge, proof of a transaction,
  monthly batch, service token) is used once, whoever presents it at once or again.
* **Who may vote.** The guard, the evidence a vote cites, the count of an override's
  electorate and the verifier answer alike, or the verifier says it cannot tell.
* **Homes.** A community or account works at one home, where its DID points; a move
  cut short anywhere loses neither; the sweep removes only what never arrived.
* **Facts kept twice** (a record and a row, a status and a directory, two people's
  records, a published key and a stored one, a blob's files and its owners) agree when
  nothing is under way.
* **Guards.** Endpoints that ask differently answer alike.

### Hard behaviours

`PROJECT.json` lists the hazards, each at its line. The families are: handlers
that read, await and write without the lock others take; evidence written in another
repository before the commit it belongs to; sweeps that decide with what they read
before they waited; retries after half of the work was done; caches told after the
fact; settings and electorates that move under a running vote; transactions that
meet on a row; a second server or a directory that has moved on. Four families have a line and
no property: a vote whose permission was checked before it waited
(`voteOnProposal.ts:60`) or whose round ended while it waited (`:113`), a lineage
longer than `MAX_CID_CHAIN` (`proposal-resolution.ts:142`), a pool of lock connections that
runs out (`db/client.ts:43`) and blocks two records share (`pg-blockstore.ts:181`).

## 2. Modules

| Module | What it is |
|---|---|
| `GovernanceRules` | the rules of `decision-rules.ts` as operators, settings as records of the fields they read |
| `Proposal` | one proposal and the requests that touch it; EXTENDS `GovernanceRules` |
| `ProposalLifecycle` | the abstract promise: a stage, a text, what has been done |
| `Verification` | the offline verifiers' verdicts on what `Proposal` leaves behind; EXTENDS `Proposal` |
| `MCProposal` | settings, electorates and delegations for TLC; EXTENDS `Verification` |
| `ProposalProofs` | theorems about the rules; about `Proposal` whatever overlaps; and under `SerialSpec`, that it implements `ProposalLifecycle` and what the verifiers find of it; EXTENDS `Verification` |
| `RepoEngine`, `MCRepoEngine` | one repository: tree, blocks, index, and the requests that write it |
| `RepoEngineProofs` | its theorems |
| `Requests` | how the server carries out a request: what it has yet to do, what it has read, and its death |
| 25 components (below) | each a few tables and the handlers that use them; all EXTEND `Requests` |
| `MCServer` | the 25 in one run |
| `RequestsProofs` | what every step does to the request that takes it and to the others |
| `SessionsProofs`; `AdmissionProofs`; `HomesProofs`; `ContactsProofs`; `KeepingProofs` | theorems about `Sessions`, `Clients`; `OAuth`, `Registration`, `Oracle`, `Communities`; `CommunityHomes`, `AccountHomes`, `PseudonymMove`; `Contacts`; `Access`, `Settings`, `Wallets`, `PublishedKeys`, `Attestations` |

### `Proposal`

A request is a process with a place `pc`. The places are the `await`s at which
another request can see or change something:

    apply -> close -> enter -> record -> resolve       voteOnProposal
                         \---> object -> hold          objectToProposal
    apply -> close                                     getProposal, listProposals
    amend                                              amendProposal
    seed                                               createProposal

`apply` and `close` are the lazy sweeps (`applyIfDue`, `closeExpiredOverride`); a
request goes through those that are due when it arrives. Under the lock
(`withAdvisoryLock`) it re-reads the proposal at `enter`, writes into members'
repositories at `record` or `object`, and rewrites the proposal in one commit at
`resolve` or `hold`. `Die` stops it anywhere, releases its lock and leaves what it
wrote; `SweepFails` is a sweep whose error `applyIfDueSafely` swallows.

* **CIDs.** A CID is the number of the commit that wrote the proposal. Each rewrite
  extends `cidChain`, so no two versions hash alike. A vote record carries the text
  its CID addresses in a field of its own, used only by properties.
* **Time.** `now` is the clock. The instants that order votes against amendments and
  rounds (`amendedAt`, `overrideOpenedAt`) are captured on a tick of their own, so
  no two of them fall in one millisecond.
* **A sweep's locked section** is one step: it only writes the community's own
  repository, in one commit. Its captured instant (`seenAt`) is from before the wait.
* **Commit and index** are one step here. What lies between is `RepoEngine`'s
  subject.
* **The rest of the community** is `ChangeSettings`, `ChangeElectorate`,
  `ChangeDelegations`: at any time, to any value of the instance's choice.

### `RepoEngine`

A write is `Load` (the root as it is now), `Classify` (which keys does the index
have?), `Format` or `Refuse` (the library computes the new tree, refusing to create
what is there and to change what is not), `Commit` (one transaction: blocks in,
blocks out, root), then one `Sync` per transaction on `records_index`, and `Answer`.
`Die` stops it between any two; what it had yet to index is kept in `torn`, and
`Retry` asks for it again. `Import` replaces everything in one transaction.
Blocks are content-addressed: a node of the tree is the map of the records below
it, `Nodes` fixes the shape. How the tree is walked and diffed is `@atproto/repo`'s,
modelled from its use and marked external.

### `Verification`

`verifyDecision` and `verifyApplication` are evaluated in every state, on what an
honest server would export there: the community's repository always, and any set of
members' repositories (`given`). Signatures hold and addresses match. The member and
role records that a vote cites are `Eligibility`'s subject; the lineage never outgrows
`MaxCidChain`, so no verdict rests on its cut.

### The components around the core

A handler is a list of steps; a step is what it does between two `await`s, or a whole
transaction where nothing can be seen of its inside. `Requests` gives a slot
`todo[s]`, the steps it has yet to take, and `mem[s]`, what it was asked and has read.
A request that fails or dies is `Answer(s)` before its last step: both are gone and the
tables stay. Each component has its own initial state, an action per
step, next-state relation and specification, and a few history variables (`history`,
`...Past`, `crossed`, `excused`, `agreement`, `loose`) that only properties read: what was
promised, and which requests ran into each other.

| Module | State | Property |
|---|---|---|
| `Sessions` | one account: status, role, password, token version, refresh sessions, reset tokens, recovery attempts, cached context | `CredentialsFollowAccount`: no credential outlives what was decided about its account. `ExchangeIsExclusive`: of all refreshes of one token one gets its successor. `PasswordEndsSessions`, `SuspensionHolds` |
| `Registration` | names taken, invites, counts per partner, tokens spent; transactions with row locks | `LimitsHold`: what admits an account is never spent twice |
| `OAuth` | requests, codes, tokens, hand-over codes | `CodesBuyOnce` |
| `Wallets` | links, custody and tier per wallet, consents, challenges | `WalletsHold`: whose a wallet is and whether the server can sign with it is what the tables say |
| `Communities` | one person: member record, role, row, request, delegations | `MembershipHolds`: members are whole, nobody is shut out for good, nobody's vote is given to two |
| `CommunityHomes` | a copy per server, the directory | `ActiveAtHome`: one community, one live home |
| `AccountHomes` | a copy per server, PLC operations, codes, sightings of the sweep | `SweepSpares`: only what was never activated and is elsewhere twice running is wiped |
| `Attestations` | record, keys, index row, grants | `AttestationsHold`: what is closed is shown to nobody, what is gone leaves nothing that opens it |
| `Oracle` | credentials, cached verdicts, reservations | `ProofBuysOneChange` |
| `Clients` | stored tokens of two tabs, timers, calls in flight | `AloneIsNeverAThief`: no client alone with its storage ever presents a used token |
| `Contacts` | records and rows of a pair of people; who asked, who agreed, what was left undone | `ContactsAreMutual`: nobody is a contact unasked, one alone, or other than the network sees |
| `Settings` | the settings record, proposals carried | `RulesHold`: a community that votes has the rules its votes need and stops voting by a vote only |
| `Access` | a community's status and visibility, a caller's standing | `AccessAgrees`: two dozen endpoints show and refuse alike |
| `Forum` | threads, posts and answers as records and as rows | `ForumHolds`^; EXTENDS `Access` |
| `Blobs` | one blob: two files, the row with its first owner, the owners | `BlobsHold`^: owners are served, nothing is left without one |
| `Anchoring` | the notary, the audit log | `AnchorsHold`* |
| `PublishedKeys` | stored and cached keys of actors, of the server, of each month | `KeysAreKept`* |
| `Pseudonyms` | batches, challenges, sessions | `PseudonymsHold`+; EXTENDS `PublishedKeys` |
| `PseudonymMove` | two homes, what the DID names, two runs of the client | `MoveKeepsHome` |
| `PartnerKeys` | keys, origins' tokens, the cached list | `PartnersAreProven`+ |
| `Vault` | shares, tiers, codes, log, escrow | `VaultIsAccounted`+ |
| `Email` | links, bounces, mails sent | `MailHolds`* |
| `ServiceAuth` | tokens seen, cached document | `ServiceTokensHold`+ |
| `Eligibility` | members' and role records, delegations, the evidence on record | `EligibilityHolds`*: nobody let in is called ineligible later, and evidence fades at worst |
| `Peers` | two cached lists, fetches under way | `PeerListsHold`* |

`*` conjuncts of `OthersAreToldTrue`, `+` of `GivenToTheProven` and `^` of `StoresAgree` in
`MCServer`. The
properties of one component are grouped in one name, its parts are named operators
with a sentence each. Where a property has an exception (`unless two requests
crossed`, `unless a request died between`), the exception is a place where the code
does not keep its own intention; section 5 lists them.

### `MCServer`

A behaviour is about one component: `focus` is chosen at the start and never changes,
and each component has its own bound on requests (`Budget`). This is sound because no
two of them share a table, except that `Forum` uses `Access`'s and `Pseudonyms` uses
`PublishedKeys`', and those are run together; of anything else a component would see
no more than a slot in use. Member and role records are the subject of two: `Communities`
has one person who comes and goes, `Eligibility` several whose roles change under a vote.
A component out of focus stays as one of its initial states
has it (the moving account is then nowhere, since one home at the start would
break the symmetry of the two servers). `a` and `b` stand for whatever comes in twos
and is interchangeable; `c` and `d` are never permuted.
A vote starts with a moderator (`c`), the owner, and an administrator of the server (`d`)
who is a moderator or no member; roles by name come about by the first request (`AtTheVote`).

## 3. Runs

All counts are of distinct states; two workers take under two minutes for each, and
two and a half for `server`. `CHECK_DEADLOCK FALSE` everywhere: the bounds on time,
requests and commits end every behaviour.

| Run | Instance | Shows |
|---|---|---|
| `proposal_vote` | 2 voters, 2 texts, 2 requests at once, 4 in all, 1 fault, time to 3; 842k | the evidence, hold and mandate properties, `FinalIsFinal`, that the handlers implement `ProposalLifecycle`, and what the verifiers find of a server that follows the code (`HonestServerIsCleared`) |
| `proposal_community` | 3 voters, one delegating, two settings, an electorate that loses a member, 3 requests, time to 2; 705k | `CommunityHolds`: holds, override rounds and evidence while the community changes |
| `proposal_overlap` | nothing kept apart, legacy proposals, an inapplicable text, a voter without a repository, 2 requests, 1 fault; 1.1M | what holds whatever overlaps: types, changes only by an approving decision, decisions recomputable |
| `proposal_live` | 2 voters, 1 text, 2 requests, 1 fault, time to 3; 88k | windows and rounds that run out are ended |
| `proposal_amend_race` | as `proposal_vote`, nothing kept apart | **violated**: `amendProposal` re-opens a closed proposal |
| `proposal_seed_race` | as `proposal_vote`, only amendments kept apart | **violated**: the proposer's seed vote is left out of a decision |
| `proposal_verify` | as `proposal_vote` | **violated**: opening an override round makes the votes of the decision it contests stale for the verifier |
| `proposal_early` | as `proposal_vote` | **violated**: an override carried inside the window is judged an early application |
| `repo` | 3 keys in 2 subtrees, 2 contents, batches of any size, 4 commits, 1 crash; 299k | readable, nothing left over, nothing lost, index follows |
| `repo_race` | 2 keys, 2 writers, no crash | **violated**: two writers of one repository leave a root whose blocks are gone |
| `repo_retry` | 2 keys, 1 crash, retries for ever | **violated**: the index does not converge after a crash |
| `server` | the 25 components, 2 slots, 2 to 5 requests each; 435k | the properties of the table above |

### The bounds

Two requests in flight reach every pairwise interleaving of handlers; a third would
only queue for the lock or repeat one of the two. Four requests are the vote that
resolves, the objection, and two votes of the override round; the fault can hit any
of them. Time 3 passes a window of 1 (the configured timelock) and an override
period of 2, or a proposal's life of 2 and an amendment's extension; the
instants captured by amendments and holds go beyond it. `MaxCidChain` is out of reach
of these runs: truncation of the lineage is modelled (`Lineage`) and not exercised.
Four commits on three keys let a record be created, updated, deleted and put back;
two subtrees make a node change and its sibling stay. Symmetry permutes requests (and
voters and texts, or writers and contents, where the instance names none of them); the
liveness runs use none.

In `server` two requests overlap at any time and each may die; the budgets are what it
takes to set a component's hazard up and to look at what came of it: three for
sessions (a sign-in, a decision about the account, a refresh), registration, communities,
access, the forum, anchoring, pseudonym moves, mail and eligibility (two changes and a vote); two for peers, whose fetches live
on after their requests; four for wallets, accounts that move, attestations, the oracle,
clients, contacts, settings, keys, pseudonyms, partners' keys and service tokens; five
for OAuth (ask, consume, exchange, refresh, refresh again), communities that move, the vault
and blobs (two uploads, two deletions, an account back again). The last request of a budget is
made only where it can still tell something (`WorthOneMore` in `MCServer`): with registration, contacts
and the two moves of homes when no other is under way; with sessions, clients, service tokens
and mail while nothing has happened that their properties excuse, or after somebody has signed in.
One wallet and both accounts meet every link; a vote starts with administrators who are no members yet.
The other bounds are the smallest at which a limit is met and passed: one use of an
invite, one account an hour for a partner, room for one hand-over code, two seen
service tokens of three, two grants, a batch of one retry out of two looked at. Two accounts,
servers, tabs, credentials or origins are where one's request meets the other's; a third
would repeat one of them. Symmetry permutes slots and the interchangeable pair.

### What is kept apart, and why

`SerialSpec` of `Proposal` assumes two things the code does not ensure:
`SerialAmendments` (an amendment is read and committed while no other request is
between its read and its write) and `SeedFirst` (the seed vote is on record before
anyone else's). Without the first, `amendProposal` writes back a stale copy of the
proposal; without the second, a decision can miss the proposer's vote. Each has a run
that shows exactly that, and `proposal_overlap` says what survives both.
`EffectIsDecided` and `HoldsBind` do not survive overlapping amendments: a decision
made in between can be reused for a text it never decided.

`SerialSpec` of `RepoEngine` is one request at a time (`Alone`). The engine has no lock
and compares no root; the advisory lock of a proposal covers the writes of one
proposal, not those of other handlers on the same repository. `repo_race` shows what
then happens.

### Fairness

`Tick`, `Handle(p)` and `Read(p)` are weakly fair: time passes, a request that can go
on does (Node resumes it), and somebody goes on reading the proposal, which is the only
thing that ends a window. Nothing is assumed of votes, objections or amendments, and
faults are bounded. For `repo_retry` the steps of a request and the retry are fair, and
the repository was created empty; the counterexample does not need more. The components
of `server` have no fairness: that their operations end follows from nothing in the
code but the database's answers, and what must hold then is stated of the states in
which nothing is under way.

### What a reader might not expect, and is not a finding

* An override bar nobody configured is "never less than quorum + 1"
  (`timelock.ts:29`) but capped at the electorate: `OverrideBarIsHigher` is the exact
  statement.
* An open proposal past its life is expired by the next vote only, not by reads.
* A vote that passed the expiry check before it waited can carry an override round
  that has ended meanwhile.

## 4. Proofs

All are proved by TLAPS for every value of the constants that the named assumptions
allow: `DefaultsAssumption` and `ProposalAssumption` (the proposal's), `RepoAssumption`,
`SlotAssumption` (finitely many requests at a time), and of the components
`FirstLockAssumption`, `LimitsAssumption` and `MonthsAssumption` (natural numbers),
`HandoffRoomAssumption` and `RecordsAssumption` (positive ones), `NowhereAssumption` (no
server is called nowhere) and `PartyAssumption` (a pair are two people). The bounds on
requests of the runs play no part: a specification has as many as it likes.

### The proposal, whatever overlaps (`ProposalProofs`, under `Spec`)

* `TypeCorrect`: `Spec => []TypeOK`. `TypeOK` is not inductive: that a recorded vote
  is typed needs its actor to be a member and the text read to be a text. `Knowing`
  adds, per place, what a request has read (`RequestMeans`) and what a proposal that
  exists has (`ProposalMeans`); one lemma per action shows it is kept.
* `ChangesAreApproved`: `Spec => []EffectIsApproved`. The invariant is `Approvals`:
  besides every change made, the proposal that waits for its window cites an
  approving decision; a sweep re-reads it under the lock, so no copy is involved.
* `DecisionsEvidenced`: `Spec => []DecisionsAreEvidenced`. It rests on
  `OneRecordEach` (no voter has two records with one key, so no tally counts one
  twice) and `VotesGrow` (a vote
  record is never taken away), and on one lemma on what a closing request's decision is.
* `OverrideBarIsPositive`, `OverrideBarIsReachable`, `OverrideBarIsHigher`: an override
  never carries on nothing, can carry, and asks for more than the ordinary quorum or
  for everybody; from `TwoThirdsBounds`, the arithmetic of the rounded-up two thirds.

### The proposal, its two unlocked writers kept apart (`ProposalProofs`, under `SerialSpec`)

The hypotheses are `SerialSpec`'s own (section 3, "What is kept apart"); without either the
claims are false, and two runs show it. The inductive invariant is `Knowing /\ SerialInv`
(`SerialInvAlways`). `SerialInv` says who may be where (`Apart`: the lock has one holder, and
whoever writes without it writes alone), that therefore what a writer read is still what
is there (`Informed`), and what the record has at each stage: `Staged` (nothing is decided
while it is open, nothing carried out before it is closed), `Windowed` (the votes a window
opened on came before it, the objections after), `Reviewed` (every vote cited came before the
round of review), `Dated` (a vote from the present wording on is on the present text),
`AboutTheText` and `Chained`.

* `LifecycleImplemented`: `SerialSpec => ImplementsLifecycle`, the refinement. The mapping
  sends the record's status to a stage; one lemma per action shows that it is an abstract step or a stutter.
* `ClosedIsFinal`: `FinalIsFinal`, an action property: no step leaves a closed status.
* `ChangesAreDecided`, `MandatesAreForTheText`: a change cites the decision that carries it, for
  the very text its votes were cast on.
* `HoldsAreBinding`: `HoldsBind`; a hold that was reached in time is noticed before the change.
* `OverridesNeedFreshMandates`: the votes of a carried override are of its round, against the
  bar frozen when it opened.
* `EvidenceIsComplete`, `CommunityIsHeld`: the closed proposal cites every vote that counts. Both hold
  while the lineage is not cut, hence the premise `cid <= MaxCidChain`, which all
  the runs meet; beyond it `Lineage` drops the oldest address, and a vote that cites it.
* `HonestServersAreCleared`: `HonestServerIsCleared`, whatever set of repositories comes with the export.
  `verifyDecision` finds neither the bar nor the outcome of the cited decision wrong, nor, of a closed or
  waiting proposal, the votes it counts; `verifyApplication` finds no hold unevidenced, no change carried over
  an objection, and none early but one a round of review carried. It does not clear the server of everything. While
  a round is open, or after it ran out, the decision under review may be called to count ineligible votes or
  to leave some out (`proposal_verify` shows it: `DecisionStaysSound`), and a change a round carried before
  its window closed is called early (`proposal_early`: `NeverFoundEarly`). And there are two premises. The
  lineage is not cut. `RulesStand`: quorum and threshold are no stricter now than when the server acted,
  since a verifier knows the present rules only; and a carried round had more ayes than noes, since a verifier
  takes a decision by override for a wrong one otherwise (section 5). Within it settings change as they like.
  Besides the above the proof rests on `Exhibited` (`ExhibitedAlways`): the record itself tells of every hold
  and every change, with the very objectors and instants the verifiers recompute.

### The repository (`RepoEngineProofs`)

* `RepoTypeCorrect`: `Spec => []TypeOK`, whatever overlaps. `Typed` adds what makes it
  inductive: what a request has yet to index is part of its batch.
* `RepoStaysReadable`, `NothingIsLeaked`, `CommitsAreKept`, `IndexIsACache`: the four
  properties of the `repo` run, under `SerialSpec`. The invariant `Serially` says that
  between load and commit the tree a request loaded is the tree there is (`Current`) -
  the very thing two writers break in `repo_race` - that storage holds exactly the
  blocks of the tree (`Stored`), and that what is yet to be indexed is what the tree
  says (`Agrees`). With that, the blocks a commit adds and removes turn the old tree's
  blocks into the new tree's, whatever the shape of the tree.

### The components

Each theorem is about the component's own specification (`SessionsSpec`, `OAuthSpec`, ...), which `MCServer`
composes as section 2 says; that composition is not proved. Nothing is kept apart: requests
overlap and die as they like, and the exceptions are those the property names. The shape
is the same everywhere: an invariant (`Sound`, `CommunitiesSound`, ...) that says, of every request under way, which
of its handler's routes it is on, and what of what it read still binds it; `RequestsProofs` has
the facts that let a step disturb only its own request; one lemma per action. None of the
properties is inductive without it, because each speaks of the tables and not of the
request that is about to write to them.

* `SessionsProofs`. `Sound`: a token or cached context that outlived its row has somebody under way,
  or dead, who still owed the correction (`TokensDated`, `ContextDated`, with `Copied` for the
  rows that requests carry), refresh tokens are distinct, and a handler's statements keep their order
  (`InOrder`), without which a revocation might come before the decision it is for. From it
  `CredentialsFollow`, `ExchangesAreExclusive`, `PasswordsEndSessions`, `SessionsTyped`, and the
  action property `SuspensionsHold`.
  `ClientsAreNeverThieves`, about `Clients`: one token at a time is traded and it is not used; the stored
  one is used only while its successor is on its way (`TradeIsSafe`); and whatever the
  server answered nobody has yet (`Fresh`), because tokens only rise (`TokensRise`). All of it is let go
  of once the client is `blamed`: an answer lost, a page left, or two tabs at one token. `ClientsTyped`.
* `AdmissionProofs`. `CodesAreBoughtOnce`: whoever is about to create the token is alone,
  and the authorization request it was bought with is gone (`CodeSpent`); no hand-over code both
  waits and was redeemed (`CodesApart`). `LimitsAreKept`: counts that include those
  who hold a place and have not committed (`Room`, `Locked`); a quota is kept because the partner's
  row stays locked from the count to the commit. `ProofsBuyOneChange`: one request holds a
  reservation, and the log tells how far it is (`OneInHand`, `EvidenceTrue`). `OAuthTyped`, `RegistrationTyped`.
  `MembersAreHeld`: what a request has read of its member still holds at each of its statements
  (`Abreast`), no two people come by one record key (`KeysApart`), a member is whole but
  between the two writes of one request (`Settled`), and a role about to be deleted is nobody's
  (`DropsUnused`), until two requests are at one member at once, which is what
  the property excuses; a delegation is replaced by one request at a time or by two that the property excuses
  (`HandedOnce`). `CommunitiesTyped`.
* `HomesProofs`. `ActivesAreAtHome`: who is about to make a copy active has asked the
  directory, or need not (`Backed`), and an excuse ends with the status it is for. `SweepsSpare`: one sweep looks at a copy at a time, and what it has
  flagged was elsewhere when last sighted, the row being the same (`Visiting`). `MovesKeepHome`: before the
  DID is pointed the old home has it all, after it the new one does, unless two moves crossed
  (`Along`). `HomesTyped`, `MoveTyped`. For any number of servers.
* `ContactsProofs`. `ContactsMutual`, for requests that overlap and die at any statement; nothing is assumed about order.
  Its five parts each have an invariant of their own, on top of `ContactsShape` (the types, and what each
  request may have left to do). `AsksSound`: a request's record goes before a contact rests on it, and
  dropping it is what decides between two who come at once, because the repository refuses the second; so of
  accepting, rejecting, withdrawing and blocking one request only one takes effect, and an accepted one is
  used once (`Unspent`). `DraftsSound`: a key on its way into a row is in no other row and known to no other
  request. `PartingSound`: where one row of a contact stands alone, a removal is about to delete it, or one
  died there (`halved`). `AskingSound`: who asks asks where there is nothing, until a request crosses an
  acceptance or another (`asksCrossed`). `BarringSound`: as a block is written nobody is adding, until one
  is (`overtaken`). `IndexSound`: each key that differs between record and row is what some request has
  still to see to (`Evens`, `Dropped`), or is in `loose`, where only a death, a refusal, a row already
  there and a delete by the pair put one. `ContactsTyped`.
* `KeepingProofs`.
  `AccessIsAgreed`: what is left beyond the algebra of the guards is that nobody being
  answered was unentitled when they asked (`AccessSound`).
  `RulesAreHeld`: what a request is to write is complete, and is the record's present value
  changed in what it names, until two writers cross (`SettingsSound`). `WalletsAreHeld`: where the
  kept key and the tier go apart there is a request about to store it, or one that came late
  (`Custodial`, `Given`), and who is about to link has the row locked.
  `PublishedKeysAreKept`: whoever is about to sign read the key back after storing it, so
  nothing but the stored key is published (`KeysSound`); it is a conjunct of `OthersAreToldTrue`.
  `AttestationsAreClosed`: what a request has found still holds (`Charged`); what is half written is so
  on behalf of the request that writes it, or of one that died, and then it is `torn`
  (`WholeOf`); and a grant's sessions are at least its log
  entries plus the requests that are about to log one (`Accounted`, a cardinality).
  `SettingsTyped`, `WalletsTyped`, `AttestationsTyped`.

Two of these attempts corrected the model. `OAuth`'s bound on codes bought was kept only by
the runs' budget of requests until a request's row was told to be absent, asked, granted or gone;
`Wallets` let a removal or a tier change through while a link held the wallet's row locked.

### Only model-checked

Liveness (`ProposalLive`'s properties) and whatever needs `ENABLED`. `ServiceTokensHold`, whose
list of seen tokens is filtered as a sequence: a fact about `SelectSeq` is an induction over data. There are no
recursive definitions in the modules with theorems. Not yet attempted: `StoresAgree`, `GivenToTheProven`, `OthersAreToldTrue` beyond its keys,
and `ServerTypeOK` beyond the components named above.

## 5. Seen while modelling

What follows is how the code behaves, read off it while its actions were written. None
of it is a run of its own; where a property names it as an exception, the module says so.

**Statuses.** Activating or deactivating an account writes a status over a suspension that
came after its read (`activateAccount.ts:18` says a moderator's status stands). Lifting a suspension
makes an importing or moved community active (`migrateIn.ts:21`); activating a community
lifts a takedown; a concurrent `migrateIn` turns an activated copy back; a community or account
that has not written since it moved cannot move again; two homes can be live at once
between the DID's change and the old home's being told (`activateAccount.ts:68`). The
sweep does not look again before it wipes. A suspended community still takes joins, votes
and writes; the records of one that was taken down are served by every read but `community.get`.

**Two steps, two commits.** Leaving or approving that dies in between leaves a member who can
neither leave nor join; a request approved after its author joined openly makes a second
member record; `updateMember` can bring back a member who left; two `setDelegation` at once
leave two; the last-administrator check of `updateRoles` is made before the write. A post,
answer or deletion that dies before its index row is never listed, or listed for ever. Accepting a
contact that dies half-way, or that another answer comes before, leaves a request only a block
clears, and records of a contact there is not; crossing requests make duplicate records; a removal
that dies between its two rows leaves one a contact of the other alone; `respond` does not look for blocks. `deleteAttestation` that dies after the record
leaves grants and keys; a grant made meanwhile stays active. A move of a pseudonym cut
short after the DID was pointed is finished only by signing in at the new home and
activating there; what is written at the old home after the export is lost.

**Once, twice.** Two resets use one token; two requests for PLC codes, verification links or
credentials leave two alive; two accounts may link one new wallet. A month's row made by a
request that read the month before it turned deletes spent markers one of which is put
back. A refused or crashed oracle mutation uses its proof up; an exact retry of
`createRecord` without a key is another change. A lost answer to `collectTokens` leaves an
account without tokens for the month. A failed registration's cleanup does not return the
invite; registration and OAuth sign-up take their locks in opposite orders.

**OAuth.** Rotation updates a token's key while `scripts/migrate-003-oauth.sql:25` has a foreign key
on it without `ON UPDATE`, so it rolls back and a refresh fails
(`docs/third-party-oauth-integration.md:499` promises one). All users from
other servers are entered with the e-mail address `''`, which is unique in `users`.

**Rules.** Roles are listed among the collections governance always protects, but
`createRole`, `updateRole` and `deleteRole` never ask `enforceGovernance`. Settings written
with a null are checked as a copy without it and stored with it. A proposal that names only
`governanceConfig` is judged under another model when made than when applied. The
verifiers take a decision by override for a wrong outcome when its noes are no fewer than its ayes, an override
quorum below the configured one for unmet, and hold a threshold lowered later
against earlier applications.

**Who may vote.** The owner and the server's administrators may vote whatever their role says
(`visibility.ts:179`), members or not, while the evidence and the electorate's count take their role
record, if there is one. Even the owner's is one that `updateRole` lets lose
`community.governance.write` (it is not among what the owner's role must keep): such a vote
counts and the verifier calls it ineligible, although `eligibility-evidence.ts:82` says it mirrors
`getCallerCommunityCapabilities` exactly. Likewise the vote of a delegator who has lost the
permission: nobody asks for it when the delegate votes. `EligibilityHolds` names both as exceptions.

**Blobs.** "A blob no repo owns any more goes too" (`delete-account.ts:16`) holds only when its last
owner also brought it first: after the first has gone, nobody's deletion removes it. Files are removed inside
the transaction: if it is undone, or somebody uploads the blob meanwhile, an owner has a row and no file
until it is uploaded again. What is pulled from another home is stored under the address asked for,
unhashed.

**Clients.** The SDK sends its refresh token in a header, `deleteSession` reads the body:
signing out revokes nothing (`packages/openfederation-sdk/src/client.ts:179`). A refresh whose answer is lost, two tabs or
two processes that share a storage, and a page left in mid-refresh present a used token and end
every session. A sign-out during a refresh is undone by its answer.

**Vault, mail, tokens, keys.** Exporting the recovery key raises the tier of the shares and not of the
account; registering an escrow afterwards lowers it; `recovery_email_verified` is never set;
a vault that could not be made is swallowed. A reset request voids a verification code.
A bounce during retries does not stop the send. The list of seen tokens forgets one at its end, while
tokens are taken half a minute longer. Actors' first keys may be published and not kept
(`ap-routes.ts:74`); the server's own are read back first. A peer that failed once is
missing for five minutes.

**Anchoring.** A retry that fails becomes the newest failure, so that "the queue keeps its
place either way" (`anchoring.ts:304`) holds only where it succeeds; `RETRY_BATCH` decisions that always fail starve the older
ones; a receipt that came after the time-out is not kept and its decision is published again;
what a sweep decides is never anchored.

## 6. Not modelled

* Cryptography and encodings: signatures, CAR proofs, CIDs, sealed keys, splitting a key,
  blinding. A record is whole or absent, a signature right or wrong.
* I/O and wording: the S3 store, transport of mail, routes, headers, rate limits, checks on
  outgoing addresses, notifications and feeds, scheduled exports, logs. Two-factor
  columns, clean-up of expired rows, probation counters, the first administrator.
* Lexicon code, which is generated. The commands and pages of the clients, bridges, demos and
  the PLC server: they keep no state of this server's.
* In `RepoEngine`: the block cache (a block missing from `repo_blocks` may be served from one
  process's memory for a while), records with equal content, the `members_unique` projection
  (`Communities` has it), exports.
* Of a verdict: signatures and proofs. `Verification` and `Eligibility` are two modules and
  never one state: that a vote is judged for its round and for its voter's membership at once is not checked.
* Lookups kept for a while (handles, documents of peers beyond those named), pools of connections.

## 7. Plan

Done: `GovernanceRules`, `Proposal` under `ProposalLifecycle`, its races,
its liveness, its theorems and the refinement; `RepoEngine`, its races, its theorems; `Verification`; the
25 components and their composition; theorems about fifteen of the components.

Left, most important first:

1. Theorems about the grouped properties: `Vault`, `PartnerKeys`, `Pseudonyms`, `Forum`, `Blobs`, `Eligibility`.
2. A lineage cut by `MaxCidChain`; the block cache of `RepoEngine`; scheduled exports.

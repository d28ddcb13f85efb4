------------------------------- MODULE Vault -------------------------------
(***************************************************************************)
(* The vault.  An account's rotation key is split in three when its        *)
(* identity is made: one share goes to the device, two stay here.  The     *)
(* owner gets the second share after an administrator has checked, with a  *)
(* code mailed to the account, who is asking; the third may be put in a    *)
(* provider's name.  The tier is written on the account and on the shares, *)
(* and everything that leaves is first written to an append-only log.      *)
(***************************************************************************)
EXTENDS Requests

CONSTANT Provider   \* escrow providers an account may name

VARIABLES
  shares,      \* vault_shares: 2, 3 -> holder, provider and tier, or NoShare
  level,       \* users.recovery_tier
  challenges,  \* codes mailed for verification, in the order made
  recent,      \* audit_log has a success of the last 30 minutes
  vaultLog,    \* vault_audit_log: action -> rows
  vaultPast    \* history: see VaultInit

vaultTables == <<shares, level, challenges, recent, vaultLog>>

NoShare == [holder |-> "none"]
NoProvider == "none"
Share(holder, provider, tier) == [holder |-> holder, provider |-> provider, tier |-> tier]
Actions == {"shares.created", "share.released", "key.exported", "escrow.registered"}

VaultInit ==
  /\ RequestsInit
  /\ shares = [i \in {2, 3} |-> NoShare] /\ level = 1
  /\ challenges = <<>> /\ recent = FALSE
  /\ vaultLog = [action \in Actions |-> 0]
  /\ vaultPast = [made    |-> FALSE,                          \* the identity was made
                  given   |-> [action \in Actions |-> 0],     \* answers that carried a share
                  proven  |-> 0,                              \* verifications that succeeded
                  told    |-> {},                             \* providers an answer confirmed
                  crossed |-> FALSE,                          \* two registrations met
                  shown   |-> {}]                             \* security levels answered

Logged(action) == vaultLog' = [vaultLog EXCEPT ![action] = @ + 1]

-----------------------------------------------------------------------------
\* createUserIdentity.  The vault is an extra: whatever fails, the account is made.
CreateIdentity(s) ==
  /\ ~vaultPast.made
  /\ Begin(s, <<"store 2", "store 3", "logCreated">>, [what |-> "identity"])
  /\ vaultPast' = [vaultPast EXCEPT !.made = TRUE]
  /\ UNCHANGED vaultTables

StoreShare(s, i) ==
  /\ At(s, IF i = 2 THEN "store 2" ELSE "store 3") /\ Pass(s)
  /\ shares' = [shares EXCEPT ![i] = Share("vault", NoProvider, 1)]
  /\ UNCHANGED <<level, challenges, recent, vaultLog, vaultPast>>

LogCreated(s) ==
  /\ At(s, "logCreated") /\ Answer(s)
  /\ Logged("shares.created")
  /\ UNCHANGED <<shares, level, challenges, recent, vaultPast>>

\* The row of the account comes after its identity.
Account == vaultPast.made /\ \A s \in Slot : mem[s].what # "identity"

-----------------------------------------------------------------------------
(* An administrator checks who the owner is *)

\* The code is stored before it is mailed; undelivered, nobody can present it.
CreateVerificationChallenge(s, delivered) ==
  /\ Account /\ AtOnce(s)
  /\ challenges' = Append(challenges, [used |-> FALSE, known |-> delivered, expired |-> FALSE])
  /\ UNCHANGED <<shares, level, recent, vaultLog, vaultPast>>

Presentable(n) == challenges[n].known /\ ~challenges[n].used /\ ~challenges[n].expired

VerifyChallenge(s, n) ==
  /\ Presentable(n)
  /\ Begin(s, <<"auditSuccess">>, [what |-> "verify"])
  /\ challenges' = [challenges EXCEPT ![n].used = TRUE]
  /\ UNCHANGED <<shares, level, recent, vaultLog, vaultPast>>

\* The row of the audit log is the verification.
AuditSuccess(s) ==
  /\ At(s, "auditSuccess") /\ Answer(s)
  /\ recent' = TRUE
  /\ vaultPast' = [vaultPast EXCEPT !.proven = @ + 1]
  /\ UNCHANGED <<shares, level, challenges, vaultLog>>

ChallengeExpires(n) ==
  /\ Presentable(n)
  /\ challenges' = [challenges EXCEPT ![n].expired = TRUE]
  /\ UNCHANGED <<requests, shares, level, recent, vaultLog, vaultPast>>

HalfAnHourPasses ==
  /\ recent /\ recent' = FALSE
  /\ UNCHANGED <<requests, shares, level, challenges, vaultLog, vaultPast>>

-----------------------------------------------------------------------------
(* The owner asks for the second share *)

RequestShareRelease(s) ==
  /\ Account /\ recent
  /\ Begin(s, <<"getShare", "logReleased">>, [what |-> "release"])
  /\ UNCHANGED <<vaultTables, vaultPast>>

ExportRecoveryKey(s) ==
  /\ Account /\ recent
  /\ Begin(s, <<"getShare", "raiseTier", "logExported">>, [what |-> "export"])
  /\ UNCHANGED <<vaultTables, vaultPast>>

GetShare(s) ==
  /\ At(s, "getShare")
  /\ IF shares[2] = NoShare THEN Answer(s) ELSE Pass(s)
  /\ UNCHANGED <<vaultTables, vaultPast>>

AtTier(tier) == [i \in {2, 3} |-> IF shares[i] = NoShare THEN NoShare ELSE [shares[i] EXCEPT !.tier = tier]]

\* The tier is raised on the shares; the account keeps the tier it has.
UpdateRecoveryTier(s) ==
  /\ At(s, "raiseTier") /\ Pass(s)
  /\ shares' = AtTier(3)
  /\ UNCHANGED <<level, challenges, recent, vaultLog, vaultPast>>

\* The log is written, and then the share is in the answer.
LogAndGive(s, statement, action) ==
  /\ At(s, statement) /\ Answer(s)
  /\ Logged(action)
  /\ vaultPast' = [vaultPast EXCEPT !.given[action] = @ + 1]
  /\ UNCHANGED <<shares, level, challenges, recent>>

-----------------------------------------------------------------------------
(* The third share in a provider's name *)

RegisterEscrow(s, p) ==
  /\ Account /\ shares[3] # NoShare /\ shares[3].holder # "escrow"
  /\ Begin(s, <<"registerEscrow", "logEscrow">>, [what |-> "escrow", provider |-> p])
  /\ UNCHANGED <<vaultTables, vaultPast>>

\* One transaction: the provider, the share, both tiers.  That the share is
\* still here is not asked again.
TransferToEscrow(s) ==
  /\ At(s, "registerEscrow") /\ Pass(s)
  /\ shares' = [AtTier(2) EXCEPT ![3].holder = "escrow", ![3].provider = mem[s].provider]
  /\ level' = 2
  /\ vaultPast' = [vaultPast EXCEPT !.crossed = @ \/ shares[3].holder = "escrow"]
  /\ UNCHANGED <<challenges, recent, vaultLog>>

LogEscrow(s) ==
  /\ At(s, "logEscrow") /\ Answer(s)
  /\ Logged("escrow.registered")
  /\ vaultPast' = [vaultPast EXCEPT !.told = @ \cup {mem[s].provider}]
  /\ UNCHANGED <<shares, level, challenges, recent>>

-----------------------------------------------------------------------------
\* getSecurityLevel reads the account, then the shares.
ReadLevel(s) ==
  /\ Account
  /\ Begin(s, <<"readShares">>, [what |-> "level", level |-> level])
  /\ UNCHANGED <<vaultTables, vaultPast>>

ReadShares(s) ==
  /\ At(s, "readShares") /\ Answer(s)
  /\ vaultPast' = [vaultPast EXCEPT !.shown = @ \cup
       {[level |-> mem[s].level, escrow |-> \E i \in {2, 3} : shares[i].holder = "escrow"]}]
  /\ UNCHANGED vaultTables

\* A query fails or the process dies: the handler ends where it is.
VaultFails(s) == todo[s] # <<>> /\ Answer(s) /\ UNCHANGED <<vaultTables, vaultPast>>

VaultNext ==
  \/ \E s \in Slot :
       \/ CreateIdentity(s) \/ StoreShare(s, 2) \/ StoreShare(s, 3) \/ LogCreated(s)
       \/ \E delivered \in BOOLEAN : CreateVerificationChallenge(s, delivered)
       \/ \E n \in DOMAIN challenges : VerifyChallenge(s, n)
       \/ AuditSuccess(s) \/ RequestShareRelease(s) \/ ExportRecoveryKey(s) \/ GetShare(s)
       \/ UpdateRecoveryTier(s)
       \/ LogAndGive(s, "logReleased", "share.released")
       \/ LogAndGive(s, "logExported", "key.exported")
       \/ \E p \in Provider : RegisterEscrow(s, p)
       \/ TransferToEscrow(s) \/ LogEscrow(s) \/ ReadLevel(s) \/ ReadShares(s) \/ VaultFails(s)
  \/ \E n \in DOMAIN challenges : ChallengeExpires(n)
  \/ HalfAnHourPasses

-----------------------------------------------------------------------------
VaultTypeOK ==
  /\ level \in 1..2
  /\ \A i \in {2, 3} :
       shares[i] # NoShare => shares[i].holder \in {"vault", "escrow"} /\ shares[i].tier \in 1..3
  /\ \A n \in DOMAIN challenges : challenges[n].used => challenges[n].known

\* No share has left that the log has no row of, or before a mailed code was
\* presented, each code making one verification.  The account and its third
\* share agree on who holds it, both shares are of one tier, and a security
\* level read piecemeal is never shown enhanced without its escrow.  The
\* provider an owner was told of is the one recorded, unless two registrations
\* met.
VaultIsAccounted ==
  /\ \A action \in Actions : vaultPast.given[action] <= vaultLog[action]
  /\ (\E action \in Actions : vaultPast.given[action] > 0) => vaultPast.proven > 0
  /\ vaultPast.proven <= Cardinality({n \in DOMAIN challenges : challenges[n].used})
  /\ level = 2 <=> shares[3].holder = "escrow"
  /\ shares[3] # NoShare => shares[2] # NoShare /\ shares[3].tier = shares[2].tier
  /\ \A answer \in vaultPast.shown : answer.level = 2 => answer.escrow
  /\ vaultPast.crossed \/ vaultPast.told \subseteq {IF level = 2 THEN shares[3].provider ELSE NoProvider}

vaultVars == <<requests, vaultTables, vaultPast>>
VaultSpec == VaultInit /\ [][VaultNext]_vaultVars
=============================================================================

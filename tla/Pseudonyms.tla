----------------------------- MODULE Pseudonyms -----------------------------
(***************************************************************************)
(* Before a pseudonym there are tokens.  Once a month an account has a     *)
(* batch of them signed blind: the server cannot see what it signs, so it  *)
(* counts batches, and the client holds every signature against the key    *)
(* that all the world was shown (PublishedKeys).  Afterwards the pseudonym *)
(* has no password: it signs a challenge with the key of its owner's       *)
(* phrase.  How a token is spent on an account is in Registration.         *)
(*                                                                         *)
(* A batch is the one key it was signed with.  Left out: the blinding and  *)
(* the proofs that link a pseudonym to its owner, which keep no state.     *)
(***************************************************************************)
EXTENDS PublishedKeys

CONSTANT Collector   \* approved local accounts

VARIABLES
  batches,         \* pseudonym_token_batches, committed: account and month
  loginChallenges, \* pseudonym_login_challenges: "open", "expired" or "deleted"
  standing,        \* the status of the pseudonym's account
  pseudonymPast    \* history: see PseudonymsInit

pseudonymTables == <<batches, loginChallenges, standing>>

PseudonymsInit ==
  /\ PublishedKeysInit
  /\ batches = {} /\ loginChallenges = <<>> /\ standing = "approved"
  /\ pseudonymPast = [signed   |-> <<>>,   \* committed: account, month, key, key expected
                      sessions |-> <<>>]   \* opened: the challenge, and the status it was opened on

-----------------------------------------------------------------------------
(* collectTokens: claim and signatures in one transaction *)

\* The key was fetched without credentials, so it is one that others were shown.
CollectTokens(s, account, key) ==
  /\ key \in published[epoch(month)]
  /\ Begin(s, <<"claim", "sign", "commit">>,
           [what |-> "collect", account |-> account, month |-> month, shown |-> key, key |-> 0])
  /\ UNCHANGED <<keyTables, published, actorsCrossed, pseudonymTables, pseudonymPast>>

Claimed(s) == <<mem[s].account, mem[s].month>>
Claiming(o) == Steps(o) \cap {"sign", "commit"} # {} /\ ~At(o, "claim")

\* ON CONFLICT DO NOTHING: an open claim of the same batch is waited for.
Claim(s) ==
  /\ At(s, "claim")
  /\ \A o \in Slot \ {s} : Claiming(o) => Claimed(o) # Claimed(s)
  /\ IF Claimed(s) \in batches THEN Answer(s) ELSE Pass(s)
  /\ UNCHANGED <<keyTables, published, actorsCrossed, pseudonymTables, pseudonymPast>>

\* What createEpochRow retires with the keys, when it makes one.
Retire(k) ==
  batches' = IF stored[k] # 0 THEN batches ELSE {b \in batches : epoch(b[2]) \in AcceptedEpochs}

\* The signer is the key in memory, in the table, or one made for the purpose,
\* of the month that was asked for, which may be over by now.
SignBatch(s) ==
  /\ At(s, "sign")
  /\ LET k == epoch(mem[s].month) IN
     IF inMemory[k] # 0
     THEN /\ Note(s, [mem[s] EXCEPT !.key = inMemory[k]])
          /\ UNCHANGED <<keyTables, batches>>
     ELSE /\ Note(s, [mem[s] EXCEPT !.key = EpochKey(k)])
          /\ StoreEpochKey(k) /\ Retire(k) /\ Remember(k, EpochKey(k))
          /\ UNCHANGED month
  /\ UNCHANGED <<published, actorsCrossed, loginChallenges, standing, pseudonymPast>>

\* The signatures are in the answer only then, and the answer may be lost.
CommitBatch(s) ==
  /\ At(s, "commit") /\ Answer(s)
  /\ batches' = batches \cup {Claimed(s)}
  /\ pseudonymPast' = [pseudonymPast EXCEPT !.signed =
       Append(@, [batch |-> Claimed(s), key |-> mem[s].key, shown |-> mem[s].shown])]
  /\ UNCHANGED <<keyTables, published, actorsCrossed, loginChallenges, standing>>

-----------------------------------------------------------------------------
(* Signing in with the phrase *)

\* Whoever asks gets one, so that it tells nothing.
GetLoginChallenge(s) ==
  /\ AtOnce(s)
  /\ loginChallenges' = Append(loginChallenges, "open")
  /\ UNCHANGED <<keyTables, published, actorsCrossed, batches, standing, pseudonymPast>>

\* Deleted by whoever presents it, with a good signature or without.
PresentPhrase(s, n, good) ==
  /\ loginChallenges[n] = "open"
  /\ Begin(s, IF good THEN <<"readPseudonym", "openSession">> ELSE <<>>,
           [what |-> "phrase", challenge |-> n, standing |-> standing])
  /\ loginChallenges' = [loginChallenges EXCEPT ![n] = "deleted"]
  /\ UNCHANGED <<keyTables, published, actorsCrossed, batches, standing, pseudonymPast>>

ReadPseudonym(s) ==
  /\ At(s, "readPseudonym")
  /\ IF standing = "suspended" THEN Answer(s) ELSE Note(s, [mem[s] EXCEPT !.standing = standing])
  /\ UNCHANGED <<keyTables, published, actorsCrossed, pseudonymTables, pseudonymPast>>

OpenPseudonymSession(s) ==
  /\ At(s, "openSession") /\ Answer(s)
  /\ pseudonymPast' = [pseudonymPast EXCEPT !.sessions =
       Append(@, [challenge |-> mem[s].challenge, standing |-> mem[s].standing])]
  /\ UNCHANGED <<keyTables, published, actorsCrossed, pseudonymTables>>

LoginExpires(n) ==
  /\ loginChallenges[n] = "open"
  /\ loginChallenges' = [loginChallenges EXCEPT ![n] = "expired"]
  /\ UNCHANGED <<requests, keyTables, published, actorsCrossed, batches, standing, pseudonymPast>>

\* Sessions has how; here only that it happens under way.
StandingChanges(to) ==
  /\ standing # to /\ standing' = to
  /\ UNCHANGED <<requests, keyTables, published, actorsCrossed, batches, loginChallenges, pseudonymPast>>

-----------------------------------------------------------------------------
\* The keys meanwhile, as PublishedKeys has them; a claim that is not committed
\* is undone by whatever ends its request.
KeysGoOn ==
  /\ \/ \E s \in Slot, k \in {epoch(m) : m \in 1..Months} : Find(s, k) \/ Miss(s, k)
     \/ \E s \in Slot : KeysFail(s)
     \/ NextMonth \/ KeysRestart
  /\ UNCHANGED <<pseudonymTables, pseudonymPast>>

MakeEpochKey(s) ==
  /\ CreateEpochKey(s) /\ Retire(mem[s].name)
  /\ UNCHANGED <<loginChallenges, standing, pseudonymPast>>

PseudonymsNext ==
  \/ \E s \in Slot :
       \/ \E account \in Collector, key \in published[epoch(month)] : CollectTokens(s, account, key)
       \/ Claim(s) \/ SignBatch(s) \/ CommitBatch(s) \/ MakeEpochKey(s)
       \/ GetLoginChallenge(s) \/ ReadPseudonym(s) \/ OpenPseudonymSession(s)
       \/ \E n \in DOMAIN loginChallenges, good \in BOOLEAN : PresentPhrase(s, n, good)
  \/ \E n \in DOMAIN loginChallenges : LoginExpires(n)
  \/ \E to \in {"approved", "deactivated", "suspended"} : StandingChanges(to)
  \/ KeysGoOn

-----------------------------------------------------------------------------
PseudonymsTypeOK ==
  /\ batches \subseteq Collector \X (1..Months)
  /\ \A n \in DOMAIN loginChallenges : loginChallenges[n] \in {"open", "expired", "deleted"}
  /\ standing \in {"approved", "deactivated", "suspended"}

\* An account has one batch a month signed, through restarts, failures and the
\* retiring of old months, and by the key everybody was shown; the claim and
\* its signatures stand or fall together.  A challenge opens one session at
\* most, none once it was tried in vain, and none for a suspended account.
PseudonymsHold ==
  LET signed == pseudonymPast.signed
      opened == pseudonymPast.sessions IN
  /\ \A i, j \in DOMAIN signed : signed[i].batch = signed[j].batch => i = j
  /\ \A i \in DOMAIN signed : signed[i].key = signed[i].shown
  /\ batches \subseteq {signed[i].batch : i \in DOMAIN signed}
  /\ \A i, j \in DOMAIN opened : opened[i].challenge = opened[j].challenge => i = j
  /\ \A i \in DOMAIN opened : opened[i].standing # "suspended" /\ loginChallenges[opened[i].challenge] = "deleted"

pseudonymsVars == <<requests, keyTables, published, actorsCrossed, pseudonymTables, pseudonymPast>>
PseudonymsSpec == PseudonymsInit /\ [][PseudonymsNext]_pseudonymsVars
=============================================================================

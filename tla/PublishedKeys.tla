--------------------------- MODULE PublishedKeys ---------------------------
(***************************************************************************)
(* Keys the server makes the first time somebody asks for them and then    *)
(* keeps: the one a community signs with as an ActivityPub actor, the one  *)
(* of the server's own DID document, and the one of each month's creation  *)
(* tokens, which is retired two months on.  Others hold what was published *)
(* against what is signed, so a key once shown has to be the one that was  *)
(* stored.  Each of the three goes about its first time differently.       *)
(***************************************************************************)
EXTENDS Requests

CONSTANT Months   \* bound: the months there are

ASSUME MonthsAssumption == Months \in Nat

VARIABLES
  stored,      \* ap_signing_keys, pds_service_keys, pseudonym_token_keys: name -> key, 0 for none
  inMemory,    \* in the memory of the process
  minted,      \* keys ever generated
  month,       \* by the clock
  published,   \* history: name -> keys others have been shown
  actorsCrossed   \* history: actors whose key two first requests generated at once

actor == <<"actor", 0>>
service == <<"service", 0>>
epoch(m) == <<"epoch", m>>
KeyNames == {actor, service} \cup {epoch(m) : m \in 1..Months}

keyTables == <<stored, inMemory, minted, month>>

PublishedKeysInit ==
  /\ RequestsInit
  /\ stored = [k \in KeyNames |-> 0] /\ inMemory = stored
  /\ minted = 0 /\ month = 1
  /\ published = [k \in KeyNames |-> {}] /\ actorsCrossed = FALSE

AcceptedEpochs == {epoch(m) : m \in {month - 1, month} \cap (1..Months)}

Show(k, key) == published' = [published EXCEPT ![k] = @ \cup {key}]
\* The server's own key is read from the table every time.
Caches(k) == k # service
Remember(k, key) == inMemory' = IF Caches(k) THEN [inMemory EXCEPT ![k] = key] ELSE inMemory

-----------------------------------------------------------------------------
\* The memory of the process, then the table.
Find(s, k) ==
  LET key == IF inMemory[k] # 0 THEN inMemory[k] ELSE stored[k] IN
  /\ k \in {actor, service} \cup AcceptedEpochs
  /\ key # 0
  /\ AtOnce(s) /\ Show(k, key) /\ Remember(k, key)
  /\ UNCHANGED <<stored, minted, month, actorsCrossed>>

\* Neither has it; an epoch that is over is not begun.
Miss(s, k) ==
  /\ k \in {actor, service, epoch(month)}
  /\ inMemory[k] = 0 /\ stored[k] = 0
  /\ Begin(s, CASE k = actor -> <<"generate actor's">>
                [] k = service -> <<"generate service's", "read service's">>
                [] OTHER -> <<"create epoch's">>,
           [what |-> "key", name |-> k, month |-> month])
  /\ UNCHANGED <<keyTables, published, actorsCrossed>>

Insert(k) == stored' = [stored EXCEPT ![k] = IF @ = 0 THEN minted + 1 ELSE @]

\* What was generated is what is shown, whether or not it was the one kept.
GenerateActorKey(s) ==
  /\ At(s, "generate actor's") /\ Answer(s)
  /\ minted' = minted + 1
  /\ Insert(actor) /\ Show(actor, minted + 1) /\ Remember(actor, minted + 1)
  /\ actorsCrossed' = (actorsCrossed \/ stored[actor] # 0)
  /\ UNCHANGED month

GenerateServiceKey(s) ==
  /\ At(s, "generate service's")
  /\ minted' = minted + 1
  /\ Insert(service)
  /\ Pass(s)
  /\ UNCHANGED <<inMemory, month, published, actorsCrossed>>

\* Another may have been first: the one in the table counts.
ReadServiceKey(s) ==
  /\ At(s, "read service's") /\ Answer(s)
  /\ Show(service, stored[service])
  /\ UNCHANGED <<keyTables, actorsCrossed>>

\* Under a lock: read again, made if still missing, and whatever is older than
\* the accepted epochs retired with it.
EpochKey(k) == IF stored[k] # 0 THEN stored[k] ELSE minted + 1

StoreEpochKey(k) ==
  IF stored[k] # 0 THEN UNCHANGED <<stored, minted>>
  ELSE /\ minted' = minted + 1
       /\ stored' = [n \in KeyNames |->
            IF n = k THEN minted + 1
            ELSE IF n \in {actor, service} \cup AcceptedEpochs THEN stored[n] ELSE 0]

CreateEpochKey(s) ==
  /\ At(s, "create epoch's") /\ Answer(s)
  /\ LET k == mem[s].name IN
     Show(k, EpochKey(k)) /\ Remember(k, EpochKey(k)) /\ StoreEpochKey(k)
  /\ UNCHANGED <<month, actorsCrossed>>

\* Bound: no request takes more than a month, so the clock turns over once under it.
NextMonth ==
  /\ month < Months
  /\ \A s \in Slot : todo[s] # <<>> /\ "month" \in DOMAIN mem[s] => mem[s].month = month
  /\ month' = month + 1
  /\ UNCHANGED <<requests, stored, inMemory, minted, published, actorsCrossed>>

KeysFail(s) == todo[s] # <<>> /\ Answer(s) /\ UNCHANGED <<keyTables, published, actorsCrossed>>

KeysRestart ==
  /\ inMemory # [k \in KeyNames |-> 0]
  /\ todo' = [s \in Slot |-> <<>>] /\ mem' = [s \in Slot |-> Nothing] /\ spent' = spent
  /\ inMemory' = [k \in KeyNames |-> 0]
  /\ UNCHANGED <<stored, minted, month, published, actorsCrossed>>

PublishedKeysNext ==
  \/ \E s \in Slot :
       \/ \E k \in KeyNames : Find(s, k) \/ Miss(s, k)
       \/ GenerateActorKey(s) \/ GenerateServiceKey(s) \/ ReadServiceKey(s)
       \/ CreateEpochKey(s) \/ KeysFail(s)
  \/ NextMonth \/ KeysRestart

-----------------------------------------------------------------------------
PublishedKeysTypeOK ==
  /\ stored \in [KeyNames -> 0..minted] /\ inMemory \in [KeyNames -> 0..minted]
  /\ \A k \in KeyNames : published[k] \subseteq 1..minted

\* Whatever was published is the key that is stored, through restarts and first
\* requests that cross, save an actor's whose first requests crossed.  A
\* month's key is kept for as long as its tokens are taken.
KeysAreKept ==
  \A k \in KeyNames :
    (k = actor /\ actorsCrossed) \/ (k[1] = "epoch" /\ k \notin AcceptedEpochs)
    \/ published[k] \cup ({inMemory[k]} \ {0}) \subseteq {stored[k]}

publishedKeysVars == <<requests, keyTables, published, actorsCrossed>>
PublishedKeysSpec == PublishedKeysInit /\ [][PublishedKeysNext]_publishedKeysVars
=============================================================================

---------------------------- MODULE ServiceAuth ----------------------------
(***************************************************************************)
(* A user of another server comes with a token that server signed.  It is  *)
(* taken once, which this server knows from a list of bounded length in    *)
(* its memory, and its signature is held against the issuer's DID          *)
(* document, which is cached.                                              *)
(*                                                                         *)
(* One issuer; a token is a name.  Left out: the calls per minute a DID is *)
(* allowed, and tokens for another method or another server, which are     *)
(* refused at once.                                                        *)
(***************************************************************************)
EXTENDS Requests

CONSTANTS
  ServiceToken,   \* tokens the issuer may come to sign
  SeenRoom        \* MAX_SEEN: signatures remembered

ASSUME SeenRoomAssumption == SeenRoom \in Nat \ {0}

VARIABLES
  serviceTokens,   \* token -> the key that signed it, 0 for none, and its life
  issuerKey,       \* the key the issuer's document names, counted
  didCache,        \* the document in memory: the key it names, and its age
  seenSignatures,  \* tokens taken, oldest first
  servicePast      \* history: see ServiceAuthInit

serviceTables == <<serviceTokens, issuerKey, didCache, seenSignatures>>

Unsigned == [key |-> 0, life |-> "unsigned"]
NoDocument == [key |-> 0, age |-> "none"]

ServiceAuthInit ==
  /\ RequestsInit
  /\ \E first \in {Unsigned, [key |-> 1, life |-> "valid"]} :
       serviceTokens = [t \in ServiceToken |-> first]
  /\ issuerKey = 1 /\ didCache = NoDocument /\ seenSignatures = <<>>
  /\ servicePast = [taken  |-> {},      \* tokens taken, and not let go for good reason since
                    again  |-> FALSE,   \* one of them was taken once more
                    named  |-> {1},     \* keys the document named within the hour
                    oldKey |-> FALSE]   \* a token was taken by a key older than that

-----------------------------------------------------------------------------
\* At the issuer's own server, which runs the same code.
GetServiceAuth(s, t) ==
  /\ serviceTokens[t] = Unsigned
  /\ AtOnce(s)
  /\ serviceTokens' = [serviceTokens EXCEPT ![t] = [key |-> issuerKey, life |-> "valid"]]
  /\ UNCHANGED <<issuerKey, didCache, seenSignatures, servicePast>>

\* For half a minute after its end a token is taken as well, for the clocks' sake.
PresentToken(s, t) ==
  /\ serviceTokens[t].life \in {"valid", "grace"}
  /\ Begin(s, <<"resolve", "accept">>, [what |-> "token", token |-> t, key |-> 0])
  /\ UNCHANGED <<serviceTables, servicePast>>

\* A stale document is used once more, and replaced for the next who asks.
ResolveKey(s) ==
  /\ At(s, "resolve")
  /\ Note(s, [mem[s] EXCEPT !.key = IF didCache.age = "none" THEN issuerKey ELSE didCache.key])
  /\ didCache' = IF didCache.age = "fresh" THEN didCache ELSE [key |-> issuerKey, age |-> "fresh"]
  /\ UNCHANGED <<serviceTokens, issuerKey, seenSignatures, servicePast>>

\* The directory does not answer.
ResolutionFails(s) ==
  /\ At(s, "resolve") /\ didCache.age # "fresh" /\ Answer(s)
  /\ UNCHANGED <<serviceTables, servicePast>>

PastEnd(t) == serviceTokens[t].life # "valid"
Among(seq) == {seq[i] : i \in DOMAIN seq}
Less(seq, T) == SelectSeq(seq, LAMBDA t : t \notin T)

\* Now and then whatever has ended is swept out first.
Swept(sweeps) == IF sweeps THEN {t \in Among(seenSignatures) : PastEnd(t)} ELSE {}

\* When there is no room, the first that has ended goes, else the first there is.
Evicted(seen) ==
  IF Len(seen) < SeenRoom THEN {}
  ELSE LET ended == SelectSeq(seen, PastEnd) IN {IF ended # <<>> THEN Head(ended) ELSE Head(seen)}

\* Taken before, or not: looked up and remembered without a pause.
IsReplay(seen, t) == t \in Among(seen)
Remembered(seen, t) == Append(Less(seen, Evicted(seen)), t)

TakeToken(s, sweeps) ==
  LET t == mem[s].token
      seen == Less(seenSignatures, Swept(sweeps))
      lost == Swept(sweeps) \cup {u \in Evicted(seen) : PastEnd(u) \/ \A v \in Among(seen) : ~PastEnd(v)} IN
  /\ At(s, "accept") /\ Answer(s)
  /\ mem[s].key = serviceTokens[t].key
  /\ ~IsReplay(seen, t)
  /\ seenSignatures' = Remembered(seen, t)
  /\ servicePast' = [servicePast EXCEPT
       !.taken = (@ \ lost) \cup {t}, !.again = @ \/ t \in servicePast.taken \ lost,
       !.oldKey = @ \/ mem[s].key \notin servicePast.named]
  /\ UNCHANGED <<serviceTokens, issuerKey, didCache>>

\* The signature is checked before the list is looked at.
RefuseToken(s, sweeps) ==
  LET t == mem[s].token
      seen == Less(seenSignatures, Swept(sweeps)) IN
  /\ At(s, "accept") /\ Answer(s)
  /\ \/ /\ mem[s].key # serviceTokens[t].key /\ ~sweeps
     \/ /\ mem[s].key = serviceTokens[t].key /\ IsReplay(seen, t)
  /\ seenSignatures' = seen
  /\ servicePast' = [servicePast EXCEPT !.taken = @ \ Swept(sweeps)]
  /\ UNCHANGED <<serviceTokens, issuerKey, didCache>>

\* Bound: time passes for tokens that were presented; the others are as good as new.
TokenAges(t) ==
  /\ t \in servicePast.taken \/ \E s \in Slot : mem[s].what = "token" /\ mem[s].token = t
  /\ serviceTokens[t].life \in {"valid", "grace"}
  /\ serviceTokens' = [serviceTokens EXCEPT ![t].life = IF @ = "valid" THEN "grace" ELSE "over"]
  /\ UNCHANGED <<requests, issuerKey, didCache, seenSignatures, servicePast>>

\* Bound: once.
RotateKey ==
  /\ issuerKey = 1 /\ issuerKey' = 2
  /\ servicePast' = [servicePast EXCEPT !.named = @ \cup {2}]
  /\ UNCHANGED <<requests, serviceTokens, didCache, seenSignatures>>

\* Fresh for five minutes, kept for an hour; no request takes that long.
DocumentAges ==
  /\ Quiet /\ didCache.age # "none"
  /\ didCache' = IF didCache.age = "fresh" THEN [didCache EXCEPT !.age = "stale"] ELSE NoDocument
  /\ servicePast' = [servicePast EXCEPT !.named = IF didCache.age = "fresh" THEN @ ELSE {issuerKey}]
  /\ UNCHANGED <<requests, serviceTokens, issuerKey, seenSignatures>>

ServiceRestart ==
  /\ seenSignatures # <<>> \/ didCache # NoDocument
  /\ todo' = [s \in Slot |-> <<>>] /\ mem' = [s \in Slot |-> Nothing] /\ spent' = spent
  /\ didCache' = NoDocument /\ seenSignatures' = <<>>
  /\ servicePast' = [servicePast EXCEPT !.taken = {}]
  /\ UNCHANGED <<serviceTokens, issuerKey>>

ServiceAuthNext ==
  \/ \E s \in Slot :
       \/ \E t \in ServiceToken : GetServiceAuth(s, t) \/ PresentToken(s, t)
       \/ ResolveKey(s) \/ ResolutionFails(s)
       \/ \E sweeps \in BOOLEAN : TakeToken(s, sweeps) \/ RefuseToken(s, sweeps)
  \/ \E t \in ServiceToken : TokenAges(t)
  \/ RotateKey \/ DocumentAges \/ ServiceRestart

-----------------------------------------------------------------------------
ServiceAuthTypeOK ==
  /\ serviceTokens \in [ServiceToken -> [key : 0..2, life : {"unsigned", "valid", "grace", "over"}]]
  /\ didCache \in [key : 0..2, age : {"none", "fresh", "stale"}]
  /\ Among(seenSignatures) \subseteq ServiceToken /\ Len(seenSignatures) <= SeenRoom

\* However a token is presented, twice at once or later again, it is taken once,
\* save by a process that started anew, had to let it go while all it remembered
\* were valid, or let it go in its last half minute.  No key is relied on that
\* the issuer's document has not named for an hour.
ServiceTokensHold ==
  /\ ~servicePast.again
  /\ ~servicePast.oldKey

serviceAuthVars == <<requests, serviceTables, servicePast>>
ServiceAuthSpec == ServiceAuthInit /\ [][ServiceAuthNext]_serviceAuthVars
=============================================================================

------------------------------- MODULE Oracle -------------------------------
(***************************************************************************)
(* The chain oracle of a community: its credential lets a request write    *)
(* what on-chain governance protects, each time against the proof of a     *)
(* transaction.  The proof is reserved in the audit log before the write   *)
(* and marked applied after it.  Proofs are told apart in canonical form:  *)
(* what a proof names, never how it is spelt.  The chain is external: what *)
(* an attestor finds there may be anything, at any time.                   *)
(***************************************************************************)
EXTENDS Requests

CONSTANTS
  Credential,  \* credentials of the community
  Proof,       \* transactions of a chain with an attestor
  Change       \* fingerprints: operation, repository, record and its content

VARIABLES
  credentials, \* credential -> "none", "active" or "revoked"
  evidence,    \* audit rows: proof, change, status, and whether it has a reservation key
  verifications,    \* proof -> the verdict of proof_verifications, "none" when lapsed
  done,        \* history: changes made with a proof, in order
  rivals,      \* history: two credentials were created at once
  mistold      \* history: a stored result was returned for a change never made

oracleTables == <<credentials, evidence, verifications>>
oraclePast == <<done, rivals, mistold>>

Row(p, c, status, keyed) == [proof |-> p, change |-> c, status |-> status, keyed |-> keyed]

\* Rows written before there were reservation keys name the proof only in
\* their detail, and were written once the change was made.
OracleInit ==
  /\ RequestsInit
  /\ credentials = [k \in Credential |-> "none"]
  /\ \/ evidence = <<>>
     \/ \E p \in Proof, c \in Change : evidence = <<Row(p, c, "applied", FALSE)>>
  /\ done = [p \in Proof |-> IF evidence # <<>> /\ evidence[1].proof = p
                             THEN <<evidence[1].change>> ELSE <<>>]
  /\ verifications = [p \in Proof |-> "none"]
  /\ rivals = FALSE /\ mistold = FALSE

Active == {k \in Credential : credentials[k] = "active"}
Mutation(p, c) == [what |-> "mutation", proof |-> p, change |-> c, row |-> 0, seen |-> {}]
RowsFor(p) == {i \in DOMAIN evidence : evidence[i].proof = p}

-----------------------------------------------------------------------------
(* Credentials. *)

CreateCredential(s, k) ==
  /\ credentials[k] = "none" /\ Active = {}
  /\ \A t \in Slot : ~(mem[t].what = "credential" /\ mem[t].key = k)
  /\ Begin(s, <<"insert credential">>, [what |-> "credential", key |-> k])
  /\ UNCHANGED <<oracleTables, oraclePast>>

InsertCredential(s) ==
  /\ At(s, "insert credential") /\ Pass(s)
  /\ credentials' = [credentials EXCEPT ![mem[s].key] = "active"]
  /\ rivals' = (rivals \/ \E t \in Slot \ {s} : Pending(t, "insert credential"))
  /\ UNCHANGED <<evidence, verifications, done, mistold>>

RevokeCredential(s, k) ==
  /\ credentials[k] = "active" /\ AtOnce(s)
  /\ credentials' = [credentials EXCEPT ![k] = "revoked"]
  /\ UNCHANGED <<evidence, verifications, oraclePast>>

-----------------------------------------------------------------------------
(* submitProof: the verdict on a proof, from the cache or from the chain. *)

SubmitProof(s, p) ==
  /\ Active # {}
  /\ Begin(s, IF verifications[p] = "none" THEN <<"verify", "cache">> ELSE <<>>,
           [what |-> "proof", proof |-> p, verdict |-> "none"])
  /\ UNCHANGED <<oracleTables, oraclePast>>

VerifyProof(s) ==
  /\ At(s, "verify")
  /\ \E verdict \in {"verified", "refuted"} : Note(s, [mem[s] EXCEPT !.verdict = verdict])
  /\ UNCHANGED <<oracleTables, oraclePast>>

CacheVerification(s) ==
  /\ At(s, "cache") /\ Pass(s)
  /\ verifications' = [verifications EXCEPT ![mem[s].proof] = mem[s].verdict]
  /\ UNCHANGED <<credentials, evidence, oraclePast>>

VerdictLapses(p) ==
  /\ verifications[p] # "none"
  /\ verifications' = [verifications EXCEPT ![p] = "none"]
  /\ UNCHANGED <<requests, credentials, evidence, oraclePast>>

-----------------------------------------------------------------------------
(* A protected write: createRecord, putRecord or deleteRecord. *)

\* The middleware reads the credential; nothing reads it again.
OracleMutate(s, p, c) ==
  /\ Active # {}
  /\ Begin(s, <<"reserve", "mutate", "finalize">>, [Mutation(p, c) EXCEPT !.seen = RowsFor(p)])
  /\ UNCHANGED <<oracleTables, oraclePast>>

\* The newest row about the proof decides, and none may be about another
\* change; a proof without a row gets one.
Reservation(s, rows) ==
  /\ At(s, "reserve")
  /\ IF rows = {}
       THEN /\ Note(s, [mem[s] EXCEPT !.row = Len(evidence) + 1])
            /\ evidence' = Append(evidence, Row(mem[s].proof, mem[s].change, "pending", TRUE))
            /\ UNCHANGED mistold
       ELSE LET newest == CHOOSE i \in rows : \A j \in rows : j <= i
                stored == /\ \A i \in rows : evidence[i].change = mem[s].change
                          /\ evidence[newest].status = "applied"
            IN /\ Answer(s)
               /\ mistold' = (mistold \/ (stored /\ Len(done[mem[s].proof]) = 0))
               /\ UNCHANGED evidence
  /\ UNCHANGED <<credentials, verifications, done, rivals>>

\* A slip the runs must notice: the rows are those read before the lock.
ReserveUnlocked(s) == Reservation(s, mem[s].seen)
Reserve(s) == Reservation(s, RowsFor(mem[s].proof))

\* A write that is refused or fails ends the request; its row stays pending.
Mutate(s) ==
  /\ At(s, "mutate")
  /\ \/ /\ Pass(s)
        /\ done' = [done EXCEPT ![mem[s].proof] = Append(@, mem[s].change)]
     \/ Answer(s) /\ UNCHANGED done
  /\ UNCHANGED <<oracleTables, rivals, mistold>>

Finalize(s) ==
  /\ At(s, "finalize") /\ Pass(s)
  /\ evidence' = [evidence EXCEPT ![mem[s].row].status = "applied"]
  /\ UNCHANGED <<credentials, verifications, oraclePast>>

OracleFails(s) ==
  /\ todo[s] # <<>> /\ Answer(s)
  /\ UNCHANGED <<oracleTables, oraclePast>>

OracleNext ==
  \/ \E s \in Slot, k \in Credential : CreateCredential(s, k) \/ RevokeCredential(s, k)
  \/ \E s \in Slot, p \in Proof :
       SubmitProof(s, p) \/ \E c \in Change : OracleMutate(s, p, c)
  \/ \E s \in Slot :
       \/ InsertCredential(s) \/ VerifyProof(s) \/ CacheVerification(s)
       \/ Reserve(s) \/ Mutate(s) \/ Finalize(s) \/ OracleFails(s)
  \/ \E p \in Proof : VerdictLapses(p)

-----------------------------------------------------------------------------
OracleTypeOK ==
  /\ credentials \in [Credential -> {"none", "active", "revoked"}]
  /\ evidence \in Seq([proof: Proof, change: Change,
                       status: {"pending", "applied"}, keyed: BOOLEAN])
  /\ verifications \in [Proof -> {"none", "verified", "refuted"}]
  /\ \A p \in Proof : done[p] \in Seq(Change)
  /\ rivals \in BOOLEAN /\ mistold \in BOOLEAN

\* A proof buys one change, whoever asks at once, fails or asks again: what was
\* made with it is one change, an audit row names that very change, a row that
\* says it was applied says the truth, and a retry that is told so is right.
\* Unless two were created at once a community has one active credential.
ProofBuysOneChange ==
  /\ \A p \in Proof :
       /\ Len(done[p]) <= 1
       /\ Cardinality(RowsFor(p)) <= 1
       /\ \A i \in DOMAIN done[p] : \E r \in RowsFor(p) : evidence[r].change = done[p][i]
       /\ \A r \in RowsFor(p) : evidence[r].status = "applied" => done[p] = <<evidence[r].change>>
  /\ ~mistold
  /\ rivals \/ Cardinality(Active) <= 1

oracleVars == <<requests, oracleTables, oraclePast>>
OracleSpec == OracleInit /\ [][OracleNext]_oracleVars
=============================================================================

--------------------------- MODULE AccountHomes ---------------------------
(***************************************************************************)
(* An account that moves between servers: the copy each of them keeps, the *)
(* chain of PLC operations that says where the account lives, the codes by *)
(* which the old server signs the next one, and the sweep that removes     *)
(* copies which never arrived.  Every server runs this code on its own     *)
(* tables.                                                                 *)
(*                                                                         *)
(* Of a repository only who signed its last commit is kept.  Handles,      *)
(* e-mail addresses, invites and tokens are in Registration; suspension    *)
(* and sessions in Sessions; signing keys are named by their server.       *)
(***************************************************************************)
EXTENDS Requests

CONSTANTS
  Host,      \* servers
  MaxMoves,  \* bound: PLC operations after the first
  NoHost     \* not a server

VARIABLES
  lives,     \* the servers the DID named so far, the last one its home
  signed,    \* operations signed: which they follow, and the server they name
  codes,     \* server -> e-mailed codes that are unused
  users,     \* server -> its row and repository
  sightings, \* history: server -> the last sweep to write of its copy found the DID elsewhere
  spoiled    \* history: the sweep removed what it must not

accountTables == <<lives, signed, codes, users>>
NoCopy == [status |-> "none", migrating |-> FALSE, flagged |-> FALSE, signer |-> NoHost,
           lived |-> FALSE, id |-> 0]
Residence == lives[Len(lives)]

AccountsInit ==
  /\ RequestsInit
  /\ \E h \in Host :
       /\ lives = <<h>>
       /\ users = [p \in Host |-> IF p = h THEN [NoCopy EXCEPT !.status = "approved",
                                                !.signer = h, !.lived = TRUE]
                                  ELSE NoCopy]
  /\ signed = {} /\ codes = [p \in Host |-> 0]
  /\ sightings = [p \in Host |-> FALSE] /\ spoiled = FALSE

HasUser(p) == users[p].status # "none"
Visit(p) == [what |-> "account home", at |-> p, id |-> users[p].id, flagged |-> users[p].flagged,
             lived |-> users[p].lived, from |-> NoHost]
Site(s) == mem[s].at
Mine(s) == users[Site(s)]
Same(s) == HasUser(Site(s)) /\ Mine(s).id = mem[s].id

\* A statement about the row it read, by its id; it may be gone.
Edit(s, row) == users' = [users EXCEPT ![Site(s)] = IF Same(s) THEN row ELSE @]
Gone(s) == [NoCopy EXCEPT !.id = Mine(s).id]
past == <<sightings, spoiled>>

-----------------------------------------------------------------------------
(* Arriving: the row and its keys, an empty repository, the account's own.  *)

\* createAccount, for a DID that is in the directory wherever it points.
ComeIn(s, p) ==
  /\ Begin(s, <<"open", "empty repo">>, Visit(p))
  /\ UNCHANGED <<accountTables, past>>

OpenCopy(s) ==
  /\ At(s, "open")
  /\ IF HasUser(Site(s)) THEN Answer(s) /\ UNCHANGED <<users, sightings>>
     ELSE /\ Note(s, [mem[s] EXCEPT !.id = Mine(s).id + 1])
          /\ users' = [users EXCEPT ![Site(s)] = [NoCopy EXCEPT !.status = "deactivated",
                                          !.migrating = TRUE, !.id = Mine(s).id + 1]]
          /\ sightings' = [sightings EXCEPT ![Site(s)] = FALSE]
  /\ UNCHANGED <<lives, signed, codes, spoiled>>

\* createRepo; the row goes again when that fails.
EmptyRepo(s) ==
  /\ At(s, "empty repo") /\ Pass(s)
  /\ \/ Edit(s, [Mine(s) EXCEPT !.signer = Site(s)])
     \/ Edit(s, Gone(s))
  /\ UNCHANGED <<lives, signed, codes, past>>

\* The file is the repository of any copy; it must bear the key the DID names.
ImportRepo(s, p, q) ==
  /\ users[p].status = "deactivated" /\ users[q].signer # NoHost
  /\ Begin(s, <<"verify", "store">>, [Visit(p) EXCEPT !.from = users[q].signer])
  /\ UNCHANGED <<accountTables, past>>

VerifyImport(s) ==
  /\ At(s, "verify")
  /\ IF mem[s].from = Residence THEN Pass(s) ELSE Answer(s)
  /\ UNCHANGED <<accountTables, past>>

StoreRepo(s) ==
  /\ At(s, "store") /\ Pass(s)
  /\ Edit(s, [Mine(s) EXCEPT !.signer = mem[s].from])
  /\ UNCHANGED <<lives, signed, codes, past>>

SwitchOn(s, p) ==
  /\ users[p].status = "deactivated"
  /\ Begin(s, <<"points here", "approve">>, Visit(p))
  /\ UNCHANGED <<accountTables, past>>

PointsHere(s) ==
  /\ At(s, "points here")
  /\ IF Residence = Site(s) THEN Pass(s) ELSE Answer(s)
  /\ UNCHANGED <<accountTables, past>>

ApproveCopy(s) ==
  /\ At(s, "approve") /\ Pass(s)
  /\ Edit(s, [Mine(s) EXCEPT !.status = "approved", !.migrating = FALSE,
                                         !.lived = TRUE])
  /\ UNCHANGED <<lives, signed, codes, past>>

SwitchOff(s, p) ==
  /\ users[p].status = "approved"
  /\ Begin(s, <<"deactivate">>, Visit(p))
  /\ UNCHANGED <<accountTables, past>>

DeactivateCopy(s) ==
  /\ At(s, "deactivate") /\ Pass(s)
  /\ Edit(s, [Mine(s) EXCEPT !.status = "deactivated"])
  /\ UNCHANGED <<lives, signed, codes, past>>

-----------------------------------------------------------------------------
(* Leaving: the next operation of the DID. *)

RequestCode(s, p) ==
  /\ HasUser(p)
  /\ Begin(s, <<"void codes", "code">>, Visit(p))
  /\ UNCHANGED <<accountTables, past>>

VoidCodes(s) ==
  /\ At(s, "void codes") /\ Pass(s)
  /\ codes' = [codes EXCEPT ![Site(s)] = 0]
  /\ UNCHANGED <<lives, signed, users, past>>

InsertCode(s) ==
  /\ At(s, "code") /\ Pass(s)
  /\ codes' = [codes EXCEPT ![Site(s)] = @ + 1]
  /\ UNCHANGED <<lives, signed, users, past>>

\* The code is spent in one UPDATE, then the operation is built on what the
\* log holds by now and signed.
SignMove(s, p) ==
  /\ codes[p] > 0
  /\ Begin(s, <<"sign">>, Visit(p))
  /\ codes' = [codes EXCEPT ![p] = @ - 1]
  /\ UNCHANGED <<lives, signed, users, past>>

SignNext(s) ==
  /\ At(s, "sign") /\ Pass(s)
  /\ \E q \in Host : signed' = signed \cup {[after |-> Len(lives), to |-> q]}
  /\ UNCHANGED <<lives, codes, users, past>>

\* submitPlcOperation, or the owner; the directory takes what continues the log.
SubmitMove(op) ==
  /\ op.after = Len(lives) /\ Len(lives) <= MaxMoves /\ HasUser(op.to)
  /\ lives' = Append(lives, op.to)
  /\ UNCHANGED <<requests, signed, codes, users, past>>

\* A pseudonym, and whoever holds the rotation key, signs without the server.
OwnMove(q) ==
  /\ Len(lives) <= MaxMoves /\ HasUser(q)
  /\ lives' = Append(lives, q)
  /\ UNCHANGED <<requests, signed, codes, users, past>>

-----------------------------------------------------------------------------
(* The sweep, days apart, reads the copies that never arrived and then asks *)
(* the directory about each.                                                *)

SweepUsers(s, p) ==
  /\ users[p].migrating /\ users[p].status = "deactivated"
  /\ \A t \in Slot : Steps(t) \cap {"ask", "flag", "unflag", "wipe"} # {} => Site(t) # p
  /\ Begin(s, <<"ask">>, Visit(p))
  /\ UNCHANGED <<accountTables, past>>

\* A slip the runs must notice: a copy seen elsewhere once is wiped.
VerdictAtOnce(s) ==
  IF Residence # Site(s) THEN <<"wipe">>
  ELSE IF mem[s].flagged THEN <<"unflag">> ELSE <<>>

Verdict(s) ==
  CASE Residence = Site(s) -> IF mem[s].flagged THEN <<"unflag">> ELSE <<>>
    [] mem[s].flagged      -> <<"wipe">>
    [] OTHER               -> <<"flag">>

AskDirectory(s) ==
  /\ At(s, "ask")
  /\ Turn(s, Verdict(s), mem[s])
  /\ spoiled' = (spoiled \/ (Verdict(s) = <<"wipe">> /\ Same(s) /\ ~sightings[Site(s)]))
  /\ UNCHANGED <<accountTables, sightings>>

Unflag(s) ==
  /\ At(s, "unflag") /\ Pass(s)
  /\ Edit(s, [Mine(s) EXCEPT !.flagged = FALSE])
  /\ sightings' = [sightings EXCEPT ![Site(s)] = IF Same(s) THEN FALSE ELSE @]
  /\ UNCHANGED <<lives, signed, codes, spoiled>>

Flag(s) ==
  /\ At(s, "flag") /\ Pass(s)
  /\ Edit(s, [Mine(s) EXCEPT !.flagged = TRUE])
  /\ sightings' = [sightings EXCEPT ![Site(s)] = IF Same(s) THEN TRUE ELSE @]
  /\ UNCHANGED <<lives, signed, codes, spoiled>>

\* deleteAccountData, without looking again: the row goes by its id, keys and
\* repository by the DID, even when another copy was opened meanwhile.
Wipe(s) ==
  /\ At(s, "wipe") /\ Pass(s)
  /\ users' = [users EXCEPT ![Site(s)] = IF Same(s) THEN Gone(s) ELSE [@ EXCEPT !.signer = NoHost]]
  /\ spoiled' = (spoiled \/ mem[s].lived)
  /\ UNCHANGED <<lives, signed, codes, sightings>>

AccountsFail(s) ==
  /\ todo[s] # <<>> /\ Answer(s)
  /\ UNCHANGED <<accountTables, past>>

AccountsNext ==
  \/ \E s \in Slot, p \in Host :
       \/ ComeIn(s, p) \/ SwitchOn(s, p) \/ SwitchOff(s, p) \/ RequestCode(s, p)
       \/ SignMove(s, p) \/ SweepUsers(s, p) \/ \E q \in Host : ImportRepo(s, p, q)
  \/ \E s \in Slot :
       \/ OpenCopy(s) \/ EmptyRepo(s) \/ VerifyImport(s) \/ StoreRepo(s) \/ PointsHere(s)
       \/ ApproveCopy(s) \/ DeactivateCopy(s) \/ VoidCodes(s) \/ InsertCode(s) \/ SignNext(s)
       \/ AskDirectory(s) \/ Unflag(s) \/ Flag(s) \/ Wipe(s) \/ AccountsFail(s)
  \/ \E op \in signed : SubmitMove(op)
  \/ \E q \in Host : OwnMove(q)

-----------------------------------------------------------------------------
AccountsTypeOK ==
  /\ lives \in Seq(Host) /\ Len(lives) \in 1..(MaxMoves + 1)
  /\ signed \subseteq [after: 1..(MaxMoves + 1), to: Host]
  /\ codes \in [Host -> 0..Cardinality(Slot)]
  /\ users \in [Host -> [status: {"none", "deactivated", "approved"}, migrating: BOOLEAN,
                         flagged: BOOLEAN, signer: Host \cup {NoHost}, lived: BOOLEAN, id: Nat]]

\* Only a copy that had not been activated when the sweep read it is removed, and
\* only when its DID named another server on two sweeps in a row: that of the same
\* row, not of one in its place.  A sweep counts once it has written down what it saw.
SweepSpares == ~spoiled

accountsVars == <<requests, lives, signed, codes, users, sightings, spoiled>>
AccountsSpec == AccountsInit /\ [][AccountsNext]_accountsVars
=============================================================================

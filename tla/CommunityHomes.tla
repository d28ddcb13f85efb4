-------------------------- MODULE CommunityHomes --------------------------
(***************************************************************************)
(* A community that moves between servers.  Every server runs this code on *)
(* its own tables and keeps at most one copy; the PLC directory, which the *)
(* owner updates, says where the community lives.  Suspension, takedown    *)
(* and deletion are here too, since they write the same status.            *)
(*                                                                         *)
(* Every handler reads the copy's status, then often the directory, and    *)
(* writes in a later statement without looking again.  Of a repository     *)
(* only who signed its last commit is kept, of the attestation keys        *)
(* whether they are here.  Handles, invites, blobs and audit rows are left *)
(* out; so is a DID document that names one server and the key of another. *)
(***************************************************************************)
EXTENDS Requests

CONSTANTS
  Server,
  Nowhere   \* not a server

ASSUME NowhereAssumption == Nowhere \notin Server

VARIABLES
  home,     \* the server the DID names
  copies,   \* server -> its row of communities, its repository and keys
  excused   \* history: servers active with the DID elsewhere for a reason below

copyVars == <<home, copies>>
CopyStatuses == {"importing", "active", "suspended", "takendown", "moved"}
Absent == [status |-> "none", signer |-> Nowhere, from |-> Nowhere,
           exported |-> FALSE, keyed |-> FALSE]

HomesInit ==
  /\ RequestsInit
  /\ home = Nowhere /\ excused = {}
  /\ copies = [p \in Server |-> Absent]

Here(s) == mem[s].at
Status(p) == copies[p].status
Has(p) == Status(p) # "none"

\* What a request is about, and (history) whether the DID named this server
\* when the request asked the directory.
Bid(p) == [what |-> "homes", at |-> p, saw |-> Status(p), from |-> Nowhere, named |-> FALSE]

\* An UPDATE of the row, which changes nothing when there is none.
Put(p, field, value) ==
  copies' = IF Has(p) THEN [copies EXCEPT ![p][field] = value] ELSE copies
SetTo(s, status) ==
  LET p == Here(s) IN
  /\ Put(p, "status", status)
  /\ excused' = IF Has(p) /\ status = "active" /\ home # p /\ mem[s].named
                  THEN excused \cup {p} ELSE excused \ {p}

-----------------------------------------------------------------------------
(* A new community; the DID is made first and names this server.  Its row,  *)
(* its keys and its repository are separate commits.                        *)

CreateCommunity(s, p) ==
  /\ home = Nowhere
  /\ Begin(s, <<"insert", "repo">>, Bid(p))
  /\ home' = p
  /\ UNCHANGED <<copies, excused>>

InsertCommunity(s) ==
  /\ At(s, "insert") /\ Pass(s)
  /\ copies' = [copies EXCEPT ![Here(s)] =
                  [Absent EXCEPT !.status = "active", !.keyed = TRUE]]
  /\ excused' = IF home = Here(s) THEN excused ELSE excused \cup {Here(s)}
  /\ UNCHANGED home

\* createRepo, and every later write: the commit bears this server's key.
CreateCommunityRepo(s) ==
  /\ At(s, "repo") /\ Pass(s)
  /\ Put(Here(s), "signer", Here(s))
  /\ UNCHANGED <<home, excused>>

\* A copy that has left or is arriving is read-only; a suspended one is not.
Write(s, p) ==
  /\ Status(p) \in CopyStatuses \ {"moved", "importing"} /\ copies[p].signer # Nowhere
  /\ Begin(s, <<"repo">>, Bid(p))
  /\ UNCHANGED <<copyVars, excused>>

\* The owner updates the DID, to what a server that has a copy recommends.
PointDid(p) ==
  /\ home \notin {p, Nowhere} /\ Has(p)
  /\ home' = p
  /\ excused' = IF Status(home) = "active" THEN (excused \ {p}) \cup {home}
                ELSE excused \ {p}
  /\ UNCHANGED <<requests, copies>>

-----------------------------------------------------------------------------
(* Moderation: what the status was is checked, then it is written.          *)

Suspend(s, p) ==
  /\ Status(p) \in CopyStatuses \ {"suspended", "takendown"}
  /\ Begin(s, <<"suspended">>, Bid(p))
  /\ UNCHANGED <<copyVars, excused>>

\* It becomes active, whatever it was before it was suspended and wherever
\* the DID points.
Unsuspend(s, p) ==
  /\ Status(p) = "suspended"
  /\ Begin(s, <<"active">>, [Bid(p) EXCEPT !.named = TRUE])
  /\ UNCHANGED <<copyVars, excused>>

Takedown(s, p) ==
  /\ Has(p) /\ Status(p) # "takendown" /\ copies[p].exported
  /\ Begin(s, <<"takendown">>, Bid(p))
  /\ UNCHANGED <<copyVars, excused>>

WriteStatus(s) ==
  /\ \E status \in CopyStatuses : At(s, status) /\ SetTo(s, status)
  /\ Pass(s)
  /\ UNCHANGED home

ExportData(s, p) ==
  /\ Has(p)
  /\ Begin(s, <<"exported">>, Bid(p))
  /\ UNCHANGED <<copyVars, excused>>

MarkExported(s) ==
  /\ At(s, "exported") /\ Pass(s)
  /\ Put(Here(s), "exported", TRUE)
  /\ UNCHANGED <<home, excused>>

DeleteCommunity(s, p) ==
  /\ Has(p)
  /\ Begin(s, <<"remove">>, Bid(p))
  /\ UNCHANGED <<copyVars, excused>>

RemoveCommunity(s) ==
  /\ At(s, "remove") /\ Pass(s)
  /\ copies' = [copies EXCEPT ![Here(s)] = Absent]
  /\ excused' = excused \ {Here(s)}
  /\ UNCHANGED home

-----------------------------------------------------------------------------
(* Arriving. *)

\* homeOf: the directory is read first, the row here afterwards.
MigrateIn(s, p) ==
  /\ home \notin {p, Nowhere}
  /\ Begin(s, <<"existing", "import", "pull">>, [Bid(p) EXCEPT !.from = home])
  /\ UNCHANGED <<copyVars, excused>>

ReadExisting(s) ==
  /\ At(s, "existing")
  /\ IF Status(Here(s)) \in {"none", "importing", "moved"}
       THEN Note(s, [mem[s] EXCEPT !.saw = Status(Here(s))])
       ELSE Answer(s)
  /\ UNCHANGED <<copyVars, excused>>

\* A first call inserts the row with fresh keys, which fails where there is
\* one by now; a later one updates whatever is there.
StartImport(s) ==
  /\ At(s, "import")
  /\ LET p == Here(s) IN
       IF mem[s].saw = "none"
         THEN /\ IF Has(p) THEN Answer(s) ELSE Pass(s)
              /\ copies' = IF Has(p) THEN copies
                           ELSE [copies EXCEPT ![p] = [Absent EXCEPT !.status = "importing",
                                                                    !.from = mem[s].from]]
              /\ UNCHANGED excused
         ELSE /\ Pass(s)
              /\ copies' = IF Has(p) THEN [copies EXCEPT ![p].status = "importing",
                                                        ![p].from = mem[s].from]
                           ELSE copies
              /\ excused' = excused \ {p}
  /\ UNCHANGED home

\* The export must bear the key the DID names by now; it is stored later, in
\* place of whatever is here then.
Pull(s) ==
  /\ At(s, "pull")
  /\ LET source == copies[mem[s].from] IN
       IF source.signer = home /\ home = mem[s].from
         THEN Turn(s, <<"store">>, mem[s]) ELSE Answer(s)
  /\ UNCHANGED <<copyVars, excused>>

StoreImport(s) ==
  /\ At(s, "store") /\ Pass(s)
  /\ Put(Here(s), "signer", mem[s].from)
  /\ UNCHANGED <<home, excused>>

ActivateCommunity(s, p) ==
  /\ Status(p) \in {"importing", "active"}
  /\ Begin(s, <<"points">>, [Bid(p) EXCEPT !.from = copies[p].from])
  /\ UNCHANGED <<copyVars, excused>>

Switching(s) == IF mem[s].saw = "importing" THEN <<"active">> ELSE <<>>

\* A slip the runs must notice: the directory is not asked.
CheckAnywhere(s) ==
  /\ At(s, "points")
  /\ Turn(s, <<"fetch">> \o Switching(s), [mem[s] EXCEPT !.named = (home = Here(s))])
  /\ UNCHANGED <<copyVars, excused>>

CheckPointsHere(s) ==
  /\ At(s, "points")
  /\ LET fetching == mem[s].from # Nowhere /\ ~copies[Here(s)].keyed IN
       IF home # Here(s) THEN Answer(s)
       ELSE Turn(s, (IF fetching THEN <<"fetch">> ELSE <<>>) \o Switching(s),
                 [mem[s] EXCEPT !.named = TRUE])
  /\ UNCHANGED <<copyVars, excused>>

Hands(p) == Status(p) \notin {"none", "importing"} /\ home # p

\* The old server hands over the keys and marks its copy as moved; or it does
\* not answer, and the community is switched on without them.
FetchKeys(s) ==
  /\ At(s, "fetch") /\ Pass(s)
  /\ \/ UNCHANGED <<copies, excused>>
     \/ LET old == mem[s].from
        IN  /\ old # Nowhere /\ Hands(old)
            /\ copies' = [copies EXCEPT ![old].status = "moved",
                            ![Here(s)].keyed = Has(Here(s)) /\ (@ \/ copies[old].keyed)]
            /\ excused' = excused \ {old}
  /\ UNCHANGED home

-----------------------------------------------------------------------------
(* Leaving: the owner says so, the new server asks for the keys, or the     *)
(* sweep finds out.  Only the sweep looks at the status when it writes.     *)

MarkMoved(s, p) ==
  /\ Has(p)
  /\ Begin(s, <<"elsewhere", "moved">>, Bid(p))
  /\ UNCHANGED <<copyVars, excused>>

GetMovedKeys(s, p) ==
  /\ Has(p) /\ Status(p) # "importing"
  /\ Begin(s, <<"elsewhere", "moved">>, Bid(p))
  /\ UNCHANGED <<copyVars, excused>>

CheckElsewhere(s) ==
  /\ At(s, "elsewhere")
  /\ IF home = Here(s) \/ mem[s].saw = "moved" THEN Answer(s) ELSE Pass(s)
  /\ UNCHANGED <<copyVars, excused>>

SweepMoved(s, p) ==
  /\ Status(p) = "active"
  /\ Begin(s, <<"elsewhere", "sweep">>, Bid(p))
  /\ UNCHANGED <<copyVars, excused>>

MarkSwept(s) ==
  /\ At(s, "sweep") /\ Pass(s)
  /\ IF Status(Here(s)) = "active" THEN SetTo(s, "moved")
     ELSE UNCHANGED <<copies, excused>>
  /\ UNCHANGED home

HomesFail(s) ==
  /\ todo[s] # <<>> /\ Answer(s)
  /\ UNCHANGED <<copyVars, excused>>

HomesNext ==
  \/ \E s \in Slot, p \in Server :
       \/ CreateCommunity(s, p) \/ Write(s, p)
       \/ Suspend(s, p) \/ Unsuspend(s, p) \/ Takedown(s, p) \/ ExportData(s, p)
       \/ DeleteCommunity(s, p) \/ MigrateIn(s, p) \/ ActivateCommunity(s, p)
       \/ MarkMoved(s, p) \/ GetMovedKeys(s, p) \/ SweepMoved(s, p)
  \/ \E s \in Slot :
       \/ InsertCommunity(s) \/ CreateCommunityRepo(s) \/ WriteStatus(s)
       \/ MarkExported(s) \/ RemoveCommunity(s) \/ ReadExisting(s) \/ StartImport(s)
       \/ Pull(s) \/ StoreImport(s) \/ CheckPointsHere(s) \/ FetchKeys(s)
       \/ CheckElsewhere(s) \/ MarkSwept(s) \/ HomesFail(s)
  \/ \E p \in Server : PointDid(p)

-----------------------------------------------------------------------------
HomesTypeOK ==
  /\ home \in Server \cup {Nowhere} /\ excused \subseteq Server
  /\ copies \in [Server -> [status: CopyStatuses \cup {"none"}, signer: Server \cup {Nowhere},
                            from: Server \cup {Nowhere}, exported: BOOLEAN, keyed: BOOLEAN]]

\* One community, one live home: a copy is active only where the DID points.
\* The exceptions are a copy the DID has left that has not been told yet, one
\* whose creation or activation had checked the directory when the DID left,
\* and one that an administrator reinstated.
ActiveAtHome ==
  \A p \in Server : Status(p) = "active" => home = p \/ p \in excused

homesVars == <<requests, home, copies, excused>>
HomesSpec == HomesInit /\ [][HomesNext]_homesVars
=============================================================================

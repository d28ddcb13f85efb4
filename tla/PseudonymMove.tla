--------------------------- MODULE PseudonymMove ---------------------------
(***************************************************************************)
(* The owner of a pseudonym moves it to another server, with the key that  *)
(* alone may change its DID: the client opens an account there, carries    *)
(* the repository and its blobs over, checks that they arrived, points the *)
(* DID there, switches the new account on and the old one off.  The owner  *)
(* may write meanwhile from elsewhere, and start again from another device *)
(* what was cut short or is still under way.                               *)
(*                                                                         *)
(* A repository is the number of records in it, each with a blob of its    *)
(* own.  Each call is one step here: AccountHomes has what happens within  *)
(* them.                                                                   *)
(***************************************************************************)
EXTENDS Requests

CONSTANT Records   \* bound: records ever written

ASSUME RecordsAssumption == Records \in Nat \ {0}

VARIABLES
  pointer,   \* the home the DID names
  oldHome,   \* its account: switched on, and the records of its repository
  newHome,   \* its account, the records of the repository and the blobs it holds
  movePast   \* history: records written at the old home after the last export
             \* to be imported, and whether two moves crossed

NoAccount == [status |-> "none", records |-> 0, blobs |-> {}]
moveTables == <<pointer, oldHome, newHome>>

MoveInit ==
  /\ RequestsInit
  /\ pointer = "old"
  /\ oldHome \in [active : {TRUE}, records : {0, 1}]
  /\ newHome = NoAccount
  /\ movePast = [late |-> {}, crossed |-> FALSE]

Moving == {s \in Slot : todo[s] # <<>>}

-----------------------------------------------------------------------------
\* A slip the runs must notice: the old home is switched off before the new
\* one is on.
StartRetiring(s) ==
  /\ Begin(s, <<"open", "export", "import", "blobs", "check", "point", "retire", "activate">>,
           [what |-> "move", root |-> 0, as |-> "none"])
  /\ movePast' = [movePast EXCEPT !.crossed = @ \/ Moving # {}]
  /\ UNCHANGED moveTables

StartMove(s) ==
  /\ Begin(s, <<"open", "export", "import", "blobs", "check", "point", "activate", "retire">>,
           [what |-> "move", root |-> 0, as |-> "none"])
  /\ movePast' = [movePast EXCEPT !.crossed = @ \/ Moving # {}]
  /\ UNCHANGED moveTables

\* openAccountForMove, or the session of the account that is there already.
OpenAccountForMove(s) ==
  /\ At(s, "open")
  /\ newHome' = IF newHome.status = "none" THEN [newHome EXCEPT !.status = "deactivated"] ELSE newHome
  /\ Note(s, [mem[s] EXCEPT !.as = newHome'.status])
  /\ UNCHANGED <<pointer, oldHome, movePast>>

\* Switching the account on ends the sessions it had while it was off.
LoggedIn(s) == mem[s].as = newHome.status

\* Anybody may read the repository, of a switched-off account too.
ExportRepo(s) ==
  /\ At(s, "export")
  /\ Note(s, [mem[s] EXCEPT !.root = oldHome.records])
  /\ UNCHANGED <<moveTables, movePast>>

\* Only into a switched-off account, and only signed by the key the DID names:
\* once it is pointed elsewhere the old home's export is refused.
ImportAtNew(s) ==
  /\ At(s, "import") /\ LoggedIn(s) /\ newHome.status = "deactivated" /\ pointer = "old" /\ Pass(s)
  /\ newHome' = [newHome EXCEPT !.records = mem[s].root]
  /\ movePast' = [movePast EXCEPT !.late = (mem[s].root + 1)..oldHome.records]
  /\ UNCHANGED <<pointer, oldHome>>

(* copyMissingBlobs: asks what is missing until nothing is. *)
MissingBlobs == (1..newHome.records) \ newHome.blobs

CopyBlob(s, b) ==
  /\ At(s, "blobs") /\ LoggedIn(s) /\ b \in MissingBlobs
  /\ newHome' = [newHome EXCEPT !.blobs = @ \cup {b}]
  /\ UNCHANGED <<requests, pointer, oldHome, movePast>>

NoneMissing(s) ==
  /\ At(s, "blobs") /\ LoggedIn(s) /\ MissingBlobs = {} /\ Pass(s)
  /\ UNCHANGED <<moveTables, movePast>>

\* checkAccountStatus: the very root that was exported, not an empty one, and
\* every blob.
CheckArrived(s) ==
  /\ At(s, "check") /\ LoggedIn(s)
  /\ IF newHome.records = mem[s].root /\ newHome.records # 0 /\ MissingBlobs = {}
     THEN Pass(s) ELSE Answer(s)
  /\ UNCHANGED <<moveTables, movePast>>

Point(s) ==
  /\ At(s, "point") /\ LoggedIn(s) /\ Pass(s)
  /\ pointer' = "new"
  /\ UNCHANGED <<oldHome, newHome, movePast>>

\* activateAccount looks where the DID points.
ActivateNew(s) ==
  /\ At(s, "activate") /\ LoggedIn(s) /\ newHome.status = "deactivated" /\ pointer = "new" /\ Pass(s)
  /\ newHome' = [newHome EXCEPT !.status = "approved"]
  /\ UNCHANGED <<pointer, oldHome, movePast>>

RetireOld(s) ==
  /\ At(s, "retire") /\ Pass(s)
  /\ oldHome' = [oldHome EXCEPT !.active = FALSE]
  /\ UNCHANGED <<pointer, newHome, movePast>>

\* A call that is refused, fails or whose answer is lost ends the move there.
MoveStops(s) == todo[s] # <<>> /\ Answer(s) /\ UNCHANGED <<moveTables, movePast>>

\* The owner writes at the old home, which serves as long as it is switched on.
WriteAtOld ==
  /\ oldHome.active /\ oldHome.records < Records
  /\ oldHome' = [oldHome EXCEPT !.records = @ + 1]
  /\ movePast' = [movePast EXCEPT !.late = @ \cup {oldHome.records + 1}]
  /\ UNCHANGED <<requests, pointer, newHome>>

MoveNext ==
  \/ \E s \in Slot :
       \/ StartMove(s) \/ OpenAccountForMove(s) \/ ExportRepo(s) \/ ImportAtNew(s)
       \/ \E b \in 1..Records : CopyBlob(s, b)
       \/ NoneMissing(s) \/ CheckArrived(s) \/ Point(s) \/ ActivateNew(s) \/ RetireOld(s) \/ MoveStops(s)
  \/ WriteAtOld

-----------------------------------------------------------------------------
MoveTypeOK ==
  /\ pointer \in {"old", "new"} /\ oldHome.records \in 0..Records
  /\ newHome \in [status : {"none", "deactivated", "approved"}, records : 0..Records,
                  blobs : SUBSET (1..Records)]

\* Wherever a move is cut short, the old home works until the new one does,
\* and does not while the DID names the old.  What the DID names after that has
\* every record but those written after the export, and is a whole repository
\* with its blobs unless two moves crossed.
MoveKeepsHome ==
  /\ pointer = "old" => oldHome.active /\ newHome.status # "approved"
  /\ ~oldHome.active => newHome.status = "approved"
  /\ pointer = "new" =>
       /\ (1..oldHome.records) \ movePast.late \subseteq 1..newHome.records
       /\ movePast.crossed \/ (newHome.records # 0 /\ MissingBlobs = {})

moveVars == <<requests, moveTables, movePast>>
MoveSpec == MoveInit /\ [][MoveNext]_moveVars
=============================================================================

----------------------------- MODULE HomesProofs -----------------------------
(***************************************************************************)
(* Proofs about what moves between servers: a community and its one live   *)
(* home (CommunityHomes), an account's copies and the                      *)
(* sweep of those that never arrived (AccountHomes), a pseudonym moved by  *)
(* its owner's client (PseudonymMove).  For any number of servers, of      *)
(* requests at a time, and of them ever made.                              *)
(***************************************************************************)
EXTENDS CommunityHomes, AccountHomes, PseudonymMove, RequestsProofs

-----------------------------------------------------------------------------
(* A community that moves: one live home.                                  *)

HomesStatement ==
  {"insert", "repo", "exported", "remove", "existing", "import", "pull", "store", "points",
   "fetch", "elsewhere", "sweep"} \cup CopyStatuses

CopyRow == [status: CopyStatuses \cup {"none"}, signer: Server \cup {Nowhere},
            from: Server \cup {Nowhere}, exported: BOOLEAN, keyed: BOOLEAN]
BidRecord == [what: {"homes"}, at: Server, saw: CopyStatuses \cup {"none"},
              from: Server \cup {Nowhere}, named: BOOLEAN]

\* Who is about to make a copy active has asked the directory, or need not.
Backed(s) == Steps(s) # {} => mem[s] \in BidRecord /\ ("active" \in Steps(s) => mem[s].named)

\* An excuse ends with the status it is for.
CopiesSound ==
  /\ HomesTypeOK /\ ActiveAtHome
  /\ \A p \in excused : Status(p) = "active"

HomesSound == Requested(HomesStatement) /\ CopiesSound /\ \A s \in Slot : Backed(s)

LEMMA BidIsRecord ==
  ASSUME HomesTypeOK, NEW p \in Server
  PROVE  /\ Bid(p) \in BidRecord /\ Bid(p).at = p
         /\ [Bid(p) EXCEPT !.named = TRUE] \in BidRecord
         /\ [Bid(p) EXCEPT !.named = TRUE].named
         /\ \A q \in Server \cup {Nowhere} : [Bid(p) EXCEPT !.from = q] \in BidRecord
<1>1. copies[p].status \in CopyStatuses \cup {"none"}
  BY DEF HomesTypeOK
<1> DEFINE b == copies[p].status
<1>2. Bid(p) = [what |-> "homes", at |-> p, saw |-> b, from |-> Nowhere, named |-> FALSE]
  BY DEF Bid, Status
<1>3. b \in CopyStatuses \cup {"none"}
  BY <1>1
<1> HIDE DEF b
<1>4. Bid(p) \in BidRecord
  BY <1>2, <1>3 DEF BidRecord
<1>5. Bid(p).at = p
  BY <1>2
<1> DEFINE c == Bid(p)
<1> HIDE DEF c
<1>6. c \in BidRecord
  BY <1>4 DEF c
<1>7. [c EXCEPT !.named = TRUE] \in BidRecord
  BY <1>6 DEF BidRecord
<1>8. [c EXCEPT !.named = TRUE].named
  BY <1>6 DEF BidRecord
<1>9. \A q \in Server \cup {Nowhere} : [c EXCEPT !.from = q] \in BidRecord
  BY <1>6 DEF BidRecord
<1> QED
  BY <1>4, <1>5, <1>7, <1>8, <1>9 DEF c

LEMMA CopyChanges ==
  ASSUME NEW c \in CopyRow
  PROVE  /\ c.status \in CopyStatuses \cup {"none"} /\ c.from \in Server \cup {Nowhere}
         /\ \A v \in CopyStatuses : [c EXCEPT !.status = v] \in CopyRow
         /\ \A v : [c EXCEPT !.status = v].status = v
         /\ \A q \in Server \cup {Nowhere} :
              [c EXCEPT !.signer = q] \in CopyRow /\ [c EXCEPT !.signer = q].status = c.status
         /\ [c EXCEPT !.exported = TRUE] \in CopyRow /\ [c EXCEPT !.exported = TRUE].status = c.status
         /\ \A b \in BOOLEAN :
              [c EXCEPT !.keyed = b] \in CopyRow /\ [c EXCEPT !.keyed = b].status = c.status
         /\ \A q \in Server \cup {Nowhere} :
              [c EXCEPT !.status = "importing", !.from = q] \in CopyRow
BY DEF CopyRow, CopyStatuses

LEMMA NewCopies ==
  /\ Absent \in CopyRow /\ Absent.status = "none"
  /\ [Absent EXCEPT !.status = "active", !.keyed = TRUE] \in CopyRow
  /\ [Absent EXCEPT !.status = "active", !.keyed = TRUE].status = "active"
  /\ \A q \in Server \cup {Nowhere} :
       /\ [Absent EXCEPT !.status = "importing", !.from = q] \in CopyRow
       /\ [Absent EXCEPT !.status = "importing", !.from = q].status = "importing"
BY DEF CopyRow, CopyStatuses, Absent

-----------------------------------------------------------------------------
LEMMA OthersBacked ==
  ASSUME HomesSound, NEW s \in Slot, OthersWait(s)
  PROVE  \A t \in Slot \ {s} : Backed(t)'
BY DEF HomesSound, OthersWait, Backed, Steps

LEMMA PassBacks ==
  ASSUME HomesSound, NEW s \in Slot, NEW x, At(s, x), Pass(s)
  PROVE  /\ Requested(HomesStatement)' /\ \A t \in Slot : Backed(t)'
         /\ mem[s] \in BidRecord /\ (x = "active" => mem[s].named)
<1>1. /\ Requested(HomesStatement)' /\ OthersWait(s) /\ Follows(s, x)
      /\ Steps(s)' # {} => mem'[s] = mem[s]
  BY PassMoves DEF HomesSound
<1>2. mem[s] \in BidRecord /\ (x = "active" => mem[s].named)
  BY <1>1 DEF HomesSound, Backed, Follows
<1>3. Backed(s)'
  BY <1>1, <1>2 DEF HomesSound, Backed, Follows
<1> QED
  BY <1>1, <1>2, <1>3, OthersBacked

LEMMA NoteBacks ==
  ASSUME HomesSound, NEW s \in Slot, NEW x, At(s, x), NEW m \in BidRecord, m.named = mem[s].named,
         Note(s, m)
  PROVE  Requested(HomesStatement)' /\ \A t \in Slot : Backed(t)'
<1>1. /\ Requested(HomesStatement)' /\ OthersWait(s) /\ Follows(s, x)
      /\ Steps(s)' # {} => mem'[s] = m
  BY NoteMoves DEF HomesSound
<1>2. Backed(s)'
  BY <1>1 DEF HomesSound, Backed, Follows
<1> QED
  BY <1>1, <1>2, OthersBacked

LEMMA AnswerBacks ==
  ASSUME HomesSound, NEW s \in Slot, Answer(s)
  PROVE  Requested(HomesStatement)' /\ \A t \in Slot : Backed(t)'
<1>1. Requested(HomesStatement)' /\ OthersWait(s) /\ todo'[s] = <<>>
  BY AnswerMoves DEF HomesSound
<1>2. Backed(s)'
  BY <1>1, NoneLeft DEF Backed
<1> QED
  BY <1>1, <1>2, OthersBacked

LEMMA NewBacks ==
  ASSUME HomesSound, NEW s \in Slot, NEW steps \in Seq(HomesStatement), NEW m \in BidRecord,
         \A i \in DOMAIN steps : steps[i] = "active" => m.named,
         Begin(s, steps, m) \/ Turn(s, steps, m)
  PROVE  Requested(HomesStatement)' /\ \A t \in Slot : Backed(t)'
<1>1. /\ Requested(HomesStatement)' /\ OthersWait(s) /\ todo'[s] = steps
      /\ steps # <<>> => mem'[s] = m
  BY TurnMoves, BeginMoves DEF HomesSound
<1>2. CASE steps = <<>>
  <2>1. Backed(s)'
    BY <1>1, <1>2, NoneLeft DEF Backed
  <2> QED
    BY <1>1, <2>1, OthersBacked
<1>3. CASE steps # <<>>
  <2>1. Backed(s)'
    BY <1>1, <1>3 DEF Backed, Steps
  <2> QED
    BY <1>1, <2>1, OthersBacked
<1> QED
  BY <1>2, <1>3

LEMMA CopiesStay ==
  ASSUME HomesSound, Requested(HomesStatement)', \A t \in Slot : Backed(t)',
         UNCHANGED <<copyVars, excused>>
  PROVE  HomesSound'
BY DEF HomesSound, CopiesSound, HomesTypeOK, ActiveAtHome, Status, copyVars

LEMMA AskingKeeps ==
  ASSUME HomesSound, NEW s \in Slot, NEW p \in Server,
         \/ Write(s, p) \/ Suspend(s, p) \/ Unsuspend(s, p) \/ Takedown(s, p) \/ ExportData(s, p)
         \/ DeleteCommunity(s, p) \/ MigrateIn(s, p) \/ ActivateCommunity(s, p)
         \/ MarkMoved(s, p) \/ GetMovedKeys(s, p) \/ SweepMoved(s, p)
  PROVE  HomesSound'
<1> DEFINE Begun == Requested(HomesStatement)' /\ \A t \in Slot : Backed(t)'
           b == Bid(p)
<1>0. /\ home \in Server \cup {Nowhere} /\ copies[p].from \in Server \cup {Nowhere}
      /\ b \in BidRecord /\ [b EXCEPT !.named = TRUE] \in BidRecord /\ [b EXCEPT !.named = TRUE].named
      /\ \A q \in Server \cup {Nowhere} : [b EXCEPT !.from = q] \in BidRecord
  BY BidIsRecord DEF HomesSound, CopiesSound, HomesTypeOK
<1> HIDE DEF b
<1>1. ASSUME NEW steps \in Seq(HomesStatement), NEW m \in BidRecord, Begin(s, steps, m),
             \A i \in DOMAIN steps : steps[i] # "active"
      PROVE  Begun
  BY <1>1, NewBacks
<1>2. ASSUME Write(s, p) PROVE Begun
  <2> DEFINE steps == <<"repo">>
  <2>1. steps \in Seq(HomesStatement) /\ \A i \in DOMAIN steps : steps[i] # "active"
    BY DEF HomesStatement, CopyStatuses
  <2>2. Begin(s, steps, b)
    BY <1>2 DEF Write, b
  <2> HIDE DEF Begun, steps
  <2> QED
    BY <1>0, <1>1, <2>1, <2>2
<1>3. ASSUME Suspend(s, p) PROVE Begun
  <2> DEFINE steps == <<"suspended">>
  <2>1. steps \in Seq(HomesStatement) /\ \A i \in DOMAIN steps : steps[i] # "active"
    BY DEF HomesStatement, CopyStatuses
  <2>2. Begin(s, steps, b)
    BY <1>3 DEF Suspend, b
  <2> HIDE DEF Begun, steps
  <2> QED
    BY <1>0, <1>1, <2>1, <2>2
<1>4. ASSUME Takedown(s, p) PROVE Begun
  <2> DEFINE steps == <<"takendown">>
  <2>1. steps \in Seq(HomesStatement) /\ \A i \in DOMAIN steps : steps[i] # "active"
    BY DEF HomesStatement, CopyStatuses
  <2>2. Begin(s, steps, b)
    BY <1>4 DEF Takedown, b
  <2> HIDE DEF Begun, steps
  <2> QED
    BY <1>0, <1>1, <2>1, <2>2
<1>5. ASSUME ExportData(s, p) PROVE Begun
  <2> DEFINE steps == <<"exported">>
  <2>1. steps \in Seq(HomesStatement) /\ \A i \in DOMAIN steps : steps[i] # "active"
    BY DEF HomesStatement, CopyStatuses
  <2>2. Begin(s, steps, b)
    BY <1>5 DEF ExportData, b
  <2> HIDE DEF Begun, steps
  <2> QED
    BY <1>0, <1>1, <2>1, <2>2
<1>6. ASSUME DeleteCommunity(s, p) PROVE Begun
  <2> DEFINE steps == <<"remove">>
  <2>1. steps \in Seq(HomesStatement) /\ \A i \in DOMAIN steps : steps[i] # "active"
    BY DEF HomesStatement, CopyStatuses
  <2>2. Begin(s, steps, b)
    BY <1>6 DEF DeleteCommunity, b
  <2> HIDE DEF Begun, steps
  <2> QED
    BY <1>0, <1>1, <2>1, <2>2
<1>7. ASSUME MigrateIn(s, p) PROVE Begun
  <2> DEFINE steps == <<"existing", "import", "pull">>
  <2>1. steps \in Seq(HomesStatement) /\ \A i \in DOMAIN steps : steps[i] # "active"
    BY DEF HomesStatement, CopyStatuses
  <2>2. Begin(s, steps, [b EXCEPT !.from = home])
    BY <1>7 DEF MigrateIn, b
  <2> HIDE DEF Begun, steps
  <2> QED
    BY <1>0, <1>1, <2>1, <2>2
<1>8. ASSUME ActivateCommunity(s, p) PROVE Begun
  <2> DEFINE steps == <<"points">>
  <2>1. steps \in Seq(HomesStatement) /\ \A i \in DOMAIN steps : steps[i] # "active"
    BY DEF HomesStatement, CopyStatuses
  <2>2. Begin(s, steps, [b EXCEPT !.from = copies[p].from])
    BY <1>8 DEF ActivateCommunity, b
  <2> HIDE DEF Begun, steps
  <2> QED
    BY <1>0, <1>1, <2>1, <2>2
<1>9. ASSUME MarkMoved(s, p) PROVE Begun
  <2> DEFINE steps == <<"elsewhere", "moved">>
  <2>1. steps \in Seq(HomesStatement) /\ \A i \in DOMAIN steps : steps[i] # "active"
    BY DEF HomesStatement, CopyStatuses
  <2>2. Begin(s, steps, b)
    BY <1>9 DEF MarkMoved, b
  <2> HIDE DEF Begun, steps
  <2> QED
    BY <1>0, <1>1, <2>1, <2>2
<1>10. ASSUME GetMovedKeys(s, p) PROVE Begun
  <2> DEFINE steps == <<"elsewhere", "moved">>
  <2>1. steps \in Seq(HomesStatement) /\ \A i \in DOMAIN steps : steps[i] # "active"
    BY DEF HomesStatement, CopyStatuses
  <2>2. Begin(s, steps, b)
    BY <1>10 DEF GetMovedKeys, b
  <2> HIDE DEF Begun, steps
  <2> QED
    BY <1>0, <1>1, <2>1, <2>2
<1>11. ASSUME SweepMoved(s, p) PROVE Begun
  <2> DEFINE steps == <<"elsewhere", "sweep">>
  <2>1. steps \in Seq(HomesStatement) /\ \A i \in DOMAIN steps : steps[i] # "active"
    BY DEF HomesStatement, CopyStatuses
  <2>2. Begin(s, steps, b)
    BY <1>11 DEF SweepMoved, b
  <2> HIDE DEF Begun, steps
  <2> QED
    BY <1>0, <1>1, <2>1, <2>2
<1>12. ASSUME Unsuspend(s, p) PROVE Begun
  <2> DEFINE steps == <<"active">>
             m == [b EXCEPT !.named = TRUE]
  <2>1. steps \in Seq(HomesStatement)
    BY DEF HomesStatement, CopyStatuses
  <2>2. Begin(s, steps, m)
    BY <1>12 DEF Unsuspend, b
  <2>3. m \in BidRecord /\ m.named
    BY <1>0
  <2> HIDE DEF steps, m
  <2> QED
    BY <2>1, <2>2, <2>3, NewBacks
<1>20. Begun
  BY <1>2, <1>3, <1>4, <1>5, <1>6, <1>7, <1>8, <1>9, <1>10, <1>11, <1>12
<1>21. UNCHANGED <<copyVars, excused>>
  BY DEF Write, Suspend, Unsuspend, Takedown, ExportData, DeleteCommunity, MigrateIn,
     ActivateCommunity, MarkMoved, GetMovedKeys, SweepMoved
<1> QED
  BY <1>20, <1>21, CopiesStay

LEMMA ReadingKeeps ==
  ASSUME HomesSound, NEW s \in Slot,
         \/ ReadExisting(s) \/ Pull(s) \/ CheckPointsHere(s) \/ CheckElsewhere(s) \/ HomesFail(s)
  PROVE  HomesSound'
<1>1. UNCHANGED <<copyVars, excused>>
  BY DEF ReadExisting, Pull, CheckPointsHere, CheckElsewhere, HomesFail
<1>2. CASE Answer(s)
  BY <1>1, <1>2, AnswerBacks, CopiesStay
<1>3. CASE Pass(s) /\ CheckElsewhere(s)
  BY <1>1, <1>3, PassBacks, CopiesStay DEF CheckElsewhere
<1>4. ASSUME NEW x, At(s, x)
      PROVE  mem[s] \in BidRecord
  BY <1>4, NextIsPending DEF HomesSound, Backed
<1>5. CASE ReadExisting(s) /\ ~Answer(s)
  <2>1. At(s, "existing") /\ Note(s, [mem[s] EXCEPT !.saw = Status(Here(s))])
    BY <1>5 DEF ReadExisting
  <2>2. mem[s] \in BidRecord /\ Status(Here(s)) \in CopyStatuses \cup {"none"}
    BY <1>4, <2>1 DEF Status, Here, BidRecord, HomesSound, CopiesSound, HomesTypeOK
  <2> DEFINE v == Status(Here(s))
  <2> HIDE DEF v
  <2>3. /\ [mem[s] EXCEPT !.saw = v] \in BidRecord
        /\ [mem[s] EXCEPT !.saw = v].named = mem[s].named
    BY <2>2 DEF BidRecord, v
  <2> QED
    BY <1>1, <2>1, <2>3, NoteBacks, CopiesStay DEF v
<1>6. CASE Pull(s) /\ ~Answer(s)
  <2>1. At(s, "pull") /\ Turn(s, <<"store">>, mem[s])
    BY <1>6 DEF Pull
  <2>2. mem[s] \in BidRecord /\ <<"store">> \in Seq(HomesStatement)
    BY <1>4, <2>1 DEF HomesStatement
  <2>3. \A i \in DOMAIN <<"store">> : <<"store">>[i] = "active" => mem[s].named
    OBVIOUS
  <2> QED
    BY <1>1, <2>1, <2>2, <2>3, NewBacks, CopiesStay
<1>7. CASE CheckPointsHere(s) /\ ~Answer(s)
  <2> DEFINE m == [mem[s] EXCEPT !.named = TRUE]
  <2>1. At(s, "points")
    BY <1>7 DEF CheckPointsHere
  <2>2. \E a \in {<<>>, <<"fetch">>}, b \in {<<>>, <<"active">>} : Turn(s, a \o b, m)
    BY <1>7 DEF CheckPointsHere, Switching
  <2>3. m \in BidRecord /\ m.named
    BY <1>4, <2>1 DEF BidRecord
  <2> HIDE DEF m
  <2>4. PICK a \in {<<>>, <<"fetch">>}, b \in {<<>>, <<"active">>} : Turn(s, a \o b, m)
    BY <2>2
  <2>5. a \in Seq(HomesStatement) /\ b \in Seq(HomesStatement)
    <3>1. /\ <<>> \in Seq(HomesStatement) /\ <<"fetch">> \in Seq(HomesStatement)
          /\ <<"active">> \in Seq(HomesStatement)
      BY DEF HomesStatement, CopyStatuses
    <3> QED
      BY <3>1
  <2>6. a \o b \in Seq(HomesStatement)
    BY <2>5
  <2>7. \A i \in DOMAIN (a \o b) : (a \o b)[i] = "active" => m.named
    BY <2>3
  <2> QED
    BY <1>1, <2>3, <2>4, <2>6, <2>7, NewBacks, CopiesStay
<1> QED
  BY <1>2, <1>3, <1>5, <1>6, <1>7 DEF ReadExisting, Pull, CheckPointsHere, CheckElsewhere, HomesFail

-----------------------------------------------------------------------------
\* One copy is written; whether the community may be active there is told.
LEMMA CopyWritten ==
  ASSUME CopiesSound, NEW p \in Server, NEW row \in CopyRow,
         copies' = [copies EXCEPT ![p] = row], home' = home,
         excused' \subseteq Server, \A q \in Server \ {p} : q \in excused' <=> q \in excused,
         row.status = "active" => home = p \/ p \in excused',
         p \in excused' => row.status = "active"
  PROVE  CopiesSound'
<1>1. copies \in [Server -> CopyRow] /\ home \in Server \cup {Nowhere} /\ excused \subseteq Server
  BY DEF CopiesSound, HomesTypeOK, CopyRow
<1>2. copies' \in [Server -> CopyRow]
  BY <1>1
<1>3. HomesTypeOK'
  BY <1>1, <1>2 DEF HomesTypeOK, CopyRow
<1>4. copies'[p].status = row.status /\ \A q \in Server \ {p} : copies'[q].status = copies[q].status
  BY <1>1
<1>5. ActiveAtHome'
  BY <1>4 DEF CopiesSound, ActiveAtHome, Status
<1>6. \A q \in excused' : Status(q)' = "active"
  BY <1>4 DEF CopiesSound, Status
<1> QED
  BY <1>3, <1>5, <1>6 DEF CopiesSound

\* The same when nothing is written about being active.
LEMMA CopyTouched ==
  ASSUME CopiesSound, NEW p \in Server, NEW row \in CopyRow, row.status = Status(p),
         copies' = [copies EXCEPT ![p] = row], home' = home, excused' = excused
  PROVE  CopiesSound'
<1>1. row.status = "active" => home = p \/ p \in excused'
  BY DEF CopiesSound, ActiveAtHome
<1>2. p \in excused' => row.status = "active"
  BY DEF CopiesSound
<1>3. excused' \subseteq Server
  BY DEF CopiesSound, HomesTypeOK
<1> QED
  BY <1>1, <1>2, <1>3, CopyWritten

LEMMA CopyIsRow ==
  ASSUME CopiesSound, NEW p \in Server
  PROVE  copies[p] \in CopyRow
BY DEF CopiesSound, HomesTypeOK, CopyRow

LEMMA CopyUnwritten ==
  ASSUME CopiesSound, copies' = copies, home' = home, excused' \subseteq excused,
         \A p \in excused : p \in excused' \/ Status(p) # "active"
  PROVE  CopiesSound'
BY DEF CopiesSound, HomesTypeOK, ActiveAtHome, Status

\* An UPDATE of the status, by a request that may make it active.
LEMMA StatusWritten ==
  ASSUME CopiesSound, NEW s \in Slot, NEW status \in CopyStatuses, SetTo(s, status), home' = home,
         Here(s) \in Server, status = "active" => mem[s].named
  PROVE  CopiesSound'
<1> DEFINE p == Here(s)
           row == [copies[p] EXCEPT !.status = status]
<1>1. copies[p] \in CopyRow /\ copies \in [Server -> CopyRow] /\ p \in Server
  BY DEF CopiesSound, HomesTypeOK, CopyRow
<1>2. row \in CopyRow /\ row.status = status
  BY <1>1, CopyChanges
<1>3. /\ copies' = IF Has(p) THEN [copies EXCEPT ![p] = row] ELSE copies
      /\ excused' = IF Has(p) /\ status = "active" /\ home # p /\ mem[s].named
                      THEN excused \cup {p} ELSE excused \ {p}
  BY DEF SetTo, Put
<1>4. excused \subseteq Server
  BY DEF CopiesSound, HomesTypeOK
<1> HIDE DEF p, row
<1>5. CASE Has(p)
  <2>1. status = "active" => home = p \/ p \in excused'
    BY <1>3, <1>5
  <2>2. p \in excused' => status = "active"
    BY <1>3, <1>5
  <2>3. excused' \subseteq Server /\ \A q \in Server \ {p} : q \in excused' <=> q \in excused
    BY <1>1, <1>3, <1>4
  <2> QED
    BY <1>1, <1>2, <1>3, <1>5, <2>1, <2>2, <2>3, CopyWritten
<1>6. CASE ~Has(p)
  <2>1. Status(p) # "active"
    BY <1>6 DEF Has
  <2> QED
    BY <1>3, <1>6, <2>1, CopyUnwritten
<1> QED
  BY <1>5, <1>6

LEMMA WritingKeeps ==
  ASSUME HomesSound, NEW s \in Slot,
         \/ InsertCommunity(s) \/ CreateCommunityRepo(s) \/ WriteStatus(s) \/ MarkExported(s)
         \/ RemoveCommunity(s) \/ StoreImport(s) \/ MarkSwept(s)
  PROVE  HomesSound'
<1> DEFINE p == Here(s)
<1>0. PICK x : At(s, x) /\ Pass(s) /\ (WriteStatus(s) => x \in CopyStatuses /\ SetTo(s, x))
  BY DEF InsertCommunity, CreateCommunityRepo, WriteStatus, MarkExported, RemoveCommunity,
     StoreImport, MarkSwept
<1>1. /\ Requested(HomesStatement)' /\ \A t \in Slot : Backed(t)'
      /\ mem[s] \in BidRecord /\ (x = "active" => mem[s].named)
  BY <1>0, PassBacks
<1>2. CopiesSound /\ p \in Server /\ mem[s].from \in Server \cup {Nowhere}
  BY <1>1 DEF HomesSound, BidRecord, Here
<1>3. copies[p] \in CopyRow /\ copies \in [Server -> CopyRow] /\ excused \subseteq Server
  BY <1>2, CopyIsRow DEF CopiesSound, HomesTypeOK, CopyRow
<1>4. UNCHANGED home
  BY DEF InsertCommunity, CreateCommunityRepo, WriteStatus, MarkExported, RemoveCommunity,
     StoreImport, MarkSwept
<1>5. CopiesSound'
  <2>1. CASE InsertCommunity(s)
    <3> DEFINE row == [Absent EXCEPT !.status = "active", !.keyed = TRUE]
    <3>1. row \in CopyRow /\ row.status = "active"
      BY NewCopies
    <3>2. copies' = [copies EXCEPT ![p] = row]
      BY <2>1 DEF InsertCommunity
    <3>3. excused' = IF home = p THEN excused ELSE excused \cup {p}
      BY <2>1 DEF InsertCommunity
    <3> HIDE DEF row, p
    <3>4. excused' \subseteq Server /\ \A q \in Server \ {p} : q \in excused' <=> q \in excused
      BY <1>2, <1>3, <3>3
    <3>5. home = p \/ p \in excused'
      BY <3>3
    <3> QED
      BY <1>2, <1>4, <3>1, <3>2, <3>4, <3>5, CopyWritten
  <2>2. CASE CreateCommunityRepo(s) \/ StoreImport(s)
    <3>1. PICK q \in Server \cup {Nowhere} : Put(p, "signer", q) /\ UNCHANGED excused
      BY <1>2, <2>2 DEF CreateCommunityRepo, StoreImport
    <3> DEFINE row == [copies[p] EXCEPT !.signer = q]
    <3>2. row \in CopyRow /\ row.status = Status(p)
      BY <1>3, CopyChanges DEF Status
    <3>3. copies' = [copies EXCEPT ![p] = row] \/ copies' = copies
      BY <3>1 DEF Put
    <3> HIDE DEF row, p
    <3>4. CASE copies' = [copies EXCEPT ![p] = row]
      BY <1>2, <1>4, <3>1, <3>2, <3>4, CopyTouched
    <3>5. CASE copies' = copies
      BY <1>2, <1>4, <3>1, <3>5, CopyUnwritten
    <3> QED
      BY <3>3, <3>4, <3>5
  <2>3. CASE WriteStatus(s)
    BY <1>0, <1>1, <1>2, <1>4, <2>3, StatusWritten
  <2>4. CASE MarkExported(s)
    <3>1. Put(p, "exported", TRUE) /\ UNCHANGED excused
      BY <2>4 DEF MarkExported
    <3> DEFINE row == [copies[p] EXCEPT !.exported = TRUE]
    <3>2. row \in CopyRow /\ row.status = Status(p)
      BY <1>3, CopyChanges DEF Status
    <3>3. copies' = [copies EXCEPT ![p] = row] \/ copies' = copies
      BY <3>1 DEF Put
    <3> HIDE DEF row, p
    <3>4. CASE copies' = [copies EXCEPT ![p] = row]
      BY <1>2, <1>4, <3>1, <3>2, <3>4, CopyTouched
    <3>5. CASE copies' = copies
      BY <1>2, <1>4, <3>1, <3>5, CopyUnwritten
    <3> QED
      BY <3>3, <3>4, <3>5
  <2>5. CASE RemoveCommunity(s)
    <3>1. copies' = [copies EXCEPT ![p] = Absent] /\ excused' = excused \ {p}
      BY <2>5 DEF RemoveCommunity
    <3> HIDE DEF p
    <3>2. excused' \subseteq Server /\ p \notin excused'
          /\ \A q \in Server \ {p} : q \in excused' <=> q \in excused
      BY <1>3, <3>1
    <3> QED
      BY <1>2, <1>4, <3>1, <3>2, NewCopies, CopyWritten
  <2>6. CASE MarkSwept(s)
    <3>1. SetTo(s, "moved") \/ UNCHANGED <<copies, excused>>
      BY <2>6 DEF MarkSwept
    <3>2. CASE SetTo(s, "moved")
      BY <1>2, <1>4, <3>2, StatusWritten DEF CopyStatuses
    <3>3. CASE UNCHANGED <<copies, excused>>
      BY <1>2, <1>4, <3>3, CopyUnwritten
    <3> QED
      BY <3>1, <3>2, <3>3
  <2> QED
    BY <2>1, <2>2, <2>3, <2>4, <2>5, <2>6
<1> QED
  BY <1>1, <1>5 DEF HomesSound

\* The old server's copy becomes moved, and the keys arrive here.
LEMMA FetchingKeeps ==
  ASSUME HomesSound, NEW s \in Slot, FetchKeys(s)
  PROVE  HomesSound'
<1>1. At(s, "fetch") /\ Pass(s) /\ home' = home
  BY DEF FetchKeys
<1>2. /\ Requested(HomesStatement)' /\ \A t \in Slot : Backed(t)' /\ mem[s] \in BidRecord
  BY <1>1, PassBacks
<1>3. CopiesSound /\ Here(s) \in Server
  BY <1>2 DEF HomesSound, BidRecord, Here
<1>4. CASE UNCHANGED <<copies, excused>>
  BY <1>1, <1>2, <1>3, <1>4, CopyUnwritten DEF HomesSound
<1>5. CASE ~UNCHANGED <<copies, excused>>
  <2> DEFINE old == mem[s].from
             p == Here(s)
             moved == [copies EXCEPT ![old].status = "moved"]
  <2>1. /\ old \in Server /\ old # Nowhere
        /\ copies' = [copies EXCEPT ![old].status = "moved",
                        ![p].keyed = Has(p) /\ (@ \/ copies[old].keyed)]
        /\ excused' = excused \ {old}
    BY <1>2, <1>5 DEF FetchKeys, BidRecord
  <2>2. copies \in [Server -> CopyRow] /\ excused \subseteq Server
    BY <1>3 DEF CopiesSound, HomesTypeOK, CopyRow
  <2>3. copies[old] \in CopyRow /\ [copies[old] EXCEPT !.status = "moved"] \in CopyRow
        /\ [copies[old] EXCEPT !.status = "moved"].status = "moved"
    BY <2>1, <2>2, CopyChanges DEF CopyStatuses
  <2>4. moved \in [Server -> CopyRow] /\ moved[old].status = "moved"
        /\ \A q \in Server \ {old} : moved[q].status = copies[q].status
    BY <2>1, <2>2, <2>3
  <2>5. copies' = [moved EXCEPT ![p].keyed = Has(p) /\ (@ \/ copies[old].keyed)]
    BY <2>1
  <2>6. PICK b \in BOOLEAN : copies' = [moved EXCEPT ![p].keyed = b]
    BY <2>5
  <2> HIDE DEF old, p, moved
  <2>7. moved[p] \in CopyRow /\ p \in Server
    BY <1>3, <2>4 DEF p
  <2>8. [moved[p] EXCEPT !.keyed = b] \in CopyRow
        /\ [moved[p] EXCEPT !.keyed = b].status = moved[p].status
    BY <2>7, CopyChanges
  <2>9. copies' \in [Server -> CopyRow] /\ \A q \in Server : copies'[q].status = moved[q].status
    BY <2>4, <2>6, <2>7, <2>8
  <2>10. HomesTypeOK'
    BY <1>1, <1>3, <2>1, <2>2, <2>9 DEF CopiesSound, HomesTypeOK, CopyRow
  <2>11. ActiveAtHome'
    BY <1>1, <1>3, <2>1, <2>4, <2>9 DEF CopiesSound, ActiveAtHome, Status
  <2>12. \A q \in excused' : Status(q)' = "active"
    BY <1>3, <2>1, <2>2, <2>4, <2>9 DEF CopiesSound, Status
  <2> QED
    BY <1>2, <2>10, <2>11, <2>12 DEF HomesSound, CopiesSound
<1> QED
  BY <1>4, <1>5

LEMMA ImportingKeeps ==
  ASSUME HomesSound, NEW s \in Slot, StartImport(s)
  PROVE  HomesSound'
<1> DEFINE p == Here(s)
<1>1. At(s, "import") /\ (Answer(s) \/ Pass(s)) /\ home' = home
  BY DEF StartImport
<1>2. /\ Requested(HomesStatement)' /\ \A t \in Slot : Backed(t)' /\ mem[s] \in BidRecord
  <2>1. mem[s] \in BidRecord
    BY <1>1, NextIsPending DEF HomesSound, Backed
  <2> QED
    BY <1>1, <2>1, PassBacks, AnswerBacks
<1>3. CopiesSound /\ p \in Server /\ mem[s].from \in Server \cup {Nowhere}
  BY <1>2 DEF HomesSound, BidRecord, Here
<1>4. copies[p] \in CopyRow /\ excused \subseteq Server
  BY <1>3, CopyIsRow DEF CopiesSound, HomesTypeOK
<1> DEFINE new == [Absent EXCEPT !.status = "importing", !.from = mem[s].from]
           again == [copies[p] EXCEPT !.status = "importing", !.from = mem[s].from]
<1>5. new \in CopyRow /\ new.status = "importing" /\ again \in CopyRow /\ again.status = "importing"
  BY <1>3, <1>4, CopyChanges, NewCopies DEF CopyRow
<1>6. \/ copies' = copies /\ (excused' = excused \/ (excused' = excused \ {p} /\ ~Has(p)))
      \/ copies' = [copies EXCEPT ![p] = new] /\ excused' = excused /\ ~Has(p)
      \/ copies' = [copies EXCEPT ![p] = again] /\ excused' = excused \ {p}
  BY DEF StartImport
<1> HIDE DEF p, new, again
<1>7. p \in excused => Status(p) = "active" /\ Has(p)
  BY <1>3 DEF CopiesSound, Has
<1>8. CASE copies' = copies /\ (excused' = excused \/ (excused' = excused \ {p} /\ ~Has(p)))
  <2>1. excused' = excused
    BY <1>7, <1>8
  <2> QED
    BY <1>1, <1>2, <1>3, <1>8, <2>1, CopyUnwritten DEF HomesSound
<1>9. CASE copies' = [copies EXCEPT ![p] = new] /\ excused' = excused /\ ~Has(p)
  <2>1. p \notin excused'
    BY <1>7, <1>9
  <2> QED
    BY <1>1, <1>2, <1>3, <1>4, <1>5, <1>9, <2>1, CopyWritten DEF HomesSound
<1>10. CASE copies' = [copies EXCEPT ![p] = again] /\ excused' = excused \ {p}
  <2>1. p \notin excused' /\ excused' \subseteq Server
        /\ \A q \in Server \ {p} : q \in excused' <=> q \in excused
    BY <1>4, <1>10
  <2> QED
    BY <1>1, <1>2, <1>3, <1>5, <1>10, <2>1, CopyWritten DEF HomesSound
<1> QED
  BY <1>6, <1>8, <1>9, <1>10

LEMMA FoundingKeeps ==
  ASSUME HomesSound, NEW s \in Slot, NEW p \in Server, CreateCommunity(s, p)
  PROVE  HomesSound'
<1>1. Bid(p) \in BidRecord
  BY BidIsRecord DEF HomesSound, CopiesSound
<1> DEFINE steps == <<"insert", "repo">>
<1>2. steps \in Seq(HomesStatement) /\ \A i \in DOMAIN steps : steps[i] # "active"
  BY DEF HomesStatement
<1>3. Begin(s, steps, Bid(p)) /\ home = Nowhere /\ home' = p /\ copies' = copies /\ excused' = excused
  BY DEF CreateCommunity
<1> HIDE DEF steps
<1>4. Requested(HomesStatement)' /\ \A t \in Slot : Backed(t)'
  BY <1>1, <1>2, <1>3, NewBacks
<1>5. HomesTypeOK'
  BY <1>3 DEF HomesSound, CopiesSound, HomesTypeOK
<1>6. \A q \in Server : Status(q) = "active" => q \in excused
  BY <1>3, NowhereAssumption DEF HomesSound, CopiesSound, ActiveAtHome
<1> QED
  BY <1>3, <1>4, <1>5, <1>6 DEF HomesSound, CopiesSound, ActiveAtHome, Status

LEMMA PointingKeeps ==
  ASSUME HomesSound, NEW p \in Server, PointDid(p)
  PROVE  HomesSound'
<1>1. /\ home \notin {p, Nowhere} /\ home' = p /\ UNCHANGED <<todo, mem, spent, copies>>
      /\ excused' = IF Status(home) = "active" THEN (excused \ {p}) \cup {home} ELSE excused \ {p}
  BY DEF PointDid, requests
<1>2. HomesTypeOK /\ ActiveAtHome /\ home \in Server /\ excused \subseteq Server
      /\ \A q \in excused : Status(q) = "active"
  BY <1>1 DEF HomesSound, CopiesSound, HomesTypeOK
<1>3. Requested(HomesStatement)' /\ \A t \in Slot : Backed(t)'
  BY <1>1 DEF HomesSound, Requested, Backed, Steps
<1>4. HomesTypeOK'
  BY <1>1, <1>2 DEF HomesTypeOK
<1>5. \A q \in Server : Status(q)' = Status(q)
  BY <1>1 DEF Status
<1>6. ActiveAtHome'
  BY <1>1, <1>2, <1>5 DEF ActiveAtHome
<1>7. \A q \in excused' : Status(q)' = "active"
  BY <1>1, <1>2, <1>5
<1> QED
  BY <1>3, <1>4, <1>6, <1>7 DEF HomesSound, CopiesSound

LEMMA InitHomesSound ==
  ASSUME HomesInit
  PROVE  HomesSound
<1>1. Requested(HomesStatement) /\ \A s \in Slot : todo[s] = <<>>
  BY InitRequested DEF HomesInit
<1>2. \A s \in Slot : Backed(s)
  BY <1>1, NoSteps DEF Backed
<1>3. copies \in [Server -> CopyRow] /\ \A p \in Server : Status(p) = "none"
  BY NewCopies DEF HomesInit, Status
<1>4. CopiesSound
  BY <1>3 DEF HomesInit, CopiesSound, HomesTypeOK, CopyRow, ActiveAtHome
<1> QED
  BY <1>1, <1>2, <1>4 DEF HomesSound

LEMMA HomesSoundAlways == HomesSpec => []HomesSound
<1>1. HomesInit => HomesSound
  BY InitHomesSound
<1>2. HomesSound /\ [HomesNext]_homesVars => HomesSound'
  <2> SUFFICES ASSUME HomesSound, [HomesNext]_homesVars
               PROVE  HomesSound'
    OBVIOUS
  <2>1. CASE UNCHANGED homesVars
    <3>1. UNCHANGED <<todo, mem, copyVars, excused>>
      BY <2>1 DEF homesVars, copyVars, requests
    <3>2. Requested(HomesStatement)' /\ \A t \in Slot : Backed(t)'
      BY <3>1 DEF HomesSound, Requested, Backed, Steps
    <3> QED
      BY <3>1, <3>2, CopiesStay
  <2>2. ASSUME NEW s \in Slot, NEW p \in Server,
               \/ CreateCommunity(s, p) \/ Write(s, p)
               \/ Suspend(s, p) \/ Unsuspend(s, p) \/ Takedown(s, p) \/ ExportData(s, p)
               \/ DeleteCommunity(s, p) \/ MigrateIn(s, p) \/ ActivateCommunity(s, p)
               \/ MarkMoved(s, p) \/ GetMovedKeys(s, p) \/ SweepMoved(s, p)
        PROVE  HomesSound'
    BY <2>2, FoundingKeeps, AskingKeeps
  <2>3. ASSUME NEW s \in Slot,
               \/ InsertCommunity(s) \/ CreateCommunityRepo(s) \/ WriteStatus(s)
               \/ MarkExported(s) \/ RemoveCommunity(s) \/ ReadExisting(s) \/ StartImport(s)
               \/ Pull(s) \/ StoreImport(s) \/ CheckPointsHere(s) \/ FetchKeys(s)
               \/ CheckElsewhere(s) \/ MarkSwept(s) \/ HomesFail(s)
        PROVE  HomesSound'
    BY <2>3, WritingKeeps, ReadingKeeps, ImportingKeeps, FetchingKeeps
  <2>4. ASSUME NEW p \in Server, PointDid(p)
        PROVE  HomesSound'
    BY <2>4, PointingKeeps
  <2> QED
    BY <2>1, <2>2, <2>3, <2>4 DEF HomesNext
<1> QED
  BY <1>1, <1>2, PTL DEF HomesSpec

\* However many handlers of however many servers overlap, each checking the
\* status and the directory and writing later without looking again: a
\* community is active only where its DID points, but for the excuses
\* ActiveAtHome names (activateCommunity, migrateIn, markMoved, the sweep,
\* suspensions and their end).
THEOREM ActivesAreAtHome == HomesSpec => []ActiveAtHome
<1>1. HomesSound => ActiveAtHome
  BY DEF HomesSound, CopiesSound
<1> QED
  BY <1>1, HomesSoundAlways, PTL

\* The directory, the copies and the excuses keep their types.
THEOREM HomesTyped == HomesSpec => []HomesTypeOK
<1>1. HomesSound => HomesTypeOK
  BY DEF HomesSound, CopiesSound
<1> QED
  BY <1>1, HomesSoundAlways, PTL

-----------------------------------------------------------------------------
(* The sweep of accounts that never arrived.                               *)

SweepStatement == {"ask", "flag", "unflag", "wipe"}
VisitStatement ==
  {"open", "empty repo", "verify", "store", "points here", "approve", "deactivate",
   "void codes", "code", "sign"} \cup SweepStatement

UserRow == [status: {"none", "deactivated", "approved"}, migrating: BOOLEAN, flagged: BOOLEAN,
            signer: Host \cup {NoHost}, lived: BOOLEAN, id: Nat]
VisitRecord == [what: {"account home"}, at: Host, id: Nat, flagged: BOOLEAN, lived: BOOLEAN,
                from: Host \cup {NoHost}]

Sweeping(s) == Steps(s) \cap SweepStatement # {}

\* A flag is a sighting of the row it is on; who has arrived is not arriving.
RowsSound ==
  /\ users \in [Host -> UserRow] /\ sightings \in [Host -> BOOLEAN]
  /\ \A p \in Host : users[p].flagged => sightings[p]
  /\ \A p \in Host : ~users[p].migrating \/ ~users[p].lived
  /\ ~spoiled

\* The row a request read is an earlier one or the one there is.  A sweep read
\* one that had not arrived, and until it asked the directory the flag it read
\* is still a sighting.
Visiting(s) == Steps(s) # {} =>
  /\ mem[s] \in VisitRecord /\ mem[s].id <= users[Site(s)].id
  /\ Sweeping(s) => /\ todo[s] \in {<<x>> : x \in SweepStatement}
                    /\ ~mem[s].lived
  /\ At(s, "ask") /\ mem[s].flagged /\ Same(s) => sightings[Site(s)]

AccountsSound ==
  /\ Requested(VisitStatement) /\ RowsSound
  /\ \A s \in Slot : Visiting(s)
  /\ \A s, t \in Slot : Sweeping(s) /\ Sweeping(t) /\ Site(s) = Site(t) => s = t

LEMMA VisitIsRecord ==
  ASSUME RowsSound, NEW p \in Host
  PROVE  /\ Visit(p) \in VisitRecord /\ Visit(p).at = p /\ Visit(p).id = users[p].id
         /\ \A q \in Host \cup {NoHost} :
              /\ [Visit(p) EXCEPT !.from = q] \in VisitRecord
              /\ [Visit(p) EXCEPT !.from = q].at = p
              /\ [Visit(p) EXCEPT !.from = q].id = users[p].id
<1>1. users[p] \in UserRow
  BY DEF RowsSound
<1>2. Visit(p) \in VisitRecord
  BY <1>1 DEF Visit, VisitRecord, UserRow
<1>3. Visit(p).at = p /\ Visit(p).id = users[p].id
  BY DEF Visit
<1> DEFINE v == Visit(p)
<1> HIDE DEF v
<1>5. \A q \in Host \cup {NoHost} : [v EXCEPT !.from = q] \in VisitRecord
  BY <1>2 DEF v, VisitRecord
<1>6. \A q \in Host \cup {NoHost} : [v EXCEPT !.from = q].at = v.at /\ [v EXCEPT !.from = q].id = v.id
  BY <1>2 DEF v, VisitRecord
<1> QED
  BY <1>2, <1>3, <1>5, <1>6 DEF v

LEMMA SignerChanges ==
  ASSUME NEW u \in UserRow, NEW q \in Host \cup {NoHost}
  PROVE  /\ [u EXCEPT !.signer = q] \in UserRow
         /\ [u EXCEPT !.signer = q].id = u.id
         /\ [u EXCEPT !.signer = q].status = u.status
         /\ [u EXCEPT !.signer = q].flagged => u.flagged
         /\ [u EXCEPT !.signer = q].migrating => u.migrating
         /\ [u EXCEPT !.signer = q].lived => u.lived
<1>1. [u EXCEPT !.signer = q] \in UserRow
  BY DEF UserRow
<1>2. [u EXCEPT !.signer = q].id = u.id /\ [u EXCEPT !.signer = q].status = u.status
  BY DEF UserRow
<1>3. [u EXCEPT !.signer = q].flagged => u.flagged
  BY DEF UserRow
<1>4. [u EXCEPT !.signer = q].migrating => u.migrating
  BY DEF UserRow
<1>5. [u EXCEPT !.signer = q].lived => u.lived
  BY DEF UserRow
<1> QED
  BY <1>1, <1>2, <1>3, <1>4, <1>5

LEMMA StatusChanges ==
  ASSUME NEW u \in UserRow
  PROVE  /\ [u EXCEPT !.status = "deactivated"] \in UserRow
         /\ [u EXCEPT !.status = "deactivated"].id = u.id
         /\ [u EXCEPT !.status = "deactivated"].flagged => u.flagged
         /\ [u EXCEPT !.status = "deactivated"].migrating => u.migrating
         /\ [u EXCEPT !.status = "deactivated"].lived => u.lived
<1>1. [u EXCEPT !.status = "deactivated"] \in UserRow
  BY DEF UserRow
<1>2. [u EXCEPT !.status = "deactivated"].id = u.id
  BY DEF UserRow
<1>3. [u EXCEPT !.status = "deactivated"].flagged => u.flagged
  BY DEF UserRow
<1>4. [u EXCEPT !.status = "deactivated"].migrating => u.migrating
  BY DEF UserRow
<1>5. [u EXCEPT !.status = "deactivated"].lived => u.lived
  BY DEF UserRow
<1> QED
  BY <1>1, <1>2, <1>3, <1>4, <1>5

Approved(u) == [u EXCEPT !.status = "approved", !.migrating = FALSE, !.lived = TRUE]

LEMMA ApprovalChanges ==
  ASSUME NEW u \in UserRow
  PROVE  /\ Approved(u) \in UserRow /\ Approved(u).id = u.id
         /\ Approved(u).flagged => u.flagged
         /\ ~Approved(u).migrating
<1>1. Approved(u) \in UserRow
  BY DEF UserRow, Approved
<1>2. Approved(u).id = u.id
  BY DEF UserRow, Approved
<1>3. Approved(u).flagged => u.flagged
  BY DEF UserRow, Approved
<1>4. ~Approved(u).migrating
  BY DEF UserRow, Approved
<1> QED
  BY <1>1, <1>2, <1>3, <1>4

LEMMA FlagChanges ==
  ASSUME NEW u \in UserRow, NEW b \in BOOLEAN
  PROVE  /\ [u EXCEPT !.flagged = b] \in UserRow
         /\ [u EXCEPT !.flagged = b].id = u.id
         /\ [u EXCEPT !.flagged = b].status = u.status
         /\ [u EXCEPT !.flagged = b].flagged => b
         /\ [u EXCEPT !.flagged = b].migrating => u.migrating
         /\ [u EXCEPT !.flagged = b].lived => u.lived
<1>1. [u EXCEPT !.flagged = b] \in UserRow
  BY DEF UserRow
<1>2. [u EXCEPT !.flagged = b].id = u.id /\ [u EXCEPT !.flagged = b].status = u.status
  BY DEF UserRow
<1>3. [u EXCEPT !.flagged = b].flagged => b
  BY DEF UserRow
<1>4. [u EXCEPT !.flagged = b].migrating => u.migrating
  BY DEF UserRow
<1>5. [u EXCEPT !.flagged = b].lived => u.lived
  BY DEF UserRow
<1> QED
  BY <1>1, <1>2, <1>3, <1>4, <1>5

Opened(i) == [NoCopy EXCEPT !.status = "deactivated", !.migrating = TRUE, !.id = i]
Removed(i) == [NoCopy EXCEPT !.id = i]

LEMMA NewRows ==
  ASSUME NEW i \in Nat
  PROVE  /\ Opened(i) \in UserRow /\ Opened(i).id = i /\ ~Opened(i).flagged /\ ~Opened(i).lived
         /\ Removed(i) \in UserRow /\ Removed(i).id = i /\ Removed(i).status = "none"
         /\ ~Removed(i).flagged /\ ~Removed(i).lived
<1> DEFINE n == NoCopy
<1>1. n \in UserRow /\ n.status = "none"
  BY DEF UserRow, NoCopy
<1>2. ~n.flagged
  BY DEF NoCopy
<1>3. ~n.lived
  BY DEF NoCopy
<1> HIDE DEF n
<1> DEFINE o == [n EXCEPT !.status = "deactivated", !.migrating = TRUE, !.id = i]
           r == [n EXCEPT !.id = i]
<1>4. o \in UserRow
  BY <1>1 DEF UserRow
<1>5. r \in UserRow
  BY <1>1 DEF UserRow
<1>6. o.id = i /\ r.id = i /\ r.status = "none"
  BY <1>1 DEF UserRow
<1>7. ~o.flagged
  BY <1>1, <1>2 DEF UserRow
<1>8. ~o.lived
  BY <1>1, <1>3 DEF UserRow
<1>9. ~r.flagged
  BY <1>1, <1>2 DEF UserRow
<1>10. ~r.lived
  BY <1>1, <1>3 DEF UserRow
<1>11. Opened(i) = o /\ Removed(i) = r
  BY DEF Opened, Removed, n
<1> HIDE DEF o, r
<1> QED
  BY <1>4, <1>5, <1>6, <1>7, <1>8, <1>9, <1>10, <1>11

-----------------------------------------------------------------------------
\* What another request read stays so when one writes the copy at p: it is that
\* sweep's own, another row's by now, or not about being seen.
LEMMA OthersVisit ==
  ASSUME AccountsSound, NEW s \in Slot, OthersWait(s), NEW p \in Host,
         users' \in [Host -> UserRow],
         \A q \in Host \ {p} : users'[q] = users[q] /\ sightings'[q] = sightings[q],
         users'[p].id >= users[p].id,
         \/ Sweeping(s) /\ Site(s) = p
         \/ users'[p].id > users[p].id
         \/ /\ sightings'[p] = sightings[p]
            /\ users'[p].status # "none" => users[p].status # "none" /\ users'[p].id = users[p].id
  PROVE  \A t \in Slot \ {s} :
           Visiting(t)' /\ Site(t)' = Site(t) /\ (Sweeping(t)' => Sweeping(t))
<1> TAKE t \in Slot \ {s}
<1>1. todo'[t] = todo[t] /\ mem'[t] = mem[t]
  BY DEF OthersWait
<1>2. Steps(t)' = Steps(t) /\ Site(t)' = Site(t) /\ (At(t, "ask")' => At(t, "ask"))
  BY <1>1 DEF Steps, Site, At
<1>3. Sweeping(t)' => Sweeping(t)
  BY <1>2 DEF Sweeping
<1> SUFFICES Visiting(t)'
  BY <1>2, <1>3
<1> SUFFICES ASSUME Steps(t)' # {}
             PROVE  Visiting(t)'
  BY DEF Visiting
<1>4. Visiting(t) /\ Steps(t) # {}
  BY <1>2 DEF AccountsSound
<1>5. mem[t] \in VisitRecord /\ Site(t) \in Host /\ mem[t].id \in Nat /\ mem[t].id <= users[Site(t)].id
  BY <1>4 DEF Visiting, VisitRecord, Site
<1>6. \A q \in Host : users[q].id \in Nat /\ users'[q].id \in Nat
  BY DEF AccountsSound, RowsSound, UserRow
<1>7. mem[t].id <= users'[Site(t)].id
  BY <1>5, <1>6
<1>8. Sweeping(t)' => todo'[t] \in {<<x>> : x \in SweepStatement} /\ ~mem'[t].lived
  BY <1>1, <1>3, <1>4 DEF Visiting
<1>9. ASSUME At(t, "ask")', mem'[t].flagged, Same(t)'
      PROVE  sightings'[Site(t)]
  <2>1. At(t, "ask") /\ "ask" \in Steps(t)
    BY <1>2, <1>9, NextIsPending DEF AccountsSound
  <2>2. Sweeping(t)
    BY <2>1 DEF Sweeping, SweepStatement
  <2>3. users'[Site(t)].status # "none" /\ users'[Site(t)].id = mem[t].id
    BY <1>1, <1>2, <1>9 DEF Same, Mine, HasUser
  <2>4. CASE Site(t) # p
    <3>1. users'[Site(t)] = users[Site(t)] /\ sightings'[Site(t)] = sightings[Site(t)]
      BY <1>5, <2>4
    <3>2. Same(t)
      BY <2>3, <3>1 DEF Same, Mine, HasUser
    <3> QED
      BY <1>1, <1>4, <1>9, <2>1, <3>1, <3>2 DEF Visiting
  <2>5. CASE Site(t) = p
    <3>1. ~(Sweeping(s) /\ Site(s) = p)
      BY <2>2, <2>5 DEF AccountsSound
    <3>2. ~(users'[p].id > users[p].id)
      BY <1>5, <1>6, <2>3, <2>5
    <3>3. sightings'[p] = sightings[p] /\ HasUser(p) /\ users'[p].id = users[p].id
      BY <2>3, <2>5, <3>1, <3>2 DEF HasUser
    <3>4. Same(t)
      BY <2>3, <2>5, <3>3 DEF Same, Mine
    <3> QED
      BY <1>1, <1>4, <1>9, <2>1, <2>5, <3>3, <3>4 DEF Visiting
  <2> QED
    BY <2>4, <2>5
<1> QED
  BY <1>1, <1>2, <1>5, <1>7, <1>8, <1>9 DEF Visiting

LEMMA AccountsCome ==
  ASSUME AccountsSound, NEW s \in Slot, Requested(VisitStatement)', RowsSound', Visiting(s)',
         \A t \in Slot \ {s} : Visiting(t)' /\ Site(t)' = Site(t) /\ (Sweeping(t)' => Sweeping(t)),
         \/ ~Sweeping(s)'
         \/ Sweeping(s) /\ Site(s)' = Site(s)
         \/ \A t \in Slot \ {s} : Sweeping(t) => Site(t) # Site(s)'
  PROVE  AccountsSound'
<1>1. \A t \in Slot : Visiting(t)'
  OBVIOUS
<1>2. ASSUME NEW t \in Slot, NEW u \in Slot, Sweeping(t)', Sweeping(u)', Site(t)' = Site(u)', t # u
      PROVE  FALSE
  <2>1. CASE t # s /\ u # s
    BY <1>2, <2>1 DEF AccountsSound
  <2>2. CASE t = s
    BY <1>2, <2>2 DEF AccountsSound
  <2>3. CASE u = s
    BY <1>2, <2>3 DEF AccountsSound
  <2> QED
    BY <2>1, <2>2, <2>3
<1> QED
  BY <1>1, <1>2 DEF AccountsSound

\* A request that is no sweep takes its next step, and may learn of a new row.
LEMMA HandlerGoesOn ==
  ASSUME AccountsSound, NEW s \in Slot, NEW x, x \notin SweepStatement, At(s, x)
  PROVE  /\ ~Sweeping(s) /\ mem[s] \in VisitRecord /\ Site(s) \in Host
         /\ mem[s].id \in Nat /\ mem[s].id <= users[Site(s)].id
         /\ \A m \in VisitRecord : Note(s, m) /\ m.id <= users'[m.at].id =>
              /\ Requested(VisitStatement)' /\ OthersWait(s) /\ Visiting(s)' /\ ~Sweeping(s)'
<1>1. x \in Steps(s) /\ Visiting(s)
  BY NextIsPending DEF AccountsSound
<1>2. ~Sweeping(s)
  <2> SUFFICES ASSUME Sweeping(s) PROVE FALSE
    OBVIOUS
  <2>1. PICK y \in SweepStatement : todo[s] = <<y>>
    BY <1>1 DEF Visiting
  <2>2. x = y
    BY <2>1 DEF At
  <2> QED
    BY <2>2
<1>3. mem[s] \in VisitRecord /\ mem[s].id <= users[Site(s)].id
  BY <1>1 DEF Visiting
<1>4. Site(s) \in Host /\ mem[s].id \in Nat
  BY <1>3 DEF VisitRecord, Site
<1>5. ASSUME NEW m \in VisitRecord, Note(s, m), m.id <= users'[m.at].id
      PROVE  /\ Requested(VisitStatement)' /\ OthersWait(s) /\ Visiting(s)' /\ ~Sweeping(s)'
  <2>1. /\ Requested(VisitStatement)' /\ OthersWait(s) /\ Follows(s, x)
        /\ Steps(s)' # {} => mem'[s] = m
    BY <1>5, NoteMoves DEF AccountsSound
  <2>2. ~Sweeping(s)'
    BY <1>2, <2>1 DEF Sweeping, Follows
  <2>3. ~At(s, "ask")'
    BY <1>2, <2>1 DEF Sweeping, Follows, SweepStatement
  <2>4. Visiting(s)'
    BY <1>5, <2>1, <2>2, <2>3 DEF Visiting, Site
  <2> QED
    BY <2>1, <2>2, <2>4
<1> QED
  BY <1>2, <1>3, <1>4, <1>5

LEMMA HandlerEnds ==
  ASSUME AccountsSound, NEW s \in Slot, Answer(s)
  PROVE  Requested(VisitStatement)' /\ OthersWait(s) /\ Visiting(s)' /\ ~Sweeping(s)'
<1>1. Requested(VisitStatement)' /\ OthersWait(s) /\ todo'[s] = <<>>
  BY AnswerMoves DEF AccountsSound
<1> QED
  BY <1>1, NoneLeft DEF Visiting, Sweeping

\* A sweep is the last statement it is at.
LEMMA SweepEnds ==
  ASSUME AccountsSound, NEW s \in Slot, NEW x \in SweepStatement, At(s, x)
  PROVE  /\ todo[s] = <<x>> /\ Sweeping(s) /\ mem[s] \in VisitRecord /\ Site(s) \in Host
         /\ ~mem[s].lived
         /\ Pass(s) =>
              Requested(VisitStatement)' /\ OthersWait(s) /\ Visiting(s)' /\ ~Sweeping(s)'
<1>1. x \in Steps(s) /\ Visiting(s)
  BY NextIsPending DEF AccountsSound
<1>2. Sweeping(s)
  BY <1>1 DEF Sweeping
<1>3. mem[s] \in VisitRecord /\ ~mem[s].lived
  BY <1>1, <1>2 DEF Visiting
<1>4. PICK y \in SweepStatement : todo[s] = <<y>>
  BY <1>1, <1>2 DEF Visiting
<1>5. x = y
  BY <1>4 DEF At
<1>6. Site(s) \in Host
  BY <1>3 DEF VisitRecord, Site
<1>7. ASSUME Pass(s)
      PROVE  Requested(VisitStatement)' /\ OthersWait(s) /\ Visiting(s)' /\ ~Sweeping(s)'
  <2>1. Requested(VisitStatement)' /\ OthersWait(s) /\ Follows(s, x)
    BY <1>7, PassMoves DEF AccountsSound
  <2>2. todo'[s] = <<>>
    BY <1>4, <2>1 DEF Follows
  <2> QED
    BY <2>1, <2>2, NoneLeft DEF Visiting, Sweeping
<1> QED
  BY <1>2, <1>3, <1>4, <1>5, <1>6, <1>7

LEMMA RowWritten ==
  ASSUME RowsSound, NEW p \in Host, NEW row \in UserRow, NEW b \in BOOLEAN,
         users' = [users EXCEPT ![p] = row], sightings' = [sightings EXCEPT ![p] = b],
         row.flagged => b, ~row.migrating \/ ~row.lived, ~spoiled'
  PROVE  /\ RowsSound' /\ users' \in [Host -> UserRow] /\ users'[p] = row /\ sightings'[p] = b
         /\ \A q \in Host \ {p} : users'[q] = users[q] /\ sightings'[q] = sightings[q]
<1>1. /\ users' \in [Host -> UserRow] /\ users'[p] = row /\ sightings'[p] = b
      /\ sightings' \in [Host -> BOOLEAN]
      /\ \A q \in Host \ {p} : users'[q] = users[q] /\ sightings'[q] = sightings[q]
  BY DEF RowsSound
<1>2. \A q \in Host : users'[q].flagged => sightings'[q]
  BY <1>1 DEF RowsSound
<1>3. \A q \in Host : ~users'[q].migrating \/ ~users'[q].lived
  BY <1>1 DEF RowsSound
<1> QED
  BY <1>1, <1>2, <1>3 DEF RowsSound

LEMMA RowIs ==
  ASSUME RowsSound, NEW p \in Host
  PROVE  /\ users[p] \in UserRow /\ users[p].id \in Nat /\ sightings[p] \in BOOLEAN
         /\ users[p].flagged => sightings[p]
         /\ ~users[p].migrating \/ ~users[p].lived
BY DEF RowsSound, UserRow

-----------------------------------------------------------------------------
LEMMA RowsStay ==
  ASSUME AccountsSound, NEW s \in Slot, OthersWait(s), UNCHANGED <<users, sightings>>, ~spoiled'
  PROVE  /\ RowsSound'
         /\ \A t \in Slot \ {s} : Visiting(t)' /\ Site(t)' = Site(t) /\ (Sweeping(t)' => Sweeping(t))
<1>1. RowsSound'
  BY DEF AccountsSound, RowsSound
<1>2. ASSUME NEW t \in Slot \ {s}
      PROVE  Visiting(t)' /\ Site(t)' = Site(t) /\ (Sweeping(t)' => Sweeping(t))
  <2>1. todo'[t] = todo[t] /\ mem'[t] = mem[t]
    BY DEF OthersWait
  <2>2. Visiting(t)
    BY DEF AccountsSound
  <2> QED
    BY <2>1, <2>2 DEF Visiting, Steps, Site, Sweeping, At, Same, Mine, HasUser
<1> QED
  BY <1>1, <1>2

\* A request that comes in, and is no sweep.
LEMMA HandlerComes ==
  ASSUME AccountsSound, NEW s \in Slot, NEW p \in Host, NEW q \in Host \cup {NoHost},
         NEW steps \in Seq(VisitStatement), \A i \in DOMAIN steps : steps[i] \notin SweepStatement,
         Begin(s, steps, Visit(p)) \/ Begin(s, steps, [Visit(p) EXCEPT !.from = q]),
         UNCHANGED <<users, sightings, spoiled>>
  PROVE  AccountsSound'
<1>1. PICK m \in VisitRecord : Begin(s, steps, m) /\ m.at = p /\ m.id = users[p].id
  BY VisitIsRecord DEF AccountsSound
<1>2. /\ Requested(VisitStatement)' /\ OthersWait(s) /\ todo'[s] = steps
      /\ steps # <<>> => mem'[s] = m
  BY <1>1, BeginMoves DEF AccountsSound
<1>3. ~Sweeping(s)' /\ ~At(s, "ask")'
  BY <1>2 DEF Sweeping, Steps, SweepStatement, At
<1>4. steps = <<>> => Steps(s)' = {}
  BY <1>2, NoneLeft
<1>5. users[p].id \in Nat
  BY RowIs DEF AccountsSound
<1>6. Visiting(s)'
  BY <1>1, <1>2, <1>3, <1>4, <1>5 DEF Visiting, Site
<1>7. ~spoiled'
  BY DEF AccountsSound, RowsSound
<1> QED
  BY <1>2, <1>3, <1>6, <1>7, RowsStay, AccountsCome

LEMMA SweepComes ==
  ASSUME AccountsSound, NEW s \in Slot, NEW p \in Host, SweepUsers(s, p)
  PROVE  AccountsSound'
<1> DEFINE steps == <<"ask">>
           m == Visit(p)
<1>0. "ask" \in SweepStatement /\ steps \in Seq(VisitStatement)
  BY DEF SweepStatement, VisitStatement
<1>1. /\ Begin(s, steps, m) /\ users[p].migrating
      /\ \A t \in Slot : Sweeping(t) => Site(t) # p
      /\ UNCHANGED <<users, sightings, spoiled>>
  BY DEF SweepUsers, Sweeping, SweepStatement, accountTables, past
<1>2. /\ m \in VisitRecord /\ m.at = p /\ m.id = users[p].id
  BY VisitIsRecord DEF AccountsSound
<1>3. m.lived => users[p].lived
  BY DEF Visit
<1>4. m.flagged => users[p].flagged
  BY DEF Visit
<1>5. ~m.lived /\ (m.flagged => sightings[p]) /\ users[p].id \in Nat
  BY <1>1, <1>3, <1>4, RowIs DEF AccountsSound
<1> HIDE DEF steps, m
<1>6. /\ Requested(VisitStatement)' /\ OthersWait(s) /\ todo'[s] = steps
      /\ steps # <<>> => mem'[s] = m
  BY <1>0, <1>1, BeginMoves DEF AccountsSound
<1>7. mem'[s] = m /\ todo'[s] = <<"ask">>
  BY <1>6 DEF steps
<1>8. Visiting(s)'
  BY <1>0, <1>1, <1>2, <1>5, <1>7 DEF Visiting, Site
<1>9. Site(s)' = p
  BY <1>2, <1>7 DEF Site
<1>10. ~spoiled'
  BY <1>1 DEF AccountsSound, RowsSound
<1> QED
  BY <1>1, <1>6, <1>8, <1>9, <1>10, RowsStay, AccountsCome

LEMMA OneOutside ==
  ASSUME NEW T, NEW a, a \notin T
  PROVE  \A i \in DOMAIN <<a>> : <<a>>[i] \notin T
OBVIOUS

LEMMA BothOutside ==
  ASSUME NEW T, NEW a, NEW b, a \notin T, b \notin T
  PROVE  \A i \in DOMAIN <<a, b>> : <<a, b>>[i] \notin T
<1>1. DOMAIN <<a, b>> = {1, 2} /\ <<a, b>>[1] = a /\ <<a, b>>[2] = b
  OBVIOUS
<1> QED
  BY <1>1

LEMMA VisitorsKeep ==
  ASSUME AccountsSound, NEW s \in Slot, NEW p \in Host,
         \/ ComeIn(s, p) \/ SwitchOn(s, p) \/ SwitchOff(s, p) \/ RequestCode(s, p)
         \/ SignMove(s, p) \/ SweepUsers(s, p) \/ \E q \in Host : ImportRepo(s, p, q)
  PROVE  AccountsSound'
<1>1. CASE ComeIn(s, p)
  <2> DEFINE steps == <<"open", "empty repo">>
  <2>1. steps \in Seq(VisitStatement) /\ \A i \in DOMAIN steps : steps[i] \notin SweepStatement
    <3>1. steps \in Seq(VisitStatement)
      BY DEF VisitStatement
    <3>2. "open" \notin SweepStatement /\ "empty repo" \notin SweepStatement
      BY DEF SweepStatement
    <3> QED
      BY <3>1, <3>2, BothOutside
  <2>2. Begin(s, steps, Visit(p)) /\ UNCHANGED <<users, sightings, spoiled>>
    BY <1>1 DEF ComeIn, accountTables, past
  <2> HIDE DEF steps
  <2> QED
    BY <2>1, <2>2, HandlerComes
<1>2. CASE SwitchOn(s, p)
  <2> DEFINE steps == <<"points here", "approve">>
  <2>1. steps \in Seq(VisitStatement) /\ \A i \in DOMAIN steps : steps[i] \notin SweepStatement
    <3>1. steps \in Seq(VisitStatement)
      BY DEF VisitStatement
    <3>2. "points here" \notin SweepStatement /\ "approve" \notin SweepStatement
      BY DEF SweepStatement
    <3> QED
      BY <3>1, <3>2, BothOutside
  <2>2. Begin(s, steps, Visit(p)) /\ UNCHANGED <<users, sightings, spoiled>>
    BY <1>2 DEF SwitchOn, accountTables, past
  <2> HIDE DEF steps
  <2> QED
    BY <2>1, <2>2, HandlerComes
<1>3. CASE SwitchOff(s, p)
  <2> DEFINE steps == <<"deactivate">>
  <2>1. steps \in Seq(VisitStatement) /\ \A i \in DOMAIN steps : steps[i] \notin SweepStatement
    <3>1. steps \in Seq(VisitStatement)
      BY DEF VisitStatement
    <3>2. "deactivate" \notin SweepStatement
      BY DEF SweepStatement
    <3> QED
      BY <3>1, <3>2, OneOutside
  <2>2. Begin(s, steps, Visit(p)) /\ UNCHANGED <<users, sightings, spoiled>>
    BY <1>3 DEF SwitchOff, accountTables, past
  <2> HIDE DEF steps
  <2> QED
    BY <2>1, <2>2, HandlerComes
<1>4. CASE RequestCode(s, p)
  <2> DEFINE steps == <<"void codes", "code">>
  <2>1. steps \in Seq(VisitStatement) /\ \A i \in DOMAIN steps : steps[i] \notin SweepStatement
    <3>1. steps \in Seq(VisitStatement)
      BY DEF VisitStatement
    <3>2. "void codes" \notin SweepStatement /\ "code" \notin SweepStatement
      BY DEF SweepStatement
    <3> QED
      BY <3>1, <3>2, BothOutside
  <2>2. Begin(s, steps, Visit(p)) /\ UNCHANGED <<users, sightings, spoiled>>
    BY <1>4 DEF RequestCode, accountTables, past
  <2> HIDE DEF steps
  <2> QED
    BY <2>1, <2>2, HandlerComes
<1>5. CASE SignMove(s, p)
  <2> DEFINE steps == <<"sign">>
  <2>1. steps \in Seq(VisitStatement) /\ \A i \in DOMAIN steps : steps[i] \notin SweepStatement
    <3>1. steps \in Seq(VisitStatement)
      BY DEF VisitStatement
    <3>2. "sign" \notin SweepStatement
      BY DEF SweepStatement
    <3> QED
      BY <3>1, <3>2, OneOutside
  <2>2. Begin(s, steps, Visit(p)) /\ UNCHANGED <<users, sightings, spoiled>>
    BY <1>5 DEF SignMove, accountTables, past
  <2> HIDE DEF steps
  <2> QED
    BY <2>1, <2>2, HandlerComes
<1>6. CASE SweepUsers(s, p)
  BY <1>6, SweepComes
<1>7. ASSUME NEW q \in Host, ImportRepo(s, p, q) PROVE AccountsSound'
  <2> DEFINE steps == <<"verify", "store">>
             u == users[q].signer
  <2>1. steps \in Seq(VisitStatement) /\ \A i \in DOMAIN steps : steps[i] \notin SweepStatement
    <3>1. steps \in Seq(VisitStatement)
      BY DEF VisitStatement
    <3>2. "verify" \notin SweepStatement /\ "store" \notin SweepStatement
      BY DEF SweepStatement
    <3> QED
      BY <3>1, <3>2, BothOutside
  <2>2. u \in Host \cup {NoHost}
    BY RowIs DEF AccountsSound, UserRow
  <2>3. Begin(s, steps, [Visit(p) EXCEPT !.from = u]) /\ UNCHANGED <<users, sightings, spoiled>>
    BY <1>7 DEF ImportRepo, accountTables, past
  <2> HIDE DEF steps, u
  <2> QED
    BY <2>1, <2>2, <2>3, HandlerComes
<1> QED
  BY <1>1, <1>2, <1>3, <1>4, <1>5, <1>6, <1>7

LEMMA LookersKeep ==
  ASSUME AccountsSound, NEW s \in Slot,
         \/ VerifyImport(s) \/ PointsHere(s) \/ VoidCodes(s) \/ InsertCode(s) \/ SignNext(s)
         \/ AccountsFail(s)
  PROVE  AccountsSound'
<1>0. UNCHANGED <<users, sightings, spoiled>>
  BY DEF VerifyImport, PointsHere, VoidCodes, InsertCode, SignNext, AccountsFail, accountTables, past
<1>1. UNCHANGED <<users, sightings>> /\ ~spoiled'
  BY <1>0 DEF AccountsSound, RowsSound
<1>2. Answer(s) \/ \E x : x \notin SweepStatement /\ At(s, x) /\ Pass(s)
  BY DEF VerifyImport, PointsHere, VoidCodes, InsertCode, SignNext, AccountsFail, SweepStatement
<1>3. Requested(VisitStatement)' /\ OthersWait(s) /\ Visiting(s)' /\ ~Sweeping(s)'
  <2>1. CASE Answer(s)
    BY <2>1, HandlerEnds
  <2>2. ASSUME NEW x, x \notin SweepStatement, At(s, x), Pass(s)
        PROVE  Requested(VisitStatement)' /\ OthersWait(s) /\ Visiting(s)' /\ ~Sweeping(s)'
    <3>1. Note(s, mem[s]) /\ mem[s] \in VisitRecord /\ mem[s].id <= users'[mem[s].at].id
      BY <1>1, <2>2, HandlerGoesOn DEF Pass, Note, Site
    <3> QED
      BY <2>2, <3>1, HandlerGoesOn
  <2> QED
    BY <1>2, <2>1, <2>2
<1> QED
  BY <1>1, <1>3, RowsStay, AccountsCome

\* What a sweep does next: it wipes only what was flagged, and seen then.
LEMMA VerdictsKeep ==
  ASSUME AccountsSound, NEW s \in Slot, AskDirectory(s)
  PROVE  AccountsSound'
<1>1. /\ At(s, "ask") /\ Turn(s, Verdict(s), mem[s]) /\ UNCHANGED <<users, sightings>>
      /\ spoiled' = (spoiled \/ (Verdict(s) = <<"wipe">> /\ Same(s) /\ ~sightings[Site(s)]))
  BY DEF AskDirectory, accountTables
<1>2. /\ "ask" \in SweepStatement /\ Sweeping(s) /\ mem[s] \in VisitRecord /\ Site(s) \in Host
      /\ ~mem[s].lived
  BY <1>1, SweepEnds DEF SweepStatement
<1>3. Visiting(s) /\ Steps(s) # {} /\ ~spoiled
  BY <1>2 DEF AccountsSound, RowsSound, Sweeping
<1>4. /\ Verdict(s) \in {<<>>, <<"flag">>, <<"unflag">>, <<"wipe">>}
      /\ Verdict(s) = <<"wipe">> => mem[s].flagged
  BY DEF Verdict
<1>5. ~spoiled'
  BY <1>1, <1>3, <1>4 DEF Visiting
<1> DEFINE steps == Verdict(s)
<1>6. steps \in Seq(VisitStatement)
  <2>1. /\ <<>> \in Seq(VisitStatement) /\ <<"flag">> \in Seq(VisitStatement)
        /\ <<"unflag">> \in Seq(VisitStatement) /\ <<"wipe">> \in Seq(VisitStatement)
    BY DEF VisitStatement, SweepStatement
  <2> QED
    BY <1>4, <2>1
<1> HIDE DEF steps
<1>7. /\ Requested(VisitStatement)' /\ OthersWait(s) /\ todo'[s] = steps
      /\ steps # <<>> => mem'[s] = mem[s]
  BY <1>1, <1>6, TurnMoves DEF AccountsSound, steps
<1>8. CASE steps = <<>>
  <2>1. Visiting(s)' /\ ~Sweeping(s)'
    BY <1>7, <1>8, NoneLeft DEF Visiting, Sweeping
  <2> QED
    BY <1>1, <1>5, <1>7, <2>1, RowsStay, AccountsCome
<1>9. CASE steps # <<>>
  <2>1. mem'[s] = mem[s] /\ Site(s)' = Site(s)
    BY <1>7, <1>9 DEF Site
  <2>2. PICK x \in {"flag", "unflag", "wipe"} : todo'[s] = <<x>>
    BY <1>4, <1>7, <1>9 DEF steps
  <2>3. ~At(s, "ask")' /\ x \in SweepStatement
    BY <2>2 DEF At, SweepStatement
  <2>4. Visiting(s)'
    BY <1>1, <1>2, <1>3, <2>1, <2>2, <2>3 DEF Visiting
  <2> QED
    BY <1>1, <1>2, <1>5, <1>7, <2>1, <2>4, RowsStay, AccountsCome
<1> QED
  BY <1>8, <1>9

LEMMA HandlerWrites ==
  ASSUME AccountsSound, NEW s \in Slot, NEW x, x \notin SweepStatement, At(s, x), Pass(s),
         NEW row \in UserRow, Edit(s, row), UNCHANGED <<sightings, spoiled>>,
         row.id = Mine(s).id, row.flagged => Mine(s).flagged, ~row.migrating \/ ~row.lived
  PROVE  AccountsSound'
<1> DEFINE p == Site(s)
           new == IF Same(s) THEN row ELSE users[p]
<1>1. /\ ~Sweeping(s) /\ mem[s] \in VisitRecord /\ p \in Host
      /\ mem[s].id \in Nat /\ mem[s].id <= users[p].id
  BY HandlerGoesOn
<1>2. /\ users[p] \in UserRow /\ users[p].id \in Nat /\ sightings[p] \in BOOLEAN
      /\ users[p].flagged => sightings[p]
      /\ ~users[p].migrating \/ ~users[p].lived
  BY <1>1, RowIs DEF AccountsSound
<1>3. /\ new \in UserRow /\ new.id = users[p].id /\ (new.flagged => sightings[p])
      /\ ~new.migrating \/ ~new.lived
  BY <1>2 DEF Mine
<1>4. users' = [users EXCEPT ![p] = new]
  BY DEF Edit
<1>5. sightings' = [sightings EXCEPT ![p] = sightings[p]] /\ ~spoiled'
  BY DEF AccountsSound, RowsSound
<1>6. new.status # "none" => users[p].status # "none"
  BY DEF Same, HasUser
<1> HIDE DEF new, p
<1>7. /\ RowsSound' /\ users' \in [Host -> UserRow] /\ users'[p] = new
      /\ \A q \in Host \ {p} : users'[q] = users[q] /\ sightings'[q] = sightings[q]
  BY <1>1, <1>2, <1>3, <1>4, <1>5, RowWritten DEF AccountsSound
<1>8. Note(s, mem[s]) /\ mem[s].id <= users'[mem[s].at].id
  BY <1>1, <1>3, <1>7 DEF Pass, Note, Site, p
<1>9. Requested(VisitStatement)' /\ OthersWait(s) /\ Visiting(s)' /\ ~Sweeping(s)'
  BY <1>1, <1>8, HandlerGoesOn
<1>10. users'[p].id >= users[p].id
  BY <1>2, <1>3, <1>7
<1>11. users'[p].status # "none" => users[p].status # "none" /\ users'[p].id = users[p].id
  BY <1>3, <1>6, <1>7
<1>12. \A t \in Slot \ {s} : Visiting(t)' /\ Site(t)' = Site(t) /\ (Sweeping(t)' => Sweeping(t))
  BY <1>1, <1>7, <1>9, <1>10, <1>11, OthersVisit
<1> QED
  BY <1>7, <1>9, <1>12, AccountsCome

LEMMA HandlersKeep ==
  ASSUME AccountsSound, NEW s \in Slot,
         EmptyRepo(s) \/ StoreRepo(s) \/ ApproveCopy(s) \/ DeactivateCopy(s)
  PROVE  AccountsSound'
<1>0. PICK x : x \notin SweepStatement /\ At(s, x) /\ Pass(s)
  BY DEF EmptyRepo, StoreRepo, ApproveCopy, DeactivateCopy, SweepStatement
<1>1. /\ mem[s] \in VisitRecord /\ Site(s) \in Host
  BY <1>0, HandlerGoesOn
<1> DEFINE u == Mine(s)
<1>2. /\ u \in UserRow /\ u.id \in Nat /\ (~u.migrating \/ ~u.lived)
  BY <1>1, RowIs DEF AccountsSound, Mine
<1>3. UNCHANGED <<sightings, spoiled>>
  BY DEF EmptyRepo, StoreRepo, ApproveCopy, DeactivateCopy, past
<1>4. mem[s].from \in Host \cup {NoHost}
  BY <1>1 DEF VisitRecord
<1>5. \/ \E q \in Host \cup {NoHost} : Edit(s, [u EXCEPT !.signer = q])
      \/ Edit(s, Removed(u.id)) \/ Edit(s, Approved(u)) \/ Edit(s, [u EXCEPT !.status = "deactivated"])
  BY <1>1, <1>4 DEF EmptyRepo, StoreRepo, ApproveCopy, DeactivateCopy, Removed, Approved, Gone
<1> DEFINE Good(row) == /\ row \in UserRow /\ row.id = u.id /\ (row.flagged => u.flagged)
                        /\ ~row.migrating \/ ~row.lived
<1>6. \A q \in Host \cup {NoHost} : Good([u EXCEPT !.signer = q])
  BY <1>2, SignerChanges
<1>7. Good(Removed(u.id)) /\ Good(Approved(u)) /\ Good([u EXCEPT !.status = "deactivated"])
  BY <1>2, NewRows, ApprovalChanges, StatusChanges
<1>8. PICK row : Good(row) /\ Edit(s, row)
  BY <1>5, <1>6, <1>7
<1> QED
  BY <1>0, <1>3, <1>8, HandlerWrites

\* A copy is opened: what anybody read of an earlier one is an earlier row's.
LEMMA OpeningKeeps ==
  ASSUME AccountsSound, NEW s \in Slot, OpenCopy(s)
  PROVE  AccountsSound'
<1>0. At(s, "open") /\ "open" \notin SweepStatement /\ ~spoiled'
  BY DEF OpenCopy, SweepStatement, AccountsSound, RowsSound
<1>1. CASE HasUser(Site(s))
  <2>1. Answer(s) /\ UNCHANGED <<users, sightings>>
    BY <1>1 DEF OpenCopy
  <2> QED
    BY <1>0, <2>1, HandlerEnds, RowsStay, AccountsCome
<1>2. CASE ~HasUser(Site(s))
  <2> DEFINE p == Site(s)
             i == users[p].id + 1
             m == [mem[s] EXCEPT !.id = i]
  <2>1. ~Sweeping(s) /\ mem[s] \in VisitRecord /\ p \in Host
    BY <1>0, HandlerGoesOn
  <2>2. users[p].id \in Nat
    BY <2>1, RowIs DEF AccountsSound
  <2>3. i \in Nat /\ i > users[p].id
    BY <2>2
  <2>4. Note(s, m) /\ users' = [users EXCEPT ![p] = Opened(i)] /\ sightings' = [sightings EXCEPT ![p] = FALSE]
    BY <1>2 DEF OpenCopy, Opened, Mine
  <2>5. m \in VisitRecord /\ m.at = p /\ m.id = i
    BY <2>1, <2>3 DEF VisitRecord, Site
  <2> HIDE DEF p, i, m
  <2>6. /\ RowsSound' /\ users' \in [Host -> UserRow] /\ users'[p] = Opened(i)
        /\ \A q \in Host \ {p} : users'[q] = users[q] /\ sightings'[q] = sightings[q]
    BY <1>0, <2>1, <2>3, <2>4, NewRows, RowWritten DEF AccountsSound
  <2>7. users'[p].id = i
    BY <2>3, <2>6, NewRows
  <2>8. Requested(VisitStatement)' /\ OthersWait(s) /\ Visiting(s)' /\ ~Sweeping(s)'
    BY <1>0, <2>3, <2>4, <2>5, <2>7, HandlerGoesOn
  <2>9. users'[p].id >= users[p].id /\ users'[p].id > users[p].id
    BY <2>2, <2>3, <2>7
  <2>10. \A t \in Slot \ {s} : Visiting(t)' /\ Site(t)' = Site(t) /\ (Sweeping(t)' => Sweeping(t))
    BY <2>1, <2>6, <2>8, <2>9, OthersVisit
  <2> QED
    BY <2>6, <2>8, <2>10, AccountsCome
<1> QED
  BY <1>1, <1>2

\* What the sweep writes; nobody else is sweeping there.
LEMMA SweepWrites ==
  ASSUME AccountsSound, NEW s \in Slot, NEW x \in SweepStatement, At(s, x), Pass(s),
         NEW row \in UserRow, NEW b \in BOOLEAN,
         users' = [users EXCEPT ![Site(s)] = row], sightings' = [sightings EXCEPT ![Site(s)] = b],
         row.id = Mine(s).id, row.flagged => b, ~row.migrating \/ ~row.lived, ~spoiled'
  PROVE  AccountsSound'
<1>1. /\ Sweeping(s) /\ Site(s) \in Host
      /\ Requested(VisitStatement)' /\ OthersWait(s) /\ Visiting(s)' /\ ~Sweeping(s)'
  BY SweepEnds
<1> DEFINE p == Site(s)
<1>2. users[p].id \in Nat /\ row.id = users[p].id
  BY <1>1, RowIs DEF AccountsSound, Mine
<1>3. /\ RowsSound' /\ users' \in [Host -> UserRow] /\ users'[p] = row
      /\ \A q \in Host \ {p} : users'[q] = users[q] /\ sightings'[q] = sightings[q]
  BY <1>1, RowWritten DEF AccountsSound
<1>4. users'[p].id >= users[p].id
  BY <1>2, <1>3
<1>5. \A t \in Slot \ {s} : Visiting(t)' /\ Site(t)' = Site(t) /\ (Sweeping(t)' => Sweeping(t))
  BY <1>1, <1>3, <1>4, OthersVisit
<1> QED
  BY <1>1, <1>3, <1>5, AccountsCome

LEMMA SweepsKeep ==
  ASSUME AccountsSound, NEW s \in Slot, Unflag(s) \/ Flag(s) \/ Wipe(s)
  PROVE  AccountsSound'
<1>0. PICK x \in SweepStatement : At(s, x) /\ Pass(s)
  BY DEF Unflag, Flag, Wipe, SweepStatement
<1>1. Site(s) \in Host /\ ~mem[s].lived
  BY <1>0, SweepEnds
<1> DEFINE p == Site(s)
           u == users[p]
<1>2. /\ u \in UserRow /\ u.id \in Nat /\ sightings[p] \in BOOLEAN /\ (u.flagged => sightings[p])
      /\ ~u.migrating \/ ~u.lived
      /\ users \in [Host -> UserRow] /\ sightings \in [Host -> BOOLEAN] /\ ~spoiled
  BY <1>1, RowIs DEF AccountsSound, RowsSound
<1>3. ASSUME NEW b \in BOOLEAN, Edit(s, [u EXCEPT !.flagged = b]), ~spoiled',
             sightings' = [sightings EXCEPT ![p] = IF Same(s) THEN b ELSE @]
      PROVE  AccountsSound'
  <2> DEFINE row == [u EXCEPT !.flagged = b]
  <2>1. /\ row \in UserRow /\ row.id = u.id /\ (row.flagged => b) /\ (~row.migrating \/ ~row.lived)
    BY <1>2, FlagChanges
  <2>2. CASE Same(s)
    <3>1. users' = [users EXCEPT ![p] = row] /\ sightings' = [sightings EXCEPT ![p] = b]
      BY <1>3, <2>2 DEF Edit
    <3> HIDE DEF row
    <3> QED
      BY <1>0, <1>3, <2>1, <3>1, SweepWrites DEF Mine
  <2>3. CASE ~Same(s)
    <3>1. users' = [users EXCEPT ![p] = u] /\ sightings' = [sightings EXCEPT ![p] = sightings[p]]
      BY <1>3, <2>3 DEF Edit
    <3> QED
      BY <1>0, <1>2, <1>3, <3>1, SweepWrites DEF Mine
  <2> QED
    BY <2>2, <2>3
<1>4. CASE Unflag(s)
  <2>1. Edit(s, [u EXCEPT !.flagged = FALSE]) /\ ~spoiled'
        /\ sightings' = [sightings EXCEPT ![p] = IF Same(s) THEN FALSE ELSE @]
    BY <1>2, <1>4 DEF Unflag, Mine
  <2> QED
    BY <1>3, <2>1
<1>5. CASE Flag(s)
  <2>1. Edit(s, [u EXCEPT !.flagged = TRUE]) /\ ~spoiled'
        /\ sightings' = [sightings EXCEPT ![p] = IF Same(s) THEN TRUE ELSE @]
    BY <1>2, <1>5 DEF Flag, Mine
  <2> QED
    BY <1>3, <2>1
<1>6. CASE Wipe(s)
  <2>1. ~spoiled' /\ sightings' = sightings
        /\ users' = [users EXCEPT ![p] = IF Same(s) THEN Removed(u.id) ELSE [@ EXCEPT !.signer = NoHost]]
    BY <1>1, <1>2, <1>6 DEF Wipe, Gone, Removed, Mine
  <2>2. sightings' = [sightings EXCEPT ![p] = sightings[p]]
    BY <1>1, <1>2, <2>1
  <2> DEFINE bare == [u EXCEPT !.signer = NoHost]
  <2>3. /\ bare \in UserRow /\ bare.id = u.id /\ (bare.flagged => sightings[p])
        /\ ~bare.migrating \/ ~bare.lived
    BY <1>2, SignerChanges
  <2>4. /\ Removed(u.id) \in UserRow /\ Removed(u.id).id = u.id /\ ~Removed(u.id).flagged
        /\ ~Removed(u.id).lived
    BY <1>2, NewRows
  <2>5. CASE Same(s)
    <3>1. users' = [users EXCEPT ![p] = Removed(u.id)]
      BY <2>1, <2>5
    <3> QED
      BY <1>0, <1>2, <2>1, <2>2, <2>4, <3>1, SweepWrites DEF Mine
  <2>6. CASE ~Same(s)
    <3>1. users' = [users EXCEPT ![p] = bare]
      BY <2>1, <2>6
    <3> HIDE DEF bare
    <3> QED
      BY <1>0, <1>2, <2>1, <2>2, <2>3, <3>1, SweepWrites DEF Mine
  <2> QED
    BY <2>5, <2>6
<1> QED
  BY <1>4, <1>5, <1>6

LEMMA InitAccountsSound ==
  ASSUME AccountsInit
  PROVE  AccountsSound
<1>1. Requested(VisitStatement) /\ \A s \in Slot : todo[s] = <<>>
  BY InitRequested DEF AccountsInit
<1>2. \A s \in Slot : Steps(s) = {} /\ Visiting(s) /\ ~Sweeping(s)
  BY <1>1, NoSteps DEF Visiting, Sweeping
<1>3. PICK h \in Host : users = [p \in Host |-> IF p = h THEN [NoCopy EXCEPT !.status = "approved",
                                                !.signer = h, !.lived = TRUE]
                                  ELSE NoCopy]
  BY DEF AccountsInit
<1> DEFINE first == [NoCopy EXCEPT !.status = "approved", !.signer = h, !.lived = TRUE]
<1>4. NoCopy \in UserRow /\ first \in UserRow
  BY DEF NoCopy, UserRow
<1>5. ~NoCopy.flagged /\ ~NoCopy.migrating /\ ~first.flagged /\ ~first.migrating
  BY DEF NoCopy
<1> HIDE DEF first
<1>6. users \in [Host -> UserRow] /\ \A p \in Host : users[p] = first \/ users[p] = NoCopy
  BY <1>3, <1>4 DEF first
<1>7. RowsSound
  BY <1>5, <1>6 DEF AccountsInit, RowsSound
<1> QED
  BY <1>1, <1>2, <1>7 DEF AccountsSound

LEMMA AccountsSoundAlways == AccountsSpec => []AccountsSound
<1>1. AccountsInit => AccountsSound
  BY InitAccountsSound
<1>2. AccountsSound /\ [AccountsNext]_accountsVars => AccountsSound'
  <2> SUFFICES ASSUME AccountsSound, [AccountsNext]_accountsVars
               PROVE  AccountsSound'
    OBVIOUS
  <2>1. ASSUME UNCHANGED <<todo, mem, users, sightings, spoiled>>
        PROVE  AccountsSound'
    <3>1. \A s \in Slot : /\ Visiting(s) => Visiting(s)'
                          /\ Sweeping(s)' => Sweeping(s)
                          /\ Site(s)' = Site(s)
      BY <2>1 DEF Visiting, Sweeping, Steps, Site, At, Same, Mine, HasUser
    <3>2. Requested(VisitStatement)' /\ RowsSound'
      BY <2>1 DEF AccountsSound, Requested, RowsSound
    <3> QED
      BY <3>1, <3>2 DEF AccountsSound
  <2>2. CASE UNCHANGED accountsVars
    BY <2>1, <2>2 DEF accountsVars, requests
  <2>3. ASSUME NEW s \in Slot, NEW p \in Host,
               \/ ComeIn(s, p) \/ SwitchOn(s, p) \/ SwitchOff(s, p) \/ RequestCode(s, p)
               \/ SignMove(s, p) \/ SweepUsers(s, p) \/ \E q \in Host : ImportRepo(s, p, q)
        PROVE  AccountsSound'
    BY <2>3, VisitorsKeep
  <2>4. ASSUME NEW s \in Slot,
               \/ OpenCopy(s) \/ EmptyRepo(s) \/ VerifyImport(s) \/ StoreRepo(s) \/ PointsHere(s)
               \/ ApproveCopy(s) \/ DeactivateCopy(s) \/ VoidCodes(s) \/ InsertCode(s) \/ SignNext(s)
               \/ AskDirectory(s) \/ Unflag(s) \/ Flag(s) \/ Wipe(s) \/ AccountsFail(s)
        PROVE  AccountsSound'
    BY <2>4, OpeningKeeps, HandlersKeep, LookersKeep, VerdictsKeep, SweepsKeep
  <2>5. ASSUME NEW op \in signed, SubmitMove(op)
        PROVE  AccountsSound'
    BY <2>1, <2>5 DEF SubmitMove, requests, past
  <2>6. ASSUME NEW q \in Host, OwnMove(q)
        PROVE  AccountsSound'
    BY <2>1, <2>6 DEF OwnMove, requests, past
  <2> QED
    BY <2>2, <2>3, <2>4, <2>5, <2>6 DEF AccountsNext
<1> QED
  BY <1>1, <1>2, PTL DEF AccountsSpec

\* Whatever arrives, leaves, is flagged and asked about meanwhile, on any number
\* of servers: the sweep wipes only a copy that had not been activated when it
\* read it, and that the sweep before it had found its DID to be elsewhere for -
\* the same copy, not one that came in its place (sweepUnfinishedMigrations).
THEOREM SweepsSpare == AccountsSpec => []SweepSpares
<1>1. AccountsSound => SweepSpares
  BY DEF AccountsSound, RowsSound, SweepSpares
<1> QED
  BY <1>1, AccountsSoundAlways, PTL

-----------------------------------------------------------------------------
(* The move of a pseudonym: one home always works.                         *)

\* What a move has yet to do, from each of its calls on.
Retiring   == <<"retire">>
Activating == <<"activate", "retire">>
Pointing   == <<"point", "activate", "retire">>
Checking   == <<"check", "point", "activate", "retire">>
Copying    == <<"blobs", "check", "point", "activate", "retire">>
Importing  == <<"import", "blobs", "check", "point", "activate", "retire">>
Exporting  == <<"export", "import", "blobs", "check", "point", "activate", "retire">>
Opening    == <<"open", "export", "import", "blobs", "check", "point", "activate", "retire">>
MovePlan   == {<<>>, Retiring, Activating, Pointing, Checking, Copying, Importing, Exporting, Opening}

MoveRecord == [what: {"move"}, root: 0..Records, as: {"none", "deactivated", "approved"}]

\* Every record written before the last export that was imported is there.
CarriedOver == (1..oldHome.records) \ movePast.late \subseteq 1..newHome.records
Whole       == newHome.records # 0 /\ MissingBlobs = {}

HomesTold ==
  /\ pointer \in {"old", "new"}
  /\ oldHome \in [active: BOOLEAN, records: 0..Records]
  /\ newHome \in [status: {"none", "deactivated", "approved"}, records: 0..Records,
                  blobs: SUBSET (1..Records)]
  /\ movePast.crossed \in BOOLEAN
  /\ DOMAIN movePast = {"late", "crossed"}

\* What holds of the homes when a move has come so far.
Along(s) ==
  /\ todo[s] \in MovePlan /\ (todo[s] # <<>> => mem[s] \in MoveRecord)
  /\ todo[s] \in {Copying, Checking, Pointing, Activating, Retiring} => CarriedOver
  /\ todo[s] = Pointing => movePast.crossed \/ Whole
  /\ todo[s] \in {Activating, Retiring} => pointer = "new"
  /\ todo[s] = Retiring => newHome.status = "approved"

MoveSound ==
  /\ DOMAIN todo = Slot /\ DOMAIN mem = Slot
  /\ HomesTold /\ MoveKeepsHome
  /\ \A s \in Slot : Along(s)
  /\ movePast.crossed \/ \A s, t \in Slot : todo[s] # <<>> /\ todo[t] # <<>> => s = t

LEMMA PlanSteps ==
  /\ Head(Retiring) = "retire" /\ Tail(Retiring) = <<>> /\ Retiring # <<>>
  /\ Head(Activating) = "activate" /\ Tail(Activating) = Retiring /\ Activating # <<>>
  /\ Head(Pointing) = "point" /\ Tail(Pointing) = Activating /\ Pointing # <<>>
  /\ Head(Checking) = "check" /\ Tail(Checking) = Pointing /\ Checking # <<>>
  /\ Head(Copying) = "blobs" /\ Tail(Copying) = Checking /\ Copying # <<>>
  /\ Head(Importing) = "import" /\ Tail(Importing) = Copying /\ Importing # <<>>
  /\ Head(Exporting) = "export" /\ Tail(Exporting) = Importing /\ Exporting # <<>>
  /\ Head(Opening) = "open" /\ Tail(Opening) = Exporting /\ Opening # <<>>
<1>1. Head(Retiring) = "retire" /\ Tail(Retiring) = <<>> /\ Retiring # <<>>
  BY DEF Retiring
<1>2. Head(Activating) = "activate" /\ Tail(Activating) = Retiring /\ Activating # <<>>
  BY DEF Activating, Retiring
<1>3. Head(Pointing) = "point" /\ Tail(Pointing) = Activating /\ Pointing # <<>>
  BY DEF Pointing, Activating
<1>4. Head(Checking) = "check" /\ Tail(Checking) = Pointing /\ Checking # <<>>
  BY DEF Checking, Pointing
<1>5. Head(Copying) = "blobs" /\ Tail(Copying) = Checking /\ Copying # <<>>
  BY DEF Copying, Checking
<1>6. Head(Importing) = "import" /\ Tail(Importing) = Copying /\ Importing # <<>>
  BY DEF Importing, Copying
<1>7. Head(Exporting) = "export" /\ Tail(Exporting) = Importing /\ Exporting # <<>>
  BY DEF Exporting, Importing
<1>8. Head(Opening) = "open" /\ Tail(Opening) = Exporting /\ Opening # <<>>
  BY DEF Opening, Exporting
<1> QED
  BY <1>1, <1>2, <1>3, <1>4, <1>5, <1>6, <1>7, <1>8

\* The call a move is at says what is left.
LEMMA PlaceOnPlan ==
  ASSUME MoveSound, NEW s \in Slot
  PROVE  /\ At(s, "open") => todo[s] = Opening
         /\ At(s, "export") => todo[s] = Exporting
         /\ At(s, "import") => todo[s] = Importing
         /\ At(s, "blobs") => todo[s] = Copying
         /\ At(s, "check") => todo[s] = Checking
         /\ At(s, "point") => todo[s] = Pointing
         /\ At(s, "activate") => todo[s] = Activating
         /\ At(s, "retire") => todo[s] = Retiring
<1>1. todo[s] \in MovePlan
  BY DEF MoveSound, Along
<1> QED
  BY <1>1, PlanSteps DEF MovePlan, At

LEMMA MoveTurns ==
  ASSUME MoveSound, NEW s \in Slot, NEW steps \in MovePlan, NEW m,
         Turn(s, steps, m) \/ Begin(s, steps, m)
  PROVE  /\ DOMAIN todo' = Slot /\ DOMAIN mem' = Slot /\ todo'[s] = steps
         /\ steps # <<>> => mem'[s] = m
         /\ OthersWait(s)
BY DEF MoveSound, Turn, Begin, OthersWait

\* A call that changes no home, and gets the move to where it may be.
LEMMA HomesStay ==
  ASSUME MoveSound, NEW s \in Slot, DOMAIN todo' = Slot, DOMAIN mem' = Slot, OthersWait(s),
         todo[s] # <<>>, UNCHANGED <<moveTables, movePast>>,
         todo'[s] # <<>> => mem'[s] \in MoveRecord,
         \/ todo'[s] \in {<<>>, Exporting, Importing}
         \/ todo'[s] = Checking /\ CarriedOver
         \/ todo'[s] = Pointing /\ CarriedOver /\ Whole
  PROVE  MoveSound'
<1>1. /\ CarriedOver' = CarriedOver /\ Whole' = Whole /\ HomesTold' = HomesTold
      /\ MoveKeepsHome' = MoveKeepsHome
  BY DEF moveTables, CarriedOver, Whole, MissingBlobs, HomesTold, MoveKeepsHome
<1>2. pointer' = pointer /\ newHome' = newHome /\ movePast' = movePast
  BY DEF moveTables
<1>3. Along(s)'
  BY <1>1, PlanSteps DEF Along, MovePlan
<1>4. \A t \in Slot \ {s} : Along(t)'
  BY <1>1, <1>2 DEF MoveSound, Along, OthersWait
<1>5. movePast'.crossed \/ \A t, u \in Slot : todo'[t] # <<>> /\ todo'[u] # <<>> => t = u
  BY <1>2 DEF MoveSound, OthersWait
<1> QED
  BY <1>1, <1>3, <1>4, <1>5 DEF MoveSound

LEMMA LookingKeeps ==
  ASSUME MoveSound, NEW s \in Slot,
         ExportRepo(s) \/ NoneMissing(s) \/ CheckArrived(s) \/ MoveStops(s)
  PROVE  MoveSound'
<1>1. UNCHANGED <<moveTables, movePast>> /\ todo[s] # <<>>
  BY DEF ExportRepo, NoneMissing, CheckArrived, MoveStops, At
<1>2. mem[s] \in MoveRecord /\ HomesTold /\ DOMAIN todo = Slot /\ DOMAIN mem = Slot
  BY <1>1 DEF MoveSound, Along
<1>3. CASE Answer(s)
  <2>1. DOMAIN todo' = Slot /\ DOMAIN mem' = Slot /\ todo'[s] = <<>> /\ OthersWait(s)
    BY <1>3, MoveTurns DEF Answer, MovePlan
  <2> QED
    BY <1>1, <2>1, HomesStay
<1>4. CASE ExportRepo(s)
  <2>1. todo[s] = Exporting /\ Note(s, [mem[s] EXCEPT !.root = oldHome.records])
    BY <1>4, PlaceOnPlan DEF ExportRepo
  <2>2. oldHome.records \in 0..Records
    BY <1>2 DEF HomesTold
  <2> DEFINE m == [mem[s] EXCEPT !.root = oldHome.records]
  <2>3. m \in MoveRecord
    BY <1>2, <2>2 DEF MoveRecord
  <2> HIDE DEF m
  <2>4. Turn(s, Importing, m)
    BY <2>1, PlanSteps DEF Note, m
  <2>5. DOMAIN todo' = Slot /\ DOMAIN mem' = Slot /\ todo'[s] = Importing /\ OthersWait(s) /\ mem'[s] = m
    BY <2>4, MoveTurns, PlanSteps DEF MovePlan
  <2> QED
    BY <1>1, <2>3, <2>5, HomesStay
<1>5. CASE NoneMissing(s)
  <2>1. todo[s] = Copying /\ Turn(s, Checking, mem[s])
    BY <1>5, PlaceOnPlan, PlanSteps DEF NoneMissing, Pass
  <2>2. DOMAIN todo' = Slot /\ DOMAIN mem' = Slot /\ todo'[s] = Checking /\ OthersWait(s)
        /\ mem'[s] = mem[s]
    BY <2>1, MoveTurns, PlanSteps DEF MovePlan
  <2>3. CarriedOver
    BY <2>1 DEF MoveSound, Along
  <2> QED
    BY <1>1, <1>2, <2>2, <2>3, HomesStay
<1>6. CASE CheckArrived(s) /\ ~Answer(s)
  <2>1. todo[s] = Checking /\ Turn(s, Pointing, mem[s])
    BY <1>6, PlaceOnPlan, PlanSteps DEF CheckArrived, Pass
  <2>2. DOMAIN todo' = Slot /\ DOMAIN mem' = Slot /\ todo'[s] = Pointing /\ OthersWait(s)
        /\ mem'[s] = mem[s]
    BY <2>1, MoveTurns, PlanSteps DEF MovePlan
  <2>3. CarriedOver
    BY <2>1 DEF MoveSound, Along
  <2>4. Whole
    BY <1>6 DEF CheckArrived, Whole
  <2> QED
    BY <1>1, <1>2, <2>2, <2>3, <2>4, HomesStay
<1> QED
  BY <1>3, <1>4, <1>5, <1>6 DEF CheckArrived, MoveStops

\* Two moves have crossed once the second starts.
LEMMA StartingKeeps ==
  ASSUME MoveSound, NEW s \in Slot, StartMove(s)
  PROVE  MoveSound'
<1> DEFINE m == [what |-> "move", root |-> 0, as |-> "none"]
<1>1. /\ Begin(s, Opening, m) /\ UNCHANGED moveTables /\ todo[s] = <<>>
      /\ movePast' = [movePast EXCEPT !.crossed = @ \/ Moving # {}]
  BY DEF StartMove, Opening, Begin
<1>2. m \in MoveRecord
  BY RecordsAssumption DEF MoveRecord
<1> HIDE DEF m
<1>3. DOMAIN todo' = Slot /\ DOMAIN mem' = Slot /\ todo'[s] = Opening /\ OthersWait(s) /\ mem'[s] = m
  BY <1>1, MoveTurns, PlanSteps DEF MovePlan
<1>4. /\ DOMAIN movePast' = {"late", "crossed"} /\ movePast'.late = movePast.late
      /\ movePast'.crossed \in BOOLEAN
  BY <1>1 DEF MoveSound, HomesTold
<1>5. movePast'.crossed <=> movePast.crossed \/ Moving # {}
  BY <1>1 DEF MoveSound, HomesTold
<1>6. CarriedOver' = CarriedOver /\ Whole' = Whole
  BY <1>1, <1>4 DEF moveTables, CarriedOver, Whole, MissingBlobs
<1>7. HomesTold' /\ MoveKeepsHome'
  BY <1>1, <1>4, <1>5 DEF MoveSound, moveTables, HomesTold, MoveKeepsHome, MissingBlobs
<1>8. Along(s)'
  BY <1>2, <1>3, PlanSteps DEF Along, MovePlan
<1>9. \A t \in Slot \ {s} : Along(t)'
  BY <1>1, <1>3, <1>5, <1>6 DEF MoveSound, Along, OthersWait, moveTables
<1>10. ASSUME ~movePast'.crossed, NEW t \in Slot, NEW u \in Slot, todo'[t] # <<>>, todo'[u] # <<>>
       PROVE  t = u
  BY <1>3, <1>5, <1>10 DEF Moving, OthersWait
<1> QED
  BY <1>3, <1>7, <1>8, <1>9, <1>10 DEF MoveSound

-----------------------------------------------------------------------------
\* What one move does to the homes leaves the others where they may be: what
\* was carried over stays, no home goes back, and what one of them has checked
\* is not its alone only when they have crossed.
LEMMA OthersAlong ==
  ASSUME MoveSound, NEW s \in Slot, OthersWait(s), todo[s] # <<>>,
         movePast'.crossed = movePast.crossed, CarriedOver => CarriedOver',
         pointer = "new" => pointer' = "new",
         newHome.status = "approved" => newHome'.status = "approved"
  PROVE  /\ \A t \in Slot \ {s} : Along(t)'
         /\ movePast'.crossed \/ \A t, u \in Slot : todo'[t] # <<>> /\ todo'[u] # <<>> => t = u
<1>1. ASSUME NEW t \in Slot \ {s}
      PROVE  Along(t)'
  <2>1. Along(t) /\ todo'[t] = todo[t] /\ mem'[t] = mem[t]
    BY DEF MoveSound, OthersWait
  <2>2. movePast.crossed \/ todo[t] = <<>>
    BY DEF MoveSound
  <2> QED
    BY <2>1, <2>2, PlanSteps DEF Along
<1>2. movePast'.crossed \/ \A t, u \in Slot : todo'[t] # <<>> /\ todo'[u] # <<>> => t = u
  BY DEF MoveSound, OthersWait
<1> QED
  BY <1>1, <1>2

LEMMA OpeningAccountKeeps ==
  ASSUME MoveSound, NEW s \in Slot, OpenAccountForMove(s)
  PROVE  MoveSound'
<1>1. todo[s] = Opening /\ mem[s] \in MoveRecord /\ HomesTold
  BY PlaceOnPlan, PlanSteps DEF OpenAccountForMove, MoveSound, Along
<1>2. /\ newHome' = IF newHome.status = "none" THEN [newHome EXCEPT !.status = "deactivated"] ELSE newHome
      /\ UNCHANGED <<pointer, oldHome, movePast>>
      /\ Note(s, [mem[s] EXCEPT !.as = newHome'.status])
  BY DEF OpenAccountForMove
<1>3. /\ HomesTold' /\ newHome'.records = newHome.records /\ newHome'.blobs = newHome.blobs
      /\ newHome'.status = "approved" <=> newHome.status = "approved"
  BY <1>1, <1>2 DEF HomesTold
<1>4. CarriedOver' = CarriedOver /\ Whole' = Whole /\ MissingBlobs' = MissingBlobs
  BY <1>2, <1>3 DEF CarriedOver, Whole, MissingBlobs
<1>5. MoveKeepsHome'
  BY <1>2, <1>3, <1>4 DEF MoveSound, MoveKeepsHome
<1> DEFINE m == [mem[s] EXCEPT !.as = newHome'.status]
<1>6. m \in MoveRecord
  BY <1>1, <1>3 DEF HomesTold, MoveRecord
<1> HIDE DEF m
<1>7. Turn(s, Exporting, m)
  BY <1>1, <1>2, PlanSteps DEF Note, m
<1>8. DOMAIN todo' = Slot /\ DOMAIN mem' = Slot /\ todo'[s] = Exporting /\ OthersWait(s) /\ mem'[s] = m
  BY <1>7, MoveTurns, PlanSteps DEF MovePlan
<1>9. Along(s)'
  BY <1>6, <1>8, PlanSteps DEF Along, MovePlan
<1> QED
  BY <1>1, <1>2, <1>3, <1>4, <1>5, <1>8, <1>9, PlanSteps, OthersAlong DEF MoveSound

LEMMA ImportKeeps ==
  ASSUME MoveSound, NEW s \in Slot, ImportAtNew(s)
  PROVE  MoveSound'
<1>1. todo[s] = Importing /\ mem[s] \in MoveRecord /\ HomesTold /\ mem[s].root \in 0..Records
  BY PlaceOnPlan, PlanSteps DEF ImportAtNew, MoveSound, Along, MoveRecord
<1>2. /\ newHome.status = "deactivated" /\ pointer = "old" /\ Pass(s)
      /\ newHome' = [newHome EXCEPT !.records = mem[s].root]
      /\ movePast' = [movePast EXCEPT !.late = (mem[s].root + 1)..oldHome.records]
      /\ UNCHANGED <<pointer, oldHome>>
  BY DEF ImportAtNew
<1>3. /\ HomesTold' /\ newHome'.records = mem[s].root /\ newHome'.status = newHome.status
      /\ movePast'.late = (mem[s].root + 1)..oldHome.records /\ movePast'.crossed = movePast.crossed
  BY <1>1, <1>2 DEF HomesTold
<1>4. CarriedOver'
  <2>1. oldHome.records \in Nat /\ mem[s].root \in Nat
    BY <1>1, RecordsAssumption DEF HomesTold
  <2>2. \A r, n \in Nat : (1..n) \ ((r + 1)..n) \subseteq 1..r
    OBVIOUS
  <2> QED
    BY <1>2, <1>3, <2>1, <2>2 DEF CarriedOver
<1>5. MoveKeepsHome'
  BY <1>2, <1>3 DEF MoveSound, MoveKeepsHome
<1>6. Turn(s, Copying, mem[s])
  BY <1>1, <1>2, PlanSteps DEF Pass
<1>7. DOMAIN todo' = Slot /\ DOMAIN mem' = Slot /\ todo'[s] = Copying /\ OthersWait(s) /\ mem'[s] = mem[s]
  BY <1>6, MoveTurns, PlanSteps DEF MovePlan
<1>8. Along(s)'
  BY <1>1, <1>4, <1>7, PlanSteps DEF Along, MovePlan
<1> QED
  BY <1>1, <1>2, <1>3, <1>4, <1>5, <1>7, <1>8, PlanSteps, OthersAlong DEF MoveSound

LEMMA CopyingKeeps ==
  ASSUME MoveSound, NEW s \in Slot, NEW b \in 1..Records, CopyBlob(s, b)
  PROVE  MoveSound'
<1>1. /\ newHome' = [newHome EXCEPT !.blobs = @ \cup {b}]
      /\ UNCHANGED <<todo, mem, pointer, oldHome, movePast>>
  BY DEF CopyBlob, requests
<1>2. HomesTold
  BY DEF MoveSound
<1>3. /\ HomesTold' /\ newHome'.records = newHome.records /\ newHome'.status = newHome.status
      /\ newHome'.blobs = newHome.blobs \cup {b}
  BY <1>1, <1>2 DEF HomesTold
<1>4. CarriedOver' = CarriedOver /\ (Whole => Whole')
  BY <1>1, <1>3 DEF CarriedOver, Whole, MissingBlobs
<1>5. MoveKeepsHome'
  BY <1>1, <1>3, <1>4 DEF MoveSound, MoveKeepsHome, CarriedOver, Whole
<1>6. \A t \in Slot : Along(t)'
  BY <1>1, <1>3, <1>4 DEF MoveSound, Along
<1> QED
  BY <1>1, <1>3, <1>5, <1>6 DEF MoveSound

LEMMA PointKeeps ==
  ASSUME MoveSound, NEW s \in Slot, Point(s)
  PROVE  MoveSound'
<1>1. /\ todo[s] = Pointing /\ mem[s] \in MoveRecord /\ CarriedOver
      /\ movePast.crossed \/ Whole
  BY PlaceOnPlan, PlanSteps DEF Point, MoveSound, Along
<1>2. Pass(s) /\ pointer' = "new" /\ UNCHANGED <<oldHome, newHome, movePast>>
  BY DEF Point
<1>3. CarriedOver' = CarriedOver /\ Whole' = Whole
  BY <1>2 DEF CarriedOver, Whole, MissingBlobs
<1>4. HomesTold'
  BY <1>2 DEF MoveSound, HomesTold
<1>5. MoveKeepsHome'
  BY <1>1, <1>2 DEF MoveSound, MoveKeepsHome, CarriedOver, Whole, MissingBlobs
<1>6. Turn(s, Activating, mem[s])
  BY <1>1, <1>2, PlanSteps DEF Pass
<1>7. DOMAIN todo' = Slot /\ DOMAIN mem' = Slot /\ todo'[s] = Activating /\ OthersWait(s) /\ mem'[s] = mem[s]
  BY <1>6, MoveTurns, PlanSteps DEF MovePlan
<1>8. Along(s)'
  BY <1>1, <1>2, <1>3, <1>7, PlanSteps DEF Along, MovePlan
<1> QED
  BY <1>1, <1>2, <1>3, <1>4, <1>5, <1>7, <1>8, PlanSteps, OthersAlong DEF MoveSound

LEMMA ActivatingKeeps ==
  ASSUME MoveSound, NEW s \in Slot, ActivateNew(s)
  PROVE  MoveSound'
<1>1. todo[s] = Activating /\ mem[s] \in MoveRecord /\ CarriedOver /\ HomesTold
  BY PlaceOnPlan, PlanSteps DEF ActivateNew, MoveSound, Along
<1>2. /\ pointer = "new" /\ Pass(s) /\ newHome' = [newHome EXCEPT !.status = "approved"]
      /\ UNCHANGED <<pointer, oldHome, movePast>>
  BY DEF ActivateNew
<1>3. /\ HomesTold' /\ newHome'.records = newHome.records /\ newHome'.status = "approved"
      /\ newHome'.blobs = newHome.blobs
  BY <1>1, <1>2 DEF HomesTold
<1>4. CarriedOver' = CarriedOver /\ Whole' = Whole /\ MissingBlobs' = MissingBlobs
  BY <1>2, <1>3 DEF CarriedOver, Whole, MissingBlobs
<1>5. MoveKeepsHome'
  BY <1>2, <1>3, <1>4 DEF MoveSound, MoveKeepsHome
<1>6. Turn(s, Retiring, mem[s])
  BY <1>1, <1>2, PlanSteps DEF Pass
<1>7. DOMAIN todo' = Slot /\ DOMAIN mem' = Slot /\ todo'[s] = Retiring /\ OthersWait(s) /\ mem'[s] = mem[s]
  BY <1>6, MoveTurns, PlanSteps DEF MovePlan
<1>8. Along(s)'
  BY <1>1, <1>2, <1>3, <1>4, <1>7, PlanSteps DEF Along, MovePlan
<1> QED
  BY <1>1, <1>2, <1>3, <1>4, <1>5, <1>7, <1>8, PlanSteps, OthersAlong DEF MoveSound

LEMMA RetiringKeeps ==
  ASSUME MoveSound, NEW s \in Slot, RetireOld(s)
  PROVE  MoveSound'
<1>1. /\ todo[s] = Retiring /\ CarriedOver /\ HomesTold /\ pointer = "new"
      /\ newHome.status = "approved"
  BY PlaceOnPlan, PlanSteps DEF RetireOld, MoveSound, Along
<1>2. /\ Pass(s) /\ oldHome' = [oldHome EXCEPT !.active = FALSE]
      /\ UNCHANGED <<pointer, newHome, movePast>>
  BY DEF RetireOld
<1>3. HomesTold' /\ oldHome'.records = oldHome.records
  BY <1>1, <1>2 DEF HomesTold
<1>4. CarriedOver' = CarriedOver /\ Whole' = Whole /\ MissingBlobs' = MissingBlobs
  BY <1>2, <1>3 DEF CarriedOver, Whole, MissingBlobs
<1>5. MoveKeepsHome'
  BY <1>1, <1>2, <1>3, <1>4 DEF MoveSound, MoveKeepsHome
<1>6. Turn(s, <<>>, mem[s])
  BY <1>1, <1>2, PlanSteps DEF Pass
<1>7. DOMAIN todo' = Slot /\ DOMAIN mem' = Slot /\ todo'[s] = <<>> /\ OthersWait(s)
  BY <1>6, MoveTurns, PlanSteps DEF MovePlan
<1>8. Along(s)'
  BY <1>7, PlanSteps DEF Along, MovePlan
<1> QED
  BY <1>1, <1>2, <1>3, <1>4, <1>5, <1>7, <1>8, PlanSteps, OthersAlong DEF MoveSound

LEMMA OwnerKeeps ==
  ASSUME MoveSound, WriteAtOld
  PROVE  MoveSound'
<1>1. /\ oldHome.active /\ oldHome.records < Records
      /\ oldHome' = [oldHome EXCEPT !.records = @ + 1]
      /\ movePast' = [movePast EXCEPT !.late = @ \cup {oldHome.records + 1}]
      /\ UNCHANGED <<todo, mem, pointer, newHome>>
  BY DEF WriteAtOld, requests
<1>2. HomesTold /\ oldHome.records \in Nat /\ oldHome.records + 1 \in 0..Records
  BY <1>1, RecordsAssumption DEF MoveSound, HomesTold
<1>3. /\ oldHome'.records = oldHome.records + 1 /\ oldHome'.active
      /\ oldHome' \in [active: BOOLEAN, records: 0..Records]
  BY <1>1, <1>2 DEF HomesTold
<1>4. /\ movePast'.late = movePast.late \cup {oldHome.records + 1} /\ movePast'.crossed = movePast.crossed
      /\ DOMAIN movePast' = {"late", "crossed"}
  BY <1>1, <1>2 DEF HomesTold
<1>5. HomesTold'
  BY <1>1, <1>2, <1>3, <1>4 DEF HomesTold
<1>6. CarriedOver => CarriedOver'
  <2>1. \A n \in Nat : 1..(n + 1) = (1..n) \cup {n + 1}
    OBVIOUS
  <2> QED
    BY <1>1, <1>2, <1>3, <1>4, <2>1 DEF CarriedOver
<1>7. Whole' = Whole /\ MissingBlobs' = MissingBlobs
  BY <1>1 DEF Whole, MissingBlobs
<1>8. MoveKeepsHome'
  BY <1>1, <1>3, <1>4, <1>6, <1>7 DEF MoveSound, MoveKeepsHome, CarriedOver
<1>9. \A t \in Slot : Along(t)'
  BY <1>1, <1>4, <1>6, <1>7 DEF MoveSound, Along
<1> QED
  BY <1>1, <1>4, <1>5, <1>8, <1>9 DEF MoveSound

LEMMA InitMoveSound ==
  ASSUME MoveInit
  PROVE  MoveSound
<1>1. DOMAIN todo = Slot /\ DOMAIN mem = Slot /\ \A s \in Slot : todo[s] = <<>>
  BY DEF MoveInit, RequestsInit
<1>2. HomesTold
  <2>1. 0 \in 0..Records /\ 1 \in 0..Records
    BY RecordsAssumption
  <2>2. oldHome \in [active: BOOLEAN, records: 0..Records]
    BY <2>1 DEF MoveInit
  <2>3. newHome \in [status: {"none", "deactivated", "approved"}, records: 0..Records,
                    blobs: SUBSET (1..Records)]
    BY <2>1 DEF MoveInit, NoAccount
  <2>4. movePast.crossed \in BOOLEAN /\ DOMAIN movePast = {"late", "crossed"}
    BY DEF MoveInit
  <2> QED
    BY <2>2, <2>3, <2>4 DEF MoveInit, HomesTold
<1>3. MoveKeepsHome
  BY DEF MoveInit, MoveKeepsHome, NoAccount
<1>4. \A s \in Slot : Along(s)
  BY <1>1, PlanSteps DEF Along, MovePlan
<1> QED
  BY <1>1, <1>2, <1>3, <1>4 DEF MoveSound

LEMMA MoveSoundAlways == MoveSpec => []MoveSound
<1>1. MoveInit => MoveSound
  BY InitMoveSound
<1>2. MoveSound /\ [MoveNext]_moveVars => MoveSound'
  <2> SUFFICES ASSUME MoveSound, [MoveNext]_moveVars
               PROVE  MoveSound'
    OBVIOUS
  <2>1. CASE UNCHANGED moveVars
    BY <2>1 DEF moveVars, moveTables, requests, MoveSound, HomesTold, MoveKeepsHome, MissingBlobs,
       Along, CarriedOver, Whole
  <2>2. ASSUME NEW s \in Slot,
               \/ StartMove(s) \/ OpenAccountForMove(s) \/ ExportRepo(s) \/ ImportAtNew(s)
               \/ \E b \in 1..Records : CopyBlob(s, b)
               \/ NoneMissing(s) \/ CheckArrived(s) \/ Point(s) \/ ActivateNew(s) \/ RetireOld(s)
               \/ MoveStops(s)
        PROVE  MoveSound'
    BY <2>2, StartingKeeps, OpeningAccountKeeps, LookingKeeps, ImportKeeps, CopyingKeeps, PointKeeps,
       ActivatingKeeps, RetiringKeeps
  <2> QED
    BY <2>1, <2>2, OwnerKeeps DEF MoveNext
<1> QED
  BY <1>1, <1>2, PTL DEF MoveSpec

\* However many devices move a pseudonym at a time, wherever each is cut short,
\* and whatever the owner writes meanwhile: one home works, the old until the
\* new, and the new one has every record written before the last export that
\* was imported, with its blobs unless two moves crossed (moveAccount).
THEOREM MovesKeepHome == MoveSpec => []MoveKeepsHome
<1>1. MoveSound => MoveKeepsHome
  BY DEF MoveSound
<1> QED
  BY <1>1, MoveSoundAlways, PTL

\* The DID names one of the two, and neither account holds what was not written.
THEOREM MoveTyped == MoveSpec => []MoveTypeOK
<1>1. MoveSound => MoveTypeOK
  BY DEF MoveSound, HomesTold, MoveTypeOK
<1> QED
  BY <1>1, MoveSoundAlways, PTL
=============================================================================

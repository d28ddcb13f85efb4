------------------------------ MODULE Contacts ------------------------------
(***************************************************************************)
(* How two people of this server become contacts, and cease to be.  Every  *)
(* fact is kept twice, as a record in a repository, for the network, and   *)
(* as a row of an index, from which the handlers decide: each is written   *)
(* in a commit of its own, in the repositories of both people.             *)
(*                                                                         *)
(* One pair of people stands for all: no handler looks beyond its pair.    *)
(* Notes, notifications and tags are left out.                             *)
(***************************************************************************)
EXTENDS Requests

CONSTANT Party   \* the two people

ASSUME PartyAssumption == \E p \in Party : \E q \in Party \ {p} : Party = {p, q}

VARIABLES
  askRecords, \* person -> keys of request records in their repository
  askRows,    \* person -> the key in the row of the request they sent; 0: none
  bondRecords,\* person -> keys of contact records in their repository
  bondRows,   \* person -> the key in their row of contacts; 0: none
  barRecords, \* person -> keys of block records in their repository
  barRows,    \* person -> the key in their row of contact_blocks; 0: none
  drawn,      \* record keys used so far
  asksMade,   \* history: person -> requests they recorded
  asksGranted,\* history: person -> requests they answered yes to
  asksVoid,   \* history: requests taken back, rejected or blocked away
  grounds,    \* history: person -> the request their row of contacts rests on; 0: none
  parted,     \* history: person -> requests whose contact was taken from them
  loose,      \* history: <<kind, person, key>>: record or row left without the other
  halved,     \* history: a contact was made or removed on one side alone
  asksCrossed,\* history: a request set out with another, or an acceptance, under way
  overtaken   \* history: a block met a request or an acceptance under way

contactTables == <<askRecords, askRows, bondRecords, bondRows, barRecords, barRows, drawn>>
agreement == <<asksMade, asksGranted, asksVoid, grounds, parted>>
meetings == <<asksCrossed, overtaken>>
contactPast == <<agreement, loose, halved, meetings>>

ContactsInit ==
  /\ RequestsInit
  /\ askRecords = [p \in Party |-> {}] /\ askRows = [p \in Party |-> 0]
  /\ bondRecords = [p \in Party |-> {}] /\ bondRows = [p \in Party |-> 0]
  /\ barRecords = [p \in Party |-> {}] /\ barRows = [p \in Party |-> 0]
  /\ drawn = 0
  /\ asksMade = [p \in Party |-> {}] /\ asksGranted = [p \in Party |-> {}] /\ asksVoid = {}
  /\ grounds = [p \in Party |-> 0] /\ parted = [p \in Party |-> {}]
  /\ loose = {} /\ halved = FALSE /\ asksCrossed = FALSE /\ overtaken = FALSE

Other(p) == CHOOSE q \in Party : q # p
Blocked == \E p \in Party : barRows[p] # 0
Me(s) == mem[s].me
You(s) == Other(mem[s].me)
Letter(p, key) == [what |-> "letter", me |-> p, key |-> key, mine |-> 0, theirs |-> 0]

Start(s, p, key, steps) ==
  /\ Begin(s, steps, Letter(p, key))
  /\ UNCHANGED <<contactTables, asksMade, asksVoid, grounds, parted, loose, halved>>

\* Under way: a request or an acceptance, which adds rows; a block.
SomeAdding  == \E s \in Slot : Pending(s, "ask row") \/ Pending(s, "bond rows")
SomeBarring == \E s \in Slot : Pending(s, "bar row")

\* What a request has put or dropped the record of, and whose row it has yet to
\* see to: which kind, of whom, by which key.
HalfDone(s) ==
  LET Asked(p, key) == <<"ask", p, key>>
      Bond(p, key)  == <<"bond", p, key>>
      Bonds == {Bond(Me(s), mem[s].mine), Bond(You(s), mem[s].theirs)} IN
  CASE At(s, "ask row") \/ At(s, "own ask row") -> {Asked(Me(s), mem[s].key)}
    [] At(s, "put their bond") \/ At(s, "drop ask") \/ At(s, "unbond both") -> Bonds
    [] At(s, "bond rows") -> Bonds \cup {Asked(You(s), mem[s].key)}
    [] At(s, "unask") -> {Asked(You(s), mem[s].key)}
    [] At(s, "drop their bond") \/ At(s, "unbond") -> {Bond(Me(s), mem[s].key)}
    [] At(s, "unbond theirs") -> {Bond(Me(s), mem[s].key), Bond(You(s), mem[s].theirs)}
    [] At(s, "unask both") -> {Asked(Me(s), mem[s].mine), Asked(You(s), mem[s].theirs)}
    [] At(s, "bar row") \/ At(s, "unbar") -> {<<"bar", Me(s), mem[s].key>>}
    [] OTHER -> {}

LeaveLoose(entries) == loose' = loose \cup entries

\* A row deleted by its pair that is not the one read.
Stray(kind, p, row, read) == IF row \in {0, read} THEN {} ELSE {<<kind, p, row>>}

-----------------------------------------------------------------------------
(* Asking, taking back, answering. *)

SendRequest(s, p) ==
  /\ ~Blocked
  /\ \A q \in Party : askRows[q] = 0 /\ bondRows[q] = 0
  /\ Start(s, p, 0, <<"put ask", "ask row">>) /\ UNCHANGED asksGranted
  /\ asksCrossed' = (asksCrossed \/ SomeAdding) /\ overtaken' = (overtaken \/ SomeBarring)

PutAsk(s) ==
  /\ At(s, "put ask")
  /\ Note(s, [mem[s] EXCEPT !.key = drawn + 1]) /\ drawn' = drawn + 1
  /\ askRecords' = [askRecords EXCEPT ![Me(s)] = @ \cup {drawn + 1}]
  /\ asksMade' = [asksMade EXCEPT ![Me(s)] = @ \cup {drawn + 1}]
  /\ UNCHANGED <<askRows, bondRecords, bondRows, barRecords, barRows>>
  /\ UNCHANGED <<asksGranted, asksVoid, grounds, parted, loose, halved, meetings>>

\* Where there is a row the record is left without one.
InsertAsk(s) ==
  /\ At(s, "ask row") /\ Pass(s)
  /\ askRows' = [askRows EXCEPT ![Me(s)] = IF @ = 0 THEN mem[s].key ELSE @]
  /\ LeaveLoose(IF askRows[Me(s)] = 0 THEN {} ELSE {<<"ask", Me(s), mem[s].key>>})
  /\ UNCHANGED <<askRecords, bondRecords, bondRows, barRecords, barRows, drawn>>
  /\ UNCHANGED <<agreement, halved, meetings>>

WithdrawRequest(s, p) ==
  /\ askRows[p] # 0
  /\ Start(s, p, askRows[p], <<"drop own ask", "own ask row">>)
  /\ UNCHANGED <<asksGranted, meetings>>

Accept(s, p) ==
  /\ askRows[Other(p)] # 0
  /\ Start(s, p, askRows[Other(p)],
           <<"put bond", "put their bond", "drop ask", "bond rows", "unask">>)
  /\ asksGranted' = [asksGranted EXCEPT ![p] = @ \cup {askRows[Other(p)]}]
  /\ overtaken' = (overtaken \/ SomeBarring) /\ UNCHANGED asksCrossed

RejectRequest(s, p) ==
  /\ askRows[Other(p)] # 0
  /\ Start(s, p, askRows[Other(p)], <<"reject ask", "unask">>)
  /\ UNCHANGED <<asksGranted, meetings>>

\* In the repository of the one who answers, then of the one who asked.
PutBond(s) ==
  LET owner == IF At(s, "put bond") THEN Me(s) ELSE You(s) IN
  /\ At(s, "put bond") \/ At(s, "put their bond")
  /\ Note(s, IF owner = Me(s) THEN [mem[s] EXCEPT !.mine = drawn + 1]
             ELSE [mem[s] EXCEPT !.theirs = drawn + 1])
  /\ drawn' = drawn + 1
  /\ bondRecords' = [bondRecords EXCEPT ![owner] = @ \cup {drawn + 1}]
  /\ UNCHANGED <<askRecords, askRows, bondRows, barRecords, barRows, contactPast>>

\* A slip the runs must notice: the record is deleted if it is there.
DropAskAnyway(s) ==
  LET owner == IF At(s, "drop own ask") THEN Me(s) ELSE You(s) IN
  /\ At(s, "drop ask") \/ At(s, "reject ask") \/ At(s, "drop own ask")
  /\ Pass(s)
  /\ askRecords' = [askRecords EXCEPT ![owner] = @ \ {mem[s].key}]
  /\ asksVoid' = IF At(s, "drop ask") THEN asksVoid ELSE asksVoid \cup {mem[s].key}
  /\ UNCHANGED <<askRows, bondRecords, bondRows, barRecords, barRows, drawn>>
  /\ UNCHANGED <<asksMade, asksGranted, grounds, parted, loose, halved, meetings>>

\* The repository refuses to delete what is not there: whoever comes second to
\* a request is answered by an error, an acceptance with its records put.
DropAsk(s) ==
  LET owner == IF At(s, "drop own ask") THEN Me(s) ELSE You(s)
      there == mem[s].key \in askRecords[owner] IN
  /\ At(s, "drop ask") \/ At(s, "reject ask") \/ At(s, "drop own ask")
  /\ IF there THEN Pass(s) ELSE Answer(s)
  /\ askRecords' = [askRecords EXCEPT ![owner] = @ \ {mem[s].key}]
  /\ asksVoid' = IF there /\ ~At(s, "drop ask") THEN asksVoid \cup {mem[s].key} ELSE asksVoid
  /\ LeaveLoose(IF there THEN {} ELSE HalfDone(s))
  /\ UNCHANGED <<askRows, bondRecords, bondRows, barRecords, barRows, drawn>>
  /\ UNCHANGED <<asksMade, asksGranted, grounds, parted, halved, meetings>>

\* One statement for both rows; a row there is stays, and the record put for it
\* is left without one.
InsertBonds(s) ==
  LET new == [p \in Party |-> IF p = Me(s) THEN mem[s].mine ELSE mem[s].theirs]
      taken == {p \in Party : bondRows[p] # 0} IN
  /\ At(s, "bond rows") /\ Pass(s)
  /\ bondRows' = [p \in Party |-> IF p \in taken THEN bondRows[p] ELSE new[p]]
  /\ grounds' = [p \in Party |-> IF p \in taken THEN grounds[p] ELSE mem[s].key]
  /\ LeaveLoose({<<"bond", p, new[p]>> : p \in taken})
  /\ halved' = (halved \/ taken \notin {{}, Party})
  /\ UNCHANGED <<askRecords, askRows, bondRecords, barRecords, barRows, drawn>>
  /\ UNCHANGED <<asksMade, asksGranted, asksVoid, parted, meetings>>

DeleteAsk(s) ==
  LET owner == IF At(s, "unask") THEN You(s) ELSE Me(s) IN
  /\ At(s, "unask") \/ At(s, "own ask row")
  /\ Pass(s)
  /\ askRows' = [askRows EXCEPT ![owner] = IF @ = mem[s].key THEN 0 ELSE @]
  /\ UNCHANGED <<askRecords, bondRecords, bondRows, barRecords, barRows, drawn, contactPast>>

-----------------------------------------------------------------------------
(* Parting. *)

RemoveContact(s, p) ==
  /\ bondRows[p] # 0
  /\ Start(s, p, bondRows[p],
           <<"their bond", "drop bond", "drop their bond", "unbond theirs", "unbond">>)
  /\ UNCHANGED <<asksGranted, meetings>>

\* Without a row on the other side nothing is removed there.
ReadTheirBond(s) ==
  /\ At(s, "their bond")
  /\ LET theirs == bondRows[You(s)] IN
     Turn(s, IF theirs # 0 THEN Tail(todo[s]) ELSE <<"drop bond", "unbond">>,
          [mem[s] EXCEPT !.theirs = theirs])
  /\ UNCHANGED <<contactTables, contactPast>>

DropBond(s) ==
  /\ At(s, "drop bond")
  /\ IF mem[s].key \in bondRecords[Me(s)] THEN Pass(s) ELSE Answer(s)
  /\ bondRecords' = [bondRecords EXCEPT ![Me(s)] = @ \ {mem[s].key}]
  /\ UNCHANGED <<askRecords, askRows, bondRows, barRecords, barRows, drawn, contactPast>>

\* Best effort: a record that is not there is passed over.
DropTheirBond(s) ==
  /\ At(s, "drop their bond") /\ Pass(s)
  /\ bondRecords' = [bondRecords EXCEPT ![You(s)] = @ \ {mem[s].theirs}]
  /\ UNCHANGED <<askRecords, askRows, bondRows, barRecords, barRows, drawn, contactPast>>

\* By the pair: whichever row there is by now, read or not.
DeleteBond(s) ==
  LET owner == IF At(s, "unbond") THEN Me(s) ELSE You(s)
      read  == IF At(s, "unbond") THEN mem[s].key ELSE mem[s].theirs IN
  /\ At(s, "unbond") \/ At(s, "unbond theirs")
  /\ Pass(s)
  /\ bondRows' = [bondRows EXCEPT ![owner] = 0]
  /\ grounds' = [grounds EXCEPT ![owner] = 0]
  /\ parted' = [parted EXCEPT ![owner] = @ \cup ({grounds[owner]} \ {0})]
  /\ LeaveLoose(Stray("bond", owner, bondRows[owner], read))
  /\ halved' = (halved \/ bondRows[owner] \notin {0, read})
  /\ UNCHANGED <<askRecords, askRows, bondRecords, barRecords, barRows, drawn>>
  /\ UNCHANGED <<asksMade, asksGranted, asksVoid, meetings>>

-----------------------------------------------------------------------------
(* Blocking takes contact and requests away, in either direction, and comes *)
(* last.  What it deletes from the repositories is best effort, one step for *)
(* both.                                                                     *)

BlockContact(s, p) ==
  /\ Begin(s, <<"drop bonds", "unbond both", "read asks", "drop asks", "unask both",
                "put bar", "bar row">>,
           [Letter(p, 0) EXCEPT !.mine = bondRows[p], !.theirs = bondRows[Other(p)]])
  /\ overtaken' = (overtaken \/ SomeAdding)
  /\ UNCHANGED <<contactTables, agreement, loose, halved, asksCrossed>>

Pair(s) == [p \in Party |-> IF p = Me(s) THEN mem[s].mine ELSE mem[s].theirs]

DropBonds(s) ==
  /\ At(s, "drop bonds") /\ Pass(s)
  /\ bondRecords' = [p \in Party |-> bondRecords[p] \ {Pair(s)[p]}]
  /\ UNCHANGED <<askRecords, askRows, bondRows, barRecords, barRows, drawn, contactPast>>

DeleteBonds(s) ==
  /\ At(s, "unbond both") /\ Pass(s)
  /\ bondRows' = [p \in Party |-> 0]
  /\ grounds' = [p \in Party |-> 0]
  /\ parted' = [p \in Party |-> parted[p] \cup ({grounds[p]} \ {0})]
  /\ LeaveLoose(UNION {Stray("bond", p, bondRows[p], Pair(s)[p]) : p \in Party})
  /\ UNCHANGED <<askRecords, askRows, bondRecords, barRecords, barRows, drawn>>
  /\ UNCHANGED <<asksMade, asksGranted, asksVoid, halved, meetings>>

ReadAsks(s) ==
  /\ At(s, "read asks")
  /\ Note(s, [mem[s] EXCEPT !.mine = askRows[Me(s)], !.theirs = askRows[You(s)]])
  /\ UNCHANGED <<contactTables, contactPast>>

DropAsks(s) ==
  /\ At(s, "drop asks") /\ Pass(s)
  /\ askRecords' = [p \in Party |-> askRecords[p] \ {Pair(s)[p]}]
  /\ asksVoid' = asksVoid \cup UNION {askRecords[p] \cap {Pair(s)[p]} : p \in Party}
  /\ UNCHANGED <<askRows, bondRecords, bondRows, barRecords, barRows, drawn>>
  /\ UNCHANGED <<asksMade, asksGranted, grounds, parted, loose, halved, meetings>>

DeleteAsks(s) ==
  /\ At(s, "unask both") /\ Pass(s)
  /\ askRows' = [p \in Party |-> 0]
  /\ LeaveLoose(UNION {Stray("ask", p, askRows[p], Pair(s)[p]) : p \in Party})
  /\ UNCHANGED <<askRecords, bondRecords, bondRows, barRecords, barRows, drawn>>
  /\ UNCHANGED <<agreement, halved, meetings>>

PutBar(s) ==
  /\ At(s, "put bar")
  /\ Note(s, [mem[s] EXCEPT !.key = drawn + 1]) /\ drawn' = drawn + 1
  /\ barRecords' = [barRecords EXCEPT ![Me(s)] = @ \cup {drawn + 1}]
  /\ UNCHANGED <<askRecords, askRows, bondRecords, bondRows, barRows, contactPast>>

\* A second block leaves the row, and its record, as they were.
InsertBar(s) ==
  /\ At(s, "bar row") /\ Pass(s)
  /\ barRows' = [barRows EXCEPT ![Me(s)] = IF @ = 0 THEN mem[s].key ELSE @]
  /\ LeaveLoose(IF barRows[Me(s)] = 0 THEN {} ELSE {<<"bar", Me(s), mem[s].key>>})
  /\ UNCHANGED <<askRecords, askRows, bondRecords, bondRows, barRecords, drawn>>
  /\ UNCHANGED <<agreement, halved, meetings>>

UnblockContact(s, p) ==
  /\ barRows[p] # 0
  /\ Start(s, p, barRows[p], <<"drop bar", "unbar">>)
  /\ UNCHANGED <<asksGranted, meetings>>

DropBar(s) ==
  /\ At(s, "drop bar")
  /\ IF mem[s].key \in barRecords[Me(s)] THEN Pass(s) ELSE Answer(s)
  /\ barRecords' = [barRecords EXCEPT ![Me(s)] = @ \ {mem[s].key}]
  /\ UNCHANGED <<askRecords, askRows, bondRecords, bondRows, barRows, drawn, contactPast>>

DeleteBar(s) ==
  /\ At(s, "unbar") /\ Pass(s)
  /\ barRows' = [barRows EXCEPT ![Me(s)] = 0]
  /\ LeaveLoose(Stray("bar", Me(s), barRows[Me(s)], mem[s].key))
  /\ UNCHANGED <<askRecords, askRows, bondRecords, bondRows, barRecords, drawn>>
  /\ UNCHANGED <<agreement, halved, meetings>>

\* The process dies: what the request was halfway through stays so.
ContactFails(s) ==
  /\ todo[s] # <<>> /\ Answer(s)
  /\ LeaveLoose(HalfDone(s))
  /\ halved' = (halved \/ At(s, "unbond"))
  /\ UNCHANGED <<contactTables, agreement, meetings>>

ContactsNext ==
  \/ \E s \in Slot, p \in Party :
       \/ SendRequest(s, p) \/ WithdrawRequest(s, p) \/ Accept(s, p) \/ RejectRequest(s, p)
       \/ RemoveContact(s, p) \/ BlockContact(s, p) \/ UnblockContact(s, p)
  \/ \E s \in Slot :
       \/ PutAsk(s) \/ InsertAsk(s) \/ DropAsk(s) \/ DeleteAsk(s) \/ PutBond(s) \/ InsertBonds(s)
       \/ ReadTheirBond(s) \/ DropBond(s) \/ DropTheirBond(s) \/ DeleteBond(s)
       \/ DropBonds(s) \/ DeleteBonds(s) \/ ReadAsks(s) \/ DropAsks(s) \/ DeleteAsks(s)
       \/ PutBar(s) \/ InsertBar(s) \/ DropBar(s) \/ DeleteBar(s) \/ ContactFails(s)

-----------------------------------------------------------------------------
ContactsTypeOK ==
  /\ \A table \in {askRecords, bondRecords, barRecords, asksMade, asksGranted, parted} :
       table \in [Party -> SUBSET (1 .. drawn)]
  /\ \A table \in {askRows, bondRows, barRows, grounds} : table \in [Party -> 0 .. drawn]
  /\ drawn \in Nat /\ asksVoid \subseteq 1 .. drawn
  /\ loose \subseteq {"ask", "bond", "bar"} \X Party \X (0 .. drawn)
  /\ halved \in BOOLEAN /\ asksCrossed \in BOOLEAN /\ overtaken \in BOOLEAN

\* Each row of contacts rests on a request that one of the two recorded and the
\* other accepted, that was not taken back, rejected or blocked away first, and
\* whose contact was not taken from this person before.
ContactsAreAgreed ==
  \A p \in Party : bondRows[p] # 0 =>
    /\ \E q \in Party : grounds[p] \in asksMade[q] /\ grounds[p] \in asksGranted[Other(q)]
    /\ grounds[p] \notin asksVoid /\ grounds[p] \notin parted[p]

\* One is a contact of the other only if the other is of the one.
BothAreContacts ==
  \A p \in Party : bondRows[p] # 0 /\ bondRows[Other(p)] = 0 =>
    halved \/ \E s \in Slot : At(s, "unbond") /\ Me(s) = p

\* What the network sees in the repositories and what the index holds are the same.
Matched(kind, records, rows) ==
  \A p \in Party, key \in 1 .. drawn :
    \/ key \in records[p] <=> rows[p] = key
    \/ <<kind, p, key>> \in loose
    \/ \E s \in Slot : <<kind, p, key>> \in HalfDone(s)

IndexAgrees ==
  /\ Matched("ask", askRecords, askRows)
  /\ Matched("bond", bondRecords, bondRows)
  /\ Matched("bar", barRecords, barRows)

\* Nobody asks who has asked them, or a contact.
OneAtATime ==
  \A p \in Party : askRows[p] # 0 /\ ~asksCrossed =>
    /\ askRows[Other(p)] = 0
    /\ \/ \A q \in Party : bondRows[q] = 0
       \/ <<"ask", p, askRows[p]>> \in loose
       \/ \E s \in Slot : At(s, "unask") /\ mem[s].key = askRows[p]

BlocksHold == Blocked /\ ~overtaken => \A p \in Party : askRows[p] = 0 /\ bondRows[p] = 0

\* Requests may cross and die at every statement.  Nobody is a contact but by a
\* request one made and the other accepted, each request once.  Both are contacts
\* or neither is, but while a removal is between the two rows, after one died
\* there, and after a contact was made next to one half removed or removed by who
\* had read the one before.  Records and rows agree, but for the keys a request is
\* halfway through or died or was refused at, and for a row deleted by its pair
\* that was not the one read.  There is one request at a time and none between
\* contacts, but the accepted one whose row is yet to go, or where two requests
\* crossed.  Where one has blocked the other there is neither a contact nor a
\* request, but where one was being added as the block was made.
ContactsAreMutual ==
  ContactsAreAgreed /\ BothAreContacts /\ IndexAgrees /\ OneAtATime /\ BlocksHold

contactsVars == <<requests, contactTables, contactPast>>
ContactsSpec == ContactsInit /\ [][ContactsNext]_contactsVars
=============================================================================

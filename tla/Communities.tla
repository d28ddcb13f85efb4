---------------------------- MODULE Communities ----------------------------
(***************************************************************************)
(* One community's people: the member, role and delegation records of its  *)
(* repository, the row of members_unique that leads from a person to their *)
(* record, the join requests, and the handlers that change them, statement *)
(* by statement.  A record and its line of records_index are one thing     *)
(* here (RepoEngine tells them apart); the row is written after it.        *)
(*                                                                         *)
(* Of a role only its name counts and whether it may write (members,       *)
(* roles, governance); of a member record its role.  The owner may do      *)
(* everything, whatever their record says.  Display names, kinds, tags,    *)
(* attributes and audit rows are left out, and so are roles by name alone. *)
(***************************************************************************)
EXTENDS Requests

CONSTANTS
  Person,    \* people with an account here, the owner apart
  Proprietor \* the owner

VARIABLES
  policy,     \* who may join: everyone, or on approval
  roster,     \* member records
  rows,       \* members_unique: person -> key of their record, 0 for none
  asked,      \* join_requests
  roles,      \* role records
  handovers,  \* delegation records
  keys,       \* record keys generated so far
  tangled,    \* history: whose membership two requests changed at once, or one left half done
  crossed     \* history: who had two requests about their delegation at once

tables == <<policy, roster, rows, asked, roles, handovers, keys>>
People == Person \cup {Proprietor}
RoleName == {"member", "moderator", "guest"}

CommunitiesInit ==
  /\ RequestsInit
  /\ policy \in {"open", "approval"}
  /\ roles = {[key |-> 1, name |-> "moderator", writes |-> TRUE],
              [key |-> 2, name |-> "member", writes |-> FALSE]}
  /\ roster = {[key |-> 3, who |-> Proprietor, role |-> 1]}
  /\ rows = [p \in People |-> IF p = Proprietor THEN 3 ELSE 0]
  /\ asked = [p \in Person |-> "none"]
  /\ handovers = {} /\ keys = 3 /\ tangled = {} /\ crossed = {}

Record(key) == {r \in roster : r.key = key}
RoleAt(key) == {r \in roles : r.key = key}
Handovers(p) == {h \in handovers : h.from = p}

\* loadCommunityContext: row, then record, then role.
MayWrite(p) ==
  \/ p = Proprietor
  \/ \E m \in Record(rows[p]) : \E r \in RoleAt(m.role) : r.writes

About(s) == IF "about" \in DOMAIN mem[s] THEN mem[s].about ELSE "nobody"
Changing(s) == Steps(s) \cap {"put", "row", "delete", "unrow"} # {}
Underway(s) == Changing(s) \/ Steps(s) \cap {"policy", "role", "record"} # {}
Dropping(s, role) == Pending(s, "dropRole") /\ mem[s].key = role
Tangling(s) ==
  tangled' = IF \E t \in Slot \ {s} :
                     \/ Underway(t) /\ About(t) = About(s)
                     \/ At(s, "put") /\ Dropping(t, mem[s].role)
               THEN tangled \cup {About(s)} ELSE tangled

Asking(what, p) == [what |-> what, about |-> p, key |-> 0, role |-> 0]

-----------------------------------------------------------------------------
(* Coming in. *)

Join(s, p) ==
  /\ rows[p] = 0
  /\ Begin(s, <<"policy">>, Asking("join", p))
  /\ UNCHANGED <<tables, tangled, crossed>>

Admission == <<"role", "put", "row">>

ReadPolicy(s) ==
  /\ At(s, "policy")
  /\ Turn(s, IF policy = "open" THEN Admission ELSE <<"request">>, mem[s])
  /\ UNCHANGED <<tables, tangled, crossed>>

\* A request that was rejected is opened again; any other is asked for anew,
\* which a row that is there refuses.
ReadRequest(s) ==
  /\ At(s, "request")
  /\ CASE asked[About(s)] = "pending"  -> Answer(s)
       [] asked[About(s)] = "rejected" -> Turn(s, <<"reopen">>, mem[s])
       [] OTHER                        -> Turn(s, <<"ask">>, mem[s])
  /\ UNCHANGED <<tables, tangled, crossed>>

Reopen(s) ==
  /\ At(s, "reopen") /\ Pass(s)
  /\ asked' = [asked EXCEPT ![About(s)] = IF @ = "none" THEN @ ELSE "pending"]
  /\ UNCHANGED <<policy, roster, rows, roles, handovers, keys, tangled, crossed>>

FileRequest(s) ==
  /\ At(s, "ask") /\ Pass(s)
  /\ asked' = [asked EXCEPT ![About(s)] = IF @ = "none" THEN "pending" ELSE @]
  /\ UNCHANGED <<policy, roster, rows, roles, handovers, keys, tangled, crossed>>

Resolve(s, p, ruling) ==
  /\ asked[p] = "pending"
  /\ Begin(s, IF ruling = "approved" THEN << ruling >> \o Admission ELSE << ruling >>,
           Asking("resolve", p))
  /\ UNCHANGED <<tables, tangled, crossed>>

\* Whether they are a member by now is not asked.
Decide(s, ruling) ==
  /\ At(s, ruling) /\ Pass(s)
  /\ asked' = [asked EXCEPT ![About(s)] = IF @ = "none" THEN @ ELSE ruling]
  /\ tangled' = IF ruling = "approved" /\ rows[About(s)] # 0
                  THEN tangled \cup {About(s)} ELSE tangled
  /\ UNCHANGED <<policy, roster, rows, roles, handovers, keys, crossed>>

\* findRoleRkeyByName, and the key for the record.
FindRole(s) ==
  /\ At(s, "role")
  /\ keys' = keys + 1
  /\ LET named == {r \in roles : r.name = "member"} IN
       \E role \in IF named = {} THEN {0} ELSE {r.key : r \in named} :
         Note(s, [mem[s] EXCEPT !.key = keys + 1, !.role = role])
  /\ UNCHANGED <<policy, roster, rows, asked, roles, handovers, tangled, crossed>>

PutMember(s) ==
  /\ At(s, "put") /\ Pass(s) /\ Tangling(s)
  /\ roster' = (roster \ Record(mem[s].key))
                 \cup {[key |-> mem[s].key, who |-> About(s), role |-> mem[s].role]}
  /\ UNCHANGED <<policy, rows, asked, roles, handovers, keys, crossed>>

\* projectMemberRow: the row of that person now leads to this record.
ProjectMember(s) ==
  /\ At(s, "row") /\ Pass(s) /\ Tangling(s)
  /\ rows' = [rows EXCEPT ![About(s)] = mem[s].key]
  /\ UNCHANGED <<policy, roster, asked, roles, handovers, keys, crossed>>

-----------------------------------------------------------------------------
(* Going: by leave, or removed by the owner or an administrator. *)

Leave(s, p) ==
  /\ rows[p] # 0
  /\ Begin(s, <<"delete", "unrow", "unask">>, [Asking("leave", p) EXCEPT !.key = rows[p]])
  /\ UNCHANGED <<tables, tangled, crossed>>

\* The repository refuses to delete what is not there.
DeleteMember(s) ==
  /\ At(s, "delete") /\ Tangling(s)
  /\ IF Record(mem[s].key) = {} THEN Answer(s) ELSE Pass(s)
  /\ roster' = roster \ Record(mem[s].key)
  /\ UNCHANGED <<policy, rows, asked, roles, handovers, keys, crossed>>

\* A slip the runs must notice: the row stays.
UnprojectNothing(s) ==
  /\ At(s, "unrow") /\ Pass(s) /\ Tangling(s)
  /\ UNCHANGED <<tables, crossed>>

Unproject(s) ==
  /\ At(s, "unrow") /\ Pass(s) /\ Tangling(s)
  /\ rows' = [p \in People |-> IF rows[p] = mem[s].key THEN 0 ELSE rows[p]]
  /\ UNCHANGED <<policy, roster, asked, roles, handovers, keys, crossed>>

Unask(s) ==
  /\ At(s, "unask") /\ Pass(s)
  /\ asked' = [asked EXCEPT ![About(s)] = "none"]
  /\ UNCHANGED <<policy, roster, rows, roles, handovers, keys, tangled, crossed>>

-----------------------------------------------------------------------------
(* updateMember: who asks, that the role exists, and the record are read;  *)
(* the record is written back, wherever it is by then.                     *)

UpdateMember(s, by, p, role) ==
  /\ MayWrite(by) /\ rows[p] # 0 /\ p # Proprietor
  /\ RoleAt(role) # {}
  /\ Begin(s, <<"record", "put", "row">>, [Asking("update", p) EXCEPT !.role = role])
  /\ UNCHANGED <<tables, tangled, crossed>>

ReadMember(s) ==
  /\ At(s, "record")
  /\ IF Record(rows[About(s)]) = {} THEN Answer(s)
     ELSE Note(s, [mem[s] EXCEPT !.key = rows[About(s)]])
  /\ UNCHANGED <<tables, tangled, crossed>>

-----------------------------------------------------------------------------
(* Roles.  The owner's own role is left alone. *)

Named(name) == {r \in roles : r.name = name}

CreateRole(s, by, name, writes) ==
  /\ MayWrite(by) /\ Named(name) = {}
  /\ Begin(s, <<"putRole">>, [what |-> "role", about |-> by, key |-> keys + 1,
                               name |-> name, writes |-> writes])
  /\ keys' = keys + 1
  /\ UNCHANGED <<policy, roster, rows, asked, roles, handovers, tangled, crossed>>

UpdateRole(s, by, r, name, writes) ==
  /\ MayWrite(by) /\ Named(name) \subseteq {r}
  /\ Begin(s, <<"putRole">>, [what |-> "role", about |-> by, key |-> r.key,
                               name |-> name, writes |-> writes])
  /\ UNCHANGED <<tables, tangled, crossed>>

PutRole(s) ==
  /\ At(s, "putRole") /\ Pass(s)
  /\ roles' = (roles \ RoleAt(mem[s].key))
                \cup {[key |-> mem[s].key, name |-> mem[s].name, writes |-> mem[s].writes]}
  /\ UNCHANGED <<policy, roster, rows, asked, handovers, keys, tangled, crossed>>

DeleteRole(s, by, r) ==
  /\ MayWrite(by) /\ \A m \in roster : m.role # r.key
  /\ Begin(s, <<"dropRole">>, [what |-> "role", about |-> by, key |-> r.key])
  /\ UNCHANGED <<tables, tangled, crossed>>

\* Whoever is being given the role meanwhile has one that is not there.
DropRole(s) ==
  /\ At(s, "dropRole") /\ Pass(s)
  /\ roles' = roles \ RoleAt(mem[s].key)
  /\ tangled' = tangled
       \cup {About(t) : t \in {u \in Slot : Pending(u, "put") /\ mem[u].role = mem[s].key}}
  /\ UNCHANGED <<policy, roster, rows, asked, handovers, keys, crossed>>

-----------------------------------------------------------------------------
(* Delegations: the one there is goes, then the new one is put. *)

Delegating(s) == Steps(s) \cap {"dropHandover", "putHandover"} # {}
Crossing(s, p) ==
  crossed' = IF \E t \in Slot \ {s} : Delegating(t) /\ About(t) = p
               THEN crossed \cup {p} ELSE crossed

\* The first row the index gives, whichever that is.
Replaced(p) == IF Handovers(p) = {} THEN {0} ELSE {h.key : h \in Handovers(p)}

SetDelegation(s, p, to) ==
  /\ MayWrite(p) /\ to # p /\ rows[to] # 0 /\ Crossing(s, p)
  /\ \E key \in Replaced(p) :
       Begin(s, IF key = 0 THEN <<"putHandover">> ELSE <<"dropHandover", "putHandover">>,
             [what |-> "delegation", about |-> p, to |-> to, key |-> key, new |-> keys + 1])
  /\ keys' = keys + 1
  /\ UNCHANGED <<policy, roster, rows, asked, roles, handovers, tangled>>

RevokeDelegation(s, p) ==
  /\ Handovers(p) # {} /\ Crossing(s, p)
  /\ \E key \in Replaced(p) :
       Begin(s, <<"dropHandover">>, [what |-> "delegation", about |-> p, key |-> key])
  /\ UNCHANGED <<tables, tangled>>

DropHandover(s) ==
  /\ At(s, "dropHandover")
  /\ LET gone == {h \in handovers : h.key = mem[s].key} IN
       /\ IF gone = {} THEN Answer(s) ELSE Pass(s)
       /\ handovers' = handovers \ gone
  /\ UNCHANGED <<policy, roster, rows, asked, roles, keys, tangled, crossed>>

PutHandover(s) ==
  /\ At(s, "putHandover") /\ Pass(s)
  /\ handovers' = handovers \cup {[key |-> mem[s].new, from |-> About(s), to |-> mem[s].to]}
  /\ UNCHANGED <<policy, roster, rows, asked, roles, keys, tangled, crossed>>

-----------------------------------------------------------------------------
\* community.update, for its settings.
UpdateCommunity(s, to) ==
  /\ to # policy
  /\ Begin(s, <<to>>, [what |-> "settings", about |-> Proprietor])
  /\ UNCHANGED <<tables, tangled, crossed>>

PutPolicy(s, to) ==
  /\ At(s, to) /\ Pass(s)
  /\ policy' = to
  /\ UNCHANGED <<roster, rows, asked, roles, handovers, keys, tangled, crossed>>

Interrupt(s) ==
  /\ todo[s] # <<>> /\ Answer(s)
  /\ tangled' = IF Changing(s) \/ Pending(s, "unask") THEN tangled \cup {About(s)} ELSE tangled
  /\ UNCHANGED <<tables, crossed>>

CommunitiesStep(s) ==
  \/ \E p \in Person :
       \/ Join(s, p) \/ Leave(s, p)
       \/ \E ruling \in {"approved", "rejected"} : Resolve(s, p, ruling)
       \/ \E by \in People, r \in roles : UpdateMember(s, by, p, r.key)
  \/ ReadPolicy(s) \/ ReadRequest(s) \/ Reopen(s) \/ FileRequest(s) \/ FindRole(s)
  \/ \E ruling \in {"approved", "rejected"} : Decide(s, ruling)
  \/ PutMember(s) \/ ProjectMember(s) \/ DeleteMember(s) \/ Unproject(s) \/ Unask(s)
  \/ ReadMember(s)
  \/ \E by \in People, writes \in BOOLEAN, name \in RoleName :
       \/ CreateRole(s, by, name, writes)
       \/ \E r \in roles : UpdateRole(s, by, r, name, writes)
  \/ \E by \in People, r \in roles : DeleteRole(s, by, r)
  \/ PutRole(s) \/ DropRole(s)
  \/ \E p, to \in People : SetDelegation(s, p, to)
  \/ \E p \in People : RevokeDelegation(s, p)
  \/ DropHandover(s) \/ PutHandover(s)
  \/ \E to \in {"open", "approval"} : UpdateCommunity(s, to) \/ PutPolicy(s, to)
  \/ Interrupt(s)

CommunitiesNext == \E s \in Slot : CommunitiesStep(s)

communitiesVars == <<tables, tangled, crossed, requests>>
CommunitiesSpec == CommunitiesInit /\ [][CommunitiesNext]_communitiesVars

-----------------------------------------------------------------------------
CommunitiesTypeOK ==
  /\ policy \in {"open", "approval"}
  /\ roster \subseteq [key : 1..keys, who : People, role : 0..keys]
  /\ rows \in [People -> 0..keys]
  /\ asked \in [Person -> {"none", "pending", "approved", "rejected"}]
  /\ roles \subseteq [key : 1..keys, name : RoleName, writes : BOOLEAN]
  /\ handovers \subseteq [key : 1..keys, from : People, to : People]
  /\ keys \in Nat /\ tangled \subseteq People /\ crossed \subseteq People

\* The chain every permission check follows holds: a person's row leads to
\* their record, their only one, and the record to a role that exists (or to
\* none).  What breaks it are two requests about one member at once, one that
\* dies halfway, a role deleted while someone is being given it, and an
\* approval of someone who has joined meanwhile.
MembersAreWhole ==
  \A p \in People \ tangled : (\A s \in Slot : Changing(s) => About(s) # p) =>
    /\ {m.key : m \in {n \in roster : n.who = p}} = {rows[p]} \ {0}
    /\ \A m \in roster : m.who = p /\ m.role # 0 => RoleAt(m.role) # {}

\* Nobody is shut out for good: a request that stands as approved is a
\* member's, or its admission is under way; otherwise they could neither join
\* nor ask again (unless an admission or a departure died halfway).
NobodyLockedOut ==
  \A p \in Person \ tangled :
    asked[p] = "approved" /\ rows[p] = 0 =>
      \E s \in Slot : About(s) = p /\ Steps(s) \cap {"row", "unask"} # {}

\* A member has delegated to one person at most, whatever follows upon what,
\* unless two of their own requests about it overlapped.
DelegatesOnce == \A p \in People \ crossed : Cardinality(Handovers(p)) <= 1

\* What a community knows of its people, the three above: members are whole,
\* nobody is shut out for good, and nobody's vote is given to two.
MembershipHolds == MembersAreWhole /\ NobodyLockedOut /\ DelegatesOnce
=============================================================================

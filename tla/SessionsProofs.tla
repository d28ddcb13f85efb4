--------------------------- MODULE SessionsProofs ---------------------------
(***************************************************************************)
(* Proofs about Sessions, and about the Clients that keep one, for any     *)
(* number of requests at a time and of requests ever made.                 *)
(***************************************************************************)
EXTENDS Sessions, Clients, RequestsProofs

Statement ==
  {"fail", "clear", "roles", "session", "account", "rotate", "reuse", "revoke", "bump",
   "drop", "target", "refuse", "forget", "delete", "grant", "demote", "password", "void",
   "mail", "use", "cache"} \cup Statuses

\* Statements with which a request can only open, and those that decide.
Opening   == {"target", "grant", "demote", "password", "account"}
Decisions == Statuses \cup {"delete"}

Opened(s) == Steps(s) \cap Opening = {}

\* The order in which handlers list their statements, as far as it matters.
InOrder(s) ==
  /\ Opening \cap Later(s) = {}
  /\ Decisions \cap Steps(s) # {} => Ending(s) \in {"forget", "refuse"}
  /\ At(s, "grant") \/ At(s, "demote") => Tail(todo[s]) = <<"bump", "forget">>
  /\ At(s, "password") => {"drop", "revoke"} \cap Later(s) # {}
  /\ {"account", "rotate"} \cap Steps(s) # {} => Steps(s) \subseteq {"account", "rotate"}
  /\ "reuse" \in Steps(s) => Steps(s) = {"reuse"}
  /\ "roles" \in Steps(s) => Ending(s) \in {"session", "cache"}
  /\ "session" \in Steps(s) =>
       todo[s] \in {<<"clear", "roles", "session">>, <<"roles", "session">>, <<"session">>}
  /\ "mail" \in Steps(s) => Steps(s) \subseteq {"void", "mail"}

Row == [status : Statuses, version : Nat, password : Nat, wrong : Nat, locked : BOOLEAN]

\* What was copied from the row says what the row says, or is of an older version.
Dated(version, status) ==
  version <= user.version /\ (version = user.version /\ Exists => status = user.status)

\* ... and what was copied of the roles, unless their version is about to change.
Bumps(s) == At(s, "bump")
Bumping == "bump" \in undone \/ \E s \in Slot : Bumps(s)
Entitled(version, isAdmin) ==
  version = user.version /\ Exists /\ isAdmin # admin => Bumping

\* What a request has read by the time it comes to a statement.
Copied(row) == row \in Row /\ row.status \in MaySignIn /\ Dated(row.version, row.status)

Informed(s) ==
  /\ "session" \in Steps(s) =>
       /\ mem[s] \in [what : {"login"}, row : Row, admin : BOOLEAN] /\ Copied(mem[s].row)
       /\ "roles" \in Steps(s) \/ Entitled(mem[s].row.version, mem[s].admin)
  /\ "rotate" \in Steps(s) =>
       /\ mem[s].token \in 1 .. refreshes
       /\ "account" \in Steps(s) \/
            (/\ Copied(mem[s].row) /\ mem[s].admin \in BOOLEAN
             /\ Entitled(mem[s].row.version, mem[s].admin))
  /\ "cache" \in Steps(s) =>
       /\ mem[s] \in [what : {"context"}, row : Row, admin : BOOLEAN]
       /\ mem[s].row.status # "pending" => Dated(mem[s].row.version, mem[s].row.status)
  /\ "mail" \in Steps(s) => mem[s].what \in {"reset", "recovery"}
  /\ Decisions \cap Steps(s) # {} =>
       mem[s].what = "moderator" \/ ("delete" \notin Steps(s) /\ Copied(mem[s].row))

\* Tokens and the cached context.
TokensDated ==
  \A a \in access : a.status \in MaySignIn /\ Dated(a.version, a.status) /\ Entitled(a.version, a.admin)

Forgets(s) == {"forget", "refuse"} \cap Steps(s) # {} /\ Opened(s)
Forgetting == undone \cap {"forget", "refuse"} # {} \/ \E s \in Slot : Forgets(s)
ContextDated ==
  cached.status = "approved" /\ user.status # "approved" => cached.late \/ Forgetting

\* Refresh tokens.
TokensDistinct ==
  /\ \A i \in DOMAIN sessions : sessions[i].token \in 1 .. refreshes
  /\ \A i, j \in DOMAIN sessions : sessions[i].token = sessions[j].token => i = j
  /\ \A x \in exchanged : x[1] \in 1 .. refreshes

\* Sessions of an earlier password.
Revokes(s) == {"revoke", "drop"} \cap Steps(s) # {} /\ Opened(s)
Revoking == undone \cap {"revoke", "drop"} # {} \/ \E s \in Slot : Revokes(s)
PasswordsSettled ==
  \/ Revoking
  \/ \A i \in DOMAIN sessions :
       sessions[i].state # "revoked" => sessions[i].password = user.password \/ sessions[i].late

Sound ==
  /\ SessionsTypeOK /\ Requested(Statement)
  /\ \A s \in Slot : InOrder(s) /\ Informed(s)
  /\ TokensDated /\ ContextDated /\ TokensDistinct /\ ExchangeIsExclusive /\ PasswordsSettled

-----------------------------------------------------------------------------
(* Handlers keep their statements in order. *)

\* What comes after the next statement stays in order.
LEMMA FollowsInOrder ==
  ASSUME NEW s, NEW x, InOrder(s), Follows(s, x)
  PROVE  InOrder(s)' /\ Opened(s)'
<1>1. Opening \cap Steps(s)' = {} /\ Opening \cap Later(s)' = {}
  BY DEF InOrder, Follows
<1>2. Steps(s)' \subseteq Steps(s)
  BY DEF Follows
<1>3. Decisions \cap Steps(s)' # {} => Ending(s)' \in {"forget", "refuse"}
  BY <1>2 DEF InOrder, Follows
<1>4. ~At(s, "grant")' /\ ~At(s, "demote")' /\ ~At(s, "password")'
  BY <1>1 DEF Follows, Opening
<1>5. "roles" \in Steps(s)' => Ending(s)' \in {"session", "cache"}
  BY <1>2 DEF InOrder, Follows
<1>6. /\ {"account", "rotate"} \cap Steps(s)' # {} => Steps(s)' \subseteq {"account", "rotate"}
      /\ "reuse" \in Steps(s)' => Steps(s)' = {"reuse"}
      /\ "mail" \in Steps(s)' => Steps(s)' \subseteq {"void", "mail"}
  BY <1>2 DEF InOrder
<1>7. "session" \in Steps(s)' =>
        todo'[s] \in {<<"clear", "roles", "session">>, <<"roles", "session">>, <<"session">>}
  <2>1. HAVE "session" \in Steps(s)'
  <2>2. /\ todo[s] \in {<<"clear", "roles", "session">>, <<"roles", "session">>, <<"session">>}
        /\ todo'[s] = Tail(todo[s]) /\ todo'[s] # <<>>
    BY <1>2, <2>1, NoneLeft DEF InOrder, Follows
  <2>3. /\ Tail(<<"clear", "roles", "session">>) = <<"roles", "session">>
        /\ Tail(<<"roles", "session">>) = <<"session">>
        /\ Tail(<<"session">>) = <<>>
    OBVIOUS
  <2> QED
    BY <2>2, <2>3
<1> QED
  BY <1>1, <1>3, <1>4, <1>5, <1>6, <1>7 DEF InOrder, Opened

LEMMA EmptyInOrder ==
  ASSUME NEW s, todo'[s] = <<>>
  PROVE  InOrder(s)' /\ Steps(s)' = {}
BY NoneLeft DEF InOrder

\* updateSubjectStatus: whatever is ordered comes after the target and before the end.
LEMMA OrdersFramed ==
  ASSUME NEW status, NEW steps \in Orders(status)
  PROVE  /\ steps \in Seq(Statement) /\ Len(steps) >= 2 /\ steps[1] = "target"
         /\ steps[Len(steps)] \in {"forget", "refuse"}
         /\ \A i \in 2 .. Len(steps) :
              steps[i] \in {"approved", "takendown", "suspended", "revoke", "forget", "refuse"}
<1> DEFINE Mid == {"approved", "takendown", "suspended", "revoke"}
<1>1. \A a \in TakedownPart(status) \cup SuspendPart(status) : a \in Seq(Mid)
  BY ShortSeqs DEF TakedownPart, SuspendPart
<1>2. PICK mid \in Seq(Mid), last \in {"forget", "refuse"} : steps = Frame("target", mid, last)
  <2> DEFINE
        Single == {<<"target">> \o a \o <<"forget">> :
                     a \in TakedownPart(status) \cup SuspendPart(status)}
        Half == {<<"target">> \o a \o <<"refuse">> : a \in TakedownPart(status)}
        Both == {<<"target">> \o a \o b \o <<"forget">> :
                   a \in TakedownPart(status), b \in SuspendPart(status)}
  <2>1. CASE steps \in Single
    BY <1>1, <2>1 DEF Frame
  <2>2. CASE steps \in Half
    BY <1>1, <2>2 DEF Frame
  <2>3. CASE steps \in Both
    <3>1. PICK a \in TakedownPart(status), b \in SuspendPart(status) :
                 steps = <<"target">> \o a \o b \o <<"forget">>
      BY <2>3
    <3> DEFINE first == <<"target">>
               Any == Mid \cup {"target"}
    <3>2. a \in Seq(Mid) /\ b \in Seq(Mid) /\ a \o b \in Seq(Mid)
      BY <1>1
    <3>3. first \in Seq(Any) /\ a \in Seq(Any) /\ b \in Seq(Any)
      BY <3>2
    <3>4. steps = (first \o a) \o b \o <<"forget">>
      BY <3>1
    <3> HIDE DEF first, Any, Mid
    <3>5. (first \o a) \o b = first \o (a \o b)
      BY <3>3, ConcatAssociative
    <3>6. steps = first \o (a \o b) \o <<"forget">>
      BY <3>4, <3>5
    <3> QED
      BY <3>2, <3>6 DEF first, Frame
  <2>4. Orders(status) = Single \cup Half \cup Both
    BY DEF Orders
  <2> HIDE DEF Single, Half, Both
  <2> QED
    BY <2>1, <2>2, <2>3, <2>4
<1> DEFINE All == Mid \cup {"target", last}
<1>3. Seq(All) \subseteq Seq(Statement)
  BY DEF Statement, Statuses
<1>4. /\ steps \in Seq(All) /\ Len(steps) = Len(mid) + 2 /\ Len(mid) \in Nat
      /\ steps[1] = "target" /\ steps[Len(steps)] = last
      /\ \A i \in 2 .. Len(steps) : steps[i] \in Mid \cup {last}
  <2> HIDE DEF Mid
  <2> QED
    BY <1>2, Framed
<1> HIDE DEF All
<1> QED
  BY <1>3, <1>4

LEMMA OrdersInOrder ==
  ASSUME NEW s, NEW status, todo'[s] \in Orders(status)
  PROVE  /\ InOrder(s)' /\ "target" \in Steps(s)'
         /\ Steps(s)' \subseteq {"target", "approved", "takendown", "suspended", "revoke",
                                 "forget", "refuse"}
<1> DEFINE steps == todo'[s]
           Rest == {"approved", "takendown", "suspended", "revoke", "forget", "refuse"}
<1>1. /\ steps \in Seq(Statement) /\ Len(steps) >= 2 /\ steps[1] = "target"
      /\ steps[Len(steps)] \in {"forget", "refuse"}
      /\ \A i \in 2 .. Len(steps) : steps[i] \in Rest
  BY OrdersFramed
<1>2. DOMAIN steps = 1 .. Len(steps) /\ Len(steps) \in Nat
  BY <1>1
<1>3. Later(s)' \subseteq Rest /\ Ending(s)' \in {"forget", "refuse"}
  BY <1>1 DEF Later, Ending
<1>4. Steps(s)' \subseteq {"target"} \cup Rest
  <2>1. \A i \in 1 .. Len(steps) : i = 1 \/ i \in 2 .. Len(steps)
    BY <1>2
  <2> QED
    BY <1>1, <1>2, <2>1 DEF Steps
<1>5. "target" \in Steps(s)'
  <2>1. 1 \in DOMAIN steps
    BY <1>1, <1>2
  <2> QED
    BY <1>1, <2>1 DEF Steps
<1>6. \A x : At(s, x)' => x = "target"
  BY <1>1 DEF At
<1> QED
  BY <1>3, <1>4, <1>5, <1>6 DEF InOrder, Opening

\* Every other list of statements a handler begins with, or turns to.
Openings ==
  {<<"fail">>, <<"clear">>, <<"roles", "session">>, <<"clear", "roles", "session">>,
   <<"account", "rotate">>, <<"reuse">>, <<"revoke", "bump">>, <<"bump">>,
   <<"deactivated", "revoke", "forget">>, <<"approved", "forget">>,
   <<"target", "delete", "forget">>, <<"grant", "bump", "forget">>,
   <<"demote", "bump", "forget">>, <<"void", "mail">>, <<"mail">>, <<"roles", "cache">>,
   <<"password", "use", "revoke", "clear">>, <<"password", "drop">>}

LEMMA OpeningsTyped == Openings \subseteq Seq(Statement) /\ <<>> \notin Openings
BY ShortSeqs DEF Openings, Statement, Statuses

LEMMA OpeningsInOrder ==
  ASSUME NEW s, todo'[s] \in Openings
  PROVE  InOrder(s)'
<1>1. CASE todo'[s] \in {<<"fail">>, <<"clear">>, <<"reuse">>, <<"bump">>, <<"mail">>}
  BY <1>1, OneLeft DEF InOrder, Opening, Decisions, Statuses
<1>2. CASE todo'[s] \in {<<"roles", "session">>, <<"revoke", "bump">>, <<"void", "mail">>,
                         <<"roles", "cache">>}
  BY <1>2, TwoLeft DEF InOrder, Opening, Decisions, Statuses
<1>3. CASE todo'[s] \in {<<"account", "rotate">>, <<"approved", "forget">>,
                         <<"password", "drop">>}
  BY <1>3, TwoLeft DEF InOrder, Opening, Decisions, Statuses
<1>4. CASE todo'[s] \in {<<"clear", "roles", "session">>, <<"deactivated", "revoke", "forget">>,
                         <<"target", "delete", "forget">>}
  BY <1>4, ThreeLeft DEF InOrder, Opening, Decisions, Statuses
<1>5. CASE todo'[s] \in {<<"grant", "bump", "forget">>, <<"demote", "bump", "forget">>}
  <2>1. PICK step \in {"grant", "demote"} : todo'[s] = <<step, "bump", "forget">>
    BY <1>5
  <2>2. Tail(todo'[s]) = <<"bump", "forget">>
    <3>1. \A x : Tail(<<x, "bump", "forget">>) = <<"bump", "forget">>
      OBVIOUS
    <3> QED
      BY <2>1, <3>1
  <2>3. /\ Steps(s)' = {step, "bump", "forget"} /\ Later(s)' = {"bump", "forget"}
        /\ Ending(s)' = "forget" /\ \A x : At(s, x)' => x = step
    BY <2>1, ThreeLeft
  <2> QED
    BY <2>2, <2>3 DEF InOrder, Opening, Decisions, Statuses
<1>6. CASE todo'[s] = <<"password", "use", "revoke", "clear">>
  BY <1>6, FourLeft DEF InOrder, Opening, Decisions, Statuses
<1> QED
  BY <1>1, <1>2, <1>3, <1>4, <1>5, <1>6 DEF Openings

LEMMA Opens ==
  ASSUME Requested(Statement), NEW s \in Slot, NEW steps \in Openings, NEW m,
         Begin(s, steps, m) \/ Turn(s, steps, m)
  PROVE  /\ Requested(Statement)' /\ OthersWait(s) /\ InOrder(s)'
         /\ todo'[s] = steps /\ mem'[s] = m
<1>1. steps \in Seq(Statement) /\ steps # <<>>
  BY OpeningsTyped
<1>2. /\ Requested(Statement)' /\ OthersWait(s)
      /\ todo'[s] = steps /\ mem'[s] = m
  BY <1>1, BeginMoves, TurnMoves
<1> QED
  BY <1>2, OpeningsInOrder

LEMMA OrdersOpen ==
  ASSUME Requested(Statement), NEW s \in Slot, NEW status, NEW steps \in Orders(status), NEW m,
         Begin(s, steps, m)
  PROVE  /\ Requested(Statement)' /\ OthersWait(s) /\ InOrder(s)'
         /\ todo'[s] = steps /\ mem'[s] = m
<1>1. steps \in Seq(Statement) /\ steps # <<>>
  BY OrdersFramed
<1>2. /\ Requested(Statement)' /\ OthersWait(s)
      /\ todo'[s] = steps /\ mem'[s] = m
  BY <1>1, BeginMoves
<1> QED
  BY <1>2, OrdersInOrder

-----------------------------------------------------------------------------
(* What a request has read stays true, as the account moves on. *)

\* The version grows, or the status stays, but for an account's approval and
\* its end.
StatusMoves ==
  \/ user'.version = user.version + 1
  \/ user'.version = user.version /\ user'.status \in {user.status, "deleted"}
  \/ user'.version = user.version /\ user.status = "pending"

\* Who may have read a role that is no more has its version yet to change.
RolesMove ==
  \/ user'.version = user.version + 1
  \/ user'.version = user.version /\ user'.status = "deleted"
  \/ /\ user'.version = user.version /\ Exists
     /\ Bumping \/ admin' # admin => Bumping'

Forward ==
  /\ refreshes \in Nat /\ refreshes' \in Nat /\ refreshes <= refreshes'
  /\ \A version \in Nat, status \in Statuses \ {"pending"} :
       Dated(version, status) => Dated(version, status)'
  /\ \A version \in Nat, isAdmin \in BOOLEAN :
       version <= user.version /\ Entitled(version, isAdmin) => Entitled(version, isAdmin)'

LEMMA MovesForward ==
  ASSUME SessionsTypeOK, StatusMoves, RolesMove,
         refreshes' \in Nat, refreshes <= refreshes'
  PROVE  Forward
<1>1. user.version \in Nat /\ refreshes \in Nat
  BY DEF SessionsTypeOK
<1>2. ASSUME NEW version \in Nat, NEW status \in Statuses \ {"pending"}, Dated(version, status)
      PROVE  Dated(version, status)'
  BY <1>1, <1>2 DEF StatusMoves, Dated, Exists
<1>3. ASSUME NEW version \in Nat, NEW isAdmin \in BOOLEAN,
             version <= user.version, Entitled(version, isAdmin)
      PROVE  Entitled(version, isAdmin)'
  <2>1. CASE user'.version = user.version + 1
    BY <1>1, <1>3, <2>1 DEF Entitled
  <2>2. CASE user'.version = user.version /\ user'.status = "deleted"
    BY <2>2 DEF Entitled, Exists
  <2>3. CASE /\ user'.version = user.version /\ Exists
             /\ Bumping \/ admin' # admin => Bumping'
    <3>1. CASE Bumping'
      BY <3>1 DEF Entitled
    <3>2. CASE ~Bumping'
      BY <1>3, <2>3, <3>2 DEF Entitled
    <3> QED
      BY <3>1, <3>2
  <2> QED
    BY <2>1, <2>2, <2>3 DEF RolesMove
<1> QED
  BY <1>1, <1>2, <1>3 DEF Forward

LEMMA CopiedStays ==
  ASSUME Forward, NEW row, Copied(row)
  PROVE  Copied(row)' /\ row.version <= user.version
<1>1. row.version \in Nat /\ row.status \in Statuses \ {"pending"}
  BY DEF Copied, Row, MaySignIn
<1>2. Dated(row.version, row.status)'
  BY <1>1 DEF Copied, Forward
<1> QED
  BY <1>2 DEF Copied, Dated

\* A request that only waits, or goes on without reading anything, is as well
\* informed as it was.
LEMMA InformedStays ==
  ASSUME Forward, NEW s, Informed(s), Steps(s)' \subseteq Steps(s),
         Steps(s)' # {} => mem'[s] = mem[s],
         "session" \in Steps(s)' /\ "roles" \in Steps(s) => "roles" \in Steps(s)',
         "rotate" \in Steps(s)' /\ "account" \in Steps(s) => "account" \in Steps(s)'
  PROVE  Informed(s)'
<1>1. ASSUME "session" \in Steps(s)'
      PROVE  /\ mem'[s] \in [what : {"login"}, row : Row, admin : BOOLEAN] /\ Copied(mem[s].row)'
             /\ "roles" \in Steps(s)' \/ Entitled(mem[s].row.version, mem[s].admin)'
  <2>1. /\ mem'[s] = mem[s]
        /\ mem[s] \in [what : {"login"}, row : Row, admin : BOOLEAN] /\ Copied(mem[s].row)
        /\ "roles" \in Steps(s) \/ Entitled(mem[s].row.version, mem[s].admin)
    BY <1>1 DEF Informed
  <2> DEFINE row == mem[s].row
             isAdmin == mem[s].admin
  <2>2. row.version \in Nat /\ isAdmin \in BOOLEAN /\ row' = row /\ isAdmin' = isAdmin
    BY <2>1 DEF Row
  <2> HIDE DEF row, isAdmin
  <2>3. Copied(row)' /\ row.version <= user.version
    BY <2>1, <2>2, CopiedStays DEF row
  <2>4. Entitled(row.version, isAdmin) => Entitled(row.version, isAdmin)'
    BY <2>2, <2>3 DEF Forward
  <2> QED
    BY <1>1, <2>1, <2>2, <2>3, <2>4 DEF row, isAdmin
<1>2. ASSUME "rotate" \in Steps(s)'
      PROVE  /\ mem'[s].token \in 1 .. refreshes'
             /\ "account" \in Steps(s)' \/
                  (/\ Copied(mem[s].row)' /\ mem'[s].admin \in BOOLEAN
                   /\ Entitled(mem[s].row.version, mem[s].admin)')
  <2>1. /\ mem'[s] = mem[s] /\ mem[s].token \in 1 .. refreshes
        /\ "account" \in Steps(s) \/
             (/\ Copied(mem[s].row) /\ mem[s].admin \in BOOLEAN
              /\ Entitled(mem[s].row.version, mem[s].admin))
    BY <1>2 DEF Informed
  <2>2. mem'[s].token \in 1 .. refreshes'
    BY <2>1 DEF Forward
  <2> DEFINE row == mem[s].row
             isAdmin == mem[s].admin
  <2>3. row' = row /\ isAdmin' = isAdmin
    BY <2>1
  <2>4. CASE Copied(row) /\ isAdmin \in BOOLEAN /\ Entitled(row.version, isAdmin)
    <3> HIDE DEF row, isAdmin
    <3>1. Copied(row)' /\ row.version <= user.version /\ row.version \in Nat
      BY <2>3, <2>4, CopiedStays DEF Copied, Row
    <3>2. Entitled(row.version, isAdmin)'
      BY <2>3, <2>4, <3>1 DEF Forward
    <3> QED
      BY <2>1, <2>2, <2>3, <2>4, <3>1, <3>2 DEF row, isAdmin
  <2> QED
    BY <1>2, <2>1, <2>2, <2>4
<1>3. ASSUME "cache" \in Steps(s)'
      PROVE  /\ mem'[s] \in [what : {"context"}, row : Row, admin : BOOLEAN]
             /\ mem'[s].row.status # "pending" => Dated(mem[s].row.version, mem[s].row.status)'
  <2>1. /\ mem'[s] = mem[s]
        /\ mem[s] \in [what : {"context"}, row : Row, admin : BOOLEAN]
        /\ mem[s].row.status # "pending" => Dated(mem[s].row.version, mem[s].row.status)
    BY <1>3 DEF Informed
  <2> DEFINE version == mem[s].row.version
             status == mem[s].row.status
  <2>2. version \in Nat /\ status \in Statuses /\ version' = version /\ status' = status
    BY <2>1 DEF Row
  <2> HIDE DEF version, status
  <2>3. status # "pending" /\ Dated(version, status) => Dated(version, status)'
    BY <2>2 DEF Forward
  <2> QED
    BY <2>1, <2>2, <2>3 DEF version, status
<1>4. "mail" \in Steps(s)' => mem'[s].what \in {"reset", "recovery"}
  BY DEF Informed
<1>5. ASSUME Decisions \cap Steps(s)' # {}
      PROVE  mem'[s].what = "moderator" \/ ("delete" \notin Steps(s)' /\ Copied(mem[s].row)')
  <2>1. /\ mem'[s] = mem[s]
        /\ mem[s].what = "moderator" \/ ("delete" \notin Steps(s) /\ Copied(mem[s].row))
    BY <1>5 DEF Informed
  <2> DEFINE row == mem[s].row
  <2>2. row' = row
    BY <2>1
  <2>3. Copied(row) => Copied(row)'
    <3> HIDE DEF row
    <3> QED
      BY <2>2, CopiedStays
  <2> QED
    BY <2>1, <2>3
<1> QED
  BY <1>1, <1>2, <1>3, <1>4, <1>5 DEF Informed

LEMMA InformedFollows ==
  ASSUME Forward, NEW s, NEW x, Informed(s), Follows(s, x), x \notin {"roles", "account"},
         Steps(s)' # {} => mem'[s] = mem[s]
  PROVE  Informed(s)'
<1>1. Steps(s)' \subseteq Steps(s) /\ Steps(s) = {x} \cup Steps(s)'
  BY DEF Follows
<1> QED
  BY <1>1, InformedStays

LEMMA InformedAtRest ==
  ASSUME NEW s, todo'[s] = <<>>
  PROVE  InOrder(s)' /\ Informed(s)'
BY EmptyInOrder, NoneLeft DEF Informed

\* A request that began with no more than what it was asked.
LEMMA InformedOfNothing ==
  ASSUME NEW s, Steps(s)' \cap (Decisions \cup {"session", "rotate", "cache", "mail"}) = {}
  PROVE  Informed(s)'
BY DEF Informed

-----------------------------------------------------------------------------
(* What is promised by requests under way. *)

LEMMA BumpingKept ==
  ASSUME NEW s \in Slot, OthersWait(s),
         Bumps(s) => Bumps(s)' \/ "bump" \in undone', "bump" \in undone => "bump" \in undone'
  PROVE  Bumping => Bumping'
BY DEF Bumping, Bumps, At, OthersWait

LEMMA ForgettingKept ==
  ASSUME NEW s \in Slot, OthersWait(s),
         Forgets(s) => Forgets(s)' \/ undone' \cap {"forget", "refuse"} # {},
         undone \cap {"forget", "refuse"} \subseteq undone'
  PROVE  Forgetting => Forgetting'
<1>1. \A t \in Slot \ {s} : Steps(t)' = Steps(t)
  BY DEF OthersWait, Steps
<1>2. \A t \in Slot \ {s} : Forgets(t)' = Forgets(t)
  BY <1>1 DEF Forgets, Opened
<1> QED
  BY <1>2 DEF Forgetting

LEMMA RevokingKept ==
  ASSUME NEW s \in Slot, OthersWait(s),
         Revokes(s) => Revokes(s)' \/ undone' \cap {"revoke", "drop"} # {},
         undone \cap {"revoke", "drop"} \subseteq undone'
  PROVE  Revoking => Revoking'
<1>1. \A t \in Slot \ {s} : Steps(t)' = Steps(t)
  BY DEF OthersWait, Steps
<1>2. \A t \in Slot \ {s} : Revokes(t)' = Revokes(t)
  BY <1>1 DEF Revokes, Opened
<1> QED
  BY <1>2 DEF Revoking

\* What a statement that goes on, and one that was not the first, leaves promised.
LEMMA FollowsKeeps ==
  ASSUME NEW s, NEW x, InOrder(s), Follows(s, x)
  PROVE  /\ x # "bump" => ~Bumps(s)
         /\ x \notin {"forget", "refuse"} /\ Forgets(s) => Forgets(s)'
         /\ x \notin {"revoke", "drop"} /\ Revokes(s) => Revokes(s)'
<1>1. Opened(s)'
  BY FollowsInOrder
<1> QED
  BY <1>1 DEF Follows, Forgets, Revokes, Bumps, At

\* A request that has not begun, or still has its first statement before it,
\* has promised nothing.
LEMMA NothingPromised ==
  ASSUME NEW s, todo[s] = <<>> \/ (Steps(s) \cap Opening # {} /\ ~At(s, "bump"))
  PROVE  ~Bumps(s) /\ ~Forgets(s) /\ ~Revokes(s)
<1>1. CASE todo[s] = <<>>
  BY <1>1, NoSteps DEF Bumps, Forgets, Revokes
<1>2. CASE Steps(s) \cap Opening # {} /\ ~At(s, "bump")
  BY <1>2 DEF Bumps, Forgets, Revokes, Opened
<1> QED
  BY <1>1, <1>2

-----------------------------------------------------------------------------
(* Steps that leave tokens, sessions and roles as they are. *)

Tables ==
  /\ SessionsTypeOK /\ TokensDated /\ ContextDated
  /\ TokensDistinct /\ ExchangeIsExclusive /\ PasswordsSettled

Steady ==
  /\ user'.status = user.status /\ user'.version = user.version
  /\ user'.password = user.password
  /\ UNCHANGED <<admin, sessions, refreshes, access, cached, exchanged>>
  /\ SessionsTypeOK'
  /\ (Bumping => Bumping') /\ (Forgetting => Forgetting') /\ (Revoking => Revoking')

\* Nothing that verifies loses what it was entitled to.
LEMMA TokensStayDated ==
  ASSUME SessionsTypeOK, TokensDated, Forward, NEW a \in access
  PROVE  a.status \in MaySignIn /\ Dated(a.version, a.status)' /\ Entitled(a.version, a.admin)'
<1>1. a.version \in Nat /\ a.status \in Statuses \ {"pending"} /\ a.admin \in BOOLEAN
  BY DEF SessionsTypeOK, TokensDated, MaySignIn
<1>2. a.version <= user.version /\ Dated(a.version, a.status) /\ Entitled(a.version, a.admin)
  BY DEF TokensDated, Dated
<1>3. Dated(a.version, a.status)'
  BY <1>1, <1>2 DEF Forward
<1>4. Entitled(a.version, a.admin)'
  BY <1>1, <1>2 DEF Forward
<1> QED
  BY <1>3, <1>4 DEF TokensDated

LEMMA SteadyKeeps ==
  ASSUME Tables, Steady
  PROVE  Forward /\ Tables'
<1>1. StatusMoves
  BY DEF Steady, StatusMoves
<1>2. RolesMove
  BY DEF Steady, RolesMove, Exists
<1>3. refreshes \in Nat /\ refreshes' = refreshes
  BY DEF Steady, Tables, SessionsTypeOK
<1>4. Forward
  BY <1>1, <1>2, <1>3, MovesForward DEF Tables
<1>5. TokensDated'
  BY <1>4, TokensStayDated DEF Steady, Tables, TokensDated
<1>6. ContextDated'
  BY DEF Steady, Tables, ContextDated
<1>7. TokensDistinct' /\ ExchangeIsExclusive'
  BY DEF Steady, Tables, TokensDistinct, ExchangeIsExclusive, OfToken
<1>8. PasswordsSettled'
  BY DEF Steady, Tables, PasswordsSettled
<1> QED
  BY <1>4, <1>5, <1>6, <1>7, <1>8 DEF Steady, Tables

\* What a step of a request is to show.
Kept(s) ==
  /\ Requested(Statement)' /\ OthersWait(s) /\ InOrder(s)' /\ Informed(s)'
  /\ Forward /\ Tables'

Ready(s) == Requested(Statement) /\ InOrder(s) /\ Informed(s) /\ Tables

LEMMA OpensSteady ==
  ASSUME NEW s \in Slot, Ready(s), NEW steps, NEW m, Begin(s, steps, m),
         steps \in Openings \/ \E status \in Statuses : steps \in Orders(status),
         UNCHANGED <<account, history>>
  PROVE  /\ Requested(Statement)' /\ OthersWait(s) /\ InOrder(s)' /\ Forward /\ Tables'
         /\ todo'[s] = steps /\ mem'[s] = m
<1>1. /\ Requested(Statement)' /\ OthersWait(s) /\ InOrder(s)'
      /\ todo'[s] = steps /\ mem'[s] = m
  BY Opens, OrdersOpen DEF Ready
<1>2. todo[s] = <<>>
  BY DEF Begin
<1>3. Steady
  <2>1. SessionsTypeOK' /\ undone' = undone
    BY DEF Ready, Tables, SessionsTypeOK, account, history
  <2>2. ~Bumps(s) /\ ~Forgets(s) /\ ~Revokes(s)
    BY <1>2, NothingPromised
  <2>3. (Bumping => Bumping') /\ (Forgetting => Forgetting') /\ (Revoking => Revoking')
    BY <1>1, <2>1, <2>2, BumpingKept, ForgettingKept, RevokingKept
  <2> QED
    BY <2>1, <2>3 DEF Steady, account, history
<1> QED
  BY <1>1, <1>3, SteadyKeeps DEF Ready

\* A statement of no account, whose table is of no account either.
LEMMA FollowsSteady ==
  ASSUME NEW s \in Slot, Ready(s), NEW x,
         x \notin {"bump", "forget", "refuse", "revoke", "drop"},
         Requested(Statement)', OthersWait(s), Follows(s, x),
         user'.status = user.status, user'.version = user.version,
         user'.password = user.password,
         UNCHANGED <<admin, sessions, refreshes, access, cached, exchanged, undone>>,
         SessionsTypeOK'
  PROVE  InOrder(s)' /\ Forward /\ Tables'
<1>1. ~Bumps(s) /\ (Forgets(s) => Forgets(s)') /\ (Revokes(s) => Revokes(s)')
  BY FollowsKeeps DEF Ready
<1>2. (Bumping => Bumping') /\ (Forgetting => Forgetting') /\ (Revoking => Revoking')
  BY <1>1, BumpingKept, ForgettingKept, RevokingKept
<1>3. Steady
  BY <1>2 DEF Steady
<1> QED
  BY <1>3, SteadyKeeps, FollowsInOrder DEF Ready

-----------------------------------------------------------------------------
(* Requests begin. *)

LEMMA RowRead ==
  ASSUME SessionsTypeOK
  PROVE  user \in Row /\ (user.status \in MaySignIn => Copied(user))
BY DEF SessionsTypeOK, Row, Copied, Dated, Exists

LEMMA LoginKeeps ==
  ASSUME NEW s \in Slot, Ready(s), NEW given, Login(s, given)
  PROVE  Kept(s)
<1> DEFINE first == IF user.wrong > 0 THEN <<"clear">> ELSE <<>>
           rest == IF user.status \in MaySignIn THEN <<"roles", "session">> ELSE <<>>
           steps == IF given # user.password THEN <<"fail">> ELSE first \o rest
           m == [what |-> "login", row |-> user, admin |-> FALSE]
<1>1. steps # <<>> /\ Begin(s, steps, m) /\ UNCHANGED <<account, history>>
  BY DEF Login
<1>2. /\ steps \in {<<"fail">>, <<"clear">>, <<"roles", "session">>, <<"clear", "roles", "session">>}
      /\ user.status \notin MaySignIn => steps \in {<<"fail">>, <<"clear">>}
  <2>1. /\ <<"clear">> \o <<"roles", "session">> = <<"clear", "roles", "session">>
        /\ <<>> \o <<"roles", "session">> = <<"roles", "session">>
        /\ <<"clear">> \o <<>> = <<"clear">>
        /\ <<>> \o <<>> = <<>>
    <3>1. /\ <<"roles", "session">> \in Seq({"roles", "session"})
          /\ <<"clear">> \in Seq({"clear"}) /\ <<>> \in Seq({})
      BY ShortSeqs
    <3> QED
      BY <3>1, JoinOneTwo, ConcatEmptySeq
  <2> QED
    BY <1>1, <2>1
<1> HIDE DEF steps
<1>3. steps \in Openings
  BY <1>2 DEF Openings
<1>4. /\ Requested(Statement)' /\ OthersWait(s) /\ InOrder(s)' /\ Forward /\ Tables'
      /\ todo'[s] = steps /\ mem'[s] = m
  BY <1>1, <1>3, OpensSteady
<1>5. CASE steps \in {<<"fail">>, <<"clear">>}
  <2>1. Steps(s)' \in {{"fail"}, {"clear"}}
    BY <1>4, <1>5, OneLeft
  <2> QED
    BY <1>4, <2>1, InformedOfNothing DEF Decisions, Statuses, Kept
<1>6. CASE steps \in {<<"roles", "session">>, <<"clear", "roles", "session">>}
  <2>1. Steps(s)' \in {{"roles", "session"}, {"clear", "roles", "session"}}
    BY <1>4, <1>6, TwoLeft, ThreeLeft
  <2>2. user' = user /\ user.status \in MaySignIn
    BY <1>1, <1>2, <1>6 DEF account
  <2>3. Copied(user)' /\ user' \in Row
    BY <2>2, RowRead DEF Ready, Tables, Copied, Dated, Exists
  <2>4. mem'[s] \in [what : {"login"}, row : Row, admin : BOOLEAN] /\ mem'[s].row = user'
    BY <1>4, <2>2, <2>3
  <2>5. Copied(mem[s].row)'
    BY <2>3, <2>4 DEF Copied, Dated, Exists
  <2> QED
    BY <1>4, <2>1, <2>4, <2>5 DEF Informed, Decisions, Statuses, Kept
<1> QED
  BY <1>2, <1>5, <1>6

LEMMA RefreshKeeps ==
  ASSUME NEW s \in Slot, Ready(s), NEW t, Refresh(s, t)
  PROVE  Kept(s)
<1> DEFINE steps == IF OfToken(t) # {} THEN <<"account", "rotate">> ELSE <<"reuse">>
           m == [what |-> "refresh", token |-> t]
<1>1. Begin(s, steps, m) /\ UNCHANGED <<account, history>> /\ t \in 1 .. refreshes
  BY DEF Refresh
<1>2. steps \in {<<"account", "rotate">>, <<"reuse">>}
  OBVIOUS
<1> HIDE DEF steps
<1>3. steps \in Openings
  BY <1>2 DEF Openings
<1>4. /\ Requested(Statement)' /\ OthersWait(s) /\ InOrder(s)' /\ Forward /\ Tables'
      /\ todo'[s] = steps /\ mem'[s] = m
  BY <1>1, <1>3, OpensSteady
<1>5. Steps(s)' \in {{"account", "rotate"}, {"reuse"}}
  BY <1>2, <1>4, OneLeft, TwoLeft
<1>6. mem'[s].token \in 1 .. refreshes'
  BY <1>1, <1>4 DEF account
<1> QED
  BY <1>4, <1>5, <1>6 DEF Informed, Decisions, Statuses, Kept

LEMMA OwnerKeeps ==
  ASSUME NEW s \in Slot, Ready(s), Deactivate(s) \/ Activate(s)
  PROVE  Kept(s)
<1> DEFINE m == [what |-> "owner", row |-> user]
<1>1. PICK steps \in {<<"deactivated", "revoke", "forget">>, <<"approved", "forget">>} :
        Begin(s, steps, m) /\ UNCHANGED <<account, history>> /\ user.status \in MaySignIn
  BY DEF Deactivate, Activate, MaySignIn
<1>2. steps \in Openings
  BY DEF Openings
<1>3. /\ Requested(Statement)' /\ OthersWait(s) /\ InOrder(s)' /\ Forward /\ Tables'
      /\ todo'[s] = steps /\ mem'[s] = m
  BY <1>1, <1>2, OpensSteady
<1>4. Steps(s)' \in {{"deactivated", "revoke", "forget"}, {"approved", "forget"}}
  BY <1>3, TwoLeft, ThreeLeft
<1>5. mem'[s].row = user' /\ Copied(user)'
  BY <1>1, <1>3, RowRead DEF account, Ready, Tables, Copied, Dated, Exists
<1>6. Copied(mem[s].row)'
  BY <1>5 DEF Copied, Dated, Exists
<1> QED
  BY <1>3, <1>4, <1>6 DEF Informed, Decisions, Statuses, Kept

LEMMA ModeratorKeeps ==
  ASSUME NEW s \in Slot, Ready(s), Moderate(s) \/ Delete(s)
  PROVE  Kept(s)
<1> DEFINE m == [what |-> "moderator"]
<1>1. PICK steps : /\ Begin(s, steps, m) /\ UNCHANGED <<account, history>>
                   /\ steps \in Orders(user.status) \cup {<<"target", "delete", "forget">>}
  BY DEF Moderate, Delete
<1>2. user.status \in Statuses
  BY DEF Ready, Tables, SessionsTypeOK
<1>3. /\ Requested(Statement)' /\ OthersWait(s) /\ InOrder(s)' /\ Forward /\ Tables'
      /\ todo'[s] = steps /\ mem'[s] = m
  BY <1>1, <1>2, OpensSteady DEF Openings
<1>4. /\ mem'[s].what = "moderator"
      /\ Steps(s)' \subseteq {"target", "approved", "takendown", "suspended", "revoke",
                             "forget", "refuse", "delete"}
  <2>1. CASE steps \in Orders(user.status)
    BY <1>3, <2>1, OrdersInOrder
  <2>2. CASE steps = <<"target", "delete", "forget">>
    BY <1>3, <2>2, ThreeLeft
  <2> QED
    BY <1>1, <1>3, <2>1, <2>2
<1> QED
  BY <1>3, <1>4 DEF Informed, Kept

\* The rest read nothing that is used later.
LEMMA OthersBegin ==
  ASSUME NEW s \in Slot, Ready(s),
         \/ UpdateRoles(s) \/ RequestReset(s) \/ InitiateRecovery(s) \/ Authenticate(s)
         \/ \E given : ChangePassword(s, given)
         \/ \E r : ConfirmReset(s, r)
  PROVE  Kept(s)
<1>1. CASE UpdateRoles(s) \/ (\E given : ChangePassword(s, given)) \/ \E r : ConfirmReset(s, r)
  <2>0. PICK steps \in {<<"grant", "bump", "forget">>, <<"demote", "bump", "forget">>,
                        <<"password", "use", "revoke", "clear">>, <<"password", "drop">>} :
          \E m : Begin(s, steps, m) /\ UNCHANGED <<account, history>>
    BY <1>1 DEF UpdateRoles, ChangePassword, ConfirmReset
  <2>1. PICK m : Begin(s, steps, m) /\ UNCHANGED <<account, history>>
    BY <2>0
  <2>2. steps \in Openings
    BY DEF Openings
  <2>3. /\ Requested(Statement)' /\ OthersWait(s) /\ InOrder(s)' /\ Forward /\ Tables'
        /\ todo'[s] = steps
    BY <2>1, <2>2, OpensSteady
  <2>4. Steps(s)' \subseteq {"grant", "demote", "bump", "forget", "password", "use", "revoke",
                            "clear", "drop"}
    BY <2>3, TwoLeft, ThreeLeft, FourLeft
  <2> QED
    BY <2>3, <2>4, InformedOfNothing DEF Decisions, Statuses, Kept
<1>2. CASE RequestReset(s) \/ InitiateRecovery(s)
  <2>1. PICK steps \in {<<"void", "mail">>, <<"mail">>},
             m \in {[what |-> "reset"], [what |-> "recovery"]} :
          Begin(s, steps, m) /\ UNCHANGED <<account, history>>
    BY <1>2 DEF RequestReset, InitiateRecovery
  <2>2. steps \in Openings
    BY DEF Openings
  <2>3. /\ Requested(Statement)' /\ OthersWait(s) /\ InOrder(s)' /\ Forward /\ Tables'
        /\ todo'[s] = steps /\ mem'[s] = m
    BY <2>1, <2>2, OpensSteady
  <2>4. Steps(s)' \in {{"void", "mail"}, {"mail"}}
    BY <2>3, OneLeft, TwoLeft
  <2> QED
    BY <2>3, <2>4 DEF Informed, Decisions, Statuses, Kept
<1>3. CASE Authenticate(s)
  <2> DEFINE m == [what |-> "context", row |-> user, admin |-> FALSE]
  <2>1. Begin(s, <<"roles", "cache">>, m) /\ UNCHANGED <<account, history>>
    BY <1>3 DEF Authenticate
  <2>2. <<"roles", "cache">> \in Openings
    BY DEF Openings
  <2>3. /\ Requested(Statement)' /\ OthersWait(s) /\ InOrder(s)' /\ Forward /\ Tables'
        /\ todo'[s] = <<"roles", "cache">> /\ mem'[s] = m
    BY <2>1, <2>2, OpensSteady
  <2>4. Steps(s)' = {"roles", "cache"}
    BY <2>3, TwoLeft
  <2>5. user' = user /\ user \in Row /\ user.version \in Nat
    BY <2>1, RowRead DEF account, Ready, Tables, Row
  <2>6. mem'[s] \in [what : {"context"}, row : Row, admin : BOOLEAN] /\ mem'[s].row = user'
    BY <2>3, <2>5
  <2>7. Dated(mem[s].row.version, mem[s].row.status)'
    BY <2>5, <2>6 DEF Dated
  <2> QED
    BY <2>3, <2>4, <2>6, <2>7 DEF Informed, Decisions, Statuses, Kept
<1> QED
  BY <1>1, <1>2, <1>3

-----------------------------------------------------------------------------
(* Requests go on, and the account's standing stays. *)

LEMMA PlainStatements ==
  ASSUME NEW s \in Slot, Ready(s),
         CountWrong(s) \/ ClearWrong(s) \/ VoidResets(s) \/ Mail(s) \/ UseReset(s)
  PROVE  Kept(s)
<1>1. PICK x \in {"fail", "clear", "void", "mail", "use"} : At(s, x) /\ Pass(s)
  BY DEF CountWrong, ClearWrong, VoidResets, Mail, UseReset
<1>2. /\ Requested(Statement)' /\ OthersWait(s) /\ Follows(s, x)
      /\ Steps(s)' # {} => mem'[s] = mem[s]
  BY <1>1, PassMoves DEF Ready
<1>3. /\ user'.status = user.status /\ user'.version = user.version
      /\ user'.password = user.password
      /\ UNCHANGED <<admin, sessions, refreshes, access, cached, exchanged, undone>>
      /\ SessionsTypeOK'
  <2>1. SessionsTypeOK
    BY DEF Ready, Tables
  <2>2. CASE CountWrong(s) \/ ClearWrong(s)
    <3>1. user \in Row /\ user' \in Row
      <4>1. user \in Row /\ user.wrong + 1 \in Nat /\ 0 \in Nat
        BY <2>1 DEF SessionsTypeOK, Row
      <4> DEFINE full == user.wrong + 1 >= FirstLock
      <4>2. full \in BOOLEAN
        BY <4>1, FirstLockAssumption
      <4>3. \A wrong \in Nat, locked \in BOOLEAN :
              [user EXCEPT !.wrong = wrong, !.locked = locked] \in Row
        BY <4>1 DEF Row
      <4>4. user' \in {[user EXCEPT !.wrong = user.wrong + 1, !.locked = full],
                       [user EXCEPT !.wrong = 0, !.locked = FALSE]}
        BY <2>2 DEF CountWrong, ClearWrong
      <4> HIDE DEF full
      <4> QED
        BY <4>1, <4>2, <4>3, <4>4
    <3>2. /\ user'.status = user.status /\ user'.version = user.version
          /\ user'.password = user.password
      BY <2>2, <3>1 DEF CountWrong, ClearWrong, Row
    <3> QED
      BY <2>1, <2>2, <3>1, <3>2 DEF CountWrong, ClearWrong, history, SessionsTypeOK, Row
  <2>3. CASE VoidResets(s) \/ UseReset(s)
    BY <2>1, <2>3 DEF VoidResets, UseReset, history, SessionsTypeOK
  <2>4. CASE Mail(s)
    <3>1. "mail" \in Steps(s)
      BY <2>4, NextIsPending DEF Mail, Ready
    <3>2. mem[s].what \in {"reset", "recovery"}
      BY <3>1 DEF Ready, Informed
    <3> QED
      BY <2>1, <2>4, <3>2 DEF Mail, history, SessionsTypeOK
  <2> QED
    BY <2>2, <2>3, <2>4
<1>4. InOrder(s)' /\ Forward /\ Tables'
  BY <1>2, <1>3, FollowsSteady
<1>5. Informed(s)'
  BY <1>2, <1>4, InformedFollows DEF Ready
<1> QED
  BY <1>2, <1>4, <1>5 DEF Kept

LEMMA RolesReadKeeps ==
  ASSUME NEW s \in Slot, Ready(s), ReadRoles(s)
  PROVE  Kept(s)
<1> DEFINE m == [mem[s] EXCEPT !.admin = admin]
<1>1. At(s, "roles") /\ Note(s, m) /\ UNCHANGED <<account, history>>
  BY DEF ReadRoles
<1>2. /\ Requested(Statement)' /\ OthersWait(s) /\ Follows(s, "roles")
      /\ Steps(s)' # {} => mem'[s] = m
  BY <1>1, NoteMoves DEF Ready
<1>3. SessionsTypeOK /\ SessionsTypeOK'
  BY <1>1 DEF Ready, Tables, SessionsTypeOK, account, history
<1>4. InOrder(s)' /\ Forward /\ Tables'
  BY <1>1, <1>2, <1>3, FollowsSteady DEF account, history
<1>5. Steps(s)' \subseteq Steps(s)
  BY <1>2 DEF Follows
<1>6. ASSUME "session" \in Steps(s)'
      PROVE  /\ mem'[s] \in [what : {"login"}, row : Row, admin : BOOLEAN] /\ Copied(mem[s].row)'
             /\ Entitled(mem[s].row.version, mem[s].admin)'
  <2>1. /\ mem'[s] = m /\ mem[s] \in [what : {"login"}, row : Row, admin : BOOLEAN]
        /\ Copied(mem[s].row)
    BY <1>2, <1>5, <1>6 DEF Ready, Informed
  <2>2. /\ m \in [what : {"login"}, row : Row, admin : BOOLEAN]
        /\ m.row = mem[s].row /\ m.admin = admin
    BY <1>3, <2>1 DEF SessionsTypeOK
  <2> DEFINE row == mem[s].row
  <2>3. row' = row
    BY <2>1, <2>2
  <2>4. Copied(row)'
    <3> HIDE DEF row
    <3> QED
      BY <1>4, <2>1, <2>3, CopiedStays DEF row
  <2>5. admin' = admin /\ mem'[s].admin = admin'
    BY <1>1, <2>1, <2>2 DEF account
  <2> QED
    BY <2>1, <2>2, <2>4, <2>5 DEF Entitled
<1>7. ASSUME "cache" \in Steps(s)'
      PROVE  /\ mem'[s] \in [what : {"context"}, row : Row, admin : BOOLEAN]
             /\ mem'[s].row.status # "pending" => Dated(mem[s].row.version, mem[s].row.status)'
  <2>1. /\ mem'[s] = m /\ mem[s] \in [what : {"context"}, row : Row, admin : BOOLEAN]
        /\ mem[s].row.status # "pending" => Dated(mem[s].row.version, mem[s].row.status)
    BY <1>2, <1>5, <1>7 DEF Ready, Informed
  <2>2. m \in [what : {"context"}, row : Row, admin : BOOLEAN] /\ m.row = mem[s].row
    BY <1>3, <2>1 DEF SessionsTypeOK
  <2> QED
    BY <1>1, <2>1, <2>2 DEF Dated, account, Exists
<1>8. "rotate" \notin Steps(s)'
  BY <1>2 DEF Ready, InOrder, Follows
<1>9. Decisions \cap Steps(s)' = {} /\ "mail" \notin Steps(s)'
  <2>1. Ending(s) \in {"session", "cache"} /\ "roles" \in Steps(s)
    BY <1>2 DEF Ready, InOrder, Follows
  <2> QED
    BY <1>5, <2>1 DEF Ready, InOrder
<1> QED
  BY <1>2, <1>4, <1>6, <1>7, <1>8, <1>9 DEF Informed, Kept


LEMMA PassKeeps ==
  ASSUME NEW s \in Slot, Ready(s), NEW x, At(s, x), Pass(s), x \notin {"roles", "account"},
         Forward, Tables'
  PROVE  Kept(s)
<1>1. /\ Requested(Statement)' /\ OthersWait(s) /\ Follows(s, x)
      /\ Steps(s)' # {} => mem'[s] = mem[s]
  BY PassMoves DEF Ready
<1> QED
  BY <1>1, FollowsInOrder, InformedFollows DEF Ready, Kept

\* A request that ends has no more to do, and nothing to remember.
LEMMA EndKeeps ==
  ASSUME NEW s \in Slot, Requested(Statement)', OthersWait(s), todo'[s] = <<>>, Forward, Tables'
  PROVE  Kept(s)
BY InformedAtRest DEF Kept

\* One that is turned away at its first statement had promised nothing.
LEMMA AnswerKeeps ==
  ASSUME NEW s \in Slot, Ready(s), NEW x \in Opening \cup {"reuse"}, At(s, x), Answer(s),
         UNCHANGED <<account, history>>
  PROVE  Kept(s)
<1>1. Requested(Statement)' /\ OthersWait(s) /\ todo'[s] = <<>>
  BY AnswerMoves DEF Ready
<1>2. ~Bumps(s) /\ ~Forgets(s) /\ ~Revokes(s)
  <2>1. x \in Steps(s) /\ ~At(s, "bump")
    BY NextIsPending DEF Ready, At, Opening
  <2>2. CASE x = "reuse"
    BY <2>1, <2>2 DEF Ready, InOrder, Forgets, Revokes, Bumps
  <2>3. CASE x \in Opening
    BY <2>1, <2>3, NothingPromised
  <2> QED
    BY <2>2, <2>3
<1>3. Steady
  <2>1. SessionsTypeOK' /\ undone' = undone
    BY DEF Ready, Tables, SessionsTypeOK, account, history
  <2>2. (Bumping => Bumping') /\ (Forgetting => Forgetting') /\ (Revoking => Revoking')
    BY <1>1, <1>2, <2>1, BumpingKept, ForgettingKept, RevokingKept
  <2> QED
    BY <2>1, <2>2 DEF Steady, account, history
<1> QED
  BY <1>1, <1>3, SteadyKeeps, EndKeeps DEF Ready

LEMMA AccountReadKeeps ==
  ASSUME NEW s \in Slot, Ready(s), ReadAccount(s)
  PROVE  Kept(s)
<1>1. At(s, "account") /\ UNCHANGED <<account, history>>
  BY DEF ReadAccount
<1>2. CASE Answer(s)
  BY <1>1, <1>2, AnswerKeeps DEF Opening
<1> DEFINE m == [what |-> "refresh", token |-> mem[s].token, row |-> user, admin |-> admin]
<1>3. CASE user.status \in MaySignIn /\ Note(s, m)
  <2>1. /\ Requested(Statement)' /\ OthersWait(s) /\ Follows(s, "account")
        /\ Steps(s)' # {} => mem'[s] = m
    BY <1>1, <1>3, NoteMoves DEF Ready
  <2>2. SessionsTypeOK /\ SessionsTypeOK'
    BY <1>1 DEF Ready, Tables, SessionsTypeOK, account, history
  <2>3. InOrder(s)' /\ Forward /\ Tables'
    BY <1>1, <2>1, <2>2, FollowsSteady DEF account, history
  <2>4. Steps(s)' \subseteq Steps(s) /\ Steps(s) \subseteq {"account", "rotate"}
    BY <2>1 DEF Follows, Ready, InOrder
  <2>5. ASSUME "rotate" \in Steps(s)'
        PROVE  /\ mem'[s].token \in 1 .. refreshes' /\ Copied(mem[s].row)'
               /\ mem'[s].admin \in BOOLEAN /\ Entitled(mem[s].row.version, mem[s].admin)'
    <3>1. mem'[s] = m /\ mem[s].token \in 1 .. refreshes
      BY <2>1, <2>4, <2>5 DEF Ready, Informed
    <3>2. /\ mem'[s].token = mem[s].token /\ mem'[s].row = user' /\ mem'[s].admin = admin'
          /\ refreshes' = refreshes /\ user' = user /\ admin \in BOOLEAN
      BY <1>1, <2>2, <3>1 DEF account, SessionsTypeOK
    <3>3. Copied(mem[s].row)'
      BY <1>3, <2>2, <3>2, RowRead DEF Copied, Dated, Exists
    <3>4. Entitled(mem[s].row.version, mem[s].admin)'
      BY <3>2 DEF Entitled
    <3> QED
      BY <1>1, <3>1, <3>2, <3>3, <3>4 DEF account
  <2>6. Informed(s)'
    BY <2>4, <2>5 DEF Informed, Decisions, Statuses
  <2> QED
    BY <2>1, <2>3, <2>6 DEF Kept
<1> QED
  BY <1>2, <1>3 DEF ReadAccount

LEMMA TargetKeeps ==
  ASSUME NEW s \in Slot, Ready(s), CheckTarget(s)
  PROVE  Kept(s)
<1>1. At(s, "target") /\ UNCHANGED <<account, history>> /\ (Answer(s) \/ Pass(s))
  BY DEF CheckTarget
<1>2. CASE Answer(s)
  BY <1>1, <1>2, AnswerKeeps DEF Opening
<1>3. CASE Pass(s)
  <2>1. /\ Requested(Statement)' /\ OthersWait(s) /\ Follows(s, "target")
    BY <1>1, <1>3, PassMoves DEF Ready
  <2>2. SessionsTypeOK'
    BY <1>1 DEF Ready, Tables, SessionsTypeOK, account, history
  <2>3. Forward /\ Tables'
    BY <1>1, <2>1, <2>2, FollowsSteady DEF account, history
  <2> QED
    BY <1>1, <1>3, <2>3, PassKeeps
<1> QED
  BY <1>1, <1>2, <1>3

LEMMA ReuseKeeps ==
  ASSUME NEW s \in Slot, Ready(s), CheckReuse(s)
  PROVE  Kept(s)
<1> DEFINE steps == OnReuse(mem[s].token)
<1>1. At(s, "reuse") /\ Turn(s, steps, mem[s]) /\ UNCHANGED <<account, history>>
  BY DEF CheckReuse
<1>2. steps \in {<<"revoke", "bump">>, <<>>}
  BY DEF OnReuse
<1> HIDE DEF steps
<1>3. CASE steps = <<>>
  BY <1>1, <1>3, AnswerKeeps DEF Answer, Turn
<1>4. CASE steps = <<"revoke", "bump">>
  <2>1. /\ Requested(Statement)' /\ OthersWait(s) /\ InOrder(s)' /\ todo'[s] = steps
    BY <1>1, <1>4, Opens DEF Ready, Openings
  <2>2. Steps(s)' = {"revoke", "bump"}
    BY <1>4, <2>1, TwoLeft
  <2>3. Informed(s)'
    BY <2>2, InformedOfNothing DEF Decisions, Statuses
  <2>4. ~Bumps(s) /\ ~Forgets(s) /\ ~Revokes(s)
    <3>1. Steps(s) = {"reuse"}
      BY <1>1, NextIsPending DEF Ready, InOrder
    <3> QED
      BY <1>1, <3>1 DEF Bumps, Forgets, Revokes, At
  <2>5. SessionsTypeOK' /\ undone' = undone
    BY <1>1 DEF Ready, Tables, SessionsTypeOK, account, history
  <2>6. (Bumping => Bumping') /\ (Forgetting => Forgetting') /\ (Revoking => Revoking')
    BY <2>1, <2>4, <2>5, BumpingKept, ForgettingKept, RevokingKept
  <2>7. Forward /\ Tables'
    BY <1>1, <2>5, <2>6, SteadyKeeps DEF Steady, account, history, Ready
  <2> QED
    BY <2>1, <2>3, <2>7 DEF Kept
<1> QED
  BY <1>2, <1>3, <1>4

\* What a request that dies, or refuses its second half, leaves undone is written down.
LEMMA UndoneKeeps ==
  ASSUME NEW s \in Slot, Ready(s), Die(s) \/ Refuse(s)
  PROVE  Kept(s)
<1>1. CASE Refuse(s)
  <2>1. /\ At(s, "refuse") /\ Pass(s) /\ undone' = undone \cup {"refuse"}
        /\ UNCHANGED <<account, exchanged>>
    BY <1>1 DEF Refuse
  <2>2. OthersWait(s) /\ Follows(s, "refuse")
    BY <2>1, PassMoves DEF Ready
  <2>3. SessionsTypeOK'
    BY <2>1 DEF Ready, Tables, SessionsTypeOK, account, Owed
  <2>4. ~Bumps(s) /\ (Revokes(s) => Revokes(s)') /\ undone' \cap {"forget", "refuse"} # {}
    BY <2>1, <2>2, FollowsKeeps DEF Ready
  <2>5. (Bumping => Bumping') /\ (Forgetting => Forgetting') /\ (Revoking => Revoking')
    BY <2>1, <2>2, <2>4, BumpingKept, ForgettingKept, RevokingKept
  <2>6. Forward /\ Tables'
    BY <2>1, <2>3, <2>5, SteadyKeeps DEF Steady, account, Ready
  <2> QED
    BY <2>1, <2>6, PassKeeps
<1>2. CASE Die(s)
  <2>1. /\ Answer(s) /\ undone' = undone \cup (Owed \cap Steps(s))
        /\ UNCHANGED <<account, exchanged>>
    BY <1>2 DEF Die
  <2>2. Requested(Statement)' /\ OthersWait(s) /\ todo'[s] = <<>>
    BY <2>1, AnswerMoves DEF Ready
  <2>3. SessionsTypeOK'
    BY <2>1 DEF Ready, Tables, SessionsTypeOK, account
  <2>4. /\ Bumps(s) => "bump" \in undone'
        /\ Forgets(s) => undone' \cap {"forget", "refuse"} # {}
        /\ Revokes(s) => undone' \cap {"revoke", "drop"} # {}
    BY <2>1, NextIsPending DEF Ready, Bumps, Forgets, Revokes, Owed
  <2>5. (Bumping => Bumping') /\ (Forgetting => Forgetting') /\ (Revoking => Revoking')
    BY <2>1, <2>2, <2>4, BumpingKept, ForgettingKept, RevokingKept
  <2>6. Forward /\ Tables'
    BY <2>1, <2>3, <2>5, SteadyKeeps DEF Steady, account, Ready
  <2> QED
    BY <2>2, <2>6, EndKeeps
<1> QED
  BY <1>1, <1>2


-----------------------------------------------------------------------------
(* Requests go on, and the account or its sessions change. *)

\* What a statement leaves promised: all but what it settles itself.
LEMMA FollowsPromised ==
  ASSUME NEW s \in Slot, InOrder(s), NEW x, OthersWait(s), Follows(s, x)
  PROVE  /\ x # "bump" /\ ("bump" \in undone => "bump" \in undone') => (Bumping => Bumping')
         /\ x \notin {"forget", "refuse"} /\ undone \cap {"forget", "refuse"} \subseteq undone'
              => (Forgetting => Forgetting')
         /\ x \notin {"revoke", "drop"} /\ undone \cap {"revoke", "drop"} \subseteq undone'
              => (Revoking => Revoking')
BY FollowsKeeps, BumpingKept, ForgettingKept, RevokingKept

\* Sessions end, or stay as they are.
Shrinks ==
  \/ sessions' = <<>>
  \/ /\ DOMAIN sessions' = DOMAIN sessions
     /\ \A i \in DOMAIN sessions :
          /\ sessions'[i].token = sessions[i].token
          /\ sessions'[i].password = sessions[i].password /\ sessions'[i].late = sessions[i].late
          /\ sessions[i].state = "revoked" => sessions'[i].state = "revoked"

LEMMA TablesMove ==
  ASSUME Tables, SessionsTypeOK', StatusMoves, RolesMove, Shrinks,
         UNCHANGED <<refreshes, access, exchanged>>, ContextDated', PasswordsSettled'
  PROVE  Forward /\ Tables'
<1>1. Forward
  BY MovesForward DEF Tables, SessionsTypeOK
<1>2. TokensDated'
  BY <1>1, TokensStayDated DEF Tables, TokensDated
<1>3. TokensDistinct'
  BY DEF Tables, TokensDistinct, Shrinks
<1>4. ExchangeIsExclusive'
  BY DEF Tables, ExchangeIsExclusive, OfToken, Shrinks
<1> QED
  BY <1>1, <1>2, <1>3, <1>4 DEF Tables

LEMMA SameSessions ==
  ASSUME sessions' = sessions
  PROVE  Shrinks
BY DEF Shrinks

Session == [token : Nat \ {0}, previous : Nat, password : Nat, late : BOOLEAN,
            state : {"live", "expired", "revoked"}]

LEMMA EndedTyped ==
  ASSUME sessions \in Seq(Session), NEW is, sessions' = Ended(is)
  PROVE  /\ sessions' \in Seq(Session) /\ Shrinks
         /\ \A i \in DOMAIN sessions : i \in is => sessions'[i].state = "revoked"
         /\ DOMAIN sessions' = DOMAIN sessions
<1> DEFINE end(r) == [r EXCEPT !.state = "revoked"]
<1>1. \A r \in Session : end(r) \in Session /\ end(r).token = r.token
                         /\ end(r).password = r.password /\ end(r).late = r.late
                         /\ end(r).state = "revoked"
  BY DEF Session
<1> HIDE DEF end
<1>2. /\ DOMAIN sessions = 1 .. Len(sessions) /\ Len(sessions) \in Nat
      /\ \A i \in DOMAIN sessions : sessions[i] \in Session
  OBVIOUS
<1>3. sessions' = [i \in DOMAIN sessions |-> IF i \in is THEN end(sessions[i]) ELSE sessions[i]]
  BY DEF Ended, end
<1>4. sessions' \in [1 .. Len(sessions) -> Session]
  BY <1>1, <1>2, <1>3
<1>5. sessions' \in Seq(Session)
  BY <1>2, <1>4
<1>6. DOMAIN sessions' = DOMAIN sessions
  BY <1>3
<1>7. \A i \in DOMAIN sessions :
        sessions'[i] = IF i \in is THEN end(sessions[i]) ELSE sessions[i]
  BY <1>3
<1>8. Shrinks
  BY <1>1, <1>2, <1>6, <1>7 DEF Shrinks
<1> QED
  BY <1>1, <1>2, <1>5, <1>6, <1>7, <1>8

\* Every session is revoked.
LEMMA AllEnded ==
  ASSUME SessionsTypeOK, sessions' \in {<<>>, Ended(Unrevoked)}
  PROVE  sessions' \in Seq(Session) /\ Shrinks /\ PasswordsSettled'
<1>1. CASE sessions' = <<>>
  BY <1>1 DEF Shrinks, PasswordsSettled
<1>2. CASE sessions' = Ended(Unrevoked)
  <2>1. sessions \in Seq(Session)
    BY DEF SessionsTypeOK, Session
  <2>2. /\ sessions' \in Seq(Session) /\ Shrinks
        /\ \A i \in DOMAIN sessions : i \in Unrevoked => sessions'[i].state = "revoked"
        /\ DOMAIN sessions' = DOMAIN sessions
    BY <1>2, <2>1, EndedTyped
  <2>3. \A i \in DOMAIN sessions : i \notin Unrevoked => sessions'[i].state = "revoked"
    BY <2>2 DEF Unrevoked, Shrinks
  <2> QED
    BY <2>2, <2>3 DEF PasswordsSettled
<1> QED
  BY <1>1, <1>2

LEMMA AllRevokedKeeps ==
  ASSUME NEW s \in Slot, Ready(s), RevokeAll(s) \/ DropAll(s)
  PROVE  Kept(s)
<1>1. PICK x \in {"revoke", "drop"} : At(s, x) /\ Pass(s)
  BY DEF RevokeAll, DropAll
<1>2. /\ sessions' \in {<<>>, Ended(Unrevoked)} /\ undone' = undone \ {"revoke", "drop"}
      /\ UNCHANGED <<user, admin, refreshes, access, resets, mailed, cached, exchanged>>
  BY DEF RevokeAll, DropAll, Settled
<1>3. OthersWait(s) /\ Follows(s, x) /\ SessionsTypeOK
  BY <1>1, PassMoves DEF Ready, Tables
<1>4. (Bumping => Bumping') /\ (Forgetting => Forgetting')
  BY <1>2, <1>3, FollowsPromised DEF Ready
<1>5. sessions' \in Seq(Session) /\ Shrinks /\ PasswordsSettled'
  BY <1>2, <1>3, AllEnded
<1>6. SessionsTypeOK'
  BY <1>2, <1>3, <1>5 DEF SessionsTypeOK, Session
<1>7. StatusMoves /\ RolesMove
  BY <1>2, <1>4 DEF StatusMoves, RolesMove, Exists
<1>8. ContextDated'
  BY <1>2, <1>4 DEF Ready, Tables, ContextDated
<1>9. Forward /\ Tables'
  BY <1>2, <1>5, <1>6, <1>7, <1>8, TablesMove DEF Ready
<1> QED
  BY <1>1, <1>9, PassKeeps

\* The row moves to its next version, or is gone and stays as it is.
Advances ==
  \/ user'.version = user.version + 1
  \/ ~Exists /\ user' = user

\* What the updates leave in the row.
WithStatus(row, status, version) == [row EXCEPT !.status = status, !.version = version]
WithPassword(row, password, version) == [row EXCEPT !.password = password, !.version = version]
Unlocked(row, password, version) ==
  [row EXCEPT !.password = password, !.version = version, !.wrong = 0, !.locked = FALSE]

LEMMA RowUpdates ==
  ASSUME NEW row \in Row, NEW version \in Nat
  PROVE  /\ \A status \in Statuses :
              /\ WithStatus(row, status, version) \in Row
              /\ WithStatus(row, status, version).status = status
              /\ WithStatus(row, status, version).version = version
              /\ WithStatus(row, status, version).password = row.password
         /\ \A password \in Nat :
              /\ WithPassword(row, password, version) \in Row
              /\ WithPassword(row, password, version).version = version
              /\ WithPassword(row, password, version).status = row.status
              /\ Unlocked(row, password, version) \in Row
              /\ Unlocked(row, password, version).version = version
              /\ Unlocked(row, password, version).status = row.status
<1>1. ASSUME NEW status \in Statuses
      PROVE  /\ WithStatus(row, status, version) \in Row
             /\ WithStatus(row, status, version).status = status
             /\ WithStatus(row, status, version).version = version
             /\ WithStatus(row, status, version).password = row.password
  BY DEF Row, WithStatus
<1>2. ASSUME NEW password \in Nat
      PROVE  /\ WithPassword(row, password, version) \in Row
             /\ WithPassword(row, password, version).version = version
             /\ WithPassword(row, password, version).status = row.status
  BY DEF Row, WithPassword
<1>3. ASSUME NEW password \in Nat
      PROVE  /\ Unlocked(row, password, version) \in Row
             /\ Unlocked(row, password, version).version = version
             /\ Unlocked(row, password, version).status = row.status
  BY DEF Row, Unlocked
<1> QED
  BY <1>1, <1>2, <1>3

LEMMA BumpKeeps ==
  ASSUME NEW s \in Slot, Ready(s), Bump(s)
  PROVE  Kept(s)
<1>1. /\ At(s, "bump") /\ Pass(s) /\ undone' = undone \ {"bump"}
      /\ UNCHANGED <<admin, sessions, refreshes, access, resets, mailed, cached, exchanged>>
  BY DEF Bump, Settled
<1>2. SessionsTypeOK /\ user \in Row
  BY DEF Ready, Tables, SessionsTypeOK, Row
<1>3. /\ user' \in Row /\ user'.status = user.status /\ user'.password = user.password
      /\ Advances
  <2>1. user' = IF Exists THEN [user EXCEPT !.version = user.version + 1] ELSE user
    BY DEF Bump
  <2> QED
    BY <1>2, <2>1 DEF Row, Advances
<1>4. OthersWait(s) /\ Follows(s, "bump")
  BY <1>1, PassMoves DEF Ready
<1>5. (Forgetting => Forgetting') /\ (Revoking => Revoking')
  BY <1>1, <1>4, FollowsPromised DEF Ready
<1>6. SessionsTypeOK'
  BY <1>1, <1>2, <1>3 DEF SessionsTypeOK, Row
<1>7. StatusMoves /\ RolesMove
  BY <1>3 DEF Advances, StatusMoves, RolesMove, Exists
<1>8. ContextDated' /\ PasswordsSettled'
  BY <1>1, <1>3, <1>5 DEF Ready, Tables, ContextDated, PasswordsSettled
<1>9. Forward /\ Tables'
  BY <1>1, <1>6, <1>7, <1>8, SameSessions, TablesMove DEF Ready
<1> QED
  BY <1>1, <1>9, PassKeeps

\* A decision is followed by what tells the cache of it.
LEMMA DecisionsForget ==
  ASSUME NEW s \in Slot, Ready(s), NEW x \in Decisions, At(s, x), Follows(s, x)
  PROVE  Forgets(s)'
<1>1. x \in Steps(s) /\ Ending(s) \in {"forget", "refuse"}
  BY NextIsPending DEF Ready, InOrder
<1>2. Ending(s) # x
  BY <1>1 DEF Decisions, Statuses
<1>3. Ending(s) \in Steps(s)'
  BY <1>2, LastIsLater DEF Ready, Follows
<1> QED
  BY <1>1, <1>3, FollowsInOrder DEF Ready, Forgets

LEMMA StatusSetKeeps ==
  ASSUME NEW s \in Slot, Ready(s), NEW to \in Statuses, SetStatus(s, to)
  PROVE  Kept(s)
<1>1. /\ At(s, to) /\ Pass(s) /\ undone' = undone \ {"bump"}
      /\ UNCHANGED <<admin, sessions, refreshes, access, resets, mailed, cached, exchanged>>
  BY DEF SetStatus, Settled
<1>2. SessionsTypeOK /\ user \in Row
  BY DEF Ready, Tables, SessionsTypeOK, Row
<1>3. user' \in Row /\ user'.password = user.password /\ Advances
  <2>1. user' = IF Exists THEN WithStatus(user, to, user.version + 1) ELSE user
    BY DEF SetStatus, WithStatus
  <2>2. user.version + 1 \in Nat
    BY <1>2 DEF Row
  <2> QED
    BY <1>2, <2>1, <2>2, RowUpdates DEF Advances
<1>4. OthersWait(s) /\ Follows(s, to)
  BY <1>1, PassMoves DEF Ready
<1>5. Forgetting'
  BY <1>1, <1>4, DecisionsForget DEF Decisions, Forgetting
<1>6. Revoking => Revoking'
  BY <1>1, <1>4, FollowsPromised DEF Ready, Statuses
<1>7. SessionsTypeOK'
  BY <1>1, <1>2, <1>3 DEF SessionsTypeOK, Row
<1>8. StatusMoves /\ RolesMove
  BY <1>3 DEF Advances, StatusMoves, RolesMove, Exists
<1>9. ContextDated' /\ PasswordsSettled'
  BY <1>1, <1>3, <1>5, <1>6 DEF Ready, Tables, ContextDated, PasswordsSettled
<1>10. Forward /\ Tables'
  BY <1>1, <1>7, <1>8, <1>9, SameSessions, TablesMove DEF Ready
<1>11. to \notin {"roles", "account"}
  BY DEF Statuses
<1> QED
  BY <1>1, <1>10, <1>11, PassKeeps

LEMMA DeletedKeeps ==
  ASSUME NEW s \in Slot, Ready(s), DeleteAll(s)
  PROVE  Kept(s)
<1>1. /\ At(s, "delete") /\ Pass(s) /\ undone' = undone \ {"bump", "revoke", "drop"}
      /\ user' = [user EXCEPT !.status = "deleted"] /\ admin' = FALSE /\ sessions' = <<>>
      /\ resets' = {} /\ UNCHANGED <<refreshes, access, mailed, cached, exchanged>>
  BY DEF DeleteAll, Settled
<1>2. SessionsTypeOK /\ user \in Row
  BY DEF Ready, Tables, SessionsTypeOK, Row
<1>3. user' \in Row /\ user'.status = "deleted" /\ user'.version = user.version
  BY <1>1, <1>2 DEF Row, Statuses
<1>4. OthersWait(s) /\ Follows(s, "delete")
  BY <1>1, PassMoves DEF Ready
<1>5. Forgetting'
  BY <1>1, <1>4, DecisionsForget DEF Decisions, Forgetting
<1>6. sessions' \in Seq(Session) /\ Shrinks /\ PasswordsSettled'
  BY <1>1, <1>2, AllEnded
<1>7. SessionsTypeOK'
  BY <1>1, <1>2, <1>3, <1>6 DEF SessionsTypeOK, Row, Session
<1>8. StatusMoves /\ RolesMove
  BY <1>3 DEF StatusMoves, RolesMove
<1>9. ContextDated'
  BY <1>5 DEF ContextDated
<1>10. Forward /\ Tables'
  BY <1>1, <1>6, <1>7, <1>8, <1>9, TablesMove DEF Ready
<1> QED
  BY <1>1, <1>10, PassKeeps

\* A role that changes has its version to change next.
LEMMA RoleSetKeeps ==
  ASSUME NEW s \in Slot, Ready(s), SetRole(s)
  PROVE  Kept(s)
<1>1. PICK x \in {"grant", "demote"} :
        /\ At(s, x) /\ admin' = (x = "grant" /\ Exists)
        /\ Pass(s) \/ (Answer(s) /\ ~Exists)
        /\ UNCHANGED <<user, sessions, refreshes, access, resets, mailed, cached, history>>
  BY DEF SetRole, At
<1>2. SessionsTypeOK
  BY DEF Ready, Tables
<1>3. SessionsTypeOK' /\ undone' = undone /\ exchanged' = exchanged
  <2>1. admin' \in BOOLEAN
    BY <1>1
  <2> QED
    BY <1>1, <1>2, <2>1 DEF SessionsTypeOK, history
<1>4. x \in Steps(s) /\ ~Bumps(s) /\ ~Forgets(s) /\ ~Revokes(s)
  BY <1>1, NextIsPending, NothingPromised DEF Ready, Opening, At
<1>5. CASE Pass(s)
  <2>1. OthersWait(s) /\ Follows(s, x)
    BY <1>1, <1>5, PassMoves DEF Ready
  <2>2. (Forgetting => Forgetting') /\ (Revoking => Revoking')
    BY <1>3, <1>4, <2>1, ForgettingKept, RevokingKept
  <2>3. Bumping'
    <3>1. todo'[s] = <<"bump", "forget">>
      BY <1>1, <2>1 DEF Ready, InOrder, Follows
    <3>2. At(s, "bump")'
      BY <3>1 DEF At
    <3> QED
      BY <3>2 DEF Bumping, Bumps
  <2>4. StatusMoves /\ RolesMove
    BY <1>1, <2>3 DEF StatusMoves, RolesMove, Exists
  <2>5. ContextDated' /\ PasswordsSettled'
    BY <1>1, <2>2 DEF Ready, Tables, ContextDated, PasswordsSettled
  <2>6. Forward /\ Tables'
    BY <1>1, <1>3, <2>4, <2>5, SameSessions, TablesMove DEF Ready
  <2> QED
    BY <1>1, <1>5, <2>6, PassKeeps
<1>6. CASE Answer(s) /\ ~Exists
  <2>1. Requested(Statement)' /\ OthersWait(s) /\ todo'[s] = <<>>
    BY <1>6, AnswerMoves DEF Ready
  <2>2. (Forgetting => Forgetting') /\ (Revoking => Revoking')
    BY <1>3, <1>4, <2>1, ForgettingKept, RevokingKept
  <2>3. StatusMoves /\ RolesMove
    BY <1>1, <1>6 DEF StatusMoves, RolesMove, Exists
  <2>4. ContextDated' /\ PasswordsSettled'
    BY <1>1, <2>2 DEF Ready, Tables, ContextDated, PasswordsSettled
  <2>5. Forward /\ Tables'
    BY <1>1, <1>3, <2>3, <2>4, SameSessions, TablesMove DEF Ready
  <2> QED
    BY <2>1, <2>5, EndKeeps
<1> QED
  BY <1>1, <1>5, <1>6

LEMMA PasswordSetKeeps ==
  ASSUME NEW s \in Slot, Ready(s), SetPassword(s)
  PROVE  Kept(s)
<1>1. /\ At(s, "password") /\ Pass(s) /\ undone' = undone \ {"bump"}
      /\ UNCHANGED <<admin, sessions, refreshes, access, resets, mailed, cached, exchanged>>
  BY DEF SetPassword, Settled
<1>2. SessionsTypeOK /\ user \in Row
  BY DEF Ready, Tables, SessionsTypeOK, Row
<1>3. user' \in Row /\ user'.status = user.status /\ Advances
  <2>1. user' = IF Exists THEN WithPassword(user, user.password + 1, user.version + 1) ELSE user
    BY DEF SetPassword, WithPassword
  <2>2. user.version + 1 \in Nat /\ user.password + 1 \in Nat
    BY <1>2 DEF Row
  <2> QED
    BY <1>2, <2>1, <2>2, RowUpdates DEF Advances
<1>4. OthersWait(s) /\ Follows(s, "password")
  BY <1>1, PassMoves DEF Ready
<1>5. Forgetting => Forgetting'
  BY <1>1, <1>4, FollowsPromised DEF Ready
<1>6. Revoking'
  <2>1. {"drop", "revoke"} \cap Steps(s)' # {} /\ Opened(s)'
    BY <1>1, <1>4, FollowsInOrder DEF Ready, InOrder, Follows
  <2> QED
    BY <2>1 DEF Revoking, Revokes
<1>7. SessionsTypeOK'
  BY <1>1, <1>2, <1>3 DEF SessionsTypeOK, Row
<1>8. StatusMoves /\ RolesMove
  BY <1>3 DEF Advances, StatusMoves, RolesMove, Exists
<1>9. ContextDated' /\ PasswordsSettled'
  BY <1>1, <1>3, <1>5, <1>6 DEF Ready, Tables, ContextDated, PasswordsSettled
<1>10. Forward /\ Tables'
  BY <1>1, <1>7, <1>8, <1>9, SameSessions, TablesMove DEF Ready
<1> QED
  BY <1>1, <1>10, PassKeeps

\* What takes no time of its own.
LEMMA AtOnceKeeps ==
  ASSUME NEW s \in Slot, Ready(s), AtOnce(s) \/ \E is : RevokeSessions(s, is)
  PROVE  /\ OthersWait(s) /\ ~Bumps(s) /\ ~Forgets(s) /\ ~Revokes(s)
         /\ undone' = undone => /\ Bumping => Bumping'
                                /\ Forgetting => Forgetting'
                                /\ Revoking => Revoking'
<1>1. todo[s] = <<>> /\ OthersWait(s)
  <2>1. CASE AtOnce(s)
    BY <2>1, AtOnceMoves DEF Ready
  <2>2. CASE \E is : RevokeSessions(s, is)
    <3>1. Begin(s, <<"bump">>, [what |-> "revokeSession"]) /\ <<"bump">> \in Openings
      BY <2>2 DEF RevokeSessions, Openings
    <3> QED
      BY <3>1, Opens DEF Ready, Begin
  <2> QED
    BY <2>1, <2>2
<1>2. ~Bumps(s) /\ ~Forgets(s) /\ ~Revokes(s)
  BY <1>1, NothingPromised
<1> QED
  BY <1>1, <1>2, BumpingKept, ForgettingKept, RevokingKept

LEMMA ApprovedKeeps ==
  ASSUME NEW s \in Slot, Ready(s), NEW to \in {"approved", "rejected"}, Approve(s, to)
  PROVE  Kept(s)
<1>1. /\ AtOnce(s) /\ user.status = "pending" /\ user' = [user EXCEPT !.status = to]
      /\ UNCHANGED <<admin, sessions, refreshes, access, resets, mailed, cached, history>>
  BY DEF Approve
<1>2. SessionsTypeOK /\ user \in Row
  BY DEF Ready, Tables, SessionsTypeOK, Row
<1>3. user' \in Row /\ user'.version = user.version /\ user'.password = user.password
  BY <1>1, <1>2 DEF Row, Statuses
<1>4. undone' = undone /\ exchanged' = exchanged
  BY <1>1 DEF history
<1>5. (Bumping => Bumping') /\ (Forgetting => Forgetting') /\ (Revoking => Revoking')
  BY <1>1, <1>4, AtOnceKeeps
<1>6. SessionsTypeOK'
  BY <1>1, <1>2, <1>3, <1>4 DEF SessionsTypeOK, Row
<1>7. StatusMoves /\ RolesMove
  BY <1>1, <1>3, <1>5 DEF StatusMoves, RolesMove, Exists
<1>8. ContextDated' /\ PasswordsSettled'
  BY <1>1, <1>3, <1>5 DEF Ready, Tables, ContextDated, PasswordsSettled
<1>9. Forward /\ Tables'
  BY <1>1, <1>4, <1>6, <1>7, <1>8, SameSessions, TablesMove DEF Ready
<1>10. Requested(Statement)' /\ OthersWait(s) /\ todo'[s] = <<>>
  BY <1>1, AtOnceMoves DEF Ready
<1> QED
  BY <1>9, <1>10, EndKeeps

LEMMA RecoveredKeeps ==
  ASSUME NEW s \in Slot, Ready(s), NEW r \in resets, CompleteRecovery(s, r)
  PROVE  Kept(s)
<1>1. /\ AtOnce(s) /\ resets' = resets \ {r} /\ sessions' = Ended(Unrevoked)
      /\ undone' = undone \ {"bump", "revoke", "drop"}
      /\ UNCHANGED <<admin, refreshes, access, mailed, cached, exchanged>>
  BY DEF CompleteRecovery, Settled
<1>2. SessionsTypeOK /\ user \in Row
  BY DEF Ready, Tables, SessionsTypeOK, Row
<1>3. user' \in Row /\ user'.version = user.version + 1 /\ user'.status = user.status
  <2>1. user' = Unlocked(user, user.password + 1, user.version + 1)
    BY DEF CompleteRecovery, Unlocked
  <2>2. user.version + 1 \in Nat /\ user.password + 1 \in Nat
    BY <1>2 DEF Row
  <2> QED
    BY <1>2, <2>1, <2>2, RowUpdates
<1>4. sessions' \in Seq(Session) /\ Shrinks /\ PasswordsSettled'
  BY <1>1, <1>2, AllEnded
<1>5. SessionsTypeOK'
  BY <1>1, <1>2, <1>3, <1>4 DEF SessionsTypeOK, Row, Session
<1>6. StatusMoves /\ RolesMove
  BY <1>3 DEF StatusMoves, RolesMove
<1>7. ContextDated'
  <2>1. Forgetting => Forgetting'
    BY <1>1, AtOnceKeeps, ForgettingKept
  <2> QED
    BY <1>1, <1>3, <2>1 DEF Ready, Tables, ContextDated
<1>8. Forward /\ Tables'
  BY <1>1, <1>4, <1>5, <1>6, <1>7, TablesMove DEF Ready
<1>9. Requested(Statement)' /\ OthersWait(s) /\ todo'[s] = <<>>
  BY <1>1, AtOnceMoves DEF Ready
<1> QED
  BY <1>8, <1>9, EndKeeps

LEMMA SessionsRevokedKeeps ==
  ASSUME NEW s \in Slot, Ready(s), NEW is, RevokeSessions(s, is)
  PROVE  Kept(s)
<1>1. /\ Begin(s, <<"bump">>, [what |-> "revokeSession"]) /\ sessions' = Ended(is)
      /\ UNCHANGED <<user, admin, refreshes, access, resets, mailed, cached, history>>
  BY DEF RevokeSessions
<1>2. SessionsTypeOK /\ sessions \in Seq(Session)
  BY DEF Ready, Tables, SessionsTypeOK, Session
<1>3. undone' = undone /\ exchanged' = exchanged
  BY <1>1 DEF history
<1>4. (Bumping => Bumping') /\ (Forgetting => Forgetting') /\ (Revoking => Revoking')
  BY <1>3, AtOnceKeeps
<1>5. sessions' \in Seq(Session) /\ Shrinks
  BY <1>1, <1>2, EndedTyped
<1>6. SessionsTypeOK'
  BY <1>1, <1>2, <1>3, <1>5 DEF SessionsTypeOK, Session
<1>7. StatusMoves /\ RolesMove
  BY <1>1, <1>4 DEF StatusMoves, RolesMove, Exists
<1>8. ContextDated' /\ PasswordsSettled'
  BY <1>1, <1>4, <1>5 DEF Ready, Tables, ContextDated, PasswordsSettled, Shrinks
<1>9. Forward /\ Tables'
  BY <1>1, <1>3, <1>5, <1>6, <1>7, <1>8, TablesMove DEF Ready
<1>10. <<"bump">> \in Openings
  BY DEF Openings
<1>11. /\ Requested(Statement)' /\ OthersWait(s) /\ InOrder(s)' /\ todo'[s] = <<"bump">>
  BY <1>1, <1>10, Opens DEF Ready
<1>12. Informed(s)'
  BY <1>11, OneLeft, InformedOfNothing DEF Decisions, Statuses
<1> QED
  BY <1>9, <1>11, <1>12 DEF Kept


-----------------------------------------------------------------------------
(* Sessions begin and go on: a new refresh token, and an access token. *)

\* What a request read of the row is what the new access token says.
LEMMA TokensGiven ==
  ASSUME SessionsTypeOK, TokensDated, Forward,
         NEW row, NEW isAdmin \in BOOLEAN, Copied(row), Entitled(row.version, isAdmin),
         access' = access \cup {Token(row, isAdmin)}, UNCHANGED <<user, admin>>,
         Bumping => Bumping'
  PROVE  TokensDated' /\ access' \subseteq [version : Nat, status : Statuses, admin : BOOLEAN]
<1> DEFINE new == Token(row, isAdmin)
<1>1. /\ new \in [version : Nat, status : Statuses, admin : BOOLEAN]
      /\ new.version = row.version /\ new.status = row.status /\ new.admin = isAdmin
  BY DEF Token, Copied, Row
<1>2. new.status \in MaySignIn /\ Dated(row.version, row.status)
  BY <1>1 DEF Copied
<1> HIDE DEF new
<1>3. access' = access \cup {new}
  BY DEF new
<1>4. Dated(new.version, new.status)' /\ Entitled(new.version, new.admin)'
  <2> DEFINE version == row.version
             status == row.status
  <2>1. new.version = version /\ new.status = status /\ new.admin = isAdmin
    BY <1>1
  <2>2. Dated(version, status) /\ Entitled(version, isAdmin)
    BY <1>2
  <2> HIDE DEF version, status
  <2>3. user' = user /\ admin' = admin
    OBVIOUS
  <2> QED
    BY <2>1, <2>2, <2>3 DEF Dated, Entitled, Exists
<1>5. \A a \in access :
        a.status \in MaySignIn /\ Dated(a.version, a.status)' /\ Entitled(a.version, a.admin)'
  BY TokensStayDated
<1>6. access' \subseteq [version : Nat, status : Statuses, admin : BOOLEAN]
  BY <1>1, <1>3 DEF SessionsTypeOK
<1>7. TokensDated'
  BY <1>2, <1>3, <1>4, <1>5 DEF TokensDated
<1> QED
  BY <1>6, <1>7

LEMMA SessionInsertedKeeps ==
  ASSUME NEW s \in Slot, Ready(s), InsertSession(s)
  PROVE  Kept(s)
<1> DEFINE row == mem[s].row
           isAdmin == mem[s].admin
           new == [token |-> refreshes + 1, previous |-> 0, state |-> "live",
                   password |-> row.password, late |-> row.password # user.password]
<1>1. /\ At(s, "session") /\ Pass(s)
      /\ UNCHANGED <<user, admin, resets, mailed, cached, history>>
      /\ IF Exists
           THEN /\ sessions' = Append(sessions, new) /\ refreshes' = refreshes + 1
                /\ access' = access \cup {Token(row, isAdmin)}
           ELSE UNCHANGED <<sessions, refreshes, access>>
  BY DEF InsertSession
<1>2. /\ SessionsTypeOK /\ undone' = undone /\ exchanged' = exchanged /\ sessions \in Seq(Session)
      /\ user \in Row /\ refreshes \in Nat
  BY <1>1 DEF Ready, Tables, SessionsTypeOK, history, Session, Row
<1>3. OthersWait(s) /\ Follows(s, "session")
  BY <1>1, PassMoves DEF Ready
<1>4. (Bumping => Bumping') /\ (Forgetting => Forgetting') /\ (Revoking => Revoking')
  BY <1>2, <1>3, FollowsPromised DEF Ready
<1>5. /\ mem[s] \in [what : {"login"}, row : Row, admin : BOOLEAN] /\ Copied(row)
      /\ Entitled(row.version, isAdmin)
  <2>1. "session" \in Steps(s) /\ todo[s] = <<"session">>
    BY <1>1, <1>3 DEF Ready, InOrder, Follows, At
  <2>2. Steps(s) = {"session"}
    <3>1. DOMAIN todo[s] = {1} /\ todo[s][1] = "session"
      BY <2>1
    <3> QED
      BY <3>1 DEF Steps
  <2> QED
    BY <2>2 DEF Ready, Informed
<1>6. StatusMoves /\ RolesMove
  BY <1>1, <1>4 DEF StatusMoves, RolesMove, Exists
<1>7. Forward
  BY <1>1, <1>2, <1>6, MovesForward
<1>8. ContextDated'
  BY <1>1, <1>4 DEF Ready, Tables, ContextDated
<1>9. CASE Exists
  <2>1. /\ new \in Session /\ new.token = refreshes + 1 /\ new.password = row.password
        /\ new.late = (row.password # user.password)
    BY <1>2, <1>5 DEF Session, Row
  <2> HIDE DEF new, row, isAdmin
  <2>2. /\ sessions' \in Seq(Session) /\ DOMAIN sessions' = DOMAIN sessions \cup {Len(sessions) + 1}
        /\ Len(sessions) + 1 \notin DOMAIN sessions
        /\ \A i \in DOMAIN sessions : sessions'[i] = sessions[i]
        /\ sessions'[Len(sessions) + 1] = new
    BY <1>1, <1>2, <1>9, <2>1
  <2>3. /\ refreshes' = refreshes + 1 /\ access' = access \cup {Token(row, isAdmin)}
    BY <1>1, <1>9
  <2>4. TokensDated' /\ access' \subseteq [version : Nat, status : Statuses, admin : BOOLEAN]
    <3>1. isAdmin \in BOOLEAN
      BY <1>5 DEF isAdmin
    <3> QED
      BY <1>1, <1>2, <1>4, <1>5, <1>7, <2>3, <3>1, TokensGiven DEF Ready, Tables
  <2>5. SessionsTypeOK'
    BY <1>1, <1>2, <2>2, <2>3, <2>4 DEF SessionsTypeOK, Session
  <2>6. TokensDistinct'
    BY <1>2, <2>1, <2>2, <2>3 DEF Ready, Tables, TokensDistinct
  <2>7. ExchangeIsExclusive'
    BY <1>2, <2>1, <2>2 DEF Ready, Tables, TokensDistinct, ExchangeIsExclusive, OfToken
  <2>8. PasswordsSettled'
    <3>1. CASE Revoking
      BY <1>4, <3>1 DEF PasswordsSettled
    <3>2. CASE ~Revoking
      BY <1>1, <2>1, <2>2, <3>2 DEF Ready, Tables, PasswordsSettled
    <3> QED
      BY <3>1, <3>2
  <2>9. Tables'
    BY <1>8, <2>4, <2>5, <2>6, <2>7, <2>8 DEF Tables
  <2> QED
    BY <1>1, <1>7, <2>9, PassKeeps
<1>10. CASE ~Exists
  <2>1. SessionsTypeOK'
    BY <1>1, <1>2, <1>10 DEF SessionsTypeOK
  <2>2. PasswordsSettled'
    BY <1>1, <1>4, <1>10 DEF Ready, Tables, PasswordsSettled
  <2>3. Tables'
    BY <1>1, <1>2, <1>6, <1>8, <1>10, <2>1, <2>2, SameSessions, TablesMove DEF Ready
  <2> QED
    BY <1>1, <1>7, <2>3, PassKeeps
<1> QED
  BY <1>9, <1>10

\* What a rotation and a session's end in time leave in its row.
Renewed(r, token, previous) ==
  [r EXCEPT !.token = token, !.previous = previous, !.state = "live"]
Expired(r) == [r EXCEPT !.state = "expired"]

LEMMA SessionUpdates ==
  ASSUME NEW r \in Session
  PROVE  /\ \A token \in Nat \ {0}, previous \in Nat :
              /\ Renewed(r, token, previous) \in Session
              /\ Renewed(r, token, previous).token = token
              /\ Renewed(r, token, previous).password = r.password
              /\ Renewed(r, token, previous).late = r.late
         /\ Expired(r) \in Session /\ Expired(r).token = r.token
         /\ Expired(r).password = r.password /\ Expired(r).late = r.late
<1>1. ASSUME NEW token \in Nat \ {0}, NEW previous \in Nat
      PROVE  /\ Renewed(r, token, previous) \in Session
             /\ Renewed(r, token, previous).token = token
             /\ Renewed(r, token, previous).password = r.password
             /\ Renewed(r, token, previous).late = r.late
  BY DEF Session, Renewed
<1>2. /\ Expired(r) \in Session /\ Expired(r).token = r.token
      /\ Expired(r).password = r.password /\ Expired(r).late = r.late
  BY DEF Session, Expired
<1> QED
  BY <1>1, <1>2

LEMMA RotatedKeeps ==
  ASSUME NEW s \in Slot, Ready(s), Rotate(s)
  PROVE  Kept(s)
<1> DEFINE t == mem[s].token
           row == mem[s].row
           isAdmin == mem[s].admin
           claimed == {i \in OfToken(t) : sessions[i].state # "revoked"}
           renewed(r) == Renewed(r, refreshes + 1, t)
<1>0. /\ At(s, "rotate") /\ UNCHANGED <<user, admin, resets, mailed, cached, undone>>
  BY DEF Rotate
<1>1. /\ IF claimed # {}
           THEN /\ Pass(s)
                /\ sessions' = [i \in DOMAIN sessions |->
                                  IF i \in claimed THEN renewed(sessions[i]) ELSE sessions[i]]
                /\ refreshes' = refreshes + 1
                /\ access' = access \cup {Token(row, isAdmin)}
                /\ exchanged' = exchanged \cup {<<t, refreshes + 1>>}
           ELSE /\ Turn(s, <<"reuse">>, [what |-> "refresh", token |-> t])
                /\ UNCHANGED <<sessions, refreshes, access, exchanged>>
  BY DEF Rotate, Renewed
<1>2. /\ SessionsTypeOK /\ sessions \in Seq(Session) /\ user \in Row /\ refreshes \in Nat
      /\ exchanged \subseteq Nat \X Nat
  BY DEF Ready, Tables, SessionsTypeOK, Session, Row
<1>3. "rotate" \in Steps(s) /\ Steps(s) \subseteq {"account", "rotate"} /\ "account" \notin Later(s)
  BY <1>0, NextIsPending DEF Ready, InOrder, Opening
<1>4. /\ t \in 1 .. refreshes /\ Copied(row) /\ isAdmin \in BOOLEAN
      /\ Entitled(row.version, isAdmin)
  <2>1. "account" \notin Steps(s)
    BY <1>0, <1>3, NextIsPending DEF Ready
  <2> QED
    BY <1>3, <2>1 DEF Ready, Informed
<1>5. ~Bumps(s) /\ ~Forgets(s) /\ ~Revokes(s)
  BY <1>0, <1>3 DEF Bumps, Forgets, Revokes, At
<1>6. CASE claimed # {}
  <2>1. /\ Pass(s)
        /\ sessions' = [i \in DOMAIN sessions |->
                          IF i \in claimed THEN renewed(sessions[i]) ELSE sessions[i]]
        /\ refreshes' = refreshes + 1
        /\ access' = access \cup {Token(row, isAdmin)}
        /\ exchanged' = exchanged \cup {<<t, refreshes + 1>>}
    BY <1>1, <1>6
  <2> HIDE DEF renewed
  <2>2. OthersWait(s) /\ Follows(s, "rotate")
    BY <1>0, <2>1, PassMoves DEF Ready
  <2>3. (Bumping => Bumping') /\ (Forgetting => Forgetting') /\ (Revoking => Revoking')
    BY <1>0, <2>2, FollowsPromised DEF Ready
  <2>4. StatusMoves /\ RolesMove
    BY <1>0, <2>3 DEF StatusMoves, RolesMove, Exists
  <2>5. Forward
    BY <1>2, <2>1, <2>4, MovesForward
  <2>6. ContextDated'
    BY <1>0, <2>3 DEF Ready, Tables, ContextDated
  <2>7. \A r \in Session : /\ renewed(r) \in Session /\ renewed(r).token = refreshes + 1
                           /\ renewed(r).password = r.password /\ renewed(r).late = r.late
    <3>1. refreshes + 1 \in Nat \ {0} /\ t \in Nat
      BY <1>2, <1>4
    <3> TAKE r \in Session
    <3> QED
      BY <3>1, SessionUpdates DEF renewed
  <2>8. /\ claimed \subseteq DOMAIN sessions
        /\ \A i \in claimed : sessions[i].token = t /\ sessions[i].state # "revoked"
        /\ \A i \in DOMAIN sessions : sessions[i].token = t => i \in claimed
    BY <1>6 DEF OfToken, Ready, Tables, TokensDistinct
  <2> HIDE DEF claimed, t, row, isAdmin
  <2>9. /\ DOMAIN sessions = 1 .. Len(sessions) /\ Len(sessions) \in Nat
        /\ \A i \in DOMAIN sessions : sessions[i] \in Session
    BY <1>2
  <2>10. /\ DOMAIN sessions' = DOMAIN sessions
         /\ \A i \in DOMAIN sessions :
              sessions'[i] = IF i \in claimed THEN renewed(sessions[i]) ELSE sessions[i]
    BY <2>1
  <2>11. sessions' \in Seq(Session)
    <3>1. sessions' \in [1 .. Len(sessions) -> Session]
      BY <2>1, <2>7, <2>9
    <3> QED
      BY <2>9, <3>1
  <2>12. TokensDated' /\ access' \subseteq [version : Nat, status : Statuses, admin : BOOLEAN]
    BY <1>0, <1>2, <1>4, <2>1, <2>3, <2>5, TokensGiven DEF Ready, Tables
  <2>13. SessionsTypeOK'
    <3>1. exchanged' \subseteq Nat \X Nat /\ refreshes' \in Nat
      BY <1>2, <1>4, <2>1
    <3> QED
      BY <1>0, <1>2, <2>11, <2>12, <3>1 DEF SessionsTypeOK, Session
  <2>14. \A i \in DOMAIN sessions : i \notin claimed => sessions'[i].token = sessions[i].token
    BY <2>10
  <2>15. \A i \in DOMAIN sessions : i \in claimed => sessions'[i].token = refreshes + 1
    BY <2>7, <2>9, <2>10
  <2>16. \A i, j \in claimed : i = j
    BY <2>8 DEF Ready, Tables, TokensDistinct
  <2>17. TokensDistinct'
    <3>1. \A i \in DOMAIN sessions' : sessions'[i].token \in 1 .. refreshes'
      BY <1>2, <2>1, <2>10, <2>14, <2>15 DEF Ready, Tables, TokensDistinct
    <3>2. \A i, j \in DOMAIN sessions' : sessions'[i].token = sessions'[j].token => i = j
      BY <1>2, <2>10, <2>14, <2>15, <2>16 DEF Ready, Tables, TokensDistinct
    <3>3. \A x \in exchanged' : x[1] \in 1 .. refreshes'
      BY <1>2, <1>4, <2>1 DEF Ready, Tables, TokensDistinct
    <3> QED
      BY <3>1, <3>2, <3>3 DEF TokensDistinct
  <2>18. ExchangeIsExclusive'
    <3> DEFINE given == <<t, refreshes + 1>>
    <3>1. given[1] = t /\ exchanged' = exchanged \cup {given}
      BY <2>1
    <3>2. \A x \in exchanged : x[1] # t
      BY <1>6, <2>8 DEF Ready, Tables, ExchangeIsExclusive, OfToken
    <3>3. \A x, y \in exchanged' : x[1] = y[1] => x = y
      BY <3>1, <3>2 DEF Ready, Tables, ExchangeIsExclusive
    <3>4. \A i \in DOMAIN sessions : sessions'[i].token # t
      BY <1>2, <1>4, <2>8, <2>14, <2>15
    <3>5. ASSUME NEW x \in exchanged, NEW i \in DOMAIN sessions PROVE sessions'[i].token # x[1]
      <4>1. sessions[i].token # x[1] /\ x[1] \in 1 .. refreshes
        BY <3>5 DEF Ready, Tables, ExchangeIsExclusive, OfToken, TokensDistinct
      <4> QED
        BY <1>2, <2>14, <2>15, <4>1
    <3>6. \A x \in exchanged' : \A i \in DOMAIN sessions' : sessions'[i].token # x[1]
      BY <2>10, <3>1, <3>4, <3>5
    <3> QED
      BY <3>3, <3>6 DEF ExchangeIsExclusive, OfToken
  <2>19. PasswordsSettled'
    <3>1. CASE Revoking
      BY <2>3, <3>1 DEF PasswordsSettled
    <3>2. CASE ~Revoking
      <4>1. ASSUME NEW i \in DOMAIN sessions, sessions'[i].state # "revoked"
            PROVE  sessions'[i].password = user'.password \/ sessions'[i].late
        <5>1. /\ sessions'[i].password = sessions[i].password
              /\ sessions'[i].late = sessions[i].late
              /\ sessions[i].state # "revoked"
          BY <2>7, <2>8, <2>9, <2>10, <4>1
        <5>2. sessions[i].password = user.password \/ sessions[i].late
          BY <3>2, <5>1 DEF Ready, Tables, PasswordsSettled
        <5> QED
          BY <1>0, <5>1, <5>2
      <4> QED
        BY <2>10, <4>1 DEF PasswordsSettled
    <3> QED
      BY <3>1, <3>2
  <2>20. Tables'
    BY <2>6, <2>12, <2>13, <2>17, <2>18, <2>19 DEF Tables
  <2> QED
    BY <1>0, <2>1, <2>5, <2>20, PassKeeps
<1>7. CASE claimed = {}
  <2> DEFINE m == [what |-> "refresh", token |-> t]
  <2>1. Turn(s, <<"reuse">>, m) /\ UNCHANGED <<sessions, refreshes, access, exchanged>>
    BY <1>1, <1>7
  <2>2. <<"reuse">> \in Openings
    BY DEF Openings
  <2> HIDE DEF m
  <2>3. /\ Requested(Statement)' /\ OthersWait(s) /\ InOrder(s)' /\ todo'[s] = <<"reuse">>
    BY <2>1, <2>2, Opens DEF Ready
  <2>4. Informed(s)'
    BY <2>3, OneLeft, InformedOfNothing DEF Decisions, Statuses
  <2>5. SessionsTypeOK'
    BY <1>0, <1>2, <2>1 DEF SessionsTypeOK
  <2>6. (Bumping => Bumping') /\ (Forgetting => Forgetting') /\ (Revoking => Revoking')
    BY <1>0, <1>5, <2>3, BumpingKept, ForgettingKept, RevokingKept
  <2>7. Forward /\ Tables'
    BY <1>0, <2>1, <2>5, <2>6, SteadyKeeps DEF Steady, Ready
  <2> QED
    BY <2>3, <2>4, <2>7 DEF Kept
<1> QED
  BY <1>6, <1>7

-----------------------------------------------------------------------------
(* The cache, and what time does. *)

LEMMA CacheKeeps ==
  ASSUME NEW s \in Slot, Ready(s), FillCache(s) \/ Forget(s)
  PROVE  Kept(s)
<1>1. PICK x \in {"cache", "forget"} :
        /\ At(s, x) /\ Pass(s) /\ undone \ {"forget", "refuse"} \subseteq undone'
        /\ UNCHANGED <<user, admin, sessions, refreshes, access, resets, mailed, exchanged>>
  BY DEF FillCache, Forget, Settled, history
<1>2. OthersWait(s) /\ Follows(s, x) /\ SessionsTypeOK
  BY <1>1, PassMoves DEF Ready, Tables
<1>3. (Bumping => Bumping') /\ (Revoking => Revoking')
  BY <1>1, <1>2, FollowsPromised DEF Ready
<1>4. StatusMoves /\ RolesMove
  BY <1>1, <1>3 DEF StatusMoves, RolesMove, Exists
<1>5. PasswordsSettled'
  BY <1>1, <1>3 DEF Ready, Tables, PasswordsSettled
<1>6. cached' \in [status : Statuses \cup {"none"}, admin : BOOLEAN, late : BOOLEAN] /\ ContextDated'
  <2>1. CASE Forget(s)
    <3>1. cached' = NoContext
      BY <2>1 DEF Forget
    <3> QED
      BY <3>1 DEF NoContext, ContextDated
  <2>2. CASE FillCache(s)
    <3> DEFINE row == mem[s].row
               late == row.version # user.version \/ ~Exists
    <3>1. /\ At(s, "cache")
          /\ cached' = [status |-> row.status, admin |-> mem[s].admin, late |-> late]
      BY <2>2 DEF FillCache
    <3>2. "cache" \in Steps(s)
      BY <3>1, NextIsPending DEF Ready
    <3>3. /\ mem[s].admin \in BOOLEAN /\ row \in Row /\ late \in BOOLEAN
          /\ row.status # "pending" => Dated(row.version, row.status)
      BY <3>2 DEF Ready, Informed
    <3> HIDE DEF late, row
    <3>4. cached'.status = row.status /\ cached'.late = late
      BY <3>1
    <3>5. cached' \in [status : Statuses \cup {"none"}, admin : BOOLEAN, late : BOOLEAN]
      BY <3>1, <3>3 DEF Row
    <3>6. row.status = "approved" /\ user.status # "approved" => late
      BY <3>3 DEF late, Dated
    <3> QED
      BY <1>1, <3>4, <3>5, <3>6 DEF ContextDated
  <2> QED
    BY <2>1, <2>2
<1>7. SessionsTypeOK'
  <2>1. undone' \subseteq Owed
    BY <1>2 DEF FillCache, Forget, Settled, history, SessionsTypeOK
  <2> QED
    BY <1>1, <1>2, <1>6, <2>1 DEF SessionsTypeOK
<1>8. Forward /\ Tables'
  BY <1>1, <1>4, <1>5, <1>6, <1>7, SameSessions, TablesMove DEF Ready
<1> QED
  BY <1>1, <1>8, PassKeeps

\* A step of a request keeps what is sound.
LEMMA StepKeeps ==
  ASSUME NEW s \in Slot, Ready(s), SessionsStep(s)
  PROVE  Kept(s)
<1>1. CASE \E given \in 0..user.password + 1 : Login(s, given) \/ ChangePassword(s, given)
  BY <1>1, LoginKeeps, OthersBegin
<1>2. CASE \E t \in 1..refreshes : Refresh(s, t)
  BY <1>2, RefreshKeeps
<1>3. CASE \E is \in SUBSET DOMAIN sessions : RevokeSessions(s, is)
  BY <1>3, SessionsRevokedKeeps
<1>4. CASE Deactivate(s) \/ Activate(s)
  BY <1>4, OwnerKeeps
<1>5. CASE Moderate(s) \/ Delete(s)
  BY <1>5, ModeratorKeeps
<1>6. CASE UpdateRoles(s) \/ RequestReset(s) \/ InitiateRecovery(s) \/ Authenticate(s)
  BY <1>6, OthersBegin
<1>7. CASE \E to \in {"approved", "rejected"} : Approve(s, to)
  BY <1>7, ApprovedKeeps
<1>8. CASE \E r \in resets : ConfirmReset(s, r) \/ CompleteRecovery(s, r)
  BY <1>8, OthersBegin, RecoveredKeeps
<1>9. CASE CountWrong(s) \/ ClearWrong(s) \/ VoidResets(s) \/ Mail(s) \/ UseReset(s)
  BY <1>9, PlainStatements
<1>10. CASE ReadRoles(s) \/ ReadAccount(s) \/ CheckReuse(s) \/ CheckTarget(s)
  BY <1>10, RolesReadKeeps, AccountReadKeeps, ReuseKeeps, TargetKeeps
<1>11. CASE InsertSession(s) \/ Rotate(s)
  BY <1>11, SessionInsertedKeeps, RotatedKeeps
<1>12. CASE RevokeAll(s) \/ DropAll(s) \/ Bump(s)
  BY <1>12, AllRevokedKeeps, BumpKeeps
<1>13. CASE \E to \in Statuses : SetStatus(s, to)
  BY <1>13, StatusSetKeeps
<1>14. CASE DeleteAll(s) \/ SetRole(s) \/ SetPassword(s)
  BY <1>14, DeletedKeeps, RoleSetKeeps, PasswordSetKeeps
<1>15. CASE FillCache(s) \/ Forget(s)
  BY <1>15, CacheKeeps
<1>16. CASE Refuse(s) \/ Die(s)
  BY <1>16, UndoneKeeps
<1> QED
  BY <1>1, <1>2, <1>3, <1>4, <1>5, <1>6, <1>7, <1>8, <1>9, <1>10, <1>11, <1>12, <1>13,
     <1>14, <1>15, <1>16 DEF SessionsStep

\* Those who wait are as well informed as they were.
LEMMA WaitingKeeps ==
  ASSUME Forward, NEW s, InOrder(s), Informed(s), todo'[s] = todo[s], mem'[s] = mem[s]
  PROVE  InOrder(s)' /\ Informed(s)'
<1>1. Steps(s)' = Steps(s) /\ Later(s)' = Later(s) /\ Ending(s)' = Ending(s)
  BY DEF Steps, Later, Ending
<1>2. \A x : At(s, x)' = At(s, x)
  BY DEF At
<1>3. InOrder(s)'
  BY <1>1, <1>2 DEF InOrder
<1> QED
  BY <1>1, <1>3, InformedStays

\* What no request does.
LEMMA TimeKeeps ==
  ASSUME Requested(Statement), Tables,
         \/ \E i \in DOMAIN sessions : SessionExpires(i)
         \/ \E r \in resets : MailLapses(r)
         \/ LockLapses \/ ContextLapses
  PROVE  Forward /\ Tables' /\ UNCHANGED requests
<1>1. SessionsTypeOK /\ user \in Row /\ sessions \in Seq(Session)
  BY DEF Tables, SessionsTypeOK, Row, Session
<1>2. /\ UNCHANGED requests /\ UNCHANGED <<admin, refreshes, access, exchanged>>
      /\ undone \ {"forget", "refuse"} \subseteq undone' /\ undone' \subseteq undone
      /\ cached' = NoContext \/ (cached' = cached /\ undone' = undone)
  BY DEF SessionExpires, MailLapses, LockLapses, ContextLapses, Settled, history
<1>3. /\ \A s : Steps(s)' = Steps(s)
      /\ \A s, x : At(s, x)' = At(s, x)
  BY <1>2 DEF requests, Steps, At
<1>4. (Bumping => Bumping') /\ (Revoking => Revoking')
  BY <1>2, <1>3 DEF Bumping, Bumps, Revoking, Revokes, Opened
<1>5. undone' = undone => (Forgetting => Forgetting')
  BY <1>3 DEF Forgetting, Forgets, Opened
<1>6. /\ user' \in Row /\ user'.status = user.status /\ user'.version = user.version
      /\ user'.password = user.password
  <2>1. user' = user \/ user' = [user EXCEPT !.locked = FALSE]
    BY DEF SessionExpires, MailLapses, LockLapses, ContextLapses
  <2> QED
    BY <1>1, <2>1 DEF Row
<1>7. sessions' \in Seq(Session) /\ Shrinks /\ PasswordsSettled'
  <2>1. CASE sessions' = sessions
    BY <1>1, <1>4, <1>6, <2>1, SameSessions DEF Tables, PasswordsSettled
  <2>2. CASE \E i \in DOMAIN sessions : SessionExpires(i)
    <3>1. PICK i \in DOMAIN sessions : SessionExpires(i)
      BY <2>2
    <3> DEFINE new == Expired(sessions[i])
    <3>2. /\ sessions[i] \in Session /\ new \in Session /\ new.token = sessions[i].token
          /\ new.password = sessions[i].password /\ new.late = sessions[i].late
      BY <1>1, SessionUpdates
    <3>3. sessions' = [sessions EXCEPT ![i] = new] /\ sessions[i].state = "live"
      BY <3>1 DEF SessionExpires, Expired
    <3> HIDE DEF new
    <3>4. /\ sessions' \in Seq(Session) /\ DOMAIN sessions' = DOMAIN sessions
          /\ \A j \in DOMAIN sessions : sessions'[j] = IF j = i THEN new ELSE sessions[j]
      BY <1>1, <3>2, <3>3
    <3>5. Shrinks
      BY <3>2, <3>3, <3>4 DEF Shrinks
    <3>6. PasswordsSettled'
      BY <1>4, <1>6, <3>2, <3>3, <3>4 DEF Tables, PasswordsSettled
    <3> QED
      BY <3>4, <3>5, <3>6
  <2> QED
    BY <2>1, <2>2 DEF MailLapses, LockLapses, ContextLapses
<1>8. SessionsTypeOK'
  <2>1. resets' \subseteq resets /\ mailed' = mailed
    BY DEF SessionExpires, MailLapses, LockLapses, ContextLapses
  <2>2. cached' \in [status : Statuses \cup {"none"}, admin : BOOLEAN, late : BOOLEAN]
    <3>1. NoContext \in [status : Statuses \cup {"none"}, admin : BOOLEAN, late : BOOLEAN]
      BY DEF NoContext
    <3> QED
      BY <1>1, <1>2, <3>1 DEF SessionsTypeOK
  <2> QED
    BY <1>1, <1>2, <1>6, <1>7, <2>1, <2>2 DEF SessionsTypeOK, Row, Session
<1>9. ContextDated'
  BY <1>2, <1>5, <1>6 DEF Tables, ContextDated, NoContext
<1>10. StatusMoves /\ RolesMove
  BY <1>2, <1>4, <1>6 DEF StatusMoves, RolesMove, Exists
<1> QED
  BY <1>2, <1>7, <1>8, <1>9, <1>10, TablesMove


-----------------------------------------------------------------------------
(* The theorems. *)

LEMMA InitSound == SessionsInit => Sound
<1> SUFFICES ASSUME SessionsInit PROVE Sound
  OBVIOUS
<1> DEFINE status == user.status
           first == [token |-> 1, previous |-> 0, state |-> "live", password |-> 0, late |-> FALSE]
           signed == [version |-> 0, status |-> status, admin |-> FALSE]
<1>1. /\ user \in Row /\ status \in {"pending", "approved"} /\ user.version = 0
      /\ user.password = 0
  BY DEF SessionsInit, Row, Statuses
<1>2. /\ admin = FALSE /\ resets = {} /\ mailed = 0 /\ cached = NoContext
      /\ exchanged = {} /\ undone = {} /\ RequestsInit
  BY DEF SessionsInit
<1>3. \/ sessions = <<first>> /\ refreshes = 1 /\ access = {signed} /\ status = "approved"
      \/ sessions = <<>> /\ refreshes = 0 /\ access = {}
  BY DEF SessionsInit
<1>4. /\ first \in Session /\ first.token = 1 /\ first.password = 0
      /\ signed \in [version : Nat, status : Statuses, admin : BOOLEAN]
      /\ signed.version = 0 /\ signed.status = status /\ signed.admin = FALSE
  BY <1>1 DEF Session, Row
<1> HIDE DEF first, signed
<1>5. /\ sessions \in Seq(Session) /\ refreshes \in Nat
      /\ access \subseteq [version : Nat, status : Statuses, admin : BOOLEAN]
      /\ \A i, j \in DOMAIN sessions : i = j /\ i = 1 /\ refreshes = 1 /\ sessions[1] = first
  <2>1. CASE sessions = <<first>> /\ refreshes = 1 /\ access = {signed}
    <3>1. <<first>> \in Seq(Session) /\ DOMAIN <<first>> = {1} /\ <<first>>[1] = first
      BY <1>4
    <3> QED
      BY <1>4, <2>1, <3>1
  <2>2. CASE sessions = <<>> /\ refreshes = 0 /\ access = {}
    <3>1. <<>> \in Seq(Session) /\ DOMAIN <<>> = {}
      OBVIOUS
    <3> QED
      BY <2>2, <3>1
  <2> QED
    BY <1>3, <2>1, <2>2
<1>6. SessionsTypeOK
  <2>1. cached \in [status : Statuses \cup {"none"}, admin : BOOLEAN, late : BOOLEAN]
    BY <1>2 DEF NoContext
  <2> QED
    BY <1>1, <1>2, <1>5, <2>1 DEF SessionsTypeOK, Row, Session
<1>7. Requested(Statement) /\ \A s \in Slot : todo[s] = <<>>
  BY <1>2, InitRequested
<1>8. \A s \in Slot : InOrder(s) /\ Informed(s)
  BY <1>7, NoSteps DEF InOrder, Informed
<1>9. TokensDated
  <2>1. /\ \A a \in access : a = signed /\ status = "approved"
        /\ 0 <= user.version
    BY <1>1, <1>3
  <2>2. Dated(signed.version, signed.status) /\ Entitled(signed.version, signed.admin)
    <3>1. signed.version = user.version /\ user.version <= user.version
      BY <1>1, <1>4
    <3>2. signed.admin = admin
      BY <1>2, <1>4
    <3> QED
      BY <1>4, <3>1, <3>2 DEF Dated, Entitled
  <2> QED
    BY <1>4, <2>1, <2>2 DEF TokensDated, MaySignIn
<1>10. ContextDated
  BY <1>2 DEF ContextDated, NoContext
<1>11. TokensDistinct /\ ExchangeIsExclusive
  BY <1>2, <1>4, <1>5 DEF TokensDistinct, ExchangeIsExclusive
<1>12. PasswordsSettled
  BY <1>1, <1>4, <1>5 DEF PasswordsSettled
<1> QED
  BY <1>6, <1>7, <1>8, <1>9, <1>10, <1>11, <1>12 DEF Sound

LEMMA NextSound == Sound /\ [SessionsNext]_sessionsVars => Sound'
<1> SUFFICES ASSUME Sound, [SessionsNext]_sessionsVars PROVE Sound'
  OBVIOUS
<1>1. /\ Tables /\ Requested(Statement)
      /\ \A s \in Slot : InOrder(s) /\ Informed(s) /\ Ready(s)
  BY DEF Sound, Tables, Ready
<1>2. CASE \E s \in Slot : SessionsStep(s)
  <2>1. PICK s \in Slot : SessionsStep(s)
    BY <1>2
  <2>2. Kept(s)
    BY <1>1, <2>1, StepKeeps
  <2>3. \A t \in Slot \ {s} : InOrder(t)' /\ Informed(t)'
    BY <1>1, <2>2, WaitingKeeps DEF Kept, OthersWait
  <2> QED
    BY <2>2, <2>3 DEF Kept, Tables, Sound
<1>3. CASE \/ \E i \in DOMAIN sessions : SessionExpires(i)
           \/ \E r \in resets : MailLapses(r)
           \/ LockLapses \/ ContextLapses
  <2>1. Forward /\ Tables' /\ UNCHANGED requests
    BY <1>1, <1>3, TimeKeeps
  <2>2. \A s \in Slot : InOrder(s)' /\ Informed(s)'
    BY <1>1, <2>1, WaitingKeeps DEF requests
  <2>3. Requested(Statement)'
    BY <1>1, <2>1 DEF requests, Requested
  <2> QED
    BY <2>1, <2>2, <2>3 DEF Tables, Sound
<1>4. CASE UNCHANGED sessionsVars
  <2>1. /\ UNCHANGED <<user, admin, sessions, refreshes, access, resets, mailed, cached>>
        /\ UNCHANGED <<exchanged, undone>> /\ UNCHANGED requests
    BY <1>4 DEF sessionsVars, account, history
  <2>2. Steady
    <3>1. SessionsTypeOK'
      BY <1>1, <2>1 DEF Tables, SessionsTypeOK
    <3>2. /\ \A s : Steps(s)' = Steps(s)
          /\ \A s, x : At(s, x)' = At(s, x)
      BY <2>1 DEF requests, Steps, At
    <3>3. (Bumping => Bumping') /\ (Forgetting => Forgetting') /\ (Revoking => Revoking')
      BY <2>1, <3>2 DEF Bumping, Bumps, Forgetting, Forgets, Revoking, Revokes, Opened
    <3> QED
      BY <2>1, <3>1, <3>3 DEF Steady
  <2>3. Forward /\ Tables'
    BY <1>1, <2>2, SteadyKeeps
  <2>4. \A s \in Slot : InOrder(s)' /\ Informed(s)'
    BY <1>1, <2>1, <2>3, WaitingKeeps DEF requests
  <2>5. Requested(Statement)'
    BY <1>1, <2>1 DEF requests, Requested
  <2> QED
    BY <2>3, <2>4, <2>5 DEF Tables, Sound
<1> QED
  BY <1>2, <1>3, <1>4 DEF SessionsNext

\* Whatever requests overlap, in any number: they keep their statements in the
\* order the handlers list them, and what each copied from the account's row, a
\* token, the cache or a session still agrees with the row or is known to be old.
THEOREM SoundAlways == SessionsSpec => []Sound
<1> QED
  BY InitSound, NextSound, PTL DEF SessionsSpec

\* users, sessions, tokens and the rest keep their types.
THEOREM SessionsTyped == SessionsSpec => []SessionsTypeOK
<1>1. Sound => SessionsTypeOK
  BY DEF Sound
<1> QED
  BY <1>1, SoundAlways, PTL

\* No credential outlives what was decided about its account.  A token that
\* verifies says the status of the row; it says its roles but in the moment
\* updateRoles takes to bump the version; and the cached context says approved
\* of an account that is not only while somebody has yet to clear it.
THEOREM CredentialsFollow == SessionsSpec => []CredentialsFollowAccount
<1>1. ASSUME Sound PROVE CredentialsFollowAccount
  <2>1. TokensFollowStatus
    BY <1>1 DEF Sound, TokensDated, Dated, TokensFollowStatus, Verifies
  <2>2. TokensFollowRoles
    BY <1>1 DEF Sound, TokensDated, Entitled, Bumping, Bumps, TokensFollowRoles, Verifies
  <2>3. ContextFollowsStatus
    BY <1>1 DEF Sound, ContextDated, Forgetting, Forgets, ContextFollowsStatus, Pending
  <2> QED
    BY <2>1, <2>2, <2>3 DEF CredentialsFollowAccount
<1> QED
  BY <1>1, SoundAlways, PTL

\* refreshSession: of the requests that present one refresh token, one is given
\* its successor, and no session answers to it again.
THEOREM ExchangesAreExclusive == SessionsSpec => []ExchangeIsExclusive
<1>1. Sound => ExchangeIsExclusive
  BY DEF Sound
<1> QED
  BY <1>1, SoundAlways, PTL

\* Changing, resetting and recovering a password end every session of an earlier
\* one once their statements ran, but for a sign-in that read the account before.
THEOREM PasswordsEndSessions == SessionsSpec => []PasswordEndsSessions
<1>1. ASSUME Sound PROVE PasswordEndsSessions
  <2> SUFFICES ASSUME undone \cap {"revoke", "drop"} = {},
                      \A s \in Slot : Pending(s, "revoke") \/ Pending(s, "drop")
                                        => Pending(s, "password"),
                      NEW i \in DOMAIN sessions, sessions[i].state = "live"
               PROVE  sessions[i].password = user.password \/ sessions[i].late
    BY DEF PasswordEndsSessions
  <2>1. ~Revoking
    BY DEF Revoking, Revokes, Opened, Opening, Pending
  <2> QED
    BY <1>1, <2>1 DEF Sound, PasswordsSettled
<1> QED
  BY <1>1, SoundAlways, PTL

\* Who changes the status: a decision that was ordered, the end of the account,
\* or the approval of one that waits for it.
LEMMA StatusChanges ==
  ASSUME SessionsTypeOK, [SessionsNext]_sessionsVars, user.status # "pending",
         user'.status # user.status
  PROVE  \E s \in Slot : \/ At(s, user'.status) /\ user'.status \in Statuses
                         \/ At(s, "delete")
<1>1. user \in Row
  BY DEF SessionsTypeOK, Row
<1>2. CASE UNCHANGED sessionsVars
  BY <1>2 DEF sessionsVars, account
<1>3. CASE \/ \E i \in DOMAIN sessions : SessionExpires(i)
           \/ \E r \in resets : MailLapses(r)
           \/ LockLapses \/ ContextLapses
  <2>1. user' = user \/ user' = [user EXCEPT !.locked = FALSE]
    BY <1>3 DEF SessionExpires, MailLapses, LockLapses, ContextLapses
  <2> QED
    BY <1>1, <2>1 DEF Row
<1>4. CASE \E s \in Slot : SessionsStep(s)
  <2>1. PICK s \in Slot : SessionsStep(s)
    BY <1>4
  <2>2. CASE \E to \in Statuses : SetStatus(s, to)
    <3>1. PICK to \in Statuses : SetStatus(s, to)
      BY <2>2
    <3>2. user' = user \/ user' = WithStatus(user, to, user.version + 1)
      BY <3>1 DEF SetStatus, WithStatus
    <3>3. user'.status = to
      <4>1. user.version + 1 \in Nat
        BY <1>1 DEF Row
      <4>2. WithStatus(user, to, user.version + 1).status = to
        BY <1>1, <4>1, RowUpdates
      <4> QED
        BY <3>2, <4>2
    <3> QED
      BY <3>1, <3>3 DEF SetStatus
  <2>3. CASE DeleteAll(s)
    BY <2>3 DEF DeleteAll
  <2>4. CASE CountWrong(s) \/ ClearWrong(s)
    BY <1>1, <2>4 DEF CountWrong, ClearWrong, Row
  <2>5. CASE Bump(s)
    BY <1>1, <2>5 DEF Bump, Row
  <2>6. CASE SetPassword(s)
    <3>1. user' = user \/ user' = WithPassword(user, user.password + 1, user.version + 1)
      BY <2>6 DEF SetPassword, WithPassword
    <3>2. user.version + 1 \in Nat /\ user.password + 1 \in Nat
      BY <1>1 DEF Row
    <3>3. WithPassword(user, user.password + 1, user.version + 1).status = user.status
      BY <1>1, <3>2, RowUpdates
    <3> QED
      BY <3>1, <3>3
  <2>7. CASE \E r \in resets : CompleteRecovery(s, r)
    <3>1. user' = Unlocked(user, user.password + 1, user.version + 1)
      BY <2>7 DEF CompleteRecovery, Unlocked
    <3>2. user.version + 1 \in Nat /\ user.password + 1 \in Nat
      BY <1>1 DEF Row
    <3> QED
      BY <1>1, <3>1, <3>2, RowUpdates
  <2>8. CASE user' = user
    BY <2>8
  <2>9. /\ \A given : Login(s, given) \/ ChangePassword(s, given) => user' = user
        /\ \A t : Refresh(s, t) => user' = user
        /\ \A is : RevokeSessions(s, is) => user' = user
        /\ \A r : ConfirmReset(s, r) => user' = user
        /\ \A to : ~Approve(s, to)
    BY DEF Login, ChangePassword, Refresh, RevokeSessions, ConfirmReset, Approve, account
  <2>10. Deactivate(s) \/ Activate(s) \/ Moderate(s) \/ Delete(s) \/ UpdateRoles(s)
           \/ RequestReset(s) \/ InitiateRecovery(s) \/ Authenticate(s) => user' = user
    BY DEF Deactivate, Activate, Moderate, Delete, UpdateRoles, RequestReset,
       InitiateRecovery, Authenticate, account
  <2>11. ReadRoles(s) \/ InsertSession(s) \/ ReadAccount(s) \/ Rotate(s) \/ CheckReuse(s)
           \/ RevokeAll(s) \/ DropAll(s) \/ CheckTarget(s) \/ Refuse(s) \/ SetRole(s)
           \/ VoidResets(s) \/ Mail(s) \/ UseReset(s) \/ FillCache(s) \/ Forget(s) \/ Die(s)
         => user' = user
    BY DEF ReadRoles, InsertSession, ReadAccount, Rotate, CheckReuse, RevokeAll, DropAll,
       CheckTarget, Refuse, SetRole, VoidResets, Mail, UseReset, FillCache, Forget, Die, account
  <2> QED
    BY <2>1, <2>2, <2>3, <2>4, <2>5, <2>6, <2>7, <2>8, <2>9, <2>10, <2>11 DEF SessionsStep
<1> QED
  BY <1>2, <1>3, <1>4 DEF SessionsNext

\* A suspension or a takedown ends by a moderator's order, or by a request of
\* the owner that had read the account before the moderator's came.
THEOREM SuspensionsHold == SessionsSpec => SuspensionHolds
<1>1. ASSUME Sound, [SessionsNext]_sessionsVars,
             user.status \in Barred, user'.status \notin Barred
      PROVE  \E s \in Slot :
               /\ At(s, user'.status) \/ At(s, "delete")
               /\ mem[s].what = "moderator" \/ mem[s].row.version # user.version
  <2>1. PICK s \in Slot : \/ At(s, user'.status) /\ user'.status \in Statuses
                          \/ At(s, "delete")
    BY <1>1, StatusChanges DEF Sound, Barred
  <2>2. Decisions \cap Steps(s) # {} /\ Informed(s)
    BY <1>1, <2>1, NextIsPending DEF Sound, Decisions
  <2>3. mem[s].what = "moderator" \/ Copied(mem[s].row)
    BY <2>2 DEF Informed
  <2>4. Copied(mem[s].row) => mem[s].row.version # user.version
    BY <1>1 DEF Copied, Dated, Exists, Barred, MaySignIn
  <2> QED
    BY <2>1, <2>3, <2>4
<1> QED
  BY <1>1, SoundAlways, PTL DEF SessionsSpec, SuspensionHolds

-----------------------------------------------------------------------------
(* Clients and the tokens they keep.                                       *)

ErrandRecord == [what : {"ask"}, tab : Tab, token : Nat, got : Nat]
SessionRecord == [token : Nat, previous : Nat, revoked : BOOLEAN]
ClientCourse ==
  {<<>>, <<"login", "keep">>, <<"keep">>, <<"logout", "forget">>, <<"forget">>, <<"call">>,
   <<"exchange", "keep">>}

\* A token is on its way to the server, or the answer on its way back.
Trading(s) == At(s, "exchange") \/ (At(s, "keep") /\ mem[s].token # 0)

\* What a client's request carries.
Sent(s) ==
  /\ todo[s] \in ClientCourse
  /\ todo[s] # <<>> =>
       /\ mem[s] \in ErrandRecord /\ mem[s].token < NextToken /\ mem[s].got < NextToken
       /\ mem[s].got # 0 => At(s, "keep")
       /\ At(s, "exchange") \/ At(s, "call") => mem[s].token # 0
       /\ At(s, "login") => mem[s].token = 0

\* Every token is newer than the one before it, and the next is newer than all.
Newest(n) == IF opened = <<>> THEN n = 0 ELSE n \in Tokens /\ \A m \in Tokens : m <= n
TokensRise ==
  /\ \E n \in Nat : Newest(n)
  /\ \A i \in DOMAIN opened : opened[i].previous < opened[i].token
  /\ saved < NextToken /\ \A t \in Tab : held[t] < NextToken

\* What the server answered is new: nobody has it yet, nor is it used.
Fresh(s) ==
  mem[s].got # 0 =>
    /\ ~Used(mem[s].got) /\ mem[s].got # saved
    /\ \A t \in Slot \ {s} : todo[t] # <<>> =>
         mem[s].got # mem[t].got /\ (At(t, "exchange") => mem[s].got # mem[t].token)

\* One token at a time is traded, which is not used; the one in the storage is
\* used only while its successor is on its way there.
TradeIsSafe ==
  /\ \A s, t \in Slot : Trading(s) /\ Trading(t) => s = t
  /\ \A s \in Slot : /\ At(s, "exchange") => ~Used(mem[s].token)
                     /\ Trading(s) /\ client = "sdk" => mem[s].tab \in renewing
                     /\ todo[s] # <<>> => Fresh(s)
  /\ saved # 0 /\ Used(saved) =>
       \E s \in Slot : At(s, "keep") /\ mem[s].got # 0 /\ mem[s].token = saved

OneEach ==
  client = "cli" =>
    \A s, t \in Slot : todo[s] # <<>> /\ todo[t] # <<>> /\ mem[s].tab = mem[t].tab => s = t

ClientsSound ==
  /\ ClientsTypeOK /\ DOMAIN todo = Slot /\ DOMAIN mem = Slot
  /\ TokensRise /\ \A s \in Slot : Sent(s)
  /\ OneEach
  /\ blamed \/ (TradeIsSafe /\ ~alarmed)

LEMMA PairHeads ==
  \A a, b : /\ Head(<<a, b>>) = a /\ Tail(<<a, b>>) = <<b>> /\ <<a, b>> # <<>>
            /\ Head(<<a>>) = a /\ Tail(<<a>>) = <<>> /\ <<a>> # <<>>
OBVIOUS

\* Where each statement of a client's handler leads.
LEMMA ClientCourses ==
  ASSUME NEW s, todo[s] \in ClientCourse
  PROVE  /\ At(s, "login") \/ At(s, "exchange") => Tail(todo[s]) = <<"keep">>
         /\ At(s, "logout") => Tail(todo[s]) = <<"forget">>
         /\ At(s, "keep") \/ At(s, "forget") \/ At(s, "call") => Tail(todo[s]) = <<>>
         /\ todo[s] # <<>> => Tail(todo[s]) \in ClientCourse
<1>1. CASE todo[s] = <<>>
  BY <1>1 DEF At
<1>2. CASE todo[s] = <<"login", "keep">>
  <2>1. Head(todo[s]) = "login" /\ Tail(todo[s]) = <<"keep">>
    BY <1>2, PairHeads, Zenon
  <2>2. <<"keep">> \in ClientCourse
    BY DEF ClientCourse
  <2> QED
    BY <2>1, <2>2 DEF At
<1>3. CASE todo[s] = <<"keep">>
  <2>1. Head(todo[s]) = "keep" /\ Tail(todo[s]) = <<>>
    BY <1>3, PairHeads, Zenon
  <2>2. <<>> \in ClientCourse
    BY DEF ClientCourse
  <2> QED
    BY <2>1, <2>2 DEF At
<1>4. CASE todo[s] = <<"logout", "forget">>
  <2>1. Head(todo[s]) = "logout" /\ Tail(todo[s]) = <<"forget">>
    BY <1>4, PairHeads, Zenon
  <2>2. <<"forget">> \in ClientCourse
    BY DEF ClientCourse
  <2> QED
    BY <2>1, <2>2 DEF At
<1>5. CASE todo[s] = <<"forget">>
  <2>1. Head(todo[s]) = "forget" /\ Tail(todo[s]) = <<>>
    BY <1>5, PairHeads, Zenon
  <2>2. <<>> \in ClientCourse
    BY DEF ClientCourse
  <2> QED
    BY <2>1, <2>2 DEF At
<1>6. CASE todo[s] = <<"call">>
  <2>1. Head(todo[s]) = "call" /\ Tail(todo[s]) = <<>>
    BY <1>6, PairHeads, Zenon
  <2>2. <<>> \in ClientCourse
    BY DEF ClientCourse
  <2> QED
    BY <2>1, <2>2 DEF At
<1>7. CASE todo[s] = <<"exchange", "keep">>
  <2>1. Head(todo[s]) = "exchange" /\ Tail(todo[s]) = <<"keep">>
    BY <1>7, PairHeads, Zenon
  <2>2. <<"keep">> \in ClientCourse
    BY DEF ClientCourse
  <2> QED
    BY <2>1, <2>2 DEF At
<1> QED
  BY <1>1, <1>2, <1>3, <1>4, <1>5, <1>6, <1>7 DEF ClientCourse

\* The statement a request is at, by what it has left to do.
LEMMA ClientHeads ==
  ASSUME NEW s
  PROVE  /\ todo[s] = <<>> => \A x : ~At(s, x)
         /\ todo[s] = <<"keep">> => \A x : At(s, x) <=> x = "keep"
         /\ todo[s] = <<"forget">> => \A x : At(s, x) <=> x = "forget"
         /\ todo[s] = <<"call">> => \A x : At(s, x) <=> x = "call"
         /\ todo[s] = <<"exchange", "keep">> => \A x : At(s, x) <=> x = "exchange"
         /\ todo[s] = <<"login", "keep">> => \A x : At(s, x) <=> x = "login"
         /\ todo[s] = <<"logout", "forget">> => \A x : At(s, x) <=> x = "logout"
<1>1. todo[s] = <<>> => \A x : ~At(s, x)
  BY DEF At
<1>2. /\ todo[s] = <<"keep">> => \A x : At(s, x) <=> x = "keep"
      /\ todo[s] = <<"forget">> => \A x : At(s, x) <=> x = "forget"
      /\ todo[s] = <<"call">> => \A x : At(s, x) <=> x = "call"
  BY PairHeads, Zenon DEF At
<1>3. /\ todo[s] = <<"exchange", "keep">> => \A x : At(s, x) <=> x = "exchange"
      /\ todo[s] = <<"login", "keep">> => \A x : At(s, x) <=> x = "login"
      /\ todo[s] = <<"logout", "forget">> => \A x : At(s, x) <=> x = "logout"
  BY PairHeads, Zenon DEF At
<1> QED
  BY <1>1, <1>2, <1>3

LEMMA ClientTurns ==
  ASSUME DOMAIN todo = Slot, DOMAIN mem = Slot, NEW s \in Slot, NEW steps, NEW m,
         Turn(s, steps, m) \/ Begin(s, steps, m)
  PROVE  /\ DOMAIN todo' = Slot /\ DOMAIN mem' = Slot /\ OthersWait(s)
         /\ todo'[s] = steps /\ mem'[s] = IF steps = <<>> THEN Nothing ELSE m
BY DEF Turn, Begin, OthersWait

-----------------------------------------------------------------------------
(* Tokens: the newest, and those there were. *)

LEMMA OpenedTyped ==
  ASSUME ClientsTypeOK
  PROVE  /\ opened \in Seq(SessionRecord) /\ DOMAIN opened = 1 .. Len(opened) /\ Len(opened) \in Nat
         /\ \A i \in DOMAIN opened : opened[i] \in SessionRecord
         /\ Tokens \subseteq Nat
<1>1. opened \in Seq(SessionRecord)
  BY DEF ClientsTypeOK, SessionRecord
<1>2. DOMAIN opened = 1 .. Len(opened) /\ Len(opened) \in Nat /\ \A i \in DOMAIN opened : opened[i] \in SessionRecord
  BY <1>1, ElementOfSeq, LenProperties
<1> QED
  BY <1>1, <1>2 DEF Tokens, SessionRecord

LEMMA OneGreatest ==
  ASSUME NEW T \in SUBSET Nat, NEW n \in T, \A m \in T : m <= n
  PROVE  (CHOOSE k \in T : \A m \in T : m <= k) = n
<1> DEFINE P(k) == k \in T /\ \A m \in T : m <= k
           c == CHOOSE k : P(k)
<1>1. P(n)
  OBVIOUS
<1>2. P(c)
  BY <1>1
<1>3. c = n
  <2> HIDE DEF c
  <2> QED
    BY <1>1, <1>2
<1>4. c = (CHOOSE k \in T : \A m \in T : m <= k)
  OBVIOUS
<1> QED
  BY <1>3, <1>4

LEMMA NewestIsOne ==
  ASSUME NEW n \in Nat
  PROVE  /\ Newest(n) /\ Tokens \subseteq Nat => NextToken = n + 1
         /\ Newest(n)' /\ Tokens' \subseteq Nat => NextToken' = n + 1
<1>1. ASSUME Newest(n), Tokens \subseteq Nat PROVE NextToken = n + 1
  <2>1. CASE opened = <<>>
    BY <1>1, <2>1 DEF Newest, NextToken
  <2>2. CASE opened # <<>>
    <3>1. NextToken = 1 + n
      BY <1>1, <2>2, OneGreatest, Zenon DEF Newest, NextToken
    <3> QED
      BY <3>1
  <2> QED
    BY <2>1, <2>2
<1>2. ASSUME Newest(n)', Tokens' \subseteq Nat PROVE NextToken' = n + 1
  <2>1. CASE opened' = <<>>
    BY <1>2, <2>1 DEF Newest, NextToken
  <2>2. CASE opened' # <<>>
    <3>1. NextToken' = 1 + n
      BY <1>2, <2>2, OneGreatest, Zenon DEF Newest, NextToken
    <3> QED
      BY <3>1
  <2> QED
    BY <2>1, <2>2
<1> QED
  BY <1>1, <1>2

\* The next token is none there was, and follows on none.
LEMMA NextIsNew ==
  ASSUME ClientsTypeOK, TokensRise
  PROVE  /\ NextToken \in Nat /\ 0 < NextToken
         /\ \A m \in Tokens : m < NextToken
         /\ \A i \in DOMAIN opened : opened[i].token < NextToken /\ opened[i].previous < NextToken
         /\ ~Used(NextToken)
<1>1. PICK n \in Nat : Newest(n)
  BY DEF TokensRise
<1>2. NextToken = n + 1
  BY <1>1, NewestIsOne, OpenedTyped
<1>3. \A m \in Tokens : m < NextToken
  <2>1. opened = <<>> => Tokens = {}
    BY DEF Tokens
  <2> QED
    BY <1>1, <1>2, <2>1, OpenedTyped DEF Newest
<1>4. \A i \in DOMAIN opened : opened[i].token < NextToken /\ opened[i].previous < NextToken
  <2> SUFFICES ASSUME NEW i \in DOMAIN opened
               PROVE  opened[i].token < NextToken /\ opened[i].previous < NextToken
    OBVIOUS
  <2>1. opened[i].token \in Tokens /\ opened[i] \in SessionRecord
    BY OpenedTyped DEF Tokens
  <2>2. opened[i].previous < opened[i].token
    BY DEF TokensRise
  <2> QED
    BY <1>2, <1>3, <2>1, <2>2 DEF SessionRecord
<1> QED
  BY <1>2, <1>3, <1>4, OpenedTyped DEF Used, SessionRecord

\* Sessions that end keep their tokens.
LEMMA SameTokens ==
  ASSUME ClientsTypeOK, TokensRise,
         DOMAIN opened' = DOMAIN opened, opened' \in Seq(SessionRecord),
         \A i \in DOMAIN opened :
           opened'[i].token = opened[i].token /\ opened'[i].previous = opened[i].previous
  PROVE  /\ NextToken' = NextToken /\ (\A k : Used(k)' <=> Used(k))
         /\ (\E n \in Nat : Newest(n))'
         /\ \A i \in DOMAIN opened' : opened'[i].previous < opened'[i].token
<1>1. Tokens' = Tokens
  BY DEF Tokens
<1>2. opened' = <<>> <=> opened = <<>>
  OBVIOUS
<1>3. PICK n \in Nat : Newest(n)
  BY DEF TokensRise
<1>4. Newest(n)'
  BY <1>1, <1>2, <1>3 DEF Newest
<1>5. NextToken = n + 1 /\ NextToken' = n + 1
  <2>1. Tokens' \subseteq Nat
    BY <1>1, OpenedTyped
  <2> QED
    BY <1>3, <1>4, <2>1, OpenedTyped, NewestIsOne
<1>6. \A k : Used(k)' <=> Used(k)
  BY DEF Used
<1> QED
  BY <1>4, <1>5, <1>6 DEF TokensRise

\* A token that is issued is the newest.
LEMMA TokenIssued ==
  ASSUME ClientsTypeOK, TokensRise, opened' # <<>>,
         NextToken \in Tokens', \A m \in Tokens' : m <= NextToken, Tokens' \subseteq Nat
  PROVE  NextToken' = NextToken + 1 /\ (\E n \in Nat : Newest(n))'
<1>1. PICK n \in Nat : n = NextToken
  BY NextIsNew
<1>2. Newest(n)'
  BY <1>1 DEF Newest
<1>3. NextToken' = n + 1
  BY <1>2, NewestIsOne
<1> QED
  BY <1>1, <1>2, <1>3

-----------------------------------------------------------------------------
(* The kinds of step a client takes. *)

\* A step of one request that neither presents a token nor brings one: at most
\* it lets go of what it was about.
LEMMA ClientsAside ==
  ASSUME ClientsSound, NEW s \in Slot,
         DOMAIN todo' = Slot, DOMAIN mem' = Slot, OthersWait(s), Sent(s)',
         ClientsTypeOK', TokensRise', client' = client,
         NextToken' = NextToken, \A k : Used(k)' <=> Used(k),
         saved' = saved \/ saved' = 0,
         todo'[s] # <<>> => mem'[s].got = 0 /\ ~At(s, "exchange")',
         \/ renewing' = renewing
         \/ Trading(s) /\ renewing' = renewing \ {mem[s].tab} /\ ~Trading(s)',
         Trading(s)' => Trading(s) /\ mem'[s].tab = mem[s].tab,
         todo'[s] # <<>> => \/ todo[s] # <<>> /\ mem'[s].tab = mem[s].tab
                            \/ client = "cli" => Busy(mem'[s].tab) = {},
         At(s, "keep") /\ mem[s].got # 0 => mem[s].token = 0 \/ blamed',
         blamed => blamed', alarmed' => alarmed \/ blamed'
  PROVE  ClientsSound'
<1>1. \A t \in Slot \ {s} : todo'[t] = todo[t] /\ mem'[t] = mem[t] /\ \A x : At(t, x)' <=> At(t, x)
  BY DEF OthersWait, At
<1>2. \A t \in Slot : Sent(t)'
  BY <1>1 DEF ClientsSound, Sent, ErrandRecord
<1>3. OneEach'
  BY <1>1 DEF ClientsSound, OneEach, Busy
<1>4. ASSUME ~blamed' PROVE TradeIsSafe' /\ ~alarmed'
  <2>1. TradeIsSafe /\ ~alarmed' /\ \A t \in Slot : Sent(t)
    BY <1>4 DEF ClientsSound
  <2>2. \A t \in Slot : Trading(t)' => Trading(t) /\ mem'[t].tab = mem[t].tab
    BY <1>1 DEF Trading
  <2>3. \A t, u \in Slot : Trading(t)' /\ Trading(u)' => t = u
    BY <2>1, <2>2 DEF TradeIsSafe
  <2>4. \A t \in Slot : At(t, "exchange")' => ~Used(mem[t].token)' /\ mem'[t] = mem[t]
    <3>1. ~At(s, "exchange")'
      BY DEF At
    <3> QED
      BY <1>1, <2>1, <3>1 DEF TradeIsSafe
  <2>5. ASSUME NEW t \in Slot, Trading(t)', client' = "sdk" PROVE mem'[t].tab \in renewing'
    <3>1. Trading(t) /\ mem'[t].tab = mem[t].tab /\ mem[t].tab \in renewing
      BY <2>1, <2>2, <2>5 DEF TradeIsSafe
    <3>2. Trading(s) => s = t
      BY <2>1, <3>1 DEF TradeIsSafe
    <3> QED
      BY <2>5, <3>1, <3>2
  <2>6. ASSUME NEW t \in Slot, todo'[t] # <<>> PROVE Fresh(t)'
    <3>1. CASE t = s
      BY <2>6, <3>1 DEF Fresh
    <3>2. CASE t # s
      <4>1. Fresh(t) /\ mem'[t] = mem[t]
        BY <1>1, <2>1, <2>6, <3>2 DEF TradeIsSafe
      <4>2. SUFFICES ASSUME mem[t].got # 0
                     PROVE  /\ mem[t].got # saved'
                            /\ \A u \in Slot \ {t} : todo'[u] # <<>> =>
                                 mem[t].got # mem'[u].got /\ (At(u, "exchange")' => mem[t].got # mem'[u].token)
        BY <4>1 DEF Fresh
      <4> QED
        BY <1>1, <4>1, <4>2 DEF Fresh
    <3> QED
      BY <3>1, <3>2
  <2>7. ASSUME saved' # 0, Used(saved)'
        PROVE  \E t \in Slot : At(t, "keep")' /\ mem'[t].got # 0 /\ mem'[t].token = saved'
    <3>1. saved' = saved /\ Used(saved)
      BY <2>7
    <3>2. PICK t \in Slot : At(t, "keep") /\ mem[t].got # 0 /\ mem[t].token = saved
      BY <2>1, <2>7, <3>1 DEF TradeIsSafe
    <3>3. t # s
      BY <1>4, <2>7, <3>1, <3>2
    <3> QED
      BY <1>1, <3>1, <3>2, <3>3
  <2> QED
    BY <2>1, <2>3, <2>4, <2>5, <2>6, <2>7 DEF TradeIsSafe
<1> QED
  BY <1>2, <1>3, <1>4 DEF ClientsSound

\* A token that is presented, if no one else is there, is the one in the
\* storage, and not used.
LEMMA ClientsPresent ==
  ASSUME ClientsSound, NEW s \in Slot, NEW t \in Tab, NEW token \in Nat, token # 0, token < NextToken,
         DOMAIN todo' = Slot, DOMAIN mem' = Slot, OthersWait(s),
         todo'[s] = <<"exchange", "keep">>, mem'[s] = Errand(t, token),
         ClientsTypeOK', TokensRise', client' = client, opened' = opened, saved' = saved,
         alarmed' = alarmed, blamed' = (blamed \/ Met(t, token)),
         todo[s] = <<>> \/ (At(s, "call") /\ mem[s].tab = t),
         renewing' = renewing \cup {t} \/ (client # "sdk" /\ renewing' = renewing),
         client = "sdk" => t \notin renewing,
         client # "sdk" => \A u \in Slot \ {s} : todo[u] # <<>> => mem[u].tab # t
  PROVE  ClientsSound'
<1>1. \A u \in Slot \ {s} : todo'[u] = todo[u] /\ mem'[u] = mem[u] /\ \A x : At(u, x)' <=> At(u, x)
  BY DEF OthersWait, At
<1>2. NextToken' = NextToken /\ \A k : Used(k)' <=> Used(k)
  BY DEF NextToken, Tokens, Used
<1>3. \A x : At(s, x)' <=> x = "exchange"
  BY PairHeads, Zenon DEF At
<1>4. todo'[s] \in ClientCourse /\ todo'[s] # <<>>
  <2>1. <<"exchange", "keep">> \in ClientCourse
    BY DEF ClientCourse
  <2>2. <<"exchange", "keep">> # <<>>
    BY PairHeads, Zenon
  <2> QED
    BY <2>1, <2>2
<1>5. /\ mem'[s] \in ErrandRecord /\ mem'[s].token = token /\ mem'[s].got = 0 /\ mem'[s].tab = t
      /\ 0 < NextToken
  BY NextIsNew DEF Errand, ErrandRecord, ClientsSound
<1>6. \A u \in Slot : Sent(u)'
  <2>1. Sent(s)'
    BY <1>2, <1>3, <1>4, <1>5 DEF Sent, ErrandRecord
  <2> QED
    BY <1>1, <1>2, <2>1 DEF ClientsSound, Sent, ErrandRecord
<1>7. OneEach'
  BY <1>1, <1>5 DEF ClientsSound, OneEach
<1>8. ASSUME ~blamed' PROVE TradeIsSafe' /\ ~alarmed'
  <2>1. TradeIsSafe /\ ~alarmed' /\ ~Met(t, token)
    BY <1>8 DEF ClientsSound
  <2>2. token = saved
    BY <2>1 DEF Met
  <2>3. \A u \in Slot \ {s} : todo[u] # <<>> => mem[u].tab = t
    <3> SUFFICES ASSUME NEW u \in Slot \ {s}, todo[u] # <<>>, mem[u].tab # t PROVE FALSE
      OBVIOUS
    <3>1. mem[u] \in ErrandRecord
      BY DEF ClientsSound, Sent
    <3>2. mem[u] # Nothing
      BY <3>1 DEF ErrandRecord, Nothing
    <3> QED
      BY <2>1, <3>2 DEF Met
  <2>4. \A u \in Slot : ~Trading(u)
    <3>1. ~Trading(s)
      BY DEF Trading, At
    <3>2. ASSUME NEW u \in Slot \ {s}, Trading(u) PROVE FALSE
      <4>1. todo[u] # <<>> /\ mem[u].tab = t
        BY <2>3, <3>2 DEF Trading, At
      <4> QED
        BY <2>1, <3>2, <4>1 DEF TradeIsSafe
    <3> QED
      BY <3>1, <3>2
  <2>5. ~Used(saved)
    BY <2>1, <2>2, <2>4 DEF TradeIsSafe, Trading
  <2>6. \A u \in Slot : Trading(u)' => u = s
    BY <1>1, <2>4 DEF Trading
  <2>7. \A u \in Slot : At(u, "exchange")' => u = s
    BY <2>6 DEF Trading
  <2>8. client' = "sdk" => t \in renewing'
    OBVIOUS
  <2>9. ASSUME NEW u \in Slot, todo'[u] # <<>> PROVE Fresh(u)'
    <3>1. CASE u = s
      BY <1>5, <3>1 DEF Fresh
    <3>2. CASE u # s
      <4>1. Fresh(u) /\ mem'[u] = mem[u]
        BY <1>1, <2>1, <2>9, <3>2 DEF TradeIsSafe
      <4>2. SUFFICES ASSUME mem[u].got # 0
                     PROVE  \A v \in Slot \ {u} : todo'[v] # <<>> =>
                              mem[u].got # mem'[v].got /\ (At(v, "exchange")' => mem[u].got # mem'[v].token)
        BY <1>2, <4>1 DEF Fresh
      <4> QED
        BY <1>1, <1>5, <2>2, <4>1, <4>2 DEF Fresh
    <3> QED
      BY <3>1, <3>2
  <2> QED
    BY <1>2, <1>5, <2>1, <2>2, <2>5, <2>6, <2>7, <2>8, <2>9 DEF TradeIsSafe
<1> QED
  BY <1>6, <1>7, <1>8 DEF ClientsSound

\* The server issues a token, in exchange for one or for a password.
LEMMA ClientsIssued ==
  ASSUME ClientsSound, NEW s \in Slot, At(s, "login") \/ At(s, "exchange"),
         DOMAIN todo' = Slot, DOMAIN mem' = Slot, OthersWait(s), todo'[s] = <<"keep">>,
         NEW n \in Nat, n = NextToken, mem'[s] \in ErrandRecord, mem'[s].got = n,
         mem'[s].token = mem[s].token, mem'[s].tab = mem[s].tab,
         ClientsTypeOK', TokensRise', NextToken' = n + 1,
         client' = client, saved' = saved, renewing' = renewing, alarmed' = alarmed, blamed' = blamed,
         \A k : k # 0 /\ Used(k)' => Used(k) \/ (At(s, "exchange") /\ k = mem[s].token)
  PROVE  ClientsSound'
<1>1. /\ todo[s] \in ClientCourse /\ mem[s] \in ErrandRecord /\ mem[s].token < n /\ todo[s] # <<>>
      /\ At(s, "exchange") => mem[s].token # 0
      /\ At(s, "login") => mem[s].token = 0
  BY DEF ClientsSound, Sent, At
<1>2. <<"keep">> \in ClientCourse /\ <<"keep">> # <<>>
  <2>1. <<"keep">> \in ClientCourse
    BY DEF ClientCourse
  <2> QED
    BY <2>1, PairHeads, Zenon
<1>3. n \in Nat /\ 0 < n /\ ~Used(n)
  BY NextIsNew DEF ClientsSound
<1>6. \A u \in Slot \ {s} : todo'[u] = todo[u] /\ mem'[u] = mem[u] /\ \A x : At(u, x)' <=> At(u, x)
  BY DEF OthersWait, At
<1>7. \A x : At(s, x)' <=> x = "keep"
  BY PairHeads, Zenon DEF At
<1>8. \A u \in Slot : Sent(u)'
  <2>1. Sent(s)'
    BY <1>1, <1>2, <1>3, <1>7 DEF Sent, ErrandRecord
  <2>2. ASSUME NEW u \in Slot \ {s} PROVE Sent(u)'
    <3>1. Sent(u)
      BY DEF ClientsSound
    <3> QED
      BY <1>3, <1>6, <3>1 DEF Sent, ErrandRecord
  <2> QED
    BY <2>1, <2>2
<1>9. OneEach'
  BY <1>1, <1>6 DEF ClientsSound, OneEach
<1>10. ASSUME ~blamed' PROVE TradeIsSafe' /\ ~alarmed'
  <2>1. TradeIsSafe /\ ~alarmed'
    BY <1>10 DEF ClientsSound
  <2>2. \A u \in Slot : Trading(u)' => Trading(u) /\ mem'[u].tab = mem[u].tab
    BY <1>1, <1>6, <1>7 DEF Trading
  <2>3. \A u, v \in Slot : Trading(u)' /\ Trading(v)' => u = v
    BY <2>1, <2>2 DEF TradeIsSafe
  <2>4. ASSUME NEW u \in Slot, At(u, "exchange")' PROVE ~Used(mem[u].token)' /\ mem'[u] = mem[u]
    <3>1. u # s /\ At(u, "exchange") /\ mem'[u] = mem[u]
      BY <1>6, <1>7, <2>4
    <3>2. ~At(s, "exchange")
      BY <2>1, <3>1 DEF TradeIsSafe, Trading
    <3>3. ~Used(mem[u].token) /\ mem[u].token # 0
      BY <2>1, <3>1 DEF TradeIsSafe, ClientsSound, Sent, At
    <3> QED
      BY <3>1, <3>2, <3>3
  <2>5. \A u \in Slot : Trading(u)' /\ client' = "sdk" => mem'[u].tab \in renewing'
    BY <2>1, <2>2 DEF TradeIsSafe
  <2>6. ASSUME NEW u \in Slot, todo'[u] # <<>> PROVE Fresh(u)'
    <3>1. CASE u = s
      <4>1. ~Used(n)' /\ n # saved'
        BY <1>1, <1>3 DEF ClientsSound, TokensRise
      <4>2. ASSUME NEW v \in Slot \ {s}, todo'[v] # <<>>
            PROVE  n # mem'[v].got /\ n # mem'[v].token
        <5>1. Sent(v) /\ todo[v] # <<>> /\ mem'[v] = mem[v]
          BY <1>6, <4>2 DEF ClientsSound
        <5> QED
          BY <5>1 DEF Sent
      <4>3. mem'[s].got = n
        BY <1>3
      <4> QED
        BY <3>1, <4>1, <4>2, <4>3 DEF Fresh
    <3>2. CASE u # s
      <4>1. Fresh(u) /\ mem'[u] = mem[u] /\ Sent(u) /\ todo[u] # <<>>
        BY <1>6, <2>1, <2>6, <3>2 DEF TradeIsSafe, ClientsSound
      <4>2. SUFFICES ASSUME mem[u].got # 0 PROVE Fresh(u)'
        BY <4>1 DEF Fresh
      <4>3. ~Used(mem[u].got)' /\ mem[u].got # saved'
        BY <1>1, <3>2, <4>1, <4>2 DEF Fresh
      <4>4. mem[u].got # n
        BY <1>3, <4>1 DEF Sent, ErrandRecord
      <4>5. ASSUME NEW v \in Slot \ {u}, todo'[v] # <<>>
            PROVE  mem[u].got # mem'[v].got /\ (At(v, "exchange")' => mem[u].got # mem'[v].token)
        <5>1. CASE v = s
          BY <1>7, <4>4, <5>1
        <5>2. CASE v # s
          BY <1>6, <4>1, <4>2, <4>5, <5>2 DEF Fresh
        <5> QED
          BY <5>1, <5>2
      <4> QED
        BY <4>1, <4>3, <4>5 DEF Fresh
    <3> QED
      BY <3>1, <3>2
  <2>7. ASSUME saved' # 0, Used(saved)'
        PROVE  \E u \in Slot : At(u, "keep")' /\ mem'[u].got # 0 /\ mem'[u].token = saved'
    <3>1. CASE Used(saved)
      <4>1. PICK u \in Slot : At(u, "keep") /\ mem[u].got # 0 /\ mem[u].token = saved
        BY <2>1, <2>7, <3>1 DEF TradeIsSafe
      <4>2. u # s
        BY <4>1 DEF At
      <4> QED
        BY <1>6, <4>1, <4>2
    <3>2. CASE saved = mem[s].token
      BY <1>3, <1>7, <3>2
    <3> QED
      BY <2>7, <3>1, <3>2
  <2> QED
    BY <2>1, <2>3, <2>4, <2>5, <2>6, <2>7 DEF TradeIsSafe
<1> QED
  BY <1>8, <1>9, <1>10 DEF ClientsSound

LEMMA OpenedSame ==
  ASSUME opened' = opened
  PROVE  NextToken' = NextToken /\ Tokens' = Tokens /\ \A k : Used(k)' <=> Used(k)
BY DEF NextToken, Tokens, Used

\* What a client stores is a token there was, or the answer it waited for.
LEMMA TokensStay ==
  ASSUME TokensRise, opened' = opened, saved' < NextToken, \A t \in Tab : held'[t] < NextToken
  PROVE  TokensRise'
BY OpenedSame DEF TokensRise, Newest

\* The answer arrives, and nobody has what it brings.
LEMMA ClientsKeep ==
  ASSUME ClientsSound, NEW s \in Slot, Keep(s), mem[s].got # 0
  PROVE  ClientsSound'
<1>1. /\ todo[s] \in ClientCourse /\ mem[s] \in ErrandRecord /\ mem[s].got < NextToken /\ todo[s] # <<>>
      /\ At(s, "keep")
  BY DEF ClientsSound, Sent, At, Keep
<1>2. PICK got \in Nat \ {0} : got = mem[s].got
  BY <1>1 DEF ErrandRecord
<1>3. /\ saved' = got /\ Pass(s)
      /\ held' = IF client # "web" THEN held ELSE [held EXCEPT ![mem[s].tab] = got]
      /\ renewing' = IF mem[s].token = 0 THEN renewing ELSE renewing \ {mem[s].tab}
      /\ client' = client /\ opened' = opened /\ alarmed' = alarmed /\ blamed' = blamed
  BY <1>2 DEF Keep, clientPast
<1>4. DOMAIN todo' = Slot /\ DOMAIN mem' = Slot /\ OthersWait(s) /\ todo'[s] = <<>>
  <2>1. Tail(todo[s]) = <<>>
    BY <1>1, ClientCourses
  <2>2. Turn(s, <<>>, mem[s])
    BY <1>3, <2>1 DEF Pass
  <2> QED
    BY <2>2, ClientTurns DEF ClientsSound
<1>5. \A u \in Slot \ {s} : todo'[u] = todo[u] /\ mem'[u] = mem[u] /\ \A x : At(u, x)' <=> At(u, x)
  BY <1>4 DEF OthersWait, At
<1>6. NextToken' = NextToken /\ \A k : Used(k)' <=> Used(k)
  BY <1>3, OpenedSame
<1>7. ClientsTypeOK'
  BY <1>1, <1>2, <1>3 DEF ClientsSound, ClientsTypeOK, ErrandRecord
<1>8. TokensRise'
  <2>1. held \in [Tab -> Nat] /\ \A t \in Tab : held[t] < NextToken
    BY DEF ClientsSound, ClientsTypeOK, TokensRise
  <2>2. \A t \in Tab : held'[t] < NextToken
    BY <1>1, <1>2, <1>3, <2>1 DEF ErrandRecord
  <2> QED
    BY <1>1, <1>2, <1>3, <2>2, TokensStay DEF ClientsSound
<1>9. \A u \in Slot : Sent(u)'
  <2>1. Sent(s)'
    BY <1>4 DEF Sent, ClientCourse
  <2> QED
    BY <1>5, <1>6, <2>1 DEF ClientsSound, Sent
<1>10. OneEach'
  BY <1>3, <1>4, <1>5 DEF ClientsSound, OneEach
<1>11. ASSUME ~blamed' PROVE TradeIsSafe' /\ ~alarmed'
  <2>1. TradeIsSafe /\ ~alarmed' /\ Fresh(s)
    BY <1>1, <1>3, <1>11 DEF ClientsSound, TradeIsSafe
  <2>2. \A x : ~At(s, x)'
    BY <1>4 DEF At
  <2>3. \A u \in Slot : Trading(u)' => u # s /\ Trading(u) /\ mem'[u] = mem[u]
    BY <1>5, <2>2 DEF Trading
  <2>4. \A u \in Slot : At(u, "exchange")' => ~Used(mem[u].token)'
    BY <1>5, <1>6, <2>1, <2>2 DEF TradeIsSafe
  <2>5. ASSUME NEW u \in Slot, Trading(u)', client' = "sdk" PROVE mem'[u].tab \in renewing'
    <3>1. ~Trading(s)
      BY <2>1, <2>3, <2>5 DEF TradeIsSafe
    <3>2. renewing' = renewing
      BY <1>1, <1>3, <3>1 DEF Trading
    <3> QED
      BY <1>3, <2>1, <2>3, <2>5, <3>2 DEF TradeIsSafe
  <2>6. ASSUME NEW u \in Slot, todo'[u] # <<>> PROVE Fresh(u)'
    <3>1. u # s
      BY <1>4, <2>6
    <3>2. Fresh(u) /\ mem'[u] = mem[u]
      BY <1>5, <2>1, <2>6, <3>1 DEF TradeIsSafe
    <3>3. SUFFICES ASSUME mem[u].got # 0
                   PROVE  /\ mem[u].got # saved'
                          /\ \A v \in Slot \ {u} : todo'[v] # <<>> =>
                               mem[u].got # mem'[v].got /\ (At(v, "exchange")' => mem[u].got # mem'[v].token)
      BY <1>6, <3>2 DEF Fresh
    <3>4. mem[u].got # got
      BY <1>1, <1>2, <3>1, <3>2, <3>3 DEF Fresh
    <3>5. \A v \in Slot \ {u} : todo'[v] # <<>> => v # s
      BY <1>4
    <3> QED
      BY <1>3, <1>5, <3>2, <3>3, <3>4, <3>5 DEF Fresh
  <2>7. ~Used(saved)'
    BY <1>2, <1>3, <1>6, <2>1 DEF Fresh
  <2>8. \A u, v \in Slot : Trading(u)' /\ Trading(v)' => u = v
    BY <2>1, <2>3 DEF TradeIsSafe
  <2> QED
    BY <2>1, <2>4, <2>5, <2>6, <2>7, <2>8 DEF TradeIsSafe
<1> QED
  BY <1>4, <1>7, <1>8, <1>9, <1>10, <1>11 DEF ClientsSound

\* A page is left with what it was about: the others go on as they were.
LEMMA ClientsLeave ==
  ASSUME ClientsSound, NEW t \in Tab, LeavePage(t)
  PROVE  ClientsSound'
<1>1. /\ DOMAIN todo' = Slot /\ DOMAIN mem' = Slot
      /\ \A u \in Slot : IF u \in Busy(t) THEN todo'[u] = <<>> ELSE todo'[u] = todo[u] /\ mem'[u] = mem[u]
  BY DEF LeavePage
<1>2. /\ held' = [held EXCEPT ![t] = 0] /\ renewing' = renewing \ {t} /\ client' = client
      /\ saved' = saved /\ opened' = opened /\ alarmed' = alarmed
      /\ blamed' = (blamed \/ \E s \in Busy(t) : At(s, "exchange") \/ mem[s].got # 0)
  BY DEF LeavePage
<1>3. NextToken' = NextToken /\ \A k : Used(k)' <=> Used(k)
  BY <1>2, OpenedSame
<1>4. ClientsTypeOK'
  BY <1>2 DEF ClientsSound, ClientsTypeOK
<1>5. TokensRise'
  <2>1. held \in [Tab -> Nat] /\ (\A x \in Tab : held[x] < NextToken) /\ 0 < NextToken
    BY NextIsNew DEF ClientsSound, ClientsTypeOK, TokensRise
  <2>2. \A x \in Tab : held'[x] < NextToken
    BY <1>2, <2>1
  <2> QED
    BY <1>2, <2>2, TokensStay DEF ClientsSound, TokensRise
<1>6. \A u \in Slot : todo'[u] # <<>> =>
        /\ u \notin Busy(t) /\ todo[u] # <<>> /\ todo'[u] = todo[u] /\ mem'[u] = mem[u] /\ mem[u].tab # t
        /\ \A x : At(u, x)' <=> At(u, x)
  BY <1>1 DEF Busy, At
<1>7. \A u \in Slot : Sent(u)'
  <2> SUFFICES ASSUME NEW u \in Slot PROVE Sent(u)'
    OBVIOUS
  <2>1. CASE todo'[u] = <<>>
    BY <2>1 DEF Sent, ClientCourse
  <2>2. CASE todo'[u] # <<>>
    BY <1>3, <1>6, <2>2 DEF ClientsSound, Sent
  <2> QED
    BY <2>1, <2>2
<1>8. OneEach'
  BY <1>2, <1>6 DEF ClientsSound, OneEach
<1>9. \A u \in Slot : \A x : At(u, x)' => todo'[u] # <<>>
  BY DEF At
<1>10. ASSUME ~blamed' PROVE TradeIsSafe' /\ ~alarmed'
  <2>1. TradeIsSafe /\ ~alarmed'
    BY <1>2, <1>10 DEF ClientsSound
  <2>2. \A u \in Slot : Trading(u)' => Trading(u) /\ mem'[u] = mem[u] /\ mem[u].tab # t
    BY <1>6, <1>9 DEF Trading
  <2>3. \A u, v \in Slot : Trading(u)' /\ Trading(v)' => u = v
    BY <2>1, <2>2 DEF TradeIsSafe
  <2>4. \A u \in Slot : At(u, "exchange")' => ~Used(mem[u].token)'
    BY <1>3, <1>6, <1>9, <2>1 DEF TradeIsSafe
  <2>5. \A u \in Slot : Trading(u)' /\ client' = "sdk" => mem'[u].tab \in renewing'
    BY <1>2, <2>1, <2>2 DEF TradeIsSafe
  <2>6. ASSUME NEW u \in Slot, todo'[u] # <<>> PROVE Fresh(u)'
    <3>1. Fresh(u) /\ mem'[u] = mem[u]
      BY <1>6, <2>1, <2>6 DEF TradeIsSafe
    <3>2. SUFFICES ASSUME mem[u].got # 0
                   PROVE  /\ mem[u].got # saved'
                          /\ \A v \in Slot \ {u} : todo'[v] # <<>> =>
                               mem[u].got # mem'[v].got /\ (At(v, "exchange")' => mem[u].got # mem'[v].token)
      BY <1>3, <3>1 DEF Fresh
    <3> QED
      BY <1>2, <1>6, <3>1, <3>2 DEF Fresh
  <2>7. ASSUME saved' # 0, Used(saved)'
        PROVE  \E u \in Slot : At(u, "keep")' /\ mem'[u].got # 0 /\ mem'[u].token = saved'
    <3>1. Used(saved)
      BY <1>2, <1>3, <2>7
    <3>2. PICK u \in Slot : At(u, "keep") /\ mem[u].got # 0 /\ mem[u].token = saved
      BY <1>2, <2>1, <2>7, <3>1 DEF TradeIsSafe
    <3>3. u \notin Busy(t)
      BY <1>2, <1>10, <3>2
    <3>4. todo'[u] = todo[u] /\ mem'[u] = mem[u]
      BY <1>1, <3>3
    <3>5. At(u, "keep")'
      BY <3>2, <3>4 DEF At
    <3> QED
      BY <1>2, <3>2, <3>4, <3>5
  <2> QED
    BY <2>1, <2>3, <2>4, <2>5, <2>6, <2>7 DEF TradeIsSafe
<1> QED
  BY <1>1, <1>4, <1>5, <1>7, <1>8, <1>10 DEF ClientsSound

\* Sessions end, or nothing happens.
LEMMA ClientsStill ==
  ASSUME ClientsSound, todo' = todo, mem' = mem, UNCHANGED clientVars, UNCHANGED <<alarmed, blamed>>,
         opened' \in Seq(SessionRecord), DOMAIN opened' = DOMAIN opened,
         \A i \in DOMAIN opened :
           opened'[i].token = opened[i].token /\ opened'[i].previous = opened[i].previous
  PROVE  ClientsSound'
<1>1. client' = client /\ saved' = saved /\ held' = held /\ renewing' = renewing /\ alarmed' = alarmed /\ blamed' = blamed
  BY DEF clientVars
<1>2. /\ NextToken' = NextToken /\ (\A k : Used(k)' <=> Used(k)) /\ (\E n \in Nat : Newest(n))'
      /\ \A i \in DOMAIN opened' : opened'[i].previous < opened'[i].token
  BY SameTokens DEF ClientsSound
<1>3. ClientsTypeOK' /\ TokensRise'
  BY <1>1, <1>2 DEF ClientsSound, ClientsTypeOK, TokensRise, SessionRecord
<1>4. \A u \in Slot : (\A x : At(u, x)' <=> At(u, x)) /\ (Trading(u)' <=> Trading(u))
  BY DEF At, Trading
<1>5. \A u \in Slot : Sent(u)' <=> Sent(u)
  BY <1>2, <1>4 DEF Sent
<1>6. OneEach'
  BY <1>1 DEF ClientsSound, OneEach
<1>7. TradeIsSafe => TradeIsSafe'
  <2>1. \A u \in Slot : Fresh(u) => Fresh(u)'
    BY <1>1, <1>2, <1>4 DEF Fresh
  <2> QED
    BY <1>1, <1>2, <1>4, <2>1 DEF TradeIsSafe
<1> QED
  BY <1>1, <1>3, <1>5, <1>6, <1>7 DEF ClientsSound

-----------------------------------------------------------------------------
(* The handlers of the clients. *)

\* What a client asks for, asked with a token there was.
LEMMA Errands ==
  ASSUME ClientsSound, NEW t \in Tab, NEW token \in Nat, token < NextToken
  PROVE  /\ Errand(t, token) \in ErrandRecord /\ Errand(t, token).tab = t /\ Errand(t, token).got = 0
         /\ Errand(t, token).token = token /\ 0 < NextToken /\ 0 \in Nat
BY NextIsNew DEF Errand, ErrandRecord, ClientsSound

LEMMA StoredTyped ==
  ASSUME ClientsSound
  PROVE  /\ saved \in Nat /\ saved < NextToken /\ held \in [Tab -> Nat] /\ 0 < NextToken
         /\ \A t \in Tab : held[t] < NextToken /\ Stored(t) \in Nat /\ Stored(t) < NextToken
<1>1. /\ saved \in Nat /\ saved < NextToken /\ held \in [Tab -> Nat] /\ 0 < NextToken
      /\ \A t \in Tab : held[t] < NextToken
  BY NextIsNew DEF ClientsSound, ClientsTypeOK, TokensRise
<1> QED
  BY <1>1 DEF Stored

\* Nothing a client stores, and no session, changes.
LEMMA StoresSame ==
  ASSUME ClientsSound, client' = client, saved' = saved, held' = held, renewing' \in SUBSET Tab,
         opened' = opened, alarmed' = alarmed, blamed' \in BOOLEAN
  PROVE  ClientsTypeOK' /\ TokensRise' /\ NextToken' = NextToken /\ \A k : Used(k)' <=> Used(k)
<1>1. NextToken' = NextToken /\ \A k : Used(k)' <=> Used(k)
  BY OpenedSame
<1>2. ClientsTypeOK'
  BY DEF ClientsSound, ClientsTypeOK
<1>3. TokensRise'
  BY TokensStay DEF ClientsSound, TokensRise
<1> QED
  BY <1>1, <1>2, <1>3

\* A request that asks for something, with a token there was.
LEMMA ErrandBegins ==
  ASSUME ClientsSound, NEW s \in Slot, NEW t \in Tab, NEW token \in Nat, token < NextToken, NEW steps,
         steps \in {<<"login", "keep">>, <<"logout", "forget">>, <<"forget">>, <<"call">>},
         steps = <<"login", "keep">> => token = 0, steps = <<"call">> => token # 0,
         Begin(s, steps, Errand(t, token)), UNCHANGED <<clientVars, clientPast>>,
         client = "cli" => Busy(t) = {}
  PROVE  ClientsSound'
<1>1. /\ client' = client /\ saved' = saved /\ held' = held /\ renewing' = renewing
      /\ opened' = opened /\ alarmed' = alarmed /\ blamed' = blamed
  BY DEF clientVars, clientPast
<1>2. renewing \subseteq Tab /\ blamed \in BOOLEAN
  BY DEF ClientsSound, ClientsTypeOK
<1>3. ClientsTypeOK' /\ TokensRise' /\ NextToken' = NextToken /\ \A k : Used(k)' <=> Used(k)
  BY <1>1, <1>2, StoresSame
<1>4. steps # <<>> /\ steps \in ClientCourse
  <2>1. steps # <<>>
    BY PairHeads, Zenon
  <2> QED
    BY <2>1 DEF ClientCourse
<1>5. PICK m : m = Errand(t, token)
  OBVIOUS
<1>6. /\ m \in ErrandRecord /\ m.tab = t /\ m.got = 0 /\ m.token = token /\ 0 < NextToken
  BY <1>5, Errands
<1>7. Begin(s, steps, m)
  BY <1>5
<1>8. DOMAIN todo' = Slot /\ DOMAIN mem' = Slot /\ OthersWait(s) /\ todo'[s] = steps /\ mem'[s] = m
  BY <1>4, <1>7, ClientTurns DEF ClientsSound
<1>9. todo[s] = <<>> /\ ~Trading(s) /\ ~At(s, "keep")
  BY DEF Begin, Trading, At
<1>10. /\ At(s, "login")' => steps = <<"login", "keep">>
       /\ At(s, "call")' => steps = <<"call">>
       /\ ~At(s, "exchange")' /\ ~At(s, "keep")'
  <2>1. CASE steps = <<"login", "keep">>
    <3>1. \A x : At(s, x)' => x = "login"
      BY <1>8, <2>1, PairHeads, Zenon DEF At
    <3> QED
      BY <2>1, <3>1
  <2>2. CASE steps = <<"logout", "forget">>
    <3>1. \A x : At(s, x)' => x = "logout"
      BY <1>8, <2>2, PairHeads, Zenon DEF At
    <3> QED
      BY <3>1
  <2>3. CASE steps = <<"forget">>
    <3>1. \A x : At(s, x)' => x = "forget"
      BY <1>8, <2>3, PairHeads, Zenon DEF At
    <3> QED
      BY <3>1
  <2>4. CASE steps = <<"call">>
    <3>1. \A x : At(s, x)' => x = "call"
      BY <1>8, <2>4, PairHeads, Zenon DEF At
    <3> QED
      BY <2>4, <3>1
  <2> QED
    BY <2>1, <2>2, <2>3, <2>4
<1>11. Sent(s)'
  BY <1>3, <1>4, <1>6, <1>8, <1>10 DEF Sent
<1>12. ~Trading(s)'
  BY <1>10 DEF Trading
<1> QED
  BY <1>1, <1>3, <1>6, <1>8, <1>9, <1>10, <1>11, <1>12, ClientsAside

LEMMA ClientsSignIn ==
  ASSUME ClientsSound, NEW s \in Slot, NEW t \in Tab, SignIn(s, t)
  PROVE  ClientsSound'
<1>1. <<"login", "keep">> # <<"call">>
  <2>1. Head(<<"login", "keep">>) = "login" /\ Head(<<"call">>) = "call"
    BY PairHeads, Zenon
  <2> QED
    BY <2>1, Zenon
<1>2. Begin(s, <<"login", "keep">>, Errand(t, 0)) /\ UNCHANGED <<clientVars, clientPast>>
  BY DEF SignIn
<1>3. client = "cli" => Busy(t) = {}
  BY DEF SignIn
<1>4. 0 \in Nat /\ 0 < NextToken
  BY StoredTyped
<1> QED
  BY <1>1, <1>2, <1>3, <1>4, ErrandBegins

LEMMA ClientsSignOut ==
  ASSUME ClientsSound, NEW s \in Slot, NEW t \in Tab, SignOut(s, t)
  PROVE  ClientsSound'
<1>1. /\ <<"logout", "forget">> # <<"call">> /\ <<"forget">> # <<"call">>
      /\ <<"logout", "forget">> # <<"login", "keep">> /\ <<"forget">> # <<"login", "keep">>
  <2>1. /\ Head(<<"logout", "forget">>) = "logout" /\ Head(<<"forget">>) = "forget"
        /\ Head(<<"call">>) = "call" /\ Head(<<"login", "keep">>) = "login"
    BY PairHeads, Zenon
  <2> QED
    BY <2>1, Zenon
<1>2. PICK token \in Nat : token = Stored(t) /\ token < NextToken
  BY StoredTyped
<1>3. PICK steps : steps = IF token = 0 THEN <<"forget">> ELSE <<"logout", "forget">>
  OBVIOUS
<1>4. Begin(s, steps, Errand(t, token)) /\ UNCHANGED <<clientVars, clientPast>>
  BY <1>2, <1>3 DEF SignOut
<1>5. client = "cli" => Busy(t) = {}
  BY DEF SignOut
<1>6. /\ steps \in {<<"login", "keep">>, <<"logout", "forget">>, <<"forget">>, <<"call">>}
      /\ steps # <<"login", "keep">> /\ steps # <<"call">>
  BY <1>1, <1>3
<1> QED
  BY <1>2, <1>4, <1>5, <1>6, ErrandBegins

LEMMA ClientsCall ==
  ASSUME ClientsSound, NEW s \in Slot, NEW t \in Tab, Call(s, t)
  PROVE  ClientsSound'
<1>1. <<"login", "keep">> # <<"call">>
  <2>1. Head(<<"login", "keep">>) = "login" /\ Head(<<"call">>) = "call"
    BY PairHeads, Zenon
  <2> QED
    BY <2>1, Zenon
<1>2. PICK token \in Nat : token = saved /\ token < NextToken /\ token # 0
  BY StoredTyped DEF Call
<1>3. Begin(s, <<"call">>, Errand(t, token)) /\ UNCHANGED <<clientVars, clientPast>>
  BY <1>2 DEF Call
<1>4. client = "cli" => Busy(t) = {}
  BY DEF Call
<1> QED
  BY <1>1, <1>2, <1>3, <1>4, ErrandBegins

\* A request goes on to its next statement with what it has, or is done.
LEMMA ErrandPasses ==
  ASSUME ClientsSound, NEW s \in Slot, At(s, "logout") \/ At(s, "forget") \/ At(s, "exchange"), Pass(s)
  PROVE  /\ DOMAIN todo' = Slot /\ DOMAIN mem' = Slot /\ OthersWait(s)
         /\ \/ At(s, "logout") /\ todo'[s] = <<"forget">> /\ mem'[s] = mem[s]
            \/ At(s, "forget") /\ todo'[s] = <<>>
            \/ At(s, "exchange") /\ todo'[s] = <<"keep">> /\ mem'[s] = mem[s]
         /\ mem[s].got = 0 /\ mem[s] \in ErrandRecord /\ mem[s].token < NextToken /\ todo[s] # <<>>
         /\ ~At(s, "keep") /\ ~At(s, "exchange")' /\ (At(s, "keep")' => At(s, "exchange"))
         /\ \A n : n = NextToken /\ NextToken' = n => Sent(s)'
<1>1. /\ todo[s] \in ClientCourse /\ mem[s] \in ErrandRecord /\ mem[s].token < NextToken
      /\ todo[s] # <<>> /\ ~At(s, "keep") /\ mem[s].got = 0 /\ Sent(s)
  BY DEF ClientsSound, Sent, At
<1>2. PICK m : m = mem[s]
  OBVIOUS
<1>3. CASE At(s, "logout")
  <2>1. Tail(todo[s]) = <<"forget">>
    BY <1>1, <1>3, ClientCourses
  <2>2. Turn(s, <<"forget">>, m)
    BY <1>2, <2>1 DEF Pass
  <2>3. <<"forget">> # <<>>
    BY PairHeads, Zenon
  <2>4. /\ DOMAIN todo' = Slot /\ DOMAIN mem' = Slot /\ OthersWait(s)
        /\ todo'[s] = <<"forget">> /\ mem'[s] = mem[s]
    BY <1>2, <2>2, <2>3, ClientTurns DEF ClientsSound
  <2>5. \A x : At(s, x)' => x = "forget"
    BY <2>4, PairHeads, Zenon DEF At
  <2>6. <<"forget">> \in ClientCourse
    BY DEF ClientCourse
  <2>7. \A n : n = NextToken /\ NextToken' = n => Sent(s)'
    <3> SUFFICES ASSUME NEW n, n = NextToken, NextToken' = n PROVE Sent(s)'
      OBVIOUS
    <3> QED
      BY <1>1, <2>4, <2>5, <2>6 DEF Sent
  <2> QED
    BY <1>1, <1>3, <2>4, <2>5, <2>7
<1>4. CASE At(s, "forget")
  <2>1. Tail(todo[s]) = <<>>
    BY <1>1, <1>4, ClientCourses
  <2>2. Turn(s, <<>>, m)
    BY <1>2, <2>1 DEF Pass
  <2>3. DOMAIN todo' = Slot /\ DOMAIN mem' = Slot /\ OthersWait(s) /\ todo'[s] = <<>>
    BY <2>2, ClientTurns DEF ClientsSound
  <2>4. \A x : ~At(s, x)'
    BY <2>3 DEF At
  <2>5. Sent(s)'
    BY <2>3 DEF Sent, ClientCourse
  <2> QED
    BY <1>1, <1>4, <2>3, <2>4, <2>5
<1>5. CASE At(s, "exchange")
  <2>1. Tail(todo[s]) = <<"keep">>
    BY <1>1, <1>5, ClientCourses
  <2>2. Turn(s, <<"keep">>, m)
    BY <1>2, <2>1 DEF Pass
  <2>3. <<"keep">> # <<>>
    BY PairHeads, Zenon
  <2>4. /\ DOMAIN todo' = Slot /\ DOMAIN mem' = Slot /\ OthersWait(s)
        /\ todo'[s] = <<"keep">> /\ mem'[s] = mem[s]
    BY <1>2, <2>2, <2>3, ClientTurns DEF ClientsSound
  <2>5. \A x : At(s, x)' => x = "keep"
    BY <2>4, PairHeads, Zenon DEF At
  <2>6. <<"keep">> \in ClientCourse
    BY DEF ClientCourse
  <2>7. \A n : n = NextToken /\ NextToken' = n => Sent(s)'
    <3> SUFFICES ASSUME NEW n, n = NextToken, NextToken' = n PROVE Sent(s)'
      OBVIOUS
    <3> QED
      BY <1>1, <2>4, <2>5, <2>6 DEF Sent
  <2> QED
    BY <1>1, <1>5, <2>4, <2>5, <2>7
<1> QED
  BY <1>3, <1>4, <1>5

\* A request that is done, whatever came of it.
LEMMA ErrandDone ==
  ASSUME ClientsSound, NEW s \in Slot, Answer(s) \/ Turn(s, <<>>, mem[s])
  PROVE  /\ DOMAIN todo' = Slot /\ DOMAIN mem' = Slot /\ OthersWait(s) /\ todo'[s] = <<>>
         /\ (\A x : ~At(s, x)') /\ Sent(s)' /\ ~Trading(s)'
<1>1. PICK m : Turn(s, <<>>, m)
  BY DEF Answer
<1>2. DOMAIN todo' = Slot /\ DOMAIN mem' = Slot /\ OthersWait(s) /\ todo'[s] = <<>>
  BY <1>1, ClientTurns DEF ClientsSound
<1>3. \A x : ~At(s, x)'
  BY <1>2 DEF At
<1> QED
  BY <1>2, <1>3 DEF Sent, ClientCourse, Trading

\* The web interface logs out when it is refused, with the token it has then.
LEMMA ErrandTurns ==
  ASSUME ClientsSound, NEW s \in Slot, todo[s] # <<>>, NEW t \in Tab, t = mem[s].tab,
         Turn(s, <<"logout", "forget">>, Errand(t, held[t])),
         NextToken' = NextToken
  PROVE  /\ DOMAIN todo' = Slot /\ DOMAIN mem' = Slot /\ OthersWait(s) /\ todo'[s] # <<>>
         /\ mem'[s].got = 0 /\ mem'[s].tab = t /\ ~At(s, "exchange")' /\ ~Trading(s)' /\ Sent(s)'
<1>1. PICK token \in Nat : token = held[t] /\ token < NextToken
  BY StoredTyped
<1>2. PICK m : m = Errand(t, token)
  OBVIOUS
<1>3. Turn(s, <<"logout", "forget">>, m)
  BY <1>1, <1>2
<1>4. m \in ErrandRecord /\ m.tab = t /\ m.got = 0 /\ m.token = token /\ 0 < NextToken
  BY <1>1, <1>2, Errands
<1>5. <<"logout", "forget">> # <<>>
  BY PairHeads, Zenon
<1>6. /\ DOMAIN todo' = Slot /\ DOMAIN mem' = Slot /\ OthersWait(s)
      /\ todo'[s] = <<"logout", "forget">> /\ mem'[s] = m
  BY <1>3, <1>5, ClientTurns DEF ClientsSound
<1>7. \A x : At(s, x)' => x = "logout"
  BY <1>6, PairHeads, Zenon DEF At
<1>8. <<"logout", "forget">> \in ClientCourse
  BY DEF ClientCourse
<1>9. ~Trading(s)'
  BY <1>7 DEF Trading
<1>10. Sent(s)'
  BY <1>1, <1>4, <1>6, <1>7, <1>8 DEF Sent
<1> QED
  BY <1>4, <1>5, <1>6, <1>7, <1>9, <1>10

LEMMA ClientsCloseSession ==
  ASSUME ClientsSound, NEW s \in Slot, CloseSession(s)
  PROVE  ClientsSound'
<1>1. /\ At(s, "logout") /\ Pass(s) /\ client' = client /\ saved' = saved /\ held' = held
      /\ renewing' = renewing /\ alarmed' = alarmed /\ blamed' = blamed
  BY DEF CloseSession, clientVars
<1>2. /\ opened' \in Seq(SessionRecord) /\ DOMAIN opened' = DOMAIN opened
      /\ \A i \in DOMAIN opened :
           opened'[i].token = opened[i].token /\ opened'[i].previous = opened[i].previous
  <2>1. CASE opened' = opened
    BY <2>1, OpenedTyped DEF ClientsSound
  <2>2. CASE opened' = [i \in DOMAIN opened |->
                          IF opened[i].token = mem[s].token THEN [opened[i] EXCEPT !.revoked = TRUE]
                          ELSE opened[i]]
    <3>1. \A i \in DOMAIN opened : opened[i] \in SessionRecord
      BY OpenedTyped DEF ClientsSound
    <3>2. DOMAIN opened' = DOMAIN opened /\ \A i \in DOMAIN opened :
            /\ opened'[i] \in SessionRecord
            /\ opened'[i].token = opened[i].token /\ opened'[i].previous = opened[i].previous
      BY <2>2, <3>1 DEF SessionRecord
    <3>3. opened' \in [1 .. Len(opened) -> SessionRecord]
      BY <2>2, <3>2, OpenedTyped DEF ClientsSound
    <3> QED
      BY <3>2, <3>3, OpenedTyped, SeqDef DEF ClientsSound
  <2> QED
    BY <2>1, <2>2 DEF CloseSession
<1>3. /\ NextToken' = NextToken /\ (\A k : Used(k)' <=> Used(k)) /\ (\E n \in Nat : Newest(n))'
      /\ \A i \in DOMAIN opened' : opened'[i].previous < opened'[i].token
  BY <1>2, SameTokens DEF ClientsSound
<1>4. ClientsTypeOK' /\ TokensRise'
  BY <1>1, <1>2, <1>3 DEF ClientsSound, ClientsTypeOK, TokensRise, SessionRecord
<1>5. /\ DOMAIN todo' = Slot /\ DOMAIN mem' = Slot /\ OthersWait(s) /\ mem[s].got = 0 /\ todo[s] # <<>>
      /\ Sent(s)' /\ ~At(s, "keep") /\ ~At(s, "exchange")' /\ ~At(s, "exchange")
      /\ (At(s, "keep")' => At(s, "exchange")) /\ (todo'[s] = <<>> \/ mem'[s] = mem[s])
  BY <1>1, <1>3, ErrandPasses DEF At
<1>6. ~Trading(s)'
  BY <1>5 DEF Trading
<1> QED
  BY <1>1, <1>3, <1>4, <1>5, <1>6, ClientsAside

LEMMA ClientsForget ==
  ASSUME ClientsSound, NEW s \in Slot, ForgetTokens(s)
  PROVE  ClientsSound'
<1>1. /\ At(s, "forget") /\ Pass(s) /\ client' = client /\ saved' = 0
      /\ held' = [held EXCEPT ![mem[s].tab] = 0]
      /\ renewing' = renewing /\ opened' = opened /\ alarmed' = alarmed /\ blamed' = blamed
  BY DEF ForgetTokens, clientPast
<1>2. NextToken' = NextToken /\ \A k : Used(k)' <=> Used(k)
  BY <1>1, OpenedSame
<1>3. held' \in [Tab -> Nat] /\ \A t \in Tab : held'[t] < NextToken
  BY <1>1, StoredTyped
<1>4. ClientsTypeOK'
  BY <1>1, <1>3 DEF ClientsSound, ClientsTypeOK
<1>5. TokensRise'
  BY <1>1, <1>3, StoredTyped, TokensStay DEF ClientsSound
<1>6. DOMAIN todo' = Slot /\ DOMAIN mem' = Slot /\ OthersWait(s) /\ todo'[s] = <<>> /\ Sent(s)' /\ ~At(s, "keep")
  BY <1>1, <1>2, ErrandPasses DEF At
<1>7. ~Trading(s)'
  BY <1>6 DEF Trading, At
<1> QED
  BY <1>1, <1>2, <1>4, <1>5, <1>6, <1>7, ClientsAside

\* The answer is no.
LEMMA ClientsRefused ==
  ASSUME ClientsSound, NEW s \in Slot, Keep(s), mem[s].got = 0
  PROVE  ClientsSound'
<1>1. todo[s] \in ClientCourse /\ mem[s] \in ErrandRecord /\ todo[s] # <<>> /\ At(s, "keep")
  BY DEF ClientsSound, Sent, At, Keep
<1>2. PICK t \in Tab : t = mem[s].tab
  BY <1>1 DEF ErrandRecord
<1>3. /\ client' = client /\ saved' = (IF client = "web" THEN saved ELSE 0) /\ held' = held
      /\ renewing' = (IF mem[s].token = 0 THEN renewing ELSE renewing \ {t})
      /\ opened' = opened /\ alarmed' = alarmed /\ blamed' = blamed
      /\ IF client = "web" THEN Turn(s, <<"logout", "forget">>, Errand(t, held[t])) ELSE Pass(s)
  BY <1>2 DEF Keep, clientPast
<1>4. NextToken' = NextToken /\ \A k : Used(k)' <=> Used(k)
  BY <1>3, OpenedSame
<1>5. ClientsTypeOK'
  BY <1>3, StoredTyped DEF ClientsSound, ClientsTypeOK
<1>6. TokensRise'
  BY <1>3, StoredTyped, TokensStay DEF ClientsSound
<1>7. /\ DOMAIN todo' = Slot /\ DOMAIN mem' = Slot /\ OthersWait(s) /\ Sent(s)' /\ ~Trading(s)'
      /\ todo'[s] # <<>> => mem'[s].got = 0 /\ ~At(s, "exchange")' /\ mem'[s].tab = mem[s].tab
  <2>1. CASE client = "web"
    BY <1>1, <1>2, <1>3, <1>4, <2>1, ErrandTurns
  <2>2. CASE client # "web"
    <3>1. Tail(todo[s]) = <<>>
      BY <1>1, ClientCourses
    <3>2. Turn(s, <<>>, mem[s])
      BY <1>3, <2>2, <3>1 DEF Pass
    <3> QED
      BY <3>2, ErrandDone
  <2> QED
    BY <2>1, <2>2
<1>8. mem[s].token # 0 => Trading(s)
  BY <1>1 DEF Trading
<1>9. \/ renewing' = renewing
      \/ Trading(s) /\ renewing' = renewing \ {mem[s].tab} /\ ~Trading(s)'
  <2>1. CASE mem[s].token = 0
    BY <1>3, <2>1
  <2>2. CASE ~(mem[s].token = 0)
    <3>1. renewing' = renewing \ {t} /\ Trading(s)
      BY <1>3, <1>8, <2>2
    <3> QED
      BY <1>2, <1>7, <3>1
  <2> QED
    BY <2>1, <2>2
<1> QED
  BY <1>1, <1>3, <1>4, <1>5, <1>6, <1>7, <1>9, ClientsAside

\* No answer: the client lets go of what it asked.
LEMMA ClientsNoAnswer ==
  ASSUME ClientsSound, NEW s \in Slot, NoAnswer(s)
  PROVE  ClientsSound'
<1> DEFINE asking == At(s, "exchange") \/ (At(s, "keep") /\ mem[s].token # 0)
<1>1. todo[s] \in ClientCourse /\ mem[s] \in ErrandRecord /\ todo[s] # <<>> /\ ~At(s, "forget")
  BY DEF ClientsSound, Sent, At, NoAnswer
<1>2. PICK t \in Tab : t = mem[s].tab
  BY <1>1 DEF ErrandRecord
<1>3. /\ client' = client /\ saved' = (IF asking /\ client = "cli" THEN 0 ELSE saved) /\ held' = held
      /\ renewing' = (IF asking THEN renewing \ {t} ELSE renewing)
      /\ opened' = opened /\ alarmed' = alarmed
      /\ blamed' = (blamed \/ (asking /\ mem[s].got # 0))
      /\ \/ At(s, "logout") /\ Pass(s)
         \/ ~At(s, "logout") /\ Turn(s, <<"logout", "forget">>, Errand(t, held[t]))
         \/ ~At(s, "logout") /\ Answer(s)
  <2>1. \/ At(s, "logout") /\ Pass(s)
        \/ ~At(s, "logout") /\ Turn(s, <<"logout", "forget">>, Errand(t, held[t]))
        \/ ~At(s, "logout") /\ Answer(s)
    <3>1. CASE At(s, "logout")
      <4>1. ~At(s, "exchange") /\ ~At(s, "keep")
        BY <3>1 DEF At
      <4> QED
        BY <3>1, <4>1 DEF NoAnswer
    <3>2. CASE ~At(s, "logout") /\ asking /\ client = "web"
      BY <1>2, <3>2 DEF NoAnswer
    <3>3. CASE ~At(s, "logout") /\ ~(asking /\ client = "web")
      BY <3>3 DEF NoAnswer
    <3> QED
      BY <3>1, <3>2, <3>3
  <2> QED
    BY <1>2, <2>1 DEF NoAnswer
<1>4. NextToken' = NextToken /\ \A k : Used(k)' <=> Used(k)
  BY <1>3, OpenedSame
<1>5. ClientsTypeOK'
  BY <1>3, StoredTyped DEF ClientsSound, ClientsTypeOK
<1>6. TokensRise'
  BY <1>3, StoredTyped, TokensStay DEF ClientsSound
<1>7. /\ DOMAIN todo' = Slot /\ DOMAIN mem' = Slot /\ OthersWait(s) /\ Sent(s)' /\ ~Trading(s)'
      /\ todo'[s] # <<>> => mem'[s].got = 0 /\ ~At(s, "exchange")' /\ mem'[s].tab = mem[s].tab
  <2>1. CASE At(s, "logout") /\ Pass(s)
    <3>1. ~At(s, "exchange")
      BY <2>1 DEF At
    <3> QED
      BY <1>4, <2>1, <3>1, ErrandPasses DEF Trading
  <2>2. CASE Turn(s, <<"logout", "forget">>, Errand(t, held[t]))
    BY <1>1, <1>2, <1>4, <2>2, ErrandTurns
  <2>3. CASE Answer(s)
    BY <2>3, ErrandDone
  <2> QED
    BY <1>3, <2>1, <2>2, <2>3
<1>8. asking <=> Trading(s)
  BY DEF Trading
<1>9. \/ renewing' = renewing
      \/ Trading(s) /\ renewing' = renewing \ {mem[s].tab} /\ ~Trading(s)'
  <2>1. CASE ~asking
    BY <1>3, <2>1
  <2>2. CASE ~(~asking)
    <3>1. renewing' = renewing \ {t} /\ Trading(s)
      BY <1>3, <1>8, <2>2
    <3> QED
      BY <1>2, <1>7, <3>1
  <2> QED
    BY <2>1, <2>2
<1>10. At(s, "keep") /\ mem[s].got # 0 => mem[s].token = 0 \/ blamed'
  BY <1>3
<1>11. saved' = saved \/ saved' = 0
  BY <1>3
<1> QED
  BY <1>1, <1>3, <1>4, <1>5, <1>6, <1>7, <1>9, <1>10, <1>11, ClientsAside

\* A client presents the token it holds.
LEMMA ErrandPresents ==
  ASSUME ClientsSound, NEW s \in Slot, NEW t \in Tab, NEW token \in Nat, token # 0, token < NextToken,
         NEW m, m = Errand(t, token),
         Begin(s, <<"exchange", "keep">>, m) \/ Turn(s, <<"exchange", "keep">>, m),
         client' = client, opened' = opened, saved' = saved, held' \in [Tab -> Nat],
         \A x \in Tab : held'[x] < NextToken,
         alarmed' = alarmed, blamed' = (blamed \/ Met(t, token)),
         todo[s] = <<>> \/ (At(s, "call") /\ mem[s].tab = t),
         renewing' = renewing \cup {t} \/ (client # "sdk" /\ renewing' = renewing),
         client = "sdk" => t \notin renewing,
         client # "sdk" => \A u \in Slot \ {s} : todo[u] # <<>> => mem[u].tab # t
  PROVE  ClientsSound'
<1>1. <<"exchange", "keep">> # <<>>
  BY PairHeads, Zenon
<1>2. /\ DOMAIN todo' = Slot /\ DOMAIN mem' = Slot /\ OthersWait(s)
      /\ todo'[s] = <<"exchange", "keep">> /\ mem'[s] = Errand(t, token)
  BY <1>1, ClientTurns DEF ClientsSound
<1>3. blamed' \in BOOLEAN
  <2>1. blamed \in BOOLEAN
    BY DEF ClientsSound, ClientsTypeOK
  <2>2. CASE Met(t, token)
    BY <2>1, <2>2
  <2>3. CASE ~Met(t, token)
    BY <2>1, <2>3
  <2> QED
    BY <2>2, <2>3
<1>4. ClientsTypeOK'
  BY <1>3 DEF ClientsSound, ClientsTypeOK
<1>5. TokensRise'
  BY StoredTyped, TokensStay DEF ClientsSound
<1> QED
  BY <1>2, <1>4, <1>5, ClientsPresent

LEMMA ClientsCallAnswered ==
  ASSUME ClientsSound, NEW s \in Slot, CallAnswered(s)
  PROVE  ClientsSound'
<1>1. /\ todo[s] \in ClientCourse /\ mem[s] \in ErrandRecord /\ todo[s] # <<>> /\ At(s, "call")
      /\ mem[s].token # 0 /\ mem[s].token < NextToken /\ mem[s].token \in Nat
  BY DEF ClientsSound, Sent, At, CallAnswered, ErrandRecord
<1>2. PICK t \in Tab : t = mem[s].tab
  BY <1>1 DEF ErrandRecord
<1>3. /\ client' = client /\ saved' = saved /\ held' = held /\ opened' = opened /\ alarmed' = alarmed
      /\ \/ Answer(s) /\ renewing' = renewing /\ blamed' = blamed
         \/ client = "sdk" /\ Renew(s)
         \/ client = "cli" /\ Present(s, t, mem[s].token) /\ renewing' = renewing
  BY <1>2 DEF CallAnswered
<1>4. CASE Answer(s) /\ renewing' = renewing /\ blamed' = blamed
  <2>1. ClientsTypeOK' /\ TokensRise' /\ NextToken' = NextToken /\ \A k : Used(k)' <=> Used(k)
    BY <1>3, <1>4, StoresSame DEF ClientsSound, ClientsTypeOK
  <2>2. /\ DOMAIN todo' = Slot /\ DOMAIN mem' = Slot /\ OthersWait(s) /\ todo'[s] = <<>>
        /\ Sent(s)' /\ ~Trading(s)'
    BY <1>4, ErrandDone
  <2>3. ~At(s, "keep")
    BY <1>1 DEF At
  <2> QED
    BY <1>3, <1>4, <2>1, <2>2, <2>3, ClientsAside
<1>5. CASE client = "sdk" /\ Renew(s) /\ ~(Answer(s) /\ renewing' = renewing /\ blamed' = blamed)
  <2>1. saved # 0 /\ t \notin renewing /\ Present(s, t, saved) /\ renewing' = renewing \cup {t}
    BY <1>2, <1>5 DEF Renew
  <2>2. PICK token \in Nat : token = saved /\ token < NextToken
    BY StoredTyped
  <2>3. PICK m : m = Errand(t, token)
    OBVIOUS
  <2>4. Turn(s, <<"exchange", "keep">>, m) /\ blamed' = (blamed \/ Met(t, token))
    BY <2>1, <2>2, <2>3 DEF Present
  <2> QED
    BY <1>1, <1>2, <1>3, <1>5, <2>1, <2>2, <2>3, <2>4, StoredTyped, ErrandPresents
<1>6. CASE client = "cli" /\ Present(s, t, mem[s].token) /\ renewing' = renewing
  <2>1. PICK token \in Nat : token = mem[s].token /\ token < NextToken /\ token # 0
    BY <1>1
  <2>2. PICK m : m = Errand(t, token)
    OBVIOUS
  <2>3. Turn(s, <<"exchange", "keep">>, m) /\ blamed' = (blamed \/ Met(t, token))
    BY <1>6, <2>1, <2>2 DEF Present
  <2>4. \A u \in Slot \ {s} : todo[u] # <<>> => mem[u].tab # t
    BY <1>1, <1>2, <1>6 DEF ClientsSound, OneEach
  <2> QED
    BY <1>1, <1>2, <1>3, <1>6, <2>1, <2>2, <2>3, <2>4, StoredTyped, ErrandPresents
<1> QED
  BY <1>3, <1>4, <1>5, <1>6

LEMMA ClientsTick ==
  ASSUME ClientsSound, NEW s \in Slot, NEW t \in Tab, Tick(s, t)
  PROVE  ClientsSound'
<1>1. PICK token \in Nat : token = held[t] /\ token < NextToken /\ token # 0
  BY StoredTyped DEF Tick
<1>2. PICK m : m = Errand(t, token)
  OBVIOUS
<1>3. /\ Begin(s, <<"exchange", "keep">>, m) /\ blamed' = (blamed \/ Met(t, token))
      /\ client = "web" /\ Busy(t) = {}
      /\ client' = client /\ saved' = saved /\ held' = held /\ renewing' = renewing
      /\ opened' = opened /\ alarmed' = alarmed
  BY <1>1, <1>2 DEF Tick, clientVars
<1>4. \A u \in Slot \ {s} : todo[u] # <<>> => mem[u].tab # t
  BY <1>3 DEF Busy
<1>5. todo[s] = <<>>
  BY <1>3 DEF Begin
<1> QED
  BY <1>1, <1>2, <1>3, <1>4, <1>5, StoredTyped, ErrandPresents

LEMMA ClientsHydrate ==
  ASSUME ClientsSound, NEW s \in Slot, NEW t \in Tab, Hydrate(s, t)
  PROVE  ClientsSound'
<1>1. PICK token \in Nat : token = saved /\ token < NextToken /\ token # 0
  BY StoredTyped DEF Hydrate
<1>2. PICK m : m = Errand(t, token)
  OBVIOUS
<1>3. /\ Begin(s, <<"exchange", "keep">>, m) /\ blamed' = (blamed \/ Met(t, token))
      /\ client = "web" /\ Busy(t) = {}
      /\ client' = client /\ saved' = saved /\ held' = [held EXCEPT ![t] = token] /\ renewing' = renewing
      /\ opened' = opened /\ alarmed' = alarmed
  BY <1>1, <1>2 DEF Hydrate
<1>4. \A u \in Slot \ {s} : todo[u] # <<>> => mem[u].tab # t
  BY <1>3 DEF Busy
<1>5. todo[s] = <<>>
  BY <1>3 DEF Begin
<1>6. held' \in [Tab -> Nat] /\ \A x \in Tab : held'[x] < NextToken
  BY <1>1, <1>3, StoredTyped
<1> QED
  BY <1>1, <1>2, <1>3, <1>4, <1>5, <1>6, ErrandPresents

\* What the server answers goes with the request that asked.
LEMMA ErrandAnswered ==
  ASSUME ClientsSound, NEW s \in Slot, At(s, "login") \/ At(s, "exchange"),
         NEW n \in Nat, n = NextToken, Note(s, [mem[s] EXCEPT !.got = n])
  PROVE  /\ DOMAIN todo' = Slot /\ DOMAIN mem' = Slot /\ OthersWait(s) /\ todo'[s] = <<"keep">>
         /\ mem'[s] \in ErrandRecord /\ mem'[s].got = n
         /\ mem'[s].token = mem[s].token /\ mem'[s].tab = mem[s].tab
<1>1. todo[s] \in ClientCourse /\ mem[s] \in ErrandRecord
  BY DEF ClientsSound, Sent, At
<1>2. Tail(todo[s]) = <<"keep">>
  BY <1>1, ClientCourses
<1>3. PICK m : m = [mem[s] EXCEPT !.got = n]
  OBVIOUS
<1>4. m \in ErrandRecord /\ m.got = n /\ m.token = mem[s].token /\ m.tab = mem[s].tab
  BY <1>1, <1>3 DEF ErrandRecord
<1>5. Turn(s, <<"keep">>, m)
  BY <1>2, <1>3 DEF Note
<1>6. <<"keep">> # <<>>
  BY PairHeads, Zenon
<1>7. DOMAIN todo' = Slot /\ DOMAIN mem' = Slot /\ OthersWait(s) /\ todo'[s] = <<"keep">> /\ mem'[s] = m
  BY <1>5, <1>6, ClientTurns DEF ClientsSound
<1> QED
  BY <1>4, <1>7

LEMMA ClientsOpenSession ==
  ASSUME ClientsSound, NEW s \in Slot, OpenSession(s)
  PROVE  ClientsSound'
<1>1. PICK n \in Nat : n = NextToken /\ 0 < n /\ \A m \in Tokens : m < n
  BY NextIsNew DEF ClientsSound
<1>2. PICK e : e = [token |-> n, previous |-> 0, revoked |-> FALSE]
  OBVIOUS
<1>3. /\ At(s, "login") /\ opened' = Append(opened, e) /\ Note(s, [mem[s] EXCEPT !.got = n])
      /\ client' = client /\ saved' = saved /\ held' = held /\ renewing' = renewing
      /\ alarmed' = alarmed /\ blamed' = blamed
  BY <1>1, <1>2 DEF OpenSession, clientVars
<1>4. /\ opened \in Seq(SessionRecord) /\ DOMAIN opened = 1 .. Len(opened) /\ Len(opened) \in Nat
      /\ e \in SessionRecord /\ e.token = n /\ e.previous = 0 /\ Tokens \subseteq Nat
  BY <1>1, <1>2, OpenedTyped DEF ClientsSound, SessionRecord
<1>5. /\ opened' \in Seq(SessionRecord) /\ DOMAIN opened' = 1 .. Len(opened) + 1
      /\ opened'[Len(opened) + 1] = e /\ \A i \in DOMAIN opened : opened'[i] = opened[i]
  BY <1>3, <1>4, AppendProperties
<1>6. \A i \in DOMAIN opened' : i = Len(opened) + 1 \/ i \in DOMAIN opened
  BY <1>4, <1>5
<1>7. Tokens' = Tokens \cup {n}
  BY <1>4, <1>5, <1>6 DEF Tokens
<1>8. NextToken' = n + 1 /\ (\E k \in Nat : Newest(k))'
  <2>1. opened' # <<>>
    BY <1>4, <1>5
  <2>2. /\ NextToken \in Tokens' /\ Tokens' \subseteq Nat
        /\ \A m \in Tokens' : m <= NextToken
    BY <1>1, <1>4, <1>7
  <2> QED
    BY <1>1, <2>1, <2>2, TokenIssued DEF ClientsSound
<1>9. \A i \in DOMAIN opened' : opened'[i].previous < opened'[i].token
  BY <1>1, <1>4, <1>5, <1>6 DEF ClientsSound, TokensRise
<1>10. ClientsTypeOK'
  BY <1>3, <1>5 DEF ClientsSound, ClientsTypeOK, SessionRecord
<1>11. TokensRise'
  BY <1>1, <1>3, <1>8, <1>9, StoredTyped DEF TokensRise
<1>12. \A k : k # 0 /\ Used(k)' => Used(k)
  BY <1>4, <1>5, <1>6 DEF Used
<1>13. /\ DOMAIN todo' = Slot /\ DOMAIN mem' = Slot /\ OthersWait(s) /\ todo'[s] = <<"keep">>
       /\ mem'[s] \in ErrandRecord /\ mem'[s].got = n
       /\ mem'[s].token = mem[s].token /\ mem'[s].tab = mem[s].tab
  BY <1>1, <1>3, ErrandAnswered
<1> QED
  BY <1>1, <1>3, <1>8, <1>10, <1>11, <1>12, <1>13, ClientsIssued

\* A token that is live is exchanged for the next.
LEMMA ClientsExchanged ==
  ASSUME ClientsSound, NEW s \in Slot, Exchange(s), Live(mem[s].token) # {}
  PROVE  ClientsSound'
<1>1. PICK n \in Nat : n = NextToken /\ 0 < n /\ \A m \in Tokens : m < n
  BY NextIsNew DEF ClientsSound
<1>2. PICK token \in Nat : token = mem[s].token /\ token < n
  BY <1>1 DEF ClientsSound, Sent, Exchange, At, ErrandRecord
<1>3. /\ At(s, "exchange") /\ Note(s, [mem[s] EXCEPT !.got = n])
      /\ opened' = [i \in DOMAIN opened |->
                      IF i \in Live(token) THEN [opened[i] EXCEPT !.token = n, !.previous = token]
                      ELSE opened[i]]
      /\ client' = client /\ saved' = saved /\ held' = held /\ renewing' = renewing
      /\ alarmed' = alarmed /\ blamed' = blamed
  BY <1>1, <1>2 DEF Exchange, clientVars
<1>4. /\ opened \in Seq(SessionRecord) /\ DOMAIN opened = 1 .. Len(opened) /\ Len(opened) \in Nat
      /\ (\A i \in DOMAIN opened : opened[i] \in SessionRecord) /\ Tokens \subseteq Nat
      /\ Live(token) \subseteq DOMAIN opened
  BY OpenedTyped DEF ClientsSound, Live
<1>5. /\ DOMAIN opened' = DOMAIN opened
      /\ \A i \in DOMAIN opened :
           /\ opened'[i] \in SessionRecord
           /\ i \in Live(token) => opened'[i].token = n /\ opened'[i].previous = token
           /\ i \notin Live(token) => opened'[i] = opened[i]
  BY <1>3, <1>4 DEF SessionRecord
<1>6. opened' \in Seq(SessionRecord)
  <2>1. opened' \in [1 .. Len(opened) -> SessionRecord]
    BY <1>3, <1>4, <1>5
  <2> QED
    BY <1>4, <2>1, SeqDef
<1>7. n \in Tokens' /\ Tokens' \subseteq Tokens \cup {n} /\ opened' # <<>>
  <2>1. PICK i \in Live(token) : i \in DOMAIN opened
    BY <1>2, <1>4
  <2>2. opened'[i].token = n /\ i \in DOMAIN opened'
    BY <1>5, <2>1
  <2>3. Tokens' \subseteq Tokens \cup {n}
    BY <1>5 DEF Tokens
  <2>4. n \in Tokens'
    BY <2>2 DEF Tokens
  <2>5. opened' # <<>>
    BY <2>2
  <2> QED
    BY <2>3, <2>4, <2>5
<1>8. NextToken' = n + 1 /\ (\E k \in Nat : Newest(k))'
  <2>1. /\ NextToken \in Tokens' /\ Tokens' \subseteq Nat
        /\ \A m \in Tokens' : m <= NextToken
    BY <1>1, <1>4, <1>7
  <2> QED
    BY <1>1, <1>7, <2>1, TokenIssued DEF ClientsSound
<1>9. \A i \in DOMAIN opened' : opened'[i].previous < opened'[i].token
  BY <1>2, <1>5 DEF ClientsSound, TokensRise
<1>10. ClientsTypeOK'
  BY <1>3, <1>6 DEF ClientsSound, ClientsTypeOK, SessionRecord
<1>11. TokensRise'
  <2>1. saved' < n + 1 /\ \A t \in Tab : held'[t] < n + 1
    <3>1. /\ saved \in Nat /\ saved < n /\ \A t \in Tab : held[t] \in Nat /\ held[t] < n
      BY <1>1, StoredTyped
    <3>2. saved' = saved /\ held' = held
      BY <1>3
    <3> QED
      BY <3>1, <3>2
  <2> QED
    BY <1>8, <1>9, <2>1 DEF TokensRise
<1>12. \A k : Used(k)' => Used(k) \/ k = token
  BY <1>5 DEF Used
<1>13. /\ DOMAIN todo' = Slot /\ DOMAIN mem' = Slot /\ OthersWait(s) /\ todo'[s] = <<"keep">>
       /\ mem'[s] \in ErrandRecord /\ mem'[s].got = n
       /\ mem'[s].token = mem[s].token /\ mem'[s].tab = mem[s].tab
  BY <1>1, <1>3, ErrandAnswered
<1> QED
  BY <1>1, <1>2, <1>3, <1>8, <1>10, <1>11, <1>12, <1>13, ClientsIssued

\* A token that is not live: a used one ends every session.
LEMMA ClientsTurnedAway ==
  ASSUME ClientsSound, NEW s \in Slot, Exchange(s), Live(mem[s].token) = {}
  PROVE  ClientsSound'
<1>1. /\ At(s, "exchange") /\ Pass(s)
      /\ opened' = (IF Used(mem[s].token) THEN RevokeEvery ELSE opened)
      /\ alarmed' = (alarmed \/ Used(mem[s].token))
      /\ client' = client /\ saved' = saved /\ held' = held /\ renewing' = renewing /\ blamed' = blamed
  BY DEF Exchange, clientVars
<1>2. /\ opened' \in Seq(SessionRecord) /\ DOMAIN opened' = DOMAIN opened
      /\ \A i \in DOMAIN opened :
           opened'[i].token = opened[i].token /\ opened'[i].previous = opened[i].previous
  <2>1. CASE opened' = opened
    BY <2>1, OpenedTyped DEF ClientsSound
  <2>2. CASE opened' = [i \in DOMAIN opened |-> [opened[i] EXCEPT !.revoked = TRUE]]
    <3>1. \A i \in DOMAIN opened : opened[i] \in SessionRecord
      BY OpenedTyped DEF ClientsSound
    <3>2. DOMAIN opened' = DOMAIN opened /\ \A i \in DOMAIN opened :
            /\ opened'[i] \in SessionRecord
            /\ opened'[i].token = opened[i].token /\ opened'[i].previous = opened[i].previous
      BY <2>2, <3>1 DEF SessionRecord
    <3>3. opened' \in [1 .. Len(opened) -> SessionRecord]
      BY <2>2, <3>2, OpenedTyped DEF ClientsSound
    <3> QED
      BY <3>2, <3>3, OpenedTyped, SeqDef DEF ClientsSound
  <2> QED
    BY <1>1, <2>1, <2>2 DEF RevokeEvery
<1>3. /\ NextToken' = NextToken /\ (\A k : Used(k)' <=> Used(k)) /\ (\E n \in Nat : Newest(n))'
      /\ \A i \in DOMAIN opened' : opened'[i].previous < opened'[i].token
  BY <1>2, SameTokens DEF ClientsSound
<1>4. ClientsTypeOK'
  <2>1. Used(mem[s].token) \in BOOLEAN
    BY DEF Used
  <2>2. alarmed' \in BOOLEAN
    BY <1>1, <2>1 DEF ClientsSound, ClientsTypeOK
  <2> QED
    BY <1>1, <1>2, <2>2 DEF ClientsSound, ClientsTypeOK, SessionRecord
<1>5. TokensRise'
  BY <1>1, <1>3 DEF ClientsSound, TokensRise
<1>6. /\ DOMAIN todo' = Slot /\ DOMAIN mem' = Slot /\ OthersWait(s) /\ mem[s].got = 0 /\ todo[s] # <<>>
      /\ Sent(s)' /\ ~At(s, "keep") /\ ~At(s, "exchange")' /\ todo'[s] = <<"keep">> /\ mem'[s] = mem[s]
  BY <1>1, <1>3, ErrandPasses DEF At
<1>7. Trading(s)
  BY <1>1 DEF Trading
<1>8. alarmed' => alarmed \/ blamed'
  BY <1>1 DEF ClientsSound, TradeIsSafe
<1> QED
  BY <1>1, <1>3, <1>4, <1>5, <1>6, <1>7, <1>8, ClientsAside

LEMMA ClientsSessionEnds ==
  ASSUME ClientsSound, NEW i \in DOMAIN opened, SessionEnds(i)
  PROVE  ClientsSound'
<1>1. /\ opened' = [opened EXCEPT ![i].revoked = TRUE] /\ todo' = todo /\ mem' = mem
      /\ UNCHANGED clientVars /\ UNCHANGED <<alarmed, blamed>>
  BY DEF SessionEnds, requests
<1>2. /\ opened \in Seq(SessionRecord) /\ DOMAIN opened = 1 .. Len(opened)
      /\ \A j \in DOMAIN opened : opened[j] \in SessionRecord
  BY OpenedTyped DEF ClientsSound
<1>3. DOMAIN opened' = DOMAIN opened /\ \A j \in DOMAIN opened :
        /\ opened'[j] \in SessionRecord
        /\ opened'[j].token = opened[j].token /\ opened'[j].previous = opened[j].previous
  BY <1>1, <1>2 DEF SessionRecord
<1>4. opened' \in Seq(SessionRecord)
  BY <1>1, <1>2, <1>3, ExceptSeq DEF SessionRecord
<1> QED
  BY <1>1, <1>3, <1>4, ClientsStill

-----------------------------------------------------------------------------
(* Clients, all together. *)

LEMMA ClientsSoundStart == ClientsInit => ClientsSound
<1> SUFFICES ASSUME ClientsInit PROVE ClientsSound
  OBVIOUS
<1>1. todo = [s \in Slot |-> <<>>] /\ mem = [s \in Slot |-> Nothing]
  BY DEF ClientsInit, RequestsInit
<1>2. \A s \in Slot : todo[s] = <<>> /\ \A x : ~At(s, x)
  BY <1>1 DEF At
<1>3. ClientsTypeOK
  BY EmptySeq DEF ClientsInit, ClientsTypeOK
<1>4. TokensRise
  <2>1. opened = <<>> /\ DOMAIN opened = {} /\ Newest(0)
    BY DEF ClientsInit, Newest
  <2>2. NextToken = 0 + 1
    BY <1>3, <2>1, OpenedTyped, NewestIsOne
  <2> QED
    BY <2>1, <2>2 DEF ClientsInit, TokensRise
<1>5. (\A s \in Slot : Sent(s)) /\ OneEach
  BY <1>2 DEF Sent, OneEach, ClientCourse
<1>6. TradeIsSafe /\ ~alarmed
  BY <1>2 DEF TradeIsSafe, Trading, ClientsInit
<1> QED
  BY <1>1, <1>3, <1>4, <1>5, <1>6 DEF ClientsSound

LEMMA ClientsSoundKept ==
  ASSUME ClientsSound, [ClientsNext]_clientsVars
  PROVE  ClientsSound'
<1>1. ASSUME NEW s \in Slot, NEW t \in Tab,
             SignIn(s, t) \/ SignOut(s, t) \/ Call(s, t) \/ Tick(s, t) \/ Hydrate(s, t)
      PROVE  ClientsSound'
  BY <1>1, ClientsSignIn, ClientsSignOut, ClientsCall, ClientsTick, ClientsHydrate
<1>2. ASSUME NEW s \in Slot,
             \/ OpenSession(s) \/ CloseSession(s) \/ ForgetTokens(s) \/ CallAnswered(s)
             \/ Exchange(s) \/ Keep(s) \/ NoAnswer(s)
      PROVE  ClientsSound'
  BY <1>2, ClientsOpenSession, ClientsCloseSession, ClientsForget, ClientsCallAnswered,
     ClientsExchanged, ClientsTurnedAway, ClientsKeep, ClientsRefused, ClientsNoAnswer
<1>3. ASSUME NEW t \in Tab, LeavePage(t) PROVE ClientsSound'
  BY <1>3, ClientsLeave
<1>4. ASSUME NEW i \in DOMAIN opened, SessionEnds(i) PROVE ClientsSound'
  BY <1>4, ClientsSessionEnds
<1>5. ASSUME UNCHANGED clientsVars PROVE ClientsSound'
  <2>1. /\ todo' = todo /\ mem' = mem /\ UNCHANGED clientVars /\ UNCHANGED <<alarmed, blamed>>
        /\ opened' = opened
    BY <1>5 DEF clientsVars, requests, clientPast
  <2>2. opened \in Seq(SessionRecord)
    BY OpenedTyped DEF ClientsSound
  <2> QED
    BY <2>1, <2>2, ClientsStill
<1> QED
  BY <1>1, <1>2, <1>3, <1>4, <1>5 DEF ClientsNext

LEMMA ClientsStaySound == ClientsSpec => []ClientsSound
<1>1. ClientsSound /\ [ClientsNext]_clientsVars => ClientsSound'
  BY ClientsSoundKept
<1> QED
  BY <1>1, ClientsSoundStart, PTL DEF ClientsSpec

\* A client's memory and storage, and the server's sessions, have their types.
THEOREM ClientsTyped == ClientsSpec => []ClientsTypeOK
<1>1. ClientsSound => ClientsTypeOK
  BY DEF ClientsSound
<1> QED
  BY <1>1, ClientsStaySound, PTL

\* A client alone with its storage, whose requests are answered, never presents
\* a used token: doRefresh's promise, the page's one timer and the command's one
\* request keep its exchanges apart, whatever its calls and logouts do.
THEOREM ClientsAreNeverThieves == ClientsSpec => []AloneIsNeverAThief
<1>1. ClientsSound => AloneIsNeverAThief
  BY DEF ClientsSound, AloneIsNeverAThief
<1> QED
  BY <1>1, ClientsStaySound, PTL
=============================================================================

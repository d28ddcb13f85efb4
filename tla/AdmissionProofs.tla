--------------------------- MODULE AdmissionProofs ---------------------------
(***************************************************************************)
(* Proofs about what is handed out against something that is used up: the  *)
(* code of an authorization request and the codes handed to a browser      *)
(* (OAuth), the uses of an invite, the quota of a partner and the blind    *)
(* token of a pseudonym (Registration), a proof shown to the chain oracle  *)
(* (Oracle); and about who is admitted to a community, their record, their *)
(* role and whom they delegate to (Communities).  For any number of        *)
(* requests at a time and ever made.                                       *)
(***************************************************************************)
EXTENDS OAuth, Registration, Oracle, Communities, RequestsProofs, FiniteSetTheorems

-----------------------------------------------------------------------------
(* OAuth: an authorization code buys one token. *)

OAuthStatement == {"merge", "token", "rotate", "delete", "outsider", "handoff"}

\* Who is about to create the token is alone, and the request it was bought
\* with is gone.
Buys(s) == "token" \in Steps(s)
CodeSpent ==
  /\ bought <= 1
  /\ grant # "gone" => bought = 0
  /\ \A s \in Slot : Buys(s) => grant = "gone" /\ bought = 0
  /\ \A s, t \in Slot : Buys(s) /\ Buys(t) => s = t

\* A handoff code is waiting or was redeemed, and there is one of each.
CodesApart ==
  /\ \A i \in DOMAIN handoffs : handoffs[i].code \in 1 .. named
  /\ \A i, j \in DOMAIN handoffs : handoffs[i].code = handoffs[j].code => i = j
  /\ \A i \in DOMAIN redeemed : redeemed[i] \in 1 .. named
  /\ \A i, j \in DOMAIN redeemed : redeemed[i] = redeemed[j] => i = j
  /\ \A i \in DOMAIN handoffs, j \in DOMAIN redeemed : handoffs[i].code # redeemed[j]

\* What a request at one of the stores has been given.
Given(s) ==
  /\ Buys(s) => todo[s] = <<"token">>
  /\ "merge" \in Steps(s) => mem[s].data \in {"asked", "granted"}
  /\ {"outsider", "handoff"} \cap Steps(s) # {} =>
       /\ todo[s] \in {<<"outsider", "handoff">>, <<"handoff">>}
       /\ mem[s].who \in Outsider /\ mem[s].web \in BOOLEAN /\ mem[s].challenge \in BOOLEAN

OAuthSound ==
  /\ OAuthTypeOK /\ Requested(OAuthStatement) /\ \A s \in Slot : Given(s)
  /\ CodeSpent /\ CodesApart

LEMMA OthersGiven ==
  ASSUME NEW s \in Slot, OthersWait(s), \A t \in Slot : Given(t), Given(s)'
  PROVE  \A t \in Slot : Given(t)'
<1>1. \A t \in Slot \ {s} : Steps(t)' = Steps(t) /\ todo'[t] = todo[t] /\ mem'[t] = mem[t]
  BY DEF OthersWait, Steps
<1> QED
  BY <1>1 DEF Given, Buys

LEMMA EmptyGiven ==
  ASSUME NEW s, todo'[s] = <<>>
  PROVE  Given(s)' /\ ~Buys(s)'
BY NoneLeft DEF Given, Buys

\* What no buyer does leaves the code as spent as it was.
LEMMA CodeStays ==
  ASSUME NEW s \in Slot, OthersWait(s), CodeSpent, ~Buys(s)', bought' = bought,
         grant = "gone" => grant' = "gone"
  PROVE  CodeSpent'
<1>1. \A t \in Slot \ {s} : Buys(t)' = Buys(t)
  BY DEF OthersWait, Buys, Steps
<1> QED
  BY <1>1 DEF CodeSpent

LEMMA CodesStay ==
  ASSUME CodesApart, named \in Nat, named' \in Nat, named <= named',
         handoffs' = handoffs, redeemed' = redeemed
  PROVE  CodesApart'
<1>1. \A n \in 1 .. named : n \in 1 .. named'
  OBVIOUS
<1> QED
  BY <1>1 DEF CodesApart

\* A statement that is not the token's is followed by none that buys.
LEMMA PassesGiven ==
  ASSUME Requested(OAuthStatement), NEW s \in Slot, NEW x, At(s, x), x # "token", Given(s), Pass(s)
  PROVE  Requested(OAuthStatement)' /\ OthersWait(s) /\ Given(s)' /\ ~Buys(s)'
<1>1. /\ Requested(OAuthStatement)' /\ OthersWait(s) /\ Follows(s, x)
      /\ Steps(s)' # {} => mem'[s] = mem[s]
  BY PassMoves
<1>2. ~Buys(s) /\ Steps(s)' \subseteq Steps(s)
  BY <1>1 DEF Given, At, Follows
<1>3. "merge" \in Steps(s)' => mem'[s].data \in {"asked", "granted"}
  BY <1>1, <1>2 DEF Given
<1>4. ASSUME {"outsider", "handoff"} \cap Steps(s)' # {}
      PROVE  /\ todo'[s] \in {<<"outsider", "handoff">>, <<"handoff">>}
             /\ mem'[s].who \in Outsider /\ mem'[s].web \in BOOLEAN /\ mem'[s].challenge \in BOOLEAN
  <2>1. /\ todo[s] \in {<<"outsider", "handoff">>, <<"handoff">>}
        /\ todo'[s] = Tail(todo[s]) /\ todo'[s] # <<>>
    BY <1>1, <1>2, <1>4, NoneLeft DEF Given, Follows
  <2>2. Tail(<<"outsider", "handoff">>) = <<"handoff">> /\ Tail(<<"handoff">>) = <<>>
    OBVIOUS
  <2>3. todo'[s] = <<"handoff">>
    BY <2>1, <2>2
  <2> QED
    BY <1>1, <1>2, <1>4, <2>3 DEF Given
<1> QED
  BY <1>1, <1>2, <1>3, <1>4 DEF Given, Buys


Code == [code : Nat, web : BOOLEAN, challenge : BOOLEAN]

\* Requests that begin with one statement, or with none.
LEMMA StoreOpens ==
  ASSUME Requested(OAuthStatement), NEW s \in Slot, NEW x \in OAuthStatement \ {"outsider", "handoff"},
         NEW m, Begin(s, <<x>>, m), x = "merge" => m.data \in {"asked", "granted"}
  PROVE  /\ Requested(OAuthStatement)' /\ OthersWait(s) /\ Given(s)'
         /\ ~Buys(s) /\ (Buys(s)' => x = "token")
<1>1. <<x>> \in Seq(OAuthStatement) /\ <<x>> # <<>>
  BY ShortSeqs
<1> DEFINE steps == <<x>>
<1>2. /\ Requested(OAuthStatement)' /\ OthersWait(s)
      /\ todo[s] = <<>> /\ todo'[s] = steps /\ mem'[s] = m
  <2> HIDE DEF steps
  <2> QED
    BY <1>1, BeginMoves DEF steps
<1>3. Steps(s)' = {x}
  BY <1>2, OneLeft
<1> QED
  BY <1>2, <1>3, NoSteps DEF Given, Buys

LEMMA StoreAtOnce ==
  ASSUME Requested(OAuthStatement), NEW s \in Slot, AtOnce(s) \/ Answer(s)
  PROVE  Requested(OAuthStatement)' /\ OthersWait(s) /\ Given(s)' /\ ~Buys(s)'
BY AtOnceMoves, AnswerMoves, EmptyGiven

\* Steps that leave the handoff codes alone.
LEMMA StoreSteps ==
  ASSUME OAuthSound, NEW s \in Slot,
         Requested(OAuthStatement)', OthersWait(s), Given(s)', OAuthTypeOK', CodeSpent',
         handoffs' = handoffs, redeemed' = redeemed, named <= named'
  PROVE  OAuthSound'
<1>1. CodesApart'
  BY CodesStay DEF OAuthSound, OAuthTypeOK
<1> QED
  BY <1>1, OthersGiven DEF OAuthSound

LEMMA RequestsKeep ==
  ASSUME OAuthSound, NEW s \in Slot,
         \/ CreateRequest(s) \/ DeleteRequest(s) \/ UpdateRequest(s) \/ MergeRequest(s)
         \/ ReplayCode(s) \/ \E r : FindByRefresh(s, r)
  PROVE  OAuthSound'
<1>1. Requested(OAuthStatement) /\ Given(s) /\ CodeSpent /\ OAuthTypeOK
  BY DEF OAuthSound
<1>2. /\ Requested(OAuthStatement)' /\ OthersWait(s) /\ Given(s)' /\ ~Buys(s)'
      /\ grant = "gone" => grant' = "gone"
      /\ grant' \in {"none", "asked", "granted", "gone"}
  <2>1. CASE CreateRequest(s) \/ DeleteRequest(s)
    BY <1>1, <2>1, StoreAtOnce DEF CreateRequest, DeleteRequest, RequestStands
  <2>2. CASE UpdateRequest(s)
    <3>1. PICK new \in {"asked", "granted"} :
            Begin(s, <<"merge">>, [what |-> "update", data |-> new]) /\ UNCHANGED oauthTables
      BY <2>2 DEF UpdateRequest, RequestStands
    <3>2. [what |-> "update", data |-> new].data = new
      OBVIOUS
    <3> QED
      BY <1>1, <3>1, <3>2, StoreOpens DEF oauthTables, OAuthStatement, OAuthTypeOK
  <2>3. CASE MergeRequest(s)
    <3>1. At(s, "merge") /\ Pass(s) /\ grant' = IF RequestStands THEN mem[s].data ELSE grant
      BY <2>3 DEF MergeRequest
    <3>2. mem[s].data \in {"asked", "granted"}
      BY <1>1, <3>1, NextIsPending DEF Given
    <3> QED
      BY <1>1, <3>1, <3>2, PassesGiven DEF RequestStands, OAuthTypeOK
  <2>4. CASE ReplayCode(s) \/ \E r : FindByRefresh(s, r)
    <3>0. PICK x \in {"rotate", "delete"} : \E m : Begin(s, <<x>>, m) /\ UNCHANGED oauthTables
      BY <2>4 DEF ReplayCode, FindByRefresh
    <3>1. PICK m : Begin(s, <<x>>, m) /\ UNCHANGED oauthTables
      BY <3>0
    <3> QED
      BY <1>1, <3>1, StoreOpens DEF oauthTables, OAuthStatement, OAuthTypeOK
  <2> QED
    BY <2>1, <2>2, <2>3, <2>4
<1>3. UNCHANGED <<grants, used, named, outsiders, handoffs, bought, redeemed>>
  BY DEF CreateRequest, DeleteRequest, UpdateRequest, MergeRequest, ReplayCode, FindByRefresh,
     oauthTables
<1>4. CodeSpent'
  BY <1>1, <1>2, <1>3, CodeStays
<1>5. OAuthTypeOK'
  BY <1>1, <1>2, <1>3 DEF OAuthTypeOK, ReferencesHold
<1>6. named <= named'
  BY <1>1, <1>3 DEF OAuthTypeOK
<1> QED
  BY <1>2, <1>3, <1>4, <1>5, <1>6, StoreSteps

\* The code is gone before its token is made, and the token is made once.
LEMMA CodeKeeps ==
  ASSUME OAuthSound, NEW s \in Slot, ConsumeCode(s) \/ CreateToken(s)
  PROVE  OAuthSound'
<1>1. Requested(OAuthStatement) /\ Given(s) /\ CodeSpent /\ OAuthTypeOK
  BY DEF OAuthSound
<1>2. CASE ConsumeCode(s)
  <2>1. /\ grant = "granted" /\ grant' = "gone" /\ Begin(s, <<"token">>, [what |-> "code"])
        /\ UNCHANGED <<grants, used, named, outsiders, handoffs, bought, redeemed>>
    BY <1>2 DEF ConsumeCode
  <2>2. Requested(OAuthStatement)' /\ OthersWait(s) /\ Given(s)'
    BY <1>1, <2>1, StoreOpens DEF OAuthStatement
  <2>3. \A t \in Slot \ {s} : ~Buys(t)'
    BY <1>1, <2>1, <2>2 DEF CodeSpent, OthersWait, Buys, Steps
  <2>4. CodeSpent'
    BY <1>1, <2>1, <2>3 DEF CodeSpent
  <2>5. OAuthTypeOK' /\ named <= named'
    BY <1>1, <2>1 DEF OAuthTypeOK, ReferencesHold
  <2> QED
    BY <2>1, <2>2, <2>4, <2>5, StoreSteps
<1>3. CASE CreateToken(s)
  <2>1. PICK refresh \in {0, named + 2} :
          /\ At(s, "token") /\ Pass(s)
          /\ grants' = grants \cup {[id |-> named + 1, refresh |-> refresh, byCode |-> TRUE]}
          /\ named' = named + 2 /\ bought' = bought + 1
          /\ UNCHANGED <<grant, used, outsiders, handoffs, redeemed>>
    BY <1>3 DEF CreateToken
  <2>2. /\ Requested(OAuthStatement)' /\ OthersWait(s) /\ Follows(s, "token")
    BY <1>1, <2>1, PassMoves
  <2>3. Buys(s) /\ todo[s] = <<"token">>
    BY <1>1, <2>1, NextIsPending DEF Buys, Given
  <2>4. todo'[s] = <<>>
    <3>1. Tail(<<"token">>) = <<>>
      OBVIOUS
    <3> QED
      BY <2>2, <2>3, <3>1 DEF Follows
  <2>5. Given(s)' /\ ~Buys(s)'
    BY <2>4, EmptyGiven
  <2>6. \A t \in Slot \ {s} : ~Buys(t)'
    BY <1>1, <2>2, <2>3 DEF CodeSpent, OthersWait, Buys, Steps
  <2>7. CodeSpent'
    BY <1>1, <2>1, <2>3, <2>5, <2>6 DEF CodeSpent
  <2>8. OAuthTypeOK' /\ named <= named'
    <3> DEFINE row == [id |-> named + 1, refresh |-> refresh, byCode |-> TRUE]
    <3>2. ReferencesHold(grants, used) => ReferencesHold(grants \cup {row}, used)
      BY DEF ReferencesHold
    <3>3. grants' = grants \cup {row} /\ row \in [id : Nat, refresh : Nat, byCode : BOOLEAN]
      <4>1. named \in Nat
        BY <1>1 DEF OAuthTypeOK
      <4>2. refresh \in Nat /\ named + 1 \in Nat
        BY <2>1, <4>1
      <4> QED
        BY <2>1, <4>2
    <3>4. named' \in Nat /\ bought' \in Nat /\ named <= named'
      BY <1>1, <2>1 DEF OAuthTypeOK
    <3> HIDE DEF row
    <3> QED
      BY <1>1, <2>1, <3>2, <3>3, <3>4 DEF OAuthTypeOK
  <2> QED
    BY <2>1, <2>2, <2>5, <2>7, <2>8, StoreSteps
<1> QED
  BY <1>2, <1>3

LEMMA TokensKeep ==
  ASSUME OAuthSound, NEW s \in Slot, RotateToken(s) \/ DeleteToken(s)
  PROVE  OAuthSound'
<1>1. Requested(OAuthStatement) /\ Given(s) /\ CodeSpent /\ OAuthTypeOK
  BY DEF OAuthSound
<1>2. PICK x \in {"rotate", "delete"} :
        /\ At(s, x) /\ Pass(s)
        /\ UNCHANGED <<grant, outsiders, handoffs, bought, redeemed>>
  BY DEF RotateToken, DeleteToken
<1>3. Requested(OAuthStatement)' /\ OthersWait(s) /\ Given(s)' /\ ~Buys(s)'
  BY <1>1, <1>2, PassesGiven
<1>4. /\ grants' \subseteq [id : Nat, refresh : Nat, byCode : BOOLEAN]
      /\ used' \subseteq [refresh : Nat, id : Nat] /\ ReferencesHold(grants', used')
      /\ named' \in Nat /\ named <= named'
  <2>1. /\ named \in Nat /\ ReferencesHold(grants, used)
        /\ grants \subseteq [id : Nat, refresh : Nat, byCode : BOOLEAN]
        /\ used \subseteq [refresh : Nat, id : Nat]
    BY <1>1 DEF OAuthTypeOK
  <2>2. CASE DeleteToken(s)
    <3>1. /\ grants' = {g \in grants : g.id # mem[s].id}
          /\ used' = {u \in used : u.id # mem[s].id} /\ named' = named
      BY <2>2 DEF DeleteToken
    <3> QED
      BY <2>1, <3>1 DEF ReferencesHold
  <2>3. CASE RotateToken(s)
    <3> DEFINE old == {g \in grants : g.id = mem[s].id}
               spentNow == used \cup {[refresh |-> g.refresh, id |-> g.id] : g \in old}
               new == (grants \ old) \cup {Rotated(g) : g \in old}
    <3>1. \/ /\ ReferencesHold(new, spentNow)
             /\ grants' = new /\ used' = spentNow /\ named' = named + 2
          \/ UNCHANGED <<grants, used, named>>
      BY <2>3 DEF RotateToken
    <3>2. \A g \in grants : Rotated(g) \in [id : Nat, refresh : Nat, byCode : BOOLEAN]
      <4>1. \A g \in [id : Nat, refresh : Nat, byCode : BOOLEAN], n \in Nat, r \in Nat :
              [g EXCEPT !.id = n, !.refresh = r] \in [id : Nat, refresh : Nat, byCode : BOOLEAN]
        OBVIOUS
      <4>2. named + 1 \in Nat /\ named + 2 \in Nat
        BY <2>1
      <4> QED
        BY <2>1, <4>1, <4>2, Zenon DEF Rotated
    <3>3. \A g \in grants : [refresh |-> g.refresh, id |-> g.id] \in [refresh : Nat, id : Nat]
      BY <2>1
    <3>4. /\ new \subseteq [id : Nat, refresh : Nat, byCode : BOOLEAN]
          /\ spentNow \subseteq [refresh : Nat, id : Nat]
      BY <2>1, <3>2, <3>3
    <3> HIDE DEF new, spentNow
    <3> QED
      BY <2>1, <3>1, <3>4
  <2> QED
    BY <2>2, <2>3
<1>5. OAuthTypeOK'
  BY <1>1, <1>2, <1>4 DEF OAuthTypeOK
<1>6. CodeSpent'
  BY <1>1, <1>2, <1>3, CodeStays
<1> QED
  BY <1>2, <1>3, <1>4, <1>5, <1>6, StoreSteps

LEMMA OutsidersKeep ==
  ASSUME OAuthSound, NEW s \in Slot,
         (\E who \in Outsider : ExternalCallback(s, who)) \/ InsertOutsider(s)
  PROVE  OAuthSound'
<1>1. Requested(OAuthStatement) /\ Given(s) /\ CodeSpent /\ OAuthTypeOK
  BY DEF OAuthSound
<1>2. /\ Requested(OAuthStatement)' /\ OthersWait(s) /\ Given(s)' /\ ~Buys(s)'
      /\ outsiders' \subseteq Outsider
  <2>1. CASE \E who \in Outsider : ExternalCallback(s, who)
    <3>1. PICK who \in Outsider, web \in BOOLEAN, challenge \in BOOLEAN,
               steps \in {<<"outsider", "handoff">>, <<"handoff">>} :
            /\ Begin(s, steps, [what |-> "callback", who |-> who, web |-> web,
                                challenge |-> challenge])
            /\ UNCHANGED oauthTables
      BY <2>1 DEF ExternalCallback
    <3>2. steps \in Seq(OAuthStatement) /\ steps # <<>>
      <4>1. "outsider" \in OAuthStatement /\ "handoff" \in OAuthStatement
        BY DEF OAuthStatement
      <4>2. <<"outsider", "handoff">> \in Seq(OAuthStatement) /\ <<"outsider", "handoff">> # <<>>
        BY <4>1
      <4>3. <<"handoff">> \in Seq(OAuthStatement) /\ <<"handoff">> # <<>>
        BY <4>1
      <4> QED
        BY <4>2, <4>3
    <3> DEFINE m == [what |-> "callback", who |-> who, web |-> web, challenge |-> challenge]
    <3>3. m.who = who /\ m.web = web /\ m.challenge = challenge
      OBVIOUS
    <3>4. Begin(s, steps, m)
      BY <3>1
    <3> HIDE DEF m
    <3>5. Requested(OAuthStatement)' /\ OthersWait(s) /\ todo'[s] = steps /\ mem'[s] = m
      BY <1>1, <3>2, <3>4, BeginMoves
    <3>6. Steps(s)' \in {{"outsider", "handoff"}, {"handoff"}}
      BY <3>5, OneLeft, TwoLeft
    <3> QED
      BY <1>1, <3>1, <3>3, <3>5, <3>6 DEF Given, Buys, OAuthTypeOK, oauthTables
  <2>2. CASE InsertOutsider(s)
    <3>1. At(s, "outsider")
      BY <2>2 DEF InsertOutsider
    <3>2. mem[s].who \in Outsider
      BY <1>1, <3>1, NextIsPending DEF Given
    <3> QED
      BY <1>1, <2>2, <3>1, <3>2, PassesGiven, StoreAtOnce DEF InsertOutsider, OAuthTypeOK
  <2> QED
    BY <2>1, <2>2
<1>3. UNCHANGED <<grant, grants, used, named, handoffs, bought, redeemed>>
  BY DEF ExternalCallback, InsertOutsider, oauthTables
<1>4. CodeSpent'
  BY <1>1, <1>2, <1>3, CodeStays
<1>5. OAuthTypeOK' /\ named <= named'
  BY <1>1, <1>2, <1>3 DEF OAuthTypeOK, ReferencesHold
<1> QED
  BY <1>2, <1>3, <1>4, <1>5, StoreSteps

-----------------------------------------------------------------------------
(* Handoff codes. *)

\* The codes but for the one at i.
LEMMA WithoutOne ==
  ASSUME handoffs \in Seq(Code), NEW i \in DOMAIN handoffs
  PROVE  /\ Without(i) \in Seq(Code) /\ Len(Without(i)) = Len(handoffs) - 1
         /\ \A j \in DOMAIN Without(i) :
              /\ j \in DOMAIN handoffs /\ (j >= i => j + 1 \in DOMAIN handoffs)
              /\ Without(i)[j] = IF j < i THEN handoffs[j] ELSE handoffs[j + 1]
<1> DEFINE before == SubSeq(handoffs, 1, i - 1)
           after == SubSeq(handoffs, i + 1, Len(handoffs))
<1>1. /\ Len(handoffs) \in Nat /\ i \in 1 .. Len(handoffs)
      /\ \A j \in 1 .. Len(handoffs) : handoffs[j] \in Code
  OBVIOUS
<1>2. /\ before \in Seq(Code) /\ Len(before) = i - 1
      /\ \A j \in 1 .. i - 1 : before[j] = handoffs[j]
  <2>1. /\ 1 \in Int /\ i - 1 \in Int /\ \A j \in 1 .. i - 1 : handoffs[j] \in Code
        /\ i - 1 - 1 + 1 = i - 1 /\ \A j \in 1 .. i - 1 : 1 + j - 1 = j
        /\ (IF 1 <= i - 1 THEN i - 1 - 1 + 1 ELSE 0) = i - 1
    BY <1>1
  <2> QED
    BY <2>1, SubSeqProperties
<1>3. /\ after \in Seq(Code) /\ Len(after) = Len(handoffs) - i
      /\ \A j \in 1 .. Len(handoffs) - i : after[j] = handoffs[i + j]
  <2>1. /\ i + 1 \in Int /\ Len(handoffs) \in Int
        /\ \A j \in i + 1 .. Len(handoffs) : handoffs[j] \in Code
        /\ Len(handoffs) - (i + 1) + 1 = Len(handoffs) - i
        /\ \A j \in 1 .. Len(handoffs) - i : i + 1 + j - 1 = i + j
        /\ (IF i + 1 <= Len(handoffs) THEN Len(handoffs) - (i + 1) + 1 ELSE 0) = Len(handoffs) - i
    BY <1>1
  <2> QED
    BY <2>1, SubSeqProperties
<1>4. Without(i) = before \o after
  BY DEF Without
<1> HIDE DEF before, after
<1>5. /\ before \o after \in Seq(Code) /\ Len(before \o after) = Len(before) + Len(after)
      /\ \A j \in 1 .. Len(before) + Len(after) :
           (before \o after)[j] = IF j <= Len(before) THEN before[j] ELSE after[j - Len(before)]
  BY <1>2, <1>3, ConcatProperties
<1>6. Len(before) + Len(after) = Len(handoffs) - 1
  BY <1>1, <1>2, <1>3
<1>7. \A j \in 1 .. Len(handoffs) - 1 :
        /\ j \in DOMAIN handoffs /\ (j >= i => j + 1 \in DOMAIN handoffs)
        /\ Without(i)[j] = IF j < i THEN handoffs[j] ELSE handoffs[j + 1]
  <2> TAKE j \in 1 .. Len(handoffs) - 1
  <2>0. /\ DOMAIN handoffs = 1 .. Len(handoffs) /\ j \in 1 .. Len(handoffs)
        /\ j + 1 \in 1 .. Len(handoffs)
        /\ j \in 1 .. Len(before) + Len(after) /\ Len(before) = i - 1
    BY <1>1, <1>2, <1>6
  <2>1. CASE j < i
    <3>1. j <= i - 1 /\ j \in 1 .. i - 1
      BY <1>1, <2>1
    <3>2. (before \o after)[j] = before[j] /\ before[j] = handoffs[j]
      BY <1>2, <1>5, <2>0, <3>1
    <3> QED
      BY <1>4, <2>0, <2>1, <3>2
  <2>2. CASE ~(j < i)
    <3>1. j - (i - 1) \in 1 .. Len(handoffs) - i /\ i + (j - (i - 1)) = j + 1 /\ ~(j <= i - 1)
      BY <1>1, <2>2
    <3>2. (before \o after)[j] = after[j - (i - 1)] /\ after[j - (i - 1)] = handoffs[i + (j - (i - 1))]
      BY <1>3, <1>5, <2>0, <3>1
    <3>3. (before \o after)[j] = handoffs[j + 1]
      BY <3>1, <3>2
    <3> QED
      BY <1>4, <2>0, <2>2, <3>3
  <2> QED
    BY <2>1, <2>2
<1>8. DOMAIN Without(i) = 1 .. Len(handoffs) - 1
  BY <1>4, <1>5, <1>6
<1> QED
  BY <1>4, <1>5, <1>6, <1>7, <1>8


\* Who is left of the codes: they, and no other code, and not the one at i.
LEMMA OneCodeGone ==
  ASSUME OAuthTypeOK, CodesApart, NEW i \in DOMAIN handoffs, handoffs' = Without(i)
  PROVE  /\ handoffs' \in Seq(Code) /\ Len(handoffs') <= HandoffRoom
         /\ \A j \in DOMAIN handoffs' :
              handoffs'[j].code # handoffs[i].code /\ \E k \in DOMAIN handoffs : handoffs'[j] = handoffs[k]
         /\ \A j, k \in DOMAIN handoffs' : handoffs'[j].code = handoffs'[k].code => j = k
<1>1. /\ handoffs \in Seq(Code) /\ Len(handoffs) <= HandoffRoom /\ HandoffRoom \in Nat
      /\ Len(handoffs) \in Nat /\ DOMAIN handoffs = 1 .. Len(handoffs)
  BY HandoffRoomAssumption DEF OAuthTypeOK, Code
<1> DEFINE from(j) == IF j < i THEN j ELSE j + 1
<1>2. /\ handoffs' \in Seq(Code) /\ Len(handoffs') = Len(handoffs) - 1
      /\ \A j \in DOMAIN handoffs' : from(j) \in DOMAIN handoffs /\ handoffs'[j] = handoffs[from(j)]
  <2>1. /\ Without(i) \in Seq(Code) /\ Len(Without(i)) = Len(handoffs) - 1
        /\ \A j \in DOMAIN Without(i) :
             /\ j \in DOMAIN handoffs /\ (j >= i => j + 1 \in DOMAIN handoffs)
             /\ Without(i)[j] = IF j < i THEN handoffs[j] ELSE handoffs[j + 1]
    BY <1>1, WithoutOne
  <2> QED
    BY <1>1, <2>1
<1>3. \A j, k \in DOMAIN handoffs' : from(j) # i /\ (from(j) = from(k) => j = k)
  <2>1. DOMAIN handoffs' \subseteq Int /\ i \in Int
    BY <1>1, <1>2
  <2> QED
    BY <2>1
<1> HIDE DEF from
<1> QED
  BY <1>1, <1>2, <1>3 DEF CodesApart

\* A new code, the oldest making room when there is none.
LEMMA OneCodeMore ==
  ASSUME OAuthTypeOK, CodesApart, NEW c \in Code, c.code = named + 1, NEW kept,
         kept = IF Len(handoffs) >= HandoffRoom THEN Tail(handoffs) ELSE handoffs,
         handoffs' = Append(kept, c)
  PROVE  /\ handoffs' \in Seq(Code) /\ Len(handoffs') <= HandoffRoom
         /\ \A j \in DOMAIN handoffs' :
              handoffs'[j] = c \/ \E k \in DOMAIN handoffs : handoffs'[j] = handoffs[k]
         /\ \A j, k \in DOMAIN handoffs' : handoffs'[j].code = handoffs'[k].code => j = k
<1>1. /\ handoffs \in Seq(Code) /\ Len(handoffs) <= HandoffRoom /\ HandoffRoom \in Nat \ {0}
      /\ Len(handoffs) \in Nat /\ DOMAIN handoffs = 1 .. Len(handoffs) /\ named \in Nat
  BY HandoffRoomAssumption DEF OAuthTypeOK, Code
<1> DEFINE drop == IF Len(handoffs) >= HandoffRoom THEN 1 ELSE 0
<1>2. /\ kept \in Seq(Code) /\ Len(kept) = Len(handoffs) - drop
      /\ drop \in {0, 1} /\ Len(kept) < HandoffRoom
      /\ \A j \in 1 .. Len(kept) : kept[j] = handoffs[j + drop]
  <2>1. CASE Len(handoffs) >= HandoffRoom
    <3>1. handoffs # <<>>
      BY <1>1, <2>1
    <3>2. /\ Tail(handoffs) \in Seq(Code) /\ Len(Tail(handoffs)) = Len(handoffs) - 1
          /\ \A j \in 1 .. Len(Tail(handoffs)) : Tail(handoffs)[j] = handoffs[j + 1]
      BY <1>1, <3>1
    <3> QED
      BY <1>1, <2>1, <3>2
  <2>2. CASE ~(Len(handoffs) >= HandoffRoom)
    BY <1>1, <2>2
  <2> QED
    BY <2>1, <2>2
<1> HIDE DEF drop
<1>4. Len(kept) \in Nat /\ DOMAIN kept = 1 .. Len(kept)
  BY <1>2
<1>5. /\ handoffs' \in Seq(Code) /\ Len(handoffs') = Len(kept) + 1
      /\ DOMAIN handoffs' = 1 .. Len(kept) + 1
      /\ \A j \in 1 .. Len(kept) + 1 : handoffs'[j] = IF j <= Len(kept) THEN kept[j] ELSE c
  <2>1. /\ Append(kept, c) \in Seq(Code) /\ Len(Append(kept, c)) = Len(kept) + 1
        /\ \A j \in 1 .. Len(kept) : Append(kept, c)[j] = kept[j]
        /\ Append(kept, c)[Len(kept) + 1] = c
    BY <1>2, <1>4, AppendProperties
  <2>2. \A j \in 1 .. Len(kept) + 1 :
          (j <= Len(kept) /\ j \in 1 .. Len(kept)) \/ (~(j <= Len(kept)) /\ j = Len(kept) + 1)
    BY <1>4
  <2> QED
    BY <1>4, <2>1, <2>2
<1>6. \A j \in 1 .. Len(kept) : j + drop \in DOMAIN handoffs /\ handoffs'[j] = handoffs[j + drop]
  <2>1. \A n, d \in Nat : \A j \in 1 .. n - d : j + d \in 1 .. n
    OBVIOUS
  <2>2. \A n \in Nat : \A j \in 1 .. n : j <= n /\ j \in 1 .. n + 1
    OBVIOUS
  <2>3. drop \in Nat
    BY <1>2
  <2> TAKE j \in 1 .. Len(kept)
  <2>4. j + drop \in DOMAIN handoffs
    BY <1>1, <1>2, <2>1, <2>3
  <2>5. handoffs'[j] = kept[j] /\ kept[j] = handoffs[j + drop]
    BY <1>2, <1>4, <1>5, <2>2
  <2> QED
    BY <2>4, <2>5
<1>7. handoffs'[Len(kept) + 1] = c
  BY <1>4, <1>5
<1>8. \A j \in DOMAIN handoffs' : j \in 1 .. Len(kept) \/ j = Len(kept) + 1
  BY <1>4, <1>5
<1>9. \A k \in DOMAIN handoffs : handoffs[k].code # c.code
  BY <1>1 DEF CodesApart
<1>10. \A j, k \in 1 .. Len(kept) : j + drop = k + drop => j = k
  BY <1>2
<1>11. Len(handoffs') <= HandoffRoom
  <2>1. \A n, m \in Nat : n < m => n + 1 <= m
    OBVIOUS
  <2> QED
    BY <1>1, <1>2, <1>4, <1>5, <2>1
<1>12. \A j, k \in DOMAIN handoffs' : handoffs'[j].code = handoffs'[k].code => j = k
  <2> SUFFICES ASSUME NEW j \in DOMAIN handoffs', NEW k \in DOMAIN handoffs',
                      handoffs'[j].code = handoffs'[k].code
               PROVE  j = k
    OBVIOUS
  <2>1. CASE j \in 1 .. Len(kept) /\ k \in 1 .. Len(kept)
    <3>1. handoffs[j + drop].code = handoffs[k + drop].code
      BY <1>6, <2>1
    <3>2. j + drop = k + drop
      BY <1>6, <2>1, <3>1 DEF CodesApart
    <3> QED
      BY <1>10, <2>1, <3>2
  <2> QED
    BY <1>6, <1>7, <1>8, <1>9, <2>1
<1> QED
  BY <1>5, <1>6, <1>7, <1>8, <1>11, <1>12

LEMMA HandoffsKeep ==
  ASSUME OAuthSound, NEW s \in Slot,
         AddHandoff(s) \/ \E i \in DOMAIN handoffs, verifier \in BOOLEAN : Redeem(s, i, verifier)
  PROVE  OAuthSound'
<1>1. Requested(OAuthStatement) /\ Given(s) /\ CodeSpent /\ OAuthTypeOK /\ CodesApart
  BY DEF OAuthSound
<1>2. /\ Requested(OAuthStatement)' /\ OthersWait(s) /\ Given(s)' /\ ~Buys(s)'
  <2>1. CASE AddHandoff(s)
    <3>1. At(s, "handoff") /\ Pass(s)
      BY <2>1 DEF AddHandoff
    <3> QED
      BY <1>1, <3>1, PassesGiven
  <2>2. CASE \E i \in DOMAIN handoffs, verifier \in BOOLEAN : Redeem(s, i, verifier)
    BY <1>1, <2>2, StoreAtOnce DEF Redeem
  <2> QED
    BY <2>1, <2>2
<1>3. CodeSpent' /\ \A t \in Slot : Given(t)'
  <2>1. UNCHANGED <<grant, bought>>
    BY DEF AddHandoff, Redeem
  <2>2. CodeSpent'
    BY <1>1, <1>2, <2>1, CodeStays
  <2>3. \A t \in Slot : Given(t)
    BY DEF OAuthSound
  <2> QED
    BY <1>2, <2>2, <2>3, OthersGiven
<1>4. CASE AddHandoff(s)
  <2> DEFINE c == [code |-> named + 1, web |-> mem[s].web, challenge |-> mem[s].challenge]
  <2>1. /\ handoffs' = Append(IF Len(handoffs) >= HandoffRoom THEN Tail(handoffs) ELSE handoffs, c)
        /\ named' = named + 1 /\ At(s, "handoff")
        /\ UNCHANGED <<grant, grants, used, outsiders, bought, redeemed>>
    BY <1>4 DEF AddHandoff
  <2>2. c \in Code /\ c.code = named + 1
    <3>1. mem[s].web \in BOOLEAN /\ mem[s].challenge \in BOOLEAN
      BY <1>1, <2>1, NextIsPending DEF Given
    <3>2. named + 1 \in Nat
      BY <1>1 DEF OAuthTypeOK
    <3> QED
      BY <3>1, <3>2 DEF Code
  <2> HIDE DEF c
  <2>3. /\ handoffs' \in Seq(Code) /\ Len(handoffs') <= HandoffRoom
        /\ \A j \in DOMAIN handoffs' :
             handoffs'[j] = c \/ \E k \in DOMAIN handoffs : handoffs'[j] = handoffs[k]
        /\ \A j, k \in DOMAIN handoffs' : handoffs'[j].code = handoffs'[k].code => j = k
    BY <1>1, <2>1, <2>2, OneCodeMore
  <2>4. named \in Nat /\ \A n \in 1 .. named : n \in 1 .. named + 1 /\ n # named + 1
    BY <1>1 DEF OAuthTypeOK
  <2>5. named + 1 \in 1 .. named + 1 /\ named' \in Nat
    BY <2>1, <2>4
  <2>6. CodesApart'
    BY <1>1, <2>1, <2>2, <2>3, <2>4, <2>5 DEF CodesApart
  <2>7. OAuthTypeOK'
    BY <1>1, <2>1, <2>3, <2>5 DEF OAuthTypeOK, ReferencesHold, Code
  <2> QED
    BY <1>2, <1>3, <2>6, <2>7 DEF OAuthSound
<1>5. CASE \E i \in DOMAIN handoffs, verifier \in BOOLEAN : Redeem(s, i, verifier)
  <2>1. PICK i \in DOMAIN handoffs :
          /\ handoffs' = Without(i)
          /\ redeemed' \in {Append(redeemed, handoffs[i].code), redeemed}
          /\ UNCHANGED <<grant, grants, used, named, outsiders, bought>>
    BY <1>5 DEF Redeem
  <2>2. /\ handoffs' \in Seq(Code) /\ Len(handoffs') <= HandoffRoom
        /\ \A j \in DOMAIN handoffs' :
             handoffs'[j].code # handoffs[i].code /\ \E k \in DOMAIN handoffs : handoffs'[j] = handoffs[k]
        /\ \A j, k \in DOMAIN handoffs' : handoffs'[j].code = handoffs'[k].code => j = k
    BY <1>1, <2>1, OneCodeGone
  <2>3. /\ redeemed' \in Seq(Nat)
        /\ \A j \in DOMAIN redeemed' :
             \/ j \in DOMAIN redeemed /\ redeemed'[j] = redeemed[j]
             \/ j = Len(redeemed) + 1 /\ redeemed'[j] = handoffs[i].code
        /\ Len(redeemed) + 1 \notin DOMAIN redeemed
    <3>1. redeemed \in Seq(Nat) /\ handoffs[i].code \in Nat
      BY <1>1 DEF OAuthTypeOK, CodesApart
    <3>2. Len(redeemed) \in Nat /\ DOMAIN redeemed = 1 .. Len(redeemed)
      BY <3>1
    <3>3. CASE redeemed' = redeemed
      BY <3>1, <3>2, <3>3
    <3>4. CASE redeemed' = Append(redeemed, handoffs[i].code)
      <4> DEFINE c == handoffs[i].code
      <4>1. redeemed' = Append(redeemed, c) /\ c \in Nat
        BY <3>1, <3>4
      <4> HIDE DEF c
      <4>2. /\ redeemed' \in Seq(Nat) /\ DOMAIN redeemed' = 1 .. Len(redeemed) + 1
            /\ \A j \in 1 .. Len(redeemed) + 1 :
                 redeemed'[j] = IF j <= Len(redeemed) THEN redeemed[j] ELSE c
        BY <3>1, <3>2, <4>1, AppendProperties
      <4>3. \A j \in 1 .. Len(redeemed) + 1 :
              (j <= Len(redeemed) /\ j \in 1 .. Len(redeemed)) \/ (j = Len(redeemed) + 1 /\ ~(j <= Len(redeemed)))
        BY <3>2
      <4>4. \A j \in DOMAIN redeemed' :
             \/ j \in DOMAIN redeemed /\ redeemed'[j] = redeemed[j]
             \/ j = Len(redeemed) + 1 /\ redeemed'[j] = c
        BY <3>2, <4>2, <4>3
      <4> QED
        BY <3>2, <4>2, <4>4 DEF c
    <3> QED
      BY <2>1, <3>3, <3>4
  <2>4. CodesApart'
    <3>1. \A j \in DOMAIN handoffs' : /\ handoffs'[j].code \in 1 .. named
                                      /\ handoffs'[j].code # handoffs[i].code
                                      /\ \A k \in DOMAIN redeemed : handoffs'[j].code # redeemed[k]
      BY <1>1, <2>2 DEF CodesApart
    <3>2. handoffs[i].code \in 1 .. named /\ \A k \in DOMAIN redeemed : handoffs[i].code # redeemed[k]
      BY <1>1 DEF CodesApart
    <3>3. \A j \in DOMAIN redeemed' : redeemed'[j] \in 1 .. named
      BY <1>1, <2>3, <3>2 DEF CodesApart
    <3>4. \A j, k \in DOMAIN redeemed' : redeemed'[j] = redeemed'[k] => j = k
      BY <1>1, <2>3, <3>2 DEF CodesApart
    <3>5. \A j \in DOMAIN handoffs', k \in DOMAIN redeemed' : handoffs'[j].code # redeemed'[k]
      BY <2>3, <3>1
    <3> QED
      BY <2>1, <2>2, <3>1, <3>3, <3>4, <3>5 DEF CodesApart
  <2>5. OAuthTypeOK'
    BY <1>1, <2>1, <2>2, <2>3 DEF OAuthTypeOK, ReferencesHold, Code
  <2> QED
    BY <1>2, <1>3, <2>4, <2>5 DEF OAuthSound
<1> QED
  BY <1>4, <1>5

LEMMA SameRequests ==
  ASSUME Requested(OAuthStatement), \A s \in Slot : Given(s), UNCHANGED requests
  PROVE  Requested(OAuthStatement)' /\ \A s \in Slot : Given(s)' /\ Buys(s)' = Buys(s)
<1>1. todo' = todo /\ mem' = mem
  BY DEF requests
<1>2. Requested(OAuthStatement)'
  BY <1>1 DEF Requested
<1>3. \A s \in Slot : Steps(s)' = Steps(s)
  BY <1>1 DEF Steps
<1>4. \A s \in Slot : Given(s)' /\ Buys(s)' = Buys(s)
  BY <1>1, <1>3 DEF Given, Buys
<1> QED
  BY <1>2, <1>4

LEMMA RestKeeps ==
  ASSUME OAuthSound, (\E i \in DOMAIN handoffs : HandoffLapses(i)) \/ Restart \/ UNCHANGED oauthVars
  PROVE  OAuthSound'
<1>1. Requested(OAuthStatement) /\ CodeSpent /\ OAuthTypeOK /\ CodesApart /\ \A s \in Slot : Given(s)
  BY DEF OAuthSound
<1>2. CASE \E i \in DOMAIN handoffs : HandoffLapses(i)
  <2>1. PICK i \in DOMAIN handoffs :
          /\ handoffs' = Without(i)
          /\ UNCHANGED <<grant, grants, used, named, outsiders, bought, redeemed, requests>>
    BY <1>2 DEF HandoffLapses
  <2>2. /\ handoffs' \in Seq(Code) /\ Len(handoffs') <= HandoffRoom
        /\ \A j \in DOMAIN handoffs' : \E k \in DOMAIN handoffs : handoffs'[j] = handoffs[k]
        /\ \A j, k \in DOMAIN handoffs' : handoffs'[j].code = handoffs'[k].code => j = k
    BY <1>1, <2>1, OneCodeGone
  <2>3. CodesApart'
    BY <1>1, <2>1, <2>2 DEF CodesApart
  <2>4. OAuthTypeOK'
    BY <1>1, <2>1, <2>2 DEF OAuthTypeOK, ReferencesHold, Code
  <2>5. UNCHANGED requests
    BY <2>1
  <2>6. Requested(OAuthStatement)' /\ \A s \in Slot : Given(s)' /\ Buys(s)' = Buys(s)
    BY <1>1, <2>5, SameRequests
  <2>7. CodeSpent'
    BY <1>1, <2>1, <2>6 DEF CodeSpent
  <2> QED
    BY <2>3, <2>4, <2>6, <2>7 DEF OAuthSound
<1>3. CASE Restart
  <2>1. /\ handoffs' = <<>>
        /\ todo' = [s \in Slot |-> <<>>] /\ DOMAIN mem' = Slot
        /\ UNCHANGED <<grant, grants, used, named, outsiders, bought, redeemed>>
    BY <1>3 DEF Restart
  <2>2. /\ handoffs' \in Seq(Code) /\ Len(handoffs') <= HandoffRoom /\ DOMAIN handoffs' = {}
    BY <2>1, HandoffRoomAssumption
  <2>3. CodesApart' /\ OAuthTypeOK'
    BY <1>1, <2>1, <2>2 DEF CodesApart, OAuthTypeOK, ReferencesHold, Code
  <2>4. Requested(OAuthStatement)'
    <3>1. <<>> \in Seq(OAuthStatement)
      OBVIOUS
    <3> QED
      BY <2>1, <3>1 DEF Requested
  <2>5. \A s \in Slot : Given(s)' /\ ~Buys(s)'
    BY <2>1, EmptyGiven
  <2>6. CodeSpent'
    BY <1>1, <2>1, <2>5 DEF CodeSpent
  <2> QED
    BY <2>3, <2>4, <2>5, <2>6 DEF OAuthSound
<1>4. CASE UNCHANGED oauthVars
  <2>1. UNCHANGED requests /\ UNCHANGED oauthTables
    BY <1>4 DEF oauthVars
  <2>2. Requested(OAuthStatement)' /\ \A s \in Slot : Given(s)' /\ Buys(s)' = Buys(s)
    BY <1>1, <2>1, SameRequests
  <2>3. CodeSpent'
    BY <1>1, <2>1, <2>2 DEF CodeSpent, oauthTables
  <2>4. OAuthTypeOK' /\ CodesApart'
    BY <1>1, <2>1 DEF OAuthTypeOK, ReferencesHold, CodesApart, oauthTables
  <2> QED
    BY <2>2, <2>3, <2>4 DEF OAuthSound
<1> QED
  BY <1>2, <1>3, <1>4

LEMMA InitOAuthSound ==
  ASSUME OAuthInit
  PROVE  OAuthSound
<1>1. Requested(OAuthStatement) /\ \A s \in Slot : todo[s] = <<>>
  BY InitRequested DEF OAuthInit
<1>2. \A s \in Slot : Given(s) /\ ~Buys(s)
  BY <1>1, NoSteps DEF Given, Buys
<1>3. OAuthTypeOK
  BY HandoffRoomAssumption DEF OAuthInit, OAuthTypeOK, ReferencesHold
<1>4. CodeSpent /\ CodesApart
  BY <1>2 DEF OAuthInit, CodeSpent, CodesApart
<1> QED
  BY <1>1, <1>2, <1>3, <1>4 DEF OAuthSound

LEMMA OAuthSoundAlways == OAuthSpec => []OAuthSound
<1>1. OAuthInit => OAuthSound
  BY InitOAuthSound
<1>2. OAuthSound /\ [OAuthNext]_oauthVars => OAuthSound'
  <2> SUFFICES ASSUME OAuthSound, [OAuthNext]_oauthVars PROVE OAuthSound'
    OBVIOUS
  <2>1. CASE \/ \E i \in DOMAIN handoffs : HandoffLapses(i)
             \/ Restart \/ UNCHANGED oauthVars
    BY <2>1, RestKeeps
  <2>2. ASSUME NEW s \in Slot,
               \/ CreateRequest(s) \/ UpdateRequest(s) \/ MergeRequest(s) \/ DeleteRequest(s)
               \/ ConsumeCode(s) \/ CreateToken(s) \/ ReplayCode(s)
               \/ \E r \in 1..named : FindByRefresh(s, r)
               \/ RotateToken(s) \/ DeleteToken(s)
               \/ \E who \in Outsider : ExternalCallback(s, who)
               \/ InsertOutsider(s) \/ AddHandoff(s)
               \/ \E i \in DOMAIN handoffs, verifier \in BOOLEAN : Redeem(s, i, verifier)
        PROVE  OAuthSound'
    BY <2>2, RequestsKeep, CodeKeeps, TokensKeep, OutsidersKeep, HandoffsKeep
  <2> QED
    BY <2>1, <2>2 DEF OAuthNext
<1> QED
  BY <1>1, <1>2, PTL DEF OAuthSpec

\* Rows, codes and references are what they are taken for: every refresh token
\* that was used is of a token that stands, and the codes kept for browsers
\* never outgrow their room (the foreign key of oauth_used_refresh_tokens, and
\* MAX_PENDING_CODES of addPendingCode).
THEOREM OAuthTyped == OAuthSpec => []OAuthTypeOK
<1>1. OAuthSound => OAuthTypeOK
  BY DEF OAuthSound
<1> QED
  BY <1>1, OAuthSoundAlways, PTL

\* However many requests present a code at a time, and however often the request
\* it is of is read, merged and written back meanwhile, one token is created for
\* it, and no handoff code is exchanged twice (consumeRequestCode, addPendingCode
\* and the exchange of the callback page).
THEOREM CodesAreBoughtOnce == OAuthSpec => []CodesBuyOnce
<1>1. OAuthSound => CodesBuyOnce
  BY DEF OAuthSound, CodeSpent, CodesApart, CodesBuyOnce
<1> QED
  BY <1>1, OAuthSoundAlways, PTL

-----------------------------------------------------------------------------
(* Registration: what admits an account is spent once.                     *)

SignUpStatement ==
  {"quota", "check", "accept", "spend", "insert", "claim", "commit", "repo", "revokeKey"}
Rows == {"key", "row", "invite", "token"}
SignUpRecord ==
  [what : {"signup"}, way : SignUpWays, name : Name, late : BOOLEAN, wrote : SUBSET Rows]

\* A sign-up has the end of its route before it.
OnRoute(s) ==
  LET route == Route(mem[s].way) IN
    /\ Len(todo[s]) <= Len(route)
    /\ \A i \in 1 .. Len(todo[s]) : todo[s][i] = route[Len(route) - Len(todo[s]) + i]

\* What it holds with so many statements left: what it came by, from the
\* statement that takes it to the commit.
HoldsAt(r, left) ==
  /\ "invite" \in r.wrote <=> r.way \in ByInvite /\ left >= 2 /\ left <= (IF r.way = "oauth" THEN 3 ELSE 2)
  /\ "key" \in r.wrote <=> r.way = "partner" /\ left >= 2 /\ left <= 4
  /\ "token" \in r.wrote <=> r.way \in ByToken /\ left >= 2 /\ left <= 3

OnTheWay(s) ==
  todo[s] # <<>> =>
    \/ mem[s] \in SignUpRecord /\ OnRoute(s) /\ HoldsAt(mem[s], Len(todo[s]))
    \/ mem[s].what = "revokeKey" /\ todo[s] = <<"revokeKey">>

\* Accounts of the blind token that were in time.
Prompt == {x \in accounts : x.way \in ByToken /\ ~x.late}

\* Whoever holds what admits an account has room for it until the commit.
Room(s) ==
  /\ "invite" \in Wrote(s) => invite < InviteUses
  /\ "key" \in Wrote(s) => partner.active /\ Cardinality(Lately) < PartnerLimit
  /\ "token" \in Wrote(s) /\ ~mem[s].late => Prompt = {}

Locked ==
  \A row \in {"key", "invite", "token"}, s, t \in Slot :
    row \in Wrote(s) /\ row \in Wrote(t) => s = t

Counted ==
  /\ RegistrationTypeOK /\ IsFiniteSet(accounts) /\ LimitsHold
  /\ Prompt # {} => blind.spent \/ ~blind.accepted

RegistrationSound ==
  /\ Counted /\ Requested(SignUpStatement) /\ Locked
  /\ \A s \in Slot : OnTheWay(s) /\ Room(s)

\* Where each statement stands on its route, counted from the end.
StandsAt(way, x, left) ==
  /\ x \in SignUpStatement \ {"revokeKey"}
  /\ x = "repo" <=> left = 1
  /\ x = "commit" <=> left = 2
  /\ x = "claim" <=> way \in ByInvite /\ left = (IF way = "oauth" THEN 4 ELSE 3)
  /\ x = "quota" <=> way = "partner" /\ left = 5
  /\ x = "spend" <=> way \in ByToken /\ left = 4

LEMMA RouteShape ==
  ASSUME NEW way \in SignUpWays
  PROVE  /\ Route(way) \in Seq(SignUpStatement) /\ Route(way) # <<>>
         /\ Len(Route(way)) = IF way \in ByToken THEN 6 ELSE 5
         /\ \A i \in 1 .. Len(Route(way)) :
              StandsAt(way, Route(way)[i], Len(Route(way)) - i + 1)
<1>1. CASE way \in {"register", "moveIn"}
  <2> DEFINE route == <<"check", "insert", "claim", "commit", "repo">>
  <2>1. Route(way) = route
    BY <1>1 DEF Route
  <2>2. /\ Len(route) = 5 /\ route[1] = "check" /\ route[2] = "insert" /\ route[3] = "claim"
        /\ route[4] = "commit" /\ route[5] = "repo"
    OBVIOUS
  <2>3. route \in Seq(SignUpStatement) /\ route # <<>>
    BY DEF SignUpStatement
  <2> HIDE DEF route
  <2>4. /\ StandsAt(way, route[1], 5) /\ StandsAt(way, route[2], 4)
        /\ StandsAt(way, route[3], 3) /\ StandsAt(way, route[4], 2)
        /\ StandsAt(way, route[5], 1)
    BY <1>1, <2>2 DEF StandsAt, SignUpStatement, ByInvite, ByToken
  <2>5. \A i \in 1 .. 5 : StandsAt(way, route[i], 5 - i + 1)
    <3>1. \A i \in 1 .. 5 : i \in {1, 2, 3, 4, 5}
      OBVIOUS
    <3> QED
      BY <2>4, <3>1
  <2>6. (way \in ByToken) = FALSE
    BY <1>1 DEF ByToken
  <2> QED
    BY <2>1, <2>2, <2>3, <2>5, <2>6
<1>2. CASE way = "oauth"
  <2> DEFINE route == <<"check", "claim", "insert", "commit", "repo">>
  <2>1. Route(way) = route
    BY <1>2 DEF Route
  <2>2. /\ Len(route) = 5 /\ route[1] = "check" /\ route[2] = "claim" /\ route[3] = "insert"
        /\ route[4] = "commit" /\ route[5] = "repo"
    OBVIOUS
  <2>3. route \in Seq(SignUpStatement) /\ route # <<>>
    BY DEF SignUpStatement
  <2> HIDE DEF route
  <2>4. /\ StandsAt(way, route[1], 5) /\ StandsAt(way, route[2], 4)
        /\ StandsAt(way, route[3], 3) /\ StandsAt(way, route[4], 2)
        /\ StandsAt(way, route[5], 1)
    BY <1>2, <2>2 DEF StandsAt, SignUpStatement, ByInvite, ByToken
  <2>5. \A i \in 1 .. 5 : StandsAt(way, route[i], 5 - i + 1)
    <3>1. \A i \in 1 .. 5 : i \in {1, 2, 3, 4, 5}
      OBVIOUS
    <3> QED
      BY <2>4, <3>1
  <2>6. (way \in ByToken) = FALSE
    BY <1>2 DEF ByToken
  <2> QED
    BY <2>1, <2>2, <2>3, <2>5, <2>6
<1>3. CASE way = "partner"
  <2> DEFINE route == <<"quota", "check", "insert", "commit", "repo">>
  <2>1. Route(way) = route
    BY <1>3 DEF Route
  <2>2. /\ Len(route) = 5 /\ route[1] = "quota" /\ route[2] = "check" /\ route[3] = "insert"
        /\ route[4] = "commit" /\ route[5] = "repo"
    OBVIOUS
  <2>3. route \in Seq(SignUpStatement) /\ route # <<>>
    BY DEF SignUpStatement
  <2> HIDE DEF route
  <2>4. /\ StandsAt(way, route[1], 5) /\ StandsAt(way, route[2], 4)
        /\ StandsAt(way, route[3], 3) /\ StandsAt(way, route[4], 2)
        /\ StandsAt(way, route[5], 1)
    BY <1>3, <2>2 DEF StandsAt, SignUpStatement, ByInvite, ByToken
  <2>5. \A i \in 1 .. 5 : StandsAt(way, route[i], 5 - i + 1)
    <3>1. \A i \in 1 .. 5 : i \in {1, 2, 3, 4, 5}
      OBVIOUS
    <3> QED
      BY <2>4, <3>1
  <2>6. (way \in ByToken) = FALSE
    BY <1>3 DEF ByToken
  <2> QED
    BY <2>1, <2>2, <2>3, <2>5, <2>6
<1>4. CASE way \in ByToken
  <2> DEFINE route == <<"check", "accept", "spend", "insert", "commit", "repo">>
  <2>1. Route(way) = route
    BY <1>4 DEF Route, ByToken
  <2>2. /\ Len(route) = 6 /\ route[1] = "check" /\ route[2] = "accept" /\ route[3] = "spend"
        /\ route[4] = "insert" /\ route[5] = "commit" /\ route[6] = "repo"
    OBVIOUS
  <2>3. route \in Seq(SignUpStatement) /\ route # <<>>
    BY DEF SignUpStatement
  <2> HIDE DEF route
  <2>4. /\ StandsAt(way, route[1], 6) /\ StandsAt(way, route[2], 5)
        /\ StandsAt(way, route[3], 4) /\ StandsAt(way, route[4], 3)
        /\ StandsAt(way, route[5], 2) /\ StandsAt(way, route[6], 1)
    BY <1>4, <2>2 DEF StandsAt, SignUpStatement, ByInvite, ByToken
  <2>5. \A i \in 1 .. 6 : StandsAt(way, route[i], 6 - i + 1)
    <3>1. \A i \in 1 .. 6 : i \in {1, 2, 3, 4, 5, 6}
      OBVIOUS
    <3> QED
      BY <2>4, <3>1
  <2>6. (way \in ByToken) = TRUE
    BY <1>4 DEF ByToken
  <2> QED
    BY <2>1, <2>2, <2>3, <2>5, <2>6
<1> QED
  BY <1>1, <1>2, <1>3, <1>4 DEF SignUpWays, ByToken

\* What the statement that comes next says of how much is left.
LEMMA WhatIsNext ==
  ASSUME Requested(SignUpStatement), NEW s \in Slot, OnTheWay(s), NEW x, At(s, x), x # "revokeKey"
  PROVE  /\ mem[s] \in SignUpRecord /\ OnRoute(s) /\ HoldsAt(mem[s], Len(todo[s]))
         /\ Len(todo[s]) \in Nat \ {0} /\ StandsAt(mem[s].way, x, Len(todo[s]))
         /\ Wrote(s) = mem[s].wrote
<1>1. todo[s] # <<>> /\ todo[s] \in Seq(SignUpStatement)
  BY DEF At, Requested
<1>2. Len(todo[s]) \in Nat \ {0} /\ x = todo[s][1]
  BY <1>1 DEF At
<1>3. mem[s] \in SignUpRecord /\ OnRoute(s) /\ HoldsAt(mem[s], Len(todo[s]))
  <2>1. todo[s] # <<"revokeKey">>
    BY <1>2
  <2> QED
    BY <1>1, <2>1 DEF OnTheWay
<1> DEFINE route == Route(mem[s].way)
           i == Len(route) - Len(todo[s]) + 1
<1>4. mem[s].way \in SignUpWays /\ mem[s].what = "signup"
  BY <1>3 DEF SignUpRecord
<1>5. /\ Len(route) \in Nat
      /\ \A k \in 1 .. Len(route) : StandsAt(mem[s].way, route[k], Len(route) - k + 1)
  <2>1. route \in Seq(SignUpStatement)
    BY <1>4, RouteShape
  <2>2. Len(route) \in Nat
    BY <2>1
  <2> QED
    BY <1>4, <2>2, RouteShape
<1>6. Len(todo[s]) <= Len(route) /\ x = route[i]
  <2>1. 1 \in 1 .. Len(todo[s])
    BY <1>2
  <2>2. /\ Len(todo[s]) <= Len(route)
        /\ \A k \in 1 .. Len(todo[s]) : todo[s][k] = route[Len(route) - Len(todo[s]) + k]
    BY <1>3 DEF OnRoute
  <2> QED
    BY <1>2, <2>1, <2>2
<1> HIDE DEF route
<1>7. i \in 1 .. Len(route) /\ Len(route) - i + 1 = Len(todo[s])
  BY <1>2, <1>5, <1>6
<1> HIDE DEF i
<1>8. StandsAt(mem[s].way, x, Len(todo[s]))
  BY <1>5, <1>6, <1>7
<1> QED
  BY <1>1, <1>2, <1>3, <1>4, <1>8 DEF Wrote

\* A step along the route.
LEMMA Advances ==
  ASSUME Requested(SignUpStatement), NEW s \in Slot, OnTheWay(s), NEW x, At(s, x), x # "revokeKey",
         NEW m \in SignUpRecord, Note(s, m), m.way = mem[s].way,
         HoldsAt(m, Len(todo[s]) - 1)
  PROVE  /\ Requested(SignUpStatement)' /\ OthersWait(s) /\ OnTheWay(s)'
         /\ Wrote(s)' = IF todo'[s] = <<>> THEN {} ELSE m.wrote
         /\ todo'[s] # <<>> => mem'[s] = m
<1>1. /\ Requested(SignUpStatement)' /\ OthersWait(s) /\ todo'[s] = Tail(todo[s])
      /\ Steps(s)' # {} => mem'[s] = m
  BY NoteMoves DEF Follows
<1>2. todo[s] # <<>> /\ todo[s] \in Seq(SignUpStatement)
  BY DEF At, Requested
<1>3. /\ Len(todo[s]) \in Nat \ {0} /\ todo'[s] \in Seq(SignUpStatement)
      /\ Len(todo'[s]) = Len(todo[s]) - 1
      /\ \A i \in 1 .. Len(todo[s]) - 1 : todo'[s][i] = todo[s][i + 1]
  BY <1>1, <1>2
<1>4. todo'[s] # <<>> => mem'[s] = m
  <2>1. todo'[s] # <<>> => 1 \in DOMAIN todo'[s]
    BY <1>3
  <2>2. todo'[s] # <<>> => Steps(s)' # {}
    BY <2>1 DEF Steps
  <2> QED
    BY <1>1, <2>2
<1>5. m.what = "signup"
  BY DEF SignUpRecord
<1>6. ASSUME todo'[s] # <<>> PROVE OnRoute(s)'
  <2> DEFINE route == Route(mem[s].way)
  <2>1. Route(mem'[s].way) = route
    BY <1>4, <1>6
  <2>2. /\ Len(todo[s]) <= Len(route)
        /\ \A i \in 1 .. Len(todo[s]) : todo[s][i] = route[Len(route) - Len(todo[s]) + i]
    BY WhatIsNext DEF OnRoute
  <2>3. Len(route) \in Nat
    <3>1. mem[s].way \in SignUpWays
      BY WhatIsNext DEF SignUpRecord
    <3>2. route \in Seq(SignUpStatement)
      BY <3>1, RouteShape
    <3> QED
      BY <3>2
  <2> HIDE DEF route
  <2>4. Len(todo'[s]) <= Len(route)
    BY <1>3, <2>2, <2>3
  <2>5. \A i \in 1 .. Len(todo'[s]) : todo'[s][i] = route[Len(route) - Len(todo'[s]) + i]
    <3> TAKE i \in 1 .. Len(todo'[s])
    <3>1. /\ i \in 1 .. Len(todo[s]) - 1 /\ i + 1 \in 1 .. Len(todo[s])
          /\ Len(route) - Len(todo'[s]) + i = Len(route) - Len(todo[s]) + (i + 1)
      BY <1>3, <2>3
    <3> QED
      BY <1>3, <2>2, <3>1
  <2> QED
    BY <2>1, <2>4, <2>5 DEF OnRoute
<1> QED
  BY <1>1, <1>3, <1>4, <1>5, <1>6 DEF OnTheWay, Wrote


\* A record with one row more.
LEMMA WithRow ==
  ASSUME NEW r \in SignUpRecord, NEW row \in Rows
  PROVE  /\ [r EXCEPT !.wrote = @ \cup {row}] \in SignUpRecord
         /\ [r EXCEPT !.wrote = @ \cup {row}].way = r.way
         /\ [r EXCEPT !.wrote = @ \cup {row}].late = r.late
         /\ [r EXCEPT !.wrote = @ \cup {row}].wrote = r.wrote \cup {row}
         /\ [r EXCEPT !.wrote = {}] \in SignUpRecord
         /\ [r EXCEPT !.wrote = {}].way = r.way
         /\ [r EXCEPT !.wrote = {}].wrote = {}
BY DEF SignUpRecord

LEMMA OthersWrote ==
  ASSUME NEW s \in Slot, OthersWait(s)
  PROVE  \A t \in Slot \ {s} : /\ Wrote(t)' = Wrote(t) /\ mem'[t] = mem[t]
                               /\ OnTheWay(t) => OnTheWay(t)'
<1> TAKE t \in Slot \ {s}
<1>1. todo'[t] = todo[t] /\ mem'[t] = mem[t]
  BY DEF OthersWait
<1> QED
  BY <1>1 DEF Wrote, OnTheWay, OnRoute, HoldsAt

\* A request that answers, or dies, holds nothing.
LEMMA Empties ==
  ASSUME NEW s, todo'[s] = <<>>
  PROVE  OnTheWay(s)' /\ Wrote(s)' = {} /\ Room(s)'
BY DEF OnTheWay, Wrote, Room

\* Rows are added to what s holds only while nobody else has them.
LEMMA KeepLocked ==
  ASSUME Locked, NEW s \in Slot, OthersWait(s),
         \A row \in Wrote(s)' : row \in Wrote(s) \/ row \notin {"key", "invite", "token"} \/ Free(s, row)
  PROVE  Locked'
<1>1. \A t \in Slot \ {s} : Wrote(t)' = Wrote(t)
  BY OthersWrote
<1>2. \A row \in Wrote(s)' \cap {"key", "invite", "token"}, t \in Slot \ {s} : row \notin Wrote(t)
  BY DEF Locked, Free
<1> QED
  BY <1>1, <1>2 DEF Locked

\* Steps that leave the tables alone.
LEMMA NothingCommitted ==
  ASSUME RegistrationSound, NEW s \in Slot, UNCHANGED registrationTables,
         Requested(SignUpStatement)', OthersWait(s), OnTheWay(s)', Room(s)',
         \A row \in Wrote(s)' : row \in Wrote(s) \/ row \notin {"key", "invite", "token"} \/ Free(s, row)
  PROVE  RegistrationSound'
<1>1. Locked'
  BY KeepLocked DEF RegistrationSound
<1>2. \A t \in Slot \ {s} : Wrote(t)' = Wrote(t) /\ mem'[t] = mem[t] /\ OnTheWay(t)'
  BY OthersWrote DEF RegistrationSound
<1>3. UNCHANGED <<accounts, invite, partner, blind, seats>>
  BY DEF registrationTables
<1>4. Lately' = Lately /\ Prompt' = Prompt
  BY <1>3 DEF Lately, Prompt
<1>5. \A t \in Slot \ {s} : Room(t)'
  BY <1>2, <1>3, <1>4 DEF RegistrationSound, Room
<1>6. Counted'
  BY <1>3, <1>4 DEF RegistrationSound, Counted, RegistrationTypeOK, LimitsHold, InvitesWithinUses,
     PartnerWithinQuota, TokenSpentOnce
<1> QED
  BY <1>1, <1>2, <1>5, <1>6 DEF RegistrationSound

LEMMA SignUpKeeps ==
  ASSUME RegistrationSound, NEW s \in Slot,
         (\E way \in SignUpWays, name \in Name : SignUp(s, way, name)) \/ RevokeKey(s) \/ BreakOff(s)
  PROVE  RegistrationSound'
<1>1. Requested(SignUpStatement) /\ UNCHANGED registrationTables
  BY DEF RegistrationSound, SignUp, RevokeKey, BreakOff
<1>2. CASE BreakOff(s)
  <2>1. Requested(SignUpStatement)' /\ OthersWait(s) /\ todo'[s] = <<>>
    BY <1>1, <1>2, AnswerMoves DEF BreakOff
  <2> QED
    BY <1>1, <2>1, Empties, NothingCommitted
<1>3. CASE RevokeKey(s)
  <2> DEFINE m == [what |-> "revokeKey"]
  <2>1. Begin(s, <<"revokeKey">>, m) /\ m.what = "revokeKey"
    BY <1>3 DEF RevokeKey
  <2>2. <<"revokeKey">> \in Seq(SignUpStatement) /\ <<"revokeKey">> # <<>>
    BY DEF SignUpStatement
  <2> HIDE DEF m
  <2>3. Requested(SignUpStatement)' /\ OthersWait(s) /\ todo'[s] = <<"revokeKey">> /\ mem'[s] = m
    BY <1>1, <2>1, <2>2, BeginMoves
  <2>4. OnTheWay(s)' /\ Wrote(s)' = {}
    BY <2>1, <2>3 DEF OnTheWay, Wrote
  <2> QED
    BY <1>1, <2>3, <2>4, NothingCommitted DEF Room
<1>4. CASE \E way \in SignUpWays, name \in Name : SignUp(s, way, name)
  <2>1. PICK way \in SignUpWays, name \in Name : SignUp(s, way, name)
    BY <1>4
  <2> DEFINE m == [what |-> "signup", way |-> way, name |-> name, late |-> FALSE, wrote |-> {}]
             route == Route(way)
  <2>2. Begin(s, route, m)
    BY <2>1 DEF SignUp
  <2>3. m \in SignUpRecord /\ m.way = way /\ m.wrote = {} /\ m.what = "signup"
    BY DEF SignUpRecord
  <2>4. route \in Seq(SignUpStatement) /\ route # <<>> /\ Len(route) = IF way \in ByToken THEN 6 ELSE 5
    BY RouteShape
  <2>5. HoldsAt(m, Len(route))
    BY <2>3, <2>4 DEF HoldsAt, ByToken, ByInvite
  <2> HIDE DEF m, route
  <2>6. Requested(SignUpStatement)' /\ OthersWait(s) /\ todo'[s] = route /\ mem'[s] = m
    BY <1>1, <2>2, <2>4, BeginMoves
  <2>7. OnRoute(s)'
    <3>1. Route(mem'[s].way) = route
      BY <2>3, <2>6 DEF route
    <3>2. Len(route) \in Nat
      BY <2>4
    <3>3. \A i \in 1 .. Len(route) : Len(route) - Len(route) + i = i
      BY <3>2
    <3> QED
      BY <2>6, <3>1, <3>2, <3>3 DEF OnRoute
  <2>8. OnTheWay(s)' /\ Wrote(s)' = {}
    BY <2>3, <2>5, <2>6, <2>7 DEF OnTheWay, Wrote
  <2> QED
    BY <1>1, <2>6, <2>8, NothingCommitted DEF Room
<1> QED
  BY <1>2, <1>3, <1>4

\* What is held follows the statements: none but those that take a row, and the
\* commit, change it.
LEMMA StillHolds ==
  ASSUME NEW r, NEW m, NEW x, NEW left \in Nat \ {0}, StandsAt(r.way, x, left), HoldsAt(r, left),
         m.way = r.way, x \notin {"repo", "commit"},
         m.wrote = r.wrote \cup (CASE x = "quota" -> {"key"} [] x = "claim" -> {"invite"}
                                   [] x = "spend" -> {"token"} [] x = "insert" -> {"row"} [] OTHER -> {})
  PROVE  HoldsAt(m, left - 1)
<1> DEFINE new == CASE x = "quota" -> {"key"} [] x = "claim" -> {"invite"}
                    [] x = "spend" -> {"token"} [] x = "insert" -> {"row"} [] OTHER -> {}
<1>1. /\ "key" \in new <=> x = "quota"
      /\ "invite" \in new <=> x = "claim"
      /\ "token" \in new <=> x = "spend"
  OBVIOUS
<1>2. m.wrote = r.wrote \cup new
  OBVIOUS
<1> HIDE DEF new
<1>3. left # 1 /\ left # 2
  BY DEF StandsAt
<1>4. "invite" \in m.wrote <=>
        m.way \in ByInvite /\ left - 1 >= 2 /\ left - 1 <= (IF m.way = "oauth" THEN 3 ELSE 2)
  <2>1. "invite" \in m.wrote <=> "invite" \in r.wrote \/ x = "claim"
    BY <1>1, <1>2
  <2>2. x = "claim" <=> r.way \in ByInvite /\ left = (IF r.way = "oauth" THEN 4 ELSE 3)
    BY DEF StandsAt
  <2>3. "invite" \in r.wrote <=> r.way \in ByInvite /\ left >= 2 /\ left <= (IF r.way = "oauth" THEN 3 ELSE 2)
    BY DEF HoldsAt
  <2>4. CASE r.way = "oauth"
    BY <1>3, <2>1, <2>2, <2>3, <2>4
  <2>5. CASE r.way # "oauth"
    BY <1>3, <2>1, <2>2, <2>3, <2>5
  <2> QED
    BY <2>4, <2>5
<1>5. "key" \in m.wrote <=> m.way = "partner" /\ left - 1 >= 2 /\ left - 1 <= 4
  <2>1. "key" \in m.wrote <=> "key" \in r.wrote \/ x = "quota"
    BY <1>1, <1>2
  <2>2. x = "quota" <=> r.way = "partner" /\ left = 5
    BY DEF StandsAt
  <2>3. "key" \in r.wrote <=> r.way = "partner" /\ left >= 2 /\ left <= 4
    BY DEF HoldsAt
  <2> QED
    BY <1>3, <2>1, <2>2, <2>3
<1>6. "token" \in m.wrote <=> m.way \in ByToken /\ left - 1 >= 2 /\ left - 1 <= 3
  <2>1. "token" \in m.wrote <=> "token" \in r.wrote \/ x = "spend"
    BY <1>1, <1>2
  <2>2. x = "spend" <=> r.way \in ByToken /\ left = 4
    BY DEF StandsAt
  <2>3. "token" \in r.wrote <=> r.way \in ByToken /\ left >= 2 /\ left <= 3
    BY DEF HoldsAt
  <2> QED
    BY <1>3, <2>1, <2>2, <2>3
<1> QED
  BY <1>4, <1>5, <1>6 DEF HoldsAt

\* A statement that only reads, and goes on or gives up.
LEMMA ReadsKeep ==
  ASSUME RegistrationSound, NEW s \in Slot, CheckName(s) \/ AcceptToken(s)
  PROVE  RegistrationSound'
<1>1. /\ Requested(SignUpStatement) /\ OnTheWay(s) /\ Room(s) /\ UNCHANGED registrationTables
  BY DEF RegistrationSound, CheckName, AcceptToken
<1>2. PICK x \in {"check", "accept"} : At(s, x) /\ (Answer(s) \/ Pass(s))
  BY DEF CheckName, AcceptToken
<1>3. CASE Answer(s)
  <2>1. Requested(SignUpStatement)' /\ OthersWait(s) /\ todo'[s] = <<>>
    BY <1>1, <1>3, AnswerMoves
  <2> QED
    BY <1>1, <2>1, Empties, NothingCommitted
<1>4. CASE Pass(s)
  <2>1. /\ mem[s] \in SignUpRecord /\ HoldsAt(mem[s], Len(todo[s])) /\ Len(todo[s]) \in Nat \ {0}
        /\ StandsAt(mem[s].way, x, Len(todo[s])) /\ Wrote(s) = mem[s].wrote
    BY <1>1, <1>2, WhatIsNext
  <2>2. HoldsAt(mem[s], Len(todo[s]) - 1)
    <3>1. mem[s].wrote = mem[s].wrote \cup
            (CASE x = "quota" -> {"key"} [] x = "claim" -> {"invite"}
               [] x = "spend" -> {"token"} [] x = "insert" -> {"row"} [] OTHER -> {})
      BY <1>2
    <3> QED
      BY <1>2, <2>1, <3>1, StillHolds
  <2>3. Note(s, mem[s])
    BY <1>4 DEF Pass, Note
  <2>4. /\ Requested(SignUpStatement)' /\ OthersWait(s) /\ OnTheWay(s)'
        /\ Wrote(s)' = IF todo'[s] = <<>> THEN {} ELSE mem[s].wrote
        /\ todo'[s] # <<>> => mem'[s] = mem[s]
    BY <1>1, <1>2, <2>1, <2>2, <2>3, Advances
  <2>5. Room(s)'
    BY <1>1, <2>1, <2>4 DEF Room, registrationTables, Lately, Prompt
  <2> QED
    BY <1>1, <2>1, <2>4, <2>5, NothingCommitted
<1> QED
  BY <1>2, <1>3, <1>4

\* A statement that takes a row, having looked at what it stands for.
LEMMA TakingKeeps ==
  ASSUME RegistrationSound, NEW s \in Slot,
         CountQuota(s) \/ InsertUser(s) \/ ClaimInvite(s) \/ SpendToken(s)
  PROVE  RegistrationSound'
<1>1. /\ Requested(SignUpStatement) /\ OnTheWay(s) /\ Room(s) /\ UNCHANGED registrationTables
  BY DEF RegistrationSound, CountQuota, InsertUser, ClaimInvite, SpendToken
<1>2. CASE Answer(s)
  <2>1. Requested(SignUpStatement)' /\ OthersWait(s) /\ todo'[s] = <<>>
    BY <1>1, <1>2, AnswerMoves
  <2> QED
    BY <1>1, <2>1, Empties, NothingCommitted
<1>3. ASSUME NEW x, NEW row, NEW m, At(s, x), Note(s, m),
             \/ x = "quota" /\ row = "key"
             \/ x = "insert" /\ row = "row"
             \/ x = "claim" /\ row = "invite"
             \/ x = "spend" /\ row = "token",
             mem[s] \in SignUpRecord => m \in SignUpRecord /\ m.way = mem[s].way
                                        /\ m.wrote = mem[s].wrote \cup {row},
             x # "spend" => (mem[s] \in SignUpRecord => m.late = mem[s].late),
             x # "insert" => Free(s, row),
             x = "claim" => invite < InviteUses,
             x = "quota" => partner.active /\ Cardinality(Lately) < PartnerLimit,
             x = "spend" => ~blind.spent /\ (mem[s] \in SignUpRecord => m.late = ~blind.accepted)
      PROVE  RegistrationSound'
  <2>1. /\ mem[s] \in SignUpRecord /\ HoldsAt(mem[s], Len(todo[s])) /\ Len(todo[s]) \in Nat \ {0}
        /\ StandsAt(mem[s].way, x, Len(todo[s])) /\ Wrote(s) = mem[s].wrote
    BY <1>1, <1>3, WhatIsNext
  <2>2. m \in SignUpRecord /\ m.way = mem[s].way /\ m.wrote = mem[s].wrote \cup {row}
    BY <1>3, <2>1
  <2>3. HoldsAt(m, Len(todo[s]) - 1)
    <3>1. m.wrote = mem[s].wrote \cup
            (CASE x = "quota" -> {"key"} [] x = "claim" -> {"invite"}
               [] x = "spend" -> {"token"} [] x = "insert" -> {"row"} [] OTHER -> {})
      BY <1>3, <2>2
    <3> QED
      BY <1>3, <2>1, <2>2, <3>1, StillHolds
  <2>4. /\ Requested(SignUpStatement)' /\ OthersWait(s) /\ OnTheWay(s)'
        /\ Wrote(s)' = IF todo'[s] = <<>> THEN {} ELSE m.wrote
        /\ todo'[s] # <<>> => mem'[s] = m
    BY <1>1, <1>3, <2>2, <2>3, Advances
  <2>5. \A r \in Wrote(s)' : r \in Wrote(s) \/ r \notin {"key", "invite", "token"} \/ Free(s, r)
    BY <1>3, <2>1, <2>2, <2>4
  <2>6. UNCHANGED <<accounts, invite, partner, blind, seats>> /\ Lately' = Lately /\ Prompt' = Prompt
    BY <1>1 DEF registrationTables, Lately, Prompt
  <2>7. "invite" \in Wrote(s)' => invite < InviteUses
    BY <1>1, <1>3, <2>1, <2>2, <2>4 DEF Room
  <2>8. "key" \in Wrote(s)' => partner.active /\ Cardinality(Lately) < PartnerLimit
    BY <1>1, <1>3, <2>1, <2>2, <2>4 DEF Room
  <2>9. "token" \in Wrote(s)' /\ ~mem'[s].late => Prompt = {}
    <3>1. SUFFICES ASSUME "token" \in Wrote(s)', ~mem'[s].late PROVE Prompt = {}
      OBVIOUS
    <3>2. mem'[s] = m /\ "token" \in m.wrote
      BY <2>4, <3>1
    <3>3. CASE x = "spend"
      <4>1. blind.accepted /\ ~blind.spent
        <5>1. m.late = ~blind.accepted /\ ~blind.spent
          BY <1>3, <2>1, <3>3
        <5>2. blind.accepted \in BOOLEAN
          BY DEF RegistrationSound, Counted, RegistrationTypeOK
        <5> QED
          BY <3>1, <3>2, <5>1, <5>2
      <4> QED
        BY <4>1 DEF RegistrationSound, Counted
    <3>4. CASE x # "spend"
      <4>1. m.late = mem[s].late /\ "token" \in mem[s].wrote
        BY <1>3, <2>1, <2>2, <3>2, <3>4
      <4> QED
        BY <1>1, <2>1, <3>1, <3>2, <4>1 DEF Room
    <3> QED
      BY <3>3, <3>4
  <2>10. Room(s)'
    BY <2>6, <2>7, <2>8, <2>9 DEF Room
  <2> QED
    BY <1>1, <2>4, <2>5, <2>10, NothingCommitted
<1>4. CASE CountQuota(s)
  <2> DEFINE m == [mem[s] EXCEPT !.wrote = @ \cup {"key"}]
  <2>1. Answer(s) \/ (At(s, "quota") /\ Note(s, m) /\ Free(s, "key") /\ partner.active
                        /\ Cardinality(Lately) < PartnerLimit)
    BY <1>4 DEF CountQuota, Hold
  <2>2. mem[s] \in SignUpRecord => /\ m \in SignUpRecord /\ m.way = mem[s].way
                                   /\ m.wrote = mem[s].wrote \cup {"key"} /\ m.late = mem[s].late
    BY WithRow DEF Rows
  <2> HIDE DEF m
  <2> QED
    BY <1>2, <1>3, <2>1, <2>2
<1>5. CASE InsertUser(s)
  <2> DEFINE m == [mem[s] EXCEPT !.wrote = @ \cup {"row"}]
  <2>1. Answer(s) \/ (At(s, "insert") /\ Note(s, m))
    BY <1>5 DEF InsertUser, Hold
  <2>2. mem[s] \in SignUpRecord => /\ m \in SignUpRecord /\ m.way = mem[s].way
                                   /\ m.wrote = mem[s].wrote \cup {"row"} /\ m.late = mem[s].late
    BY WithRow DEF Rows
  <2> HIDE DEF m
  <2> QED
    BY <1>2, <1>3, <2>1, <2>2
<1>6. CASE ClaimInvite(s)
  <2> DEFINE m == [mem[s] EXCEPT !.wrote = @ \cup {"invite"}]
  <2>1. Answer(s) \/ (At(s, "claim") /\ Note(s, m) /\ Free(s, "invite") /\ invite < InviteUses)
    BY <1>6 DEF ClaimInvite, Hold
  <2>2. mem[s] \in SignUpRecord => /\ m \in SignUpRecord /\ m.way = mem[s].way
                                   /\ m.wrote = mem[s].wrote \cup {"invite"} /\ m.late = mem[s].late
    BY WithRow DEF Rows
  <2> HIDE DEF m
  <2> QED
    BY <1>2, <1>3, <2>1, <2>2
<1>7. CASE SpendToken(s)
  <2> DEFINE late == ~blind.accepted
             m == [mem[s] EXCEPT !.wrote = @ \cup {"token"}, !.late = late]
  <2>1. Answer(s) \/ (At(s, "spend") /\ Note(s, m) /\ Free(s, "token") /\ ~blind.spent)
    BY <1>7 DEF SpendToken
  <2>2. mem[s] \in SignUpRecord => /\ m \in SignUpRecord /\ m.way = mem[s].way
                                   /\ m.wrote = mem[s].wrote \cup {"token"} /\ m.late = late
    <3>1. "token" \in Rows /\ late \in BOOLEAN
      BY DEF Rows
    <3> HIDE DEF late
    <3>2. ASSUME NEW r \in SignUpRecord
          PROVE  LET n == [r EXCEPT !.wrote = @ \cup {"token"}, !.late = late] IN
                   n \in SignUpRecord /\ n.way = r.way /\ n.wrote = r.wrote \cup {"token"} /\ n.late = late
      BY <3>1 DEF SignUpRecord
    <3> QED
      BY <3>2
  <2> HIDE DEF m
  <2> QED
    BY <1>2, <1>3, <2>1, <2>2
<1> QED
  BY <1>4, <1>5, <1>6, <1>7


Account == [name : Name, way : SignUpWays, lately : BOOLEAN, repo : BOOLEAN, late : BOOLEAN]

\* The account a sign-up commits.
Committed(r) ==
  [name |-> r.name, way |-> r.way, lately |-> r.way = "partner", repo |-> FALSE, late |-> r.late]

LEMMA CommittedIs ==
  ASSUME NEW r \in SignUpRecord
  PROVE  /\ Committed(r) \in Account
         /\ Committed(r).way = r.way /\ Committed(r).late = r.late
BY DEF SignUpRecord, Account, Committed

\* One account more in the last hour, or none.
LEMMA OneMoreLately ==
  ASSUME IsFiniteSet(accounts), NEW n, accounts' = accounts \cup {n}
  PROVE  /\ IsFiniteSet(accounts')
         /\ Cardinality(Lately) \in Nat /\ Cardinality(Lately') \in Nat
         /\ Cardinality(Lately') <= Cardinality(Lately) + 1
         /\ n.way # "partner" => Lately' = Lately
<1>1. IsFiniteSet(accounts')
  BY FS_AddElement
<1>2. IsFiniteSet(Lately) /\ IsFiniteSet(Lately')
  <2>1. Lately \in SUBSET accounts /\ Lately' \in SUBSET accounts'
    BY DEF Lately
  <2> QED
    BY <1>1, <2>1, FS_Subset
<1>3. Cardinality(Lately) \in Nat /\ Cardinality(Lately') \in Nat
  BY <1>2, FS_CardinalityType
<1>4. Lately' \in SUBSET (Lately \cup {n})
  BY DEF Lately
<1>5. /\ IsFiniteSet(Lately \cup {n})
      /\ Cardinality(Lately \cup {n}) \in {Cardinality(Lately), Cardinality(Lately) + 1}
  BY <1>2, FS_AddElement
<1>6. Cardinality(Lately') <= Cardinality(Lately \cup {n})
  BY <1>4, <1>5, FS_Subset
<1>7. Cardinality(Lately') <= Cardinality(Lately) + 1
  BY <1>3, <1>5, <1>6
<1>8. n.way # "partner" => Lately' = Lately
  BY DEF Lately
<1> QED
  BY <1>1, <1>3, <1>7, <1>8

\* A commit is counted against what its way in used up.
LEMMA CommitCounts ==
  ASSUME Counted, NEW r \in SignUpRecord,
         r.way \in ByInvite => invite < InviteUses,
         r.way = "partner" => partner.active /\ Cardinality(Lately) < PartnerLimit,
         r.way \in ByToken /\ ~r.late => Prompt = {},
         accounts' = accounts \cup {Committed(r)},
         invite' = IF r.way \in ByInvite THEN invite + 1 ELSE invite,
         partner' = IF r.way = "partner" THEN [partner EXCEPT !.total = @ + 1] ELSE partner,
         blind' = IF r.way \in ByToken THEN [blind EXCEPT !.spent = TRUE] ELSE blind,
         seats' = [invite  |-> seats.invite + (IF r.way \in ByInvite THEN 1 ELSE 0),
                   partner |-> seats.partner + (IF r.way = "partner" THEN 1 ELSE 0),
                   void    |-> seats.void \/ (r.way = "partner" /\ ~partner.active)]
  PROVE  Counted'
<1> DEFINE n == Committed(r)
<1>1. /\ accounts \subseteq Account /\ invite \in Nat /\ partner \in [active : BOOLEAN, total : Nat]
      /\ blind \in [accepted : BOOLEAN, spent : BOOLEAN]
      /\ seats \in [invite : Nat, partner : Nat, void : BOOLEAN]
      /\ IsFiniteSet(accounts)
      /\ seats.invite = invite /\ invite <= InviteUses
      /\ Cardinality(Lately) <= PartnerLimit /\ partner.total = seats.partner /\ ~seats.void
      /\ Prompt # {} => blind.spent \/ ~blind.accepted
  BY DEF Counted, RegistrationTypeOK, Account, LimitsHold, InvitesWithinUses, PartnerWithinQuota
<1>2. n \in Account /\ n.way = r.way /\ n.late = r.late /\ accounts' = accounts \cup {n}
  BY CommittedIs
<1> HIDE DEF n
<1>3. accounts' \subseteq Account /\ invite' \in Nat
  BY <1>1, <1>2
<1>4. /\ partner' \in [active : BOOLEAN, total : Nat]
      /\ partner'.total = partner.total + (IF r.way = "partner" THEN 1 ELSE 0)
  BY <1>1
<1>5. /\ blind' \in [accepted : BOOLEAN, spent : BOOLEAN]
      /\ r.way \in ByToken => blind'.spent
  BY <1>1
<1>6. /\ seats'.invite = seats.invite + (IF r.way \in ByInvite THEN 1 ELSE 0)
      /\ seats'.partner = seats.partner + (IF r.way = "partner" THEN 1 ELSE 0)
      /\ ~seats'.void
      /\ seats' \in [invite : Nat, partner : Nat, void : BOOLEAN]
  <2>1. (seats.void \/ (r.way = "partner" /\ ~partner.active)) = FALSE
    BY <1>1
  <2> QED
    BY <1>1, <2>1
<1>7. InvitesWithinUses'
  BY <1>1, <1>6, LimitsAssumption DEF InvitesWithinUses
<1>8. IsFiniteSet(accounts') /\ PartnerWithinQuota'
  <2>1. /\ IsFiniteSet(accounts')
        /\ Cardinality(Lately) \in Nat /\ Cardinality(Lately') \in Nat
        /\ Cardinality(Lately') <= Cardinality(Lately) + 1
        /\ n.way # "partner" => Lately' = Lately
    BY <1>1, <1>2, OneMoreLately
  <2>2. Cardinality(Lately') <= PartnerLimit
    <3>1. CASE n.way = "partner"
      BY <1>2, <2>1, <3>1, LimitsAssumption
    <3>2. CASE n.way # "partner"
      BY <1>1, <2>1, <3>2
    <3> QED
      BY <3>1, <3>2
  <2> QED
    BY <1>1, <1>4, <1>6, <2>1, <2>2 DEF PartnerWithinQuota
<1>9. TokenSpentOnce'
  <2>1. \A x \in accounts : n.way \in ByToken /\ x.way \in ByToken => x.late \/ n.late
    BY <1>2 DEF Prompt
  <2>2. \A x, y \in accounts : x.way \in ByToken /\ y.way \in ByToken => x = y \/ x.late \/ y.late
    BY DEF Counted, LimitsHold, TokenSpentOnce
  <2> QED
    BY <1>2, <2>1, <2>2 DEF TokenSpentOnce
<1>10. Prompt' # {} => blind'.spent \/ ~blind'.accepted
  <2>1. CASE r.way \in ByToken
    BY <1>5, <2>1
  <2>2. CASE r.way \notin ByToken
    <3>1. Prompt' = Prompt /\ blind' = blind
      BY <1>2, <2>2 DEF Prompt
    <3> QED
      BY <1>1, <3>1
  <2> QED
    BY <2>1, <2>2
<1> QED
  BY <1>3, <1>4, <1>5, <1>6, <1>7, <1>8, <1>9, <1>10 DEF Counted, RegistrationTypeOK, Account, LimitsHold

LEMMA CommitKeeps ==
  ASSUME RegistrationSound, NEW s \in Slot, CommitSignUp(s)
  PROVE  RegistrationSound'
<1> DEFINE r == mem[s]
           m == [r EXCEPT !.wrote = {}]
<1>1. /\ Requested(SignUpStatement) /\ OnTheWay(s) /\ Room(s) /\ At(s, "commit") /\ Note(s, m)
  BY DEF RegistrationSound, CommitSignUp
<1>2. /\ r \in SignUpRecord /\ HoldsAt(r, Len(todo[s])) /\ Len(todo[s]) \in Nat \ {0}
      /\ StandsAt(r.way, "commit", Len(todo[s])) /\ Wrote(s) = r.wrote
  BY <1>1, WhatIsNext
<1>3. Len(todo[s]) = 2
  BY <1>2 DEF StandsAt
<1>4. /\ "invite" \in r.wrote <=> r.way \in ByInvite
      /\ "key" \in r.wrote <=> r.way = "partner"
      /\ "token" \in r.wrote <=> r.way \in ByToken
  <2>1. HoldsAt(r, 2)
    BY <1>2, <1>3
  <2> QED
    BY <2>1 DEF HoldsAt
<1>5. m \in SignUpRecord /\ m.way = r.way /\ m.wrote = {}
  <2>1. "key" \in Rows
    BY DEF Rows
  <2> QED
    BY <1>2, <2>1, WithRow
<1> HIDE DEF m
<1>6. /\ Requested(SignUpStatement)' /\ OthersWait(s) /\ OnTheWay(s)' /\ Wrote(s)' = {}
  <2>1. HoldsAt(m, Len(todo[s]) - 1)
    BY <1>3, <1>5 DEF HoldsAt
  <2> QED
    BY <1>1, <1>5, <2>1, Advances
<1>7. /\ accounts' = accounts \cup {Committed(r)}
      /\ invite' = IF r.way \in ByInvite THEN invite + 1 ELSE invite
      /\ partner' = IF r.way = "partner" THEN [partner EXCEPT !.total = @ + 1] ELSE partner
      /\ blind' = IF r.way \in ByToken THEN [blind EXCEPT !.spent = TRUE] ELSE blind
      /\ seats' = [invite  |-> seats.invite + (IF r.way \in ByInvite THEN 1 ELSE 0),
                   partner |-> seats.partner + (IF r.way = "partner" THEN 1 ELSE 0),
                   void    |-> seats.void \/ (r.way = "partner" /\ ~partner.active)]
  BY <1>4 DEF CommitSignUp, Committed
<1>8. /\ r.way \in ByInvite => invite < InviteUses
      /\ r.way = "partner" => partner.active /\ Cardinality(Lately) < PartnerLimit
      /\ r.way \in ByToken /\ ~r.late => Prompt = {}
  BY <1>1, <1>2, <1>4 DEF Room
<1>9. Counted'
  <2>1. Counted
    BY DEF RegistrationSound
  <2> HIDE DEF r
  <2> QED
    BY <1>2, <1>7, <1>8, <2>1, CommitCounts
<1>10. Locked'
  BY <1>6, KeepLocked DEF RegistrationSound
<1>11. \A t \in Slot \ {s} : Wrote(t)' = Wrote(t) /\ mem'[t] = mem[t] /\ OnTheWay(t)'
  BY <1>6, OthersWrote DEF RegistrationSound
<1>12. ASSUME NEW t \in Slot \ {s} PROVE Room(t)'
  <2>1. \A row \in {"key", "invite", "token"} : row \in Wrote(t) => row \notin r.wrote
    BY <1>2 DEF RegistrationSound, Locked
  <2>2. Committed(r).way = r.way
    BY <1>2, CommittedIs
  <2>3. /\ Room(t) /\ IsFiniteSet(accounts)
    BY DEF RegistrationSound, Counted
  <2>4. "invite" \in Wrote(t) => invite' = invite
    BY <1>4, <1>7, <2>1
  <2>5. "key" \in Wrote(t) => partner' = partner /\ Lately' = Lately
    BY <1>4, <1>7, <2>1, <2>2, <2>3, OneMoreLately
  <2>6. "token" \in Wrote(t) => Prompt' = Prompt
    BY <1>4, <1>7, <2>1, <2>2 DEF Prompt
  <2> QED
    BY <1>11, <2>3, <2>4, <2>5, <2>6 DEF Room
<1>13. Room(s)'
  BY <1>6 DEF Room
<1> QED
  BY <1>6, <1>9, <1>10, <1>11, <1>12, <1>13 DEF RegistrationSound


-----------------------------------------------------------------------------
(* Accounts that are changed or gone, and what time does. *)

LEMMA ImageIsNoBigger ==
  ASSUME NEW S, IsFiniteSet(S), NEW f, NEW T, T \subseteq {f[x] : x \in S}
  PROVE  IsFiniteSet(T) /\ Cardinality(T) \in Nat /\ Cardinality(T) <= Cardinality(S)
<1> DEFINE U == {f[x] : x \in S}
           g == [x \in S |-> f[x]]
<1>1. g \in Surjection(S, U)
  BY DEF Surjection
<1> HIDE DEF g
<1>2. IsFiniteSet(U) /\ Cardinality(U) <= Cardinality(S)
  BY <1>1, FS_Surjection
<1>3. T \in SUBSET U
  OBVIOUS
<1> HIDE DEF U
<1>4. IsFiniteSet(T) /\ Cardinality(T) <= Cardinality(U)
  BY <1>2, <1>3, FS_Subset
<1>5. Cardinality(S) \in Nat /\ Cardinality(U) \in Nat /\ Cardinality(T) \in Nat
  BY <1>2, <1>4, FS_CardinalityType
<1> QED
  BY <1>2, <1>4, <1>5

\* Each account is one there was, of the same way in, no later and no fresher.
LEMMA ChangedAccounts ==
  ASSUME RegistrationSound, NEW f \in [accounts -> Account],
         \A x \in accounts : f[x].way = x.way /\ f[x].late = x.late /\ (f[x].lately => x.lately),
         accounts' \subseteq {f[x] : x \in accounts},
         UNCHANGED <<invite, partner, blind, seats>>
  PROVE  /\ Counted' /\ (Prompt = {} => Prompt' = {})
         /\ Cardinality(Lately) \in Nat /\ Cardinality(Lately') \in Nat
         /\ Cardinality(Lately') <= Cardinality(Lately)
<1>1. Counted
  BY DEF RegistrationSound
<1>2. \A y \in accounts' : y \in Account /\ \E x \in accounts : y = f[x]
  OBVIOUS
<1>3. IsFiniteSet(accounts')
  BY <1>1, ImageIsNoBigger DEF Counted
<1>4. /\ Cardinality(Lately) \in Nat /\ Cardinality(Lately') \in Nat
      /\ Cardinality(Lately') <= Cardinality(Lately)
  <2>1. IsFiniteSet(Lately)
    <3>1. Lately \in SUBSET accounts
      BY DEF Lately
    <3> QED
      BY <1>1, <3>1, FS_Subset DEF Counted
  <2>2. Lately' \subseteq {f[x] : x \in Lately}
    BY <1>2 DEF Lately
  <2> QED
    BY <2>1, <2>2, ImageIsNoBigger, FS_CardinalityType
<1>5. Prompt = {} => Prompt' = {}
  BY <1>2 DEF Prompt
<1>6. TokenSpentOnce'
  <2> SUFFICES ASSUME NEW y \in accounts', NEW z \in accounts', y.way \in ByToken, z.way \in ByToken
               PROVE  y = z \/ y.late \/ z.late
    BY DEF TokenSpentOnce
  <2>1. PICK x \in accounts : y = f[x]
    BY <1>2
  <2>2. PICK w \in accounts : z = f[w]
    BY <1>2
  <2>3. x = w \/ x.late \/ w.late
    BY <1>1, <2>1, <2>2 DEF Counted, LimitsHold, TokenSpentOnce
  <2> QED
    BY <2>1, <2>2, <2>3
<1>7. PartnerWithinQuota'
  <2>1. Cardinality(Lately) <= PartnerLimit /\ partner.total = seats.partner /\ ~seats.void
    BY <1>1 DEF Counted, LimitsHold, PartnerWithinQuota
  <2>2. Cardinality(Lately') <= PartnerLimit
    BY <1>4, <2>1, LimitsAssumption
  <2> QED
    BY <2>1, <2>2 DEF PartnerWithinQuota
<1>8. RegistrationTypeOK' /\ InvitesWithinUses' /\ (Prompt' # {} => blind'.spent \/ ~blind'.accepted)
  BY <1>1, <1>2, <1>5 DEF Counted, RegistrationTypeOK, LimitsHold, InvitesWithinUses, Account
<1>9. Counted'
  BY <1>3, <1>6, <1>7, <1>8 DEF Counted, LimitsHold
<1> QED
  BY <1>4, <1>5, <1>9

\* What a request has room for it still has when the accounts are no more.
LEMMA RoomRemains ==
  ASSUME NEW t, Room(t), Wrote(t)' = Wrote(t), mem'[t] = mem[t],
         invite' = invite, partner' = partner, PartnerLimit \in Nat,
         Prompt = {} => Prompt' = {},
         Cardinality(Lately) \in Nat, Cardinality(Lately') \in Nat,
         Cardinality(Lately') <= Cardinality(Lately)
  PROVE  Room(t)'
<1>1. Cardinality(Lately) < PartnerLimit => Cardinality(Lately') < PartnerLimit
  OBVIOUS
<1> QED
  BY <1>1 DEF Room

LEMMA WithRepo ==
  ASSUME NEW x \in Account
  PROVE  /\ [x EXCEPT !.repo = TRUE] \in Account
         /\ [x EXCEPT !.repo = TRUE].way = x.way
         /\ [x EXCEPT !.repo = TRUE].late = x.late
         /\ [x EXCEPT !.repo = TRUE].lately = x.lately
BY DEF Account

LEMMA NotLately ==
  ASSUME NEW x \in Account
  PROVE  /\ [x EXCEPT !.lately = FALSE] \in Account
         /\ [x EXCEPT !.lately = FALSE].way = x.way
         /\ [x EXCEPT !.lately = FALSE].late = x.late
         /\ [x EXCEPT !.lately = FALSE].lately = FALSE
BY DEF Account

LEMMA ReposKeep ==
  ASSUME RegistrationSound, NEW s \in Slot, MakeRepo(s) \/ FailRepo(s)
  PROVE  RegistrationSound'
<1>1. /\ Requested(SignUpStatement) /\ Answer(s) /\ UNCHANGED <<invite, partner, blind, seats>>
      /\ accounts \subseteq Account
  BY DEF RegistrationSound, MakeRepo, FailRepo, Counted, RegistrationTypeOK, Account
<1>2. /\ Requested(SignUpStatement)' /\ OthersWait(s) /\ OnTheWay(s)' /\ Wrote(s)' = {} /\ Room(s)'
  BY <1>1, AnswerMoves, Empties
<1>3. PICK f \in [accounts -> Account] :
        /\ \A x \in accounts : f[x].way = x.way /\ f[x].late = x.late /\ (f[x].lately => x.lately)
        /\ accounts' \subseteq {f[x] : x \in accounts}
  <2>1. CASE FailRepo(s)
    <3> DEFINE f == [x \in accounts |-> x]
    <3>1. f \in [accounts -> Account]
      BY <1>1
    <3>2. \A x \in accounts : f[x] = x
      OBVIOUS
    <3>3. accounts' \subseteq accounts
      BY <2>1 DEF FailRepo
    <3>4. accounts' \subseteq {f[x] : x \in accounts}
      BY <3>2, <3>3
    <3> HIDE DEF f
    <3> QED
      BY <3>1, <3>2, <3>4
  <2>2. CASE MakeRepo(s)
    <3> DEFINE f == [x \in accounts |-> IF x \in Own(s) THEN [x EXCEPT !.repo = TRUE] ELSE x]
    <3>1. accounts' = (accounts \ Own(s)) \cup {[x EXCEPT !.repo = TRUE] : x \in Own(s)}
      BY <2>2 DEF MakeRepo
    <3>2. \A x \in accounts : f[x] = IF x \in Own(s) THEN [x EXCEPT !.repo = TRUE] ELSE x
      OBVIOUS
    <3>3. \A x \in accounts : /\ f[x] \in Account /\ f[x].way = x.way /\ f[x].late = x.late
                              /\ f[x].lately = x.lately
      BY <1>1, <3>2, WithRepo
    <3>4. f \in [accounts -> Account]
      BY <1>1, WithRepo
    <3>5. Own(s) \subseteq accounts
      BY DEF Own
    <3> HIDE DEF f
    <3>6. accounts' \subseteq {f[x] : x \in accounts}
      BY <3>1, <3>2, <3>5
    <3> QED
      BY <3>3, <3>4, <3>6
  <2> QED
    BY <2>1, <2>2
<1>4. /\ Counted' /\ (Prompt = {} => Prompt' = {})
      /\ Cardinality(Lately) \in Nat /\ Cardinality(Lately') \in Nat
      /\ Cardinality(Lately') <= Cardinality(Lately)
  BY <1>1, <1>3, ChangedAccounts
<1>5. Locked'
  BY <1>2, KeepLocked DEF RegistrationSound
<1>6. \A t \in Slot \ {s} : Wrote(t)' = Wrote(t) /\ mem'[t] = mem[t] /\ OnTheWay(t)'
  BY <1>2, OthersWrote DEF RegistrationSound
<1>7. \A t \in Slot \ {s} : Room(t)'
  BY <1>1, <1>4, <1>6, RoomRemains, LimitsAssumption DEF RegistrationSound
<1> QED
  BY <1>2, <1>4, <1>5, <1>6, <1>7 DEF RegistrationSound

\* A key is revoked while no registration of its partner holds it.
LEMMA RevokedKeeps ==
  ASSUME RegistrationSound, NEW s \in Slot, WriteRevoked(s)
  PROVE  RegistrationSound'
<1>1. /\ Requested(SignUpStatement) /\ At(s, "revokeKey") /\ Pass(s) /\ Free(s, "key")
      /\ partner' = [partner EXCEPT !.active = FALSE]
      /\ UNCHANGED <<accounts, invite, blind, seats>>
      /\ OnTheWay(s)
  BY DEF RegistrationSound, WriteRevoked
<1>2. todo'[s] = <<>>
  <2>1. todo[s] # <<>> /\ todo[s] \in Seq(SignUpStatement) /\ Head(todo[s]) = "revokeKey"
    BY <1>1 DEF At, Requested
  <2>2. Len(todo[s]) \in Nat \ {0} /\ todo[s][1] = "revokeKey"
    BY <2>1
  <2>3. todo[s] = <<"revokeKey">>
    <3>1. SUFFICES ASSUME mem[s] \in SignUpRecord, OnRoute(s) PROVE FALSE
      BY <1>1, <2>1 DEF OnTheWay
    <3> DEFINE route == Route(mem[s].way)
               i == Len(route) - Len(todo[s]) + 1
    <3>2. mem[s].way \in SignUpWays
      BY <3>1 DEF SignUpRecord
    <3>3. /\ Len(route) \in Nat
          /\ \A k \in 1 .. Len(route) : StandsAt(mem[s].way, route[k], Len(route) - k + 1)
      <4>1. route \in Seq(SignUpStatement)
        BY <3>2, RouteShape
      <4>2. Len(route) \in Nat
        BY <4>1
      <4> QED
        BY <3>2, <4>2, RouteShape
    <3>4. Len(todo[s]) <= Len(route) /\ todo[s][1] = route[i]
      <4>1. 1 \in 1 .. Len(todo[s])
        BY <2>2
      <4>2. /\ Len(todo[s]) <= Len(route)
            /\ \A k \in 1 .. Len(todo[s]) : todo[s][k] = route[Len(route) - Len(todo[s]) + k]
        BY <3>1 DEF OnRoute
      <4> QED
        BY <4>1, <4>2
    <3> HIDE DEF route
    <3>5. i \in 1 .. Len(route)
      BY <2>2, <3>3, <3>4
    <3> HIDE DEF i
    <3>6. StandsAt(mem[s].way, "revokeKey", Len(route) - i + 1)
      BY <2>2, <3>3, <3>4, <3>5
    <3> QED
      BY <3>6 DEF StandsAt
  <2>4. Tail(<<"revokeKey">>) = <<>>
    OBVIOUS
  <2> QED
    BY <1>1, <2>3, <2>4, PassMoves DEF Follows
<1>3. /\ Requested(SignUpStatement)' /\ OthersWait(s) /\ OnTheWay(s)' /\ Wrote(s)' = {} /\ Room(s)'
  BY <1>1, <1>2, PassMoves, Empties
<1>4. Lately' = Lately /\ Prompt' = Prompt
  BY <1>1 DEF Lately, Prompt
<1>5. Counted'
  <2>1. Counted /\ partner' \in [active : BOOLEAN, total : Nat] /\ partner'.total = partner.total
    BY <1>1 DEF RegistrationSound, Counted, RegistrationTypeOK
  <2> QED
    BY <1>1, <1>4, <2>1 DEF Counted, RegistrationTypeOK, LimitsHold, InvitesWithinUses,
       PartnerWithinQuota, TokenSpentOnce
<1>6. Locked'
  BY <1>3, KeepLocked DEF RegistrationSound
<1>7. \A t \in Slot \ {s} : Wrote(t)' = Wrote(t) /\ mem'[t] = mem[t] /\ OnTheWay(t)'
  BY <1>3, OthersWrote DEF RegistrationSound
<1>8. \A t \in Slot \ {s} : Room(t)'
  BY <1>1, <1>4, <1>7 DEF RegistrationSound, Room, Free
<1> QED
  BY <1>3, <1>5, <1>6, <1>7, <1>8 DEF RegistrationSound

LEMMA SameRequestsWrote ==
  ASSUME UNCHANGED requests
  PROVE  /\ Requested(SignUpStatement) => Requested(SignUpStatement)'
         /\ Locked => Locked'
         /\ \A t \in Slot : /\ Wrote(t)' = Wrote(t) /\ mem'[t] = mem[t]
                            /\ OnTheWay(t) => OnTheWay(t)'
<1>1. todo' = todo /\ mem' = mem
  BY DEF requests
<1>2. \A t \in Slot : Wrote(t)' = Wrote(t) /\ mem'[t] = mem[t] /\ (OnTheWay(t) => OnTheWay(t)')
  BY <1>1 DEF Wrote, OnTheWay, OnRoute, HoldsAt
<1> QED
  BY <1>1, <1>2 DEF Requested, Locked

LEMMA TimeKeeps ==
  ASSUME RegistrationSound,
         HourPasses \/ EpochPasses \/ RetireEpoch \/ UNCHANGED registrationVars
  PROVE  RegistrationSound'
<1>1. UNCHANGED requests
  BY DEF HourPasses, EpochPasses, RetireEpoch, registrationVars
<1>2. /\ Requested(SignUpStatement)' /\ Locked'
      /\ \A t \in Slot : Wrote(t)' = Wrote(t) /\ mem'[t] = mem[t] /\ OnTheWay(t)'
  BY <1>1, SameRequestsWrote DEF RegistrationSound
<1>3. CASE HourPasses
  <2>1. /\ accounts' = {[x EXCEPT !.lately = FALSE] : x \in accounts}
        /\ UNCHANGED <<invite, partner, blind, seats>>
    BY <1>3 DEF HourPasses
  <2> DEFINE f == [x \in accounts |-> [x EXCEPT !.lately = FALSE]]
  <2>2. \A x \in accounts : f[x] = [x EXCEPT !.lately = FALSE]
    OBVIOUS
  <2>3. accounts \subseteq Account
    BY DEF RegistrationSound, Counted, RegistrationTypeOK, Account
  <2>4. \A x \in accounts : /\ f[x] \in Account /\ f[x].way = x.way /\ f[x].late = x.late
                            /\ f[x].lately = FALSE
    BY <2>2, <2>3, NotLately
  <2>5. f \in [accounts -> Account]
    BY <2>3, NotLately
  <2> HIDE DEF f
  <2>6. accounts' \subseteq {f[x] : x \in accounts}
    BY <2>1, <2>2
  <2>7. /\ Counted' /\ (Prompt = {} => Prompt' = {})
        /\ Cardinality(Lately) \in Nat /\ Cardinality(Lately') \in Nat
        /\ Cardinality(Lately') <= Cardinality(Lately)
    BY <2>1, <2>4, <2>5, <2>6, ChangedAccounts
  <2>8. \A t \in Slot : Room(t)'
    BY <1>2, <2>1, <2>7, RoomRemains, LimitsAssumption DEF RegistrationSound
  <2> QED
    BY <1>2, <2>7, <2>8 DEF RegistrationSound
<1>4. CASE EpochPasses \/ RetireEpoch
  <2>1. /\ UNCHANGED <<accounts, invite, partner, seats>>
        /\ blind' \in [accepted : BOOLEAN, spent : BOOLEAN] /\ ~blind'.accepted
    <3>1. blind \in [accepted : BOOLEAN, spent : BOOLEAN]
      BY DEF RegistrationSound, Counted, RegistrationTypeOK
    <3> QED
      BY <1>4, <3>1 DEF EpochPasses, RetireEpoch
  <2>2. Lately' = Lately /\ Prompt' = Prompt
    BY <2>1 DEF Lately, Prompt
  <2>3. Counted'
    BY <2>1, <2>2 DEF RegistrationSound, Counted, RegistrationTypeOK, LimitsHold, InvitesWithinUses,
       PartnerWithinQuota, TokenSpentOnce
  <2>4. \A t \in Slot : Room(t)'
    BY <1>2, <2>1, <2>2 DEF RegistrationSound, Room
  <2> QED
    BY <1>2, <2>3, <2>4 DEF RegistrationSound
<1>5. CASE UNCHANGED registrationVars
  <2>1. UNCHANGED <<accounts, invite, partner, blind, seats>>
    BY <1>5 DEF registrationVars, registrationTables
  <2>2. Lately' = Lately /\ Prompt' = Prompt
    BY <2>1 DEF Lately, Prompt
  <2>3. Counted'
    BY <2>1, <2>2 DEF RegistrationSound, Counted, RegistrationTypeOK, LimitsHold, InvitesWithinUses,
       PartnerWithinQuota, TokenSpentOnce
  <2>4. \A t \in Slot : Room(t)'
    BY <1>2, <2>1, <2>2 DEF RegistrationSound, Room
  <2> QED
    BY <1>2, <2>3, <2>4 DEF RegistrationSound
<1> QED
  BY <1>3, <1>4, <1>5

LEMMA InitRegistrationSound ==
  ASSUME RegistrationInit
  PROVE  RegistrationSound
<1>1. Requested(SignUpStatement) /\ \A s \in Slot : todo[s] = <<>>
  BY InitRequested DEF RegistrationInit
<1>2. \A s \in Slot : Wrote(s) = {} /\ OnTheWay(s)
  BY <1>1 DEF Wrote, OnTheWay
<1>3. Lately = {} /\ Prompt = {}
  BY DEF RegistrationInit, Lately, Prompt
<1>4. IsFiniteSet(accounts) /\ Cardinality(Lately) = 0
  BY <1>3, FS_EmptySet DEF RegistrationInit
<1>5. Counted
  BY <1>3, <1>4, LimitsAssumption DEF RegistrationInit, Counted, RegistrationTypeOK, LimitsHold,
     InvitesWithinUses, PartnerWithinQuota, TokenSpentOnce
<1> QED
  BY <1>1, <1>2, <1>5 DEF RegistrationSound, Locked, Room

LEMMA RegistrationSoundAlways == RegistrationSpec => []RegistrationSound
<1>1. RegistrationInit => RegistrationSound
  BY InitRegistrationSound
<1>2. RegistrationSound /\ [RegistrationNext]_registrationVars => RegistrationSound'
  <2> SUFFICES ASSUME RegistrationSound, [RegistrationNext]_registrationVars
               PROVE  RegistrationSound'
    OBVIOUS
  <2>1. CASE HourPasses \/ EpochPasses \/ RetireEpoch \/ UNCHANGED registrationVars
    BY <2>1, TimeKeeps
  <2>2. ASSUME NEW s \in Slot,
               \/ \E way \in SignUpWays, name \in Name : SignUp(s, way, name)
               \/ CountQuota(s) \/ CheckName(s) \/ InsertUser(s) \/ ClaimInvite(s)
               \/ AcceptToken(s) \/ SpendToken(s) \/ CommitSignUp(s)
               \/ MakeRepo(s) \/ FailRepo(s) \/ BreakOff(s) \/ RevokeKey(s) \/ WriteRevoked(s)
        PROVE  RegistrationSound'
    BY <2>2, SignUpKeeps, ReadsKeep, TakingKeeps, CommitKeeps, ReposKeep, RevokedKeeps
  <2> QED
    BY <2>1, <2>2 DEF RegistrationNext
<1> QED
  BY <1>1, <1>2, PTL DEF RegistrationSpec

\* However many sign-ups overlap, and in whichever order their handlers insert
\* the account and lock what admits it: an invite admits no more accounts than it
\* has uses, an hour sees no more registrations of a partner than its limit and
\* none after its key's revocation, and a blind token makes one account but for a
\* request that outlived its epoch (claimInvite, the quota of the partner's
\* registration, redeemToken).
THEOREM LimitsAreKept == RegistrationSpec => []LimitsHold
<1>1. RegistrationSound => LimitsHold
  BY DEF RegistrationSound, Counted
<1> QED
  BY <1>1, RegistrationSoundAlways, PTL

\* The rows of users, the invite, the partner's key and the blind token are what
\* they are taken for.
THEOREM RegistrationTyped == RegistrationSpec => []RegistrationTypeOK
<1>1. RegistrationSound => RegistrationTypeOK
  BY DEF RegistrationSound, Counted
<1> QED
  BY <1>1, RegistrationSoundAlways, PTL

-----------------------------------------------------------------------------
(* The chain oracle: a proof buys one change.                              *)

OracleStatement == {"insert credential", "verify", "cache", "reserve", "mutate", "finalize"}
ProofRecord == [what : {"proof"}, proof : Proof, verdict : {"none", "verified", "refuted"}]
MutationRecord == [what : {"mutation"}, proof : Proof, change : Change, row : Nat, seen : SUBSET Nat]
Evidence == [proof : Proof, change : Change, status : {"pending", "applied"}, keyed : BOOLEAN]

Inserting(s) == todo[s] = <<"insert credential">>
Judging(s)   == todo[s] = <<"verify", "cache">>
Caching(s)   == todo[s] = <<"cache">>
Reserving(s) == todo[s] = <<"reserve", "mutate", "finalize">>
Writing(s)   == todo[s] = <<"mutate", "finalize">>
Closing(s)   == todo[s] = <<"finalize">>
InHand(s)    == Writing(s) \/ Closing(s)

\* What a request at the oracle is about, and the row it reserved.
Asked(s) ==
  /\ todo[s] = <<>> \/ Inserting(s) \/ Judging(s) \/ Caching(s) \/ Reserving(s) \/ InHand(s)
  /\ Inserting(s) => mem[s].key \in Credential
  /\ Judging(s) \/ Caching(s) => mem[s] \in ProofRecord
  /\ Reserving(s) \/ InHand(s) => mem[s] \in MutationRecord
  /\ InHand(s) => /\ mem[s].row \in DOMAIN evidence
                  /\ evidence[mem[s].row].proof = mem[s].proof
                  /\ evidence[mem[s].row].change = mem[s].change
  /\ Writing(s) => done[mem[s].proof] = <<>>
  /\ Closing(s) => done[mem[s].proof] = <<mem[s].change>>

OneInHand ==
  \A s, t \in Slot : InHand(s) /\ InHand(t) /\ mem[s].proof = mem[t].proof => s = t

\* A proof has one row, and what was made with it is what the row says.
EvidenceTrue ==
  /\ \A i, j \in DOMAIN evidence : evidence[i].proof = evidence[j].proof => i = j
  /\ \A i \in DOMAIN evidence :
       /\ done[evidence[i].proof] \in {<<>>, <<evidence[i].change>>}
       /\ evidence[i].status = "applied" => done[evidence[i].proof] = <<evidence[i].change>>
  /\ \A p \in Proof : done[p] # <<>> => \E i \in DOMAIN evidence : evidence[i].proof = p
  /\ ~mistold

\* Whoever creates a credential found none, and nobody else is creating one
\* when it is there.
OneCredential ==
  rivals \/ /\ \A j, k \in Active : j = k
            /\ Active # {} => \A s \in Slot : ~Inserting(s)

OracleSound ==
  /\ OracleTypeOK /\ DOMAIN done = Proof
  /\ Requested(OracleStatement) /\ \A s \in Slot : Asked(s)
  /\ OneInHand /\ EvidenceTrue /\ OneCredential

\* The statement that comes next tells how far a request is.
LEMMA OracleNextIs ==
  ASSUME NEW s, Asked(s), NEW x, At(s, x)
  PROVE  /\ x = "insert credential" => Inserting(s)
         /\ x = "verify" => Judging(s)
         /\ x = "cache" => Caching(s)
         /\ x = "reserve" => Reserving(s)
         /\ x = "mutate" => Writing(s)
         /\ x = "finalize" => Closing(s)
<1>1. /\ Head(<<"insert credential">>) = "insert credential" /\ Head(<<"verify", "cache">>) = "verify"
      /\ Head(<<"cache">>) = "cache" /\ Head(<<"reserve", "mutate", "finalize">>) = "reserve"
      /\ Head(<<"mutate", "finalize">>) = "mutate" /\ Head(<<"finalize">>) = "finalize"
  OBVIOUS
<1> QED
  BY <1>1 DEF Asked, At, Inserting, Judging, Caching, Reserving, Writing, Closing, InHand

LEMMA OracleTails ==
  /\ Tail(<<"insert credential">>) = <<>>
  /\ Tail(<<"verify", "cache">>) = <<"cache">>
  /\ Tail(<<"cache">>) = <<>>
  /\ Tail(<<"reserve", "mutate", "finalize">>) = <<"mutate", "finalize">>
  /\ Tail(<<"mutate", "finalize">>) = <<"finalize">>
  /\ Tail(<<"finalize">>) = <<>>
OBVIOUS

\* No two of the stages are the same.
LEMMA StagesApart ==
  ASSUME NEW s
  PROVE  /\ todo[s] = <<>> => ~Inserting(s) /\ ~Judging(s) /\ ~Caching(s) /\ ~Reserving(s) /\ ~InHand(s)
         /\ Inserting(s) => ~Judging(s) /\ ~Caching(s) /\ ~Reserving(s) /\ ~InHand(s)
         /\ Judging(s) \/ Caching(s) => ~Inserting(s) /\ ~Reserving(s) /\ ~InHand(s)
         /\ Reserving(s) => ~Inserting(s) /\ ~Judging(s) /\ ~Caching(s) /\ ~InHand(s)
         /\ InHand(s) => ~Inserting(s) /\ ~Judging(s) /\ ~Caching(s) /\ ~Reserving(s)
         /\ ~(Writing(s) /\ Closing(s))
<1> DEFINE all == {<<>>, <<"insert credential">>, <<"verify", "cache">>, <<"cache">>,
                   <<"reserve", "mutate", "finalize">>, <<"mutate", "finalize">>, <<"finalize">>}
<1>1. /\ <<>> # <<"insert credential">> /\ <<>> # <<"verify", "cache">> /\ <<>> # <<"cache">>
      /\ <<>> # <<"reserve", "mutate", "finalize">> /\ <<>> # <<"mutate", "finalize">>
      /\ <<>> # <<"finalize">>
  OBVIOUS
<1>2. /\ Head(<<"insert credential">>) = "insert credential" /\ Head(<<"verify", "cache">>) = "verify"
      /\ Head(<<"cache">>) = "cache" /\ Head(<<"reserve", "mutate", "finalize">>) = "reserve"
      /\ Head(<<"mutate", "finalize">>) = "mutate" /\ Head(<<"finalize">>) = "finalize"
  OBVIOUS
<1> QED
  BY <1>1, <1>2 DEF Inserting, Judging, Caching, Reserving, Writing, Closing, InHand

LEMMA OthersAsked ==
  ASSUME NEW s \in Slot, OthersWait(s), NEW t \in Slot \ {s}
  PROVE  /\ Inserting(t)' = Inserting(t) /\ Writing(t)' = Writing(t) /\ Closing(t)' = Closing(t)
         /\ Judging(t)' = Judging(t) /\ Caching(t)' = Caching(t) /\ Reserving(t)' = Reserving(t)
         /\ InHand(t)' = InHand(t) /\ todo'[t] = todo[t] /\ mem'[t] = mem[t]
<1>1. todo'[t] = todo[t] /\ mem'[t] = mem[t]
  BY DEF OthersWait
<1> QED
  BY <1>1 DEF Inserting, Judging, Caching, Reserving, Writing, Closing, InHand

\* Steps that leave the audit log alone, and have nothing reserved that they had not.
LEMMA LogStays ==
  ASSUME OracleSound, NEW s \in Slot, UNCHANGED <<evidence, done, mistold>>,
         Requested(OracleStatement)', OthersWait(s), Asked(s)', OneCredential',
         credentials' \in [Credential -> {"none", "active", "revoked"}],
         verifications' \in [Proof -> {"none", "verified", "refuted"}], rivals' \in BOOLEAN,
         InHand(s)' => InHand(s) /\ mem'[s] = mem[s]
  PROVE  OracleSound'
<1>1. \A t \in Slot \ {s} : Asked(t)'
  <2> TAKE t \in Slot \ {s}
  <2>1. Asked(t)
    BY DEF OracleSound
  <2> QED
    BY <2>1, OthersAsked DEF Asked
<1>2. OneInHand'
  <2>1. \A t \in Slot : InHand(t)' => InHand(t) /\ mem'[t] = mem[t]
    BY OthersAsked
  <2> QED
    BY <2>1 DEF OracleSound, OneInHand
<1>3. EvidenceTrue' /\ OracleTypeOK' /\ DOMAIN done' = Proof
  BY DEF OracleSound, EvidenceTrue, OracleTypeOK
<1> QED
  BY <1>1, <1>2, <1>3 DEF OracleSound

\* A request that ends, or has nothing more to do.
LEMMA EndsAsked ==
  ASSUME NEW s, todo'[s] = <<>>
  PROVE  Asked(s)' /\ ~InHand(s)' /\ ~Inserting(s)'
<1>1. ~Inserting(s)' /\ ~Judging(s)' /\ ~Caching(s)' /\ ~Reserving(s)' /\ ~InHand(s)'
  <2>1. /\ <<>> # <<"insert credential">> /\ <<>> # <<"verify", "cache">> /\ <<>> # <<"cache">>
        /\ <<>> # <<"reserve", "mutate", "finalize">> /\ <<>> # <<"mutate", "finalize">>
        /\ <<>> # <<"finalize">>
    OBVIOUS
  <2> QED
    BY <2>1 DEF Inserting, Judging, Caching, Reserving, Writing, Closing, InHand
<1> QED
  BY <1>1 DEF Asked, InHand


\* A request goes on to the rest of its statements.
LEMMA NoteTo ==
  ASSUME NEW Statement, Requested(Statement), NEW s \in Slot, NEW m, Note(s, m),
         NEW rest \in Seq(Statement), Tail(todo[s]) = rest
  PROVE  /\ Requested(Statement)' /\ OthersWait(s) /\ todo'[s] = rest
         /\ rest # <<>> => mem'[s] = m
<1>1. Turn(s, rest, m)
  BY DEF Note
<1> QED
  BY <1>1, TurnMoves

LEMMA PassTo ==
  ASSUME NEW Statement, Requested(Statement), NEW s \in Slot, Pass(s),
         NEW rest \in Seq(Statement), Tail(todo[s]) = rest
  PROVE  /\ Requested(Statement)' /\ OthersWait(s) /\ todo'[s] = rest
         /\ rest # <<>> => mem'[s] = mem[s]
<1>1. Note(s, mem[s])
  BY DEF Pass, Note
<1> QED
  BY <1>1, NoteTo

LEMMA OracleSeqs ==
  /\ <<>> \in Seq(OracleStatement)
  /\ <<"insert credential">> \in Seq(OracleStatement) /\ <<"insert credential">> # <<>>
  /\ <<"verify", "cache">> \in Seq(OracleStatement) /\ <<"verify", "cache">> # <<>>
  /\ <<"cache">> \in Seq(OracleStatement) /\ <<"cache">> # <<>>
  /\ <<"reserve", "mutate", "finalize">> \in Seq(OracleStatement)
  /\ <<"reserve", "mutate", "finalize">> # <<>>
  /\ <<"mutate", "finalize">> \in Seq(OracleStatement) /\ <<"mutate", "finalize">> # <<>>
  /\ <<"finalize">> \in Seq(OracleStatement) /\ <<"finalize">> # <<>>
BY DEF OracleStatement

\* Nobody starts to create a credential, and none is created or revoked.
LEMMA CredentialsStay ==
  ASSUME OracleSound, NEW s \in Slot, OthersWait(s), Inserting(s)' => Inserting(s),
         UNCHANGED <<credentials, rivals>>
  PROVE  OneCredential'
<1>1. \A t \in Slot : Inserting(t)' => Inserting(t)
  BY OthersAsked
<1>2. Active' = Active
  BY DEF Active
<1> QED
  BY <1>1, <1>2 DEF OracleSound, OneCredential

LEMMA OracleEndsKeep ==
  ASSUME OracleSound, NEW s \in Slot, OracleFails(s) \/ \E k \in Credential : RevokeCredential(s, k)
  PROVE  OracleSound'
<1>1. Requested(OracleStatement) /\ OracleTypeOK
  BY DEF OracleSound
<1>2. /\ Requested(OracleStatement)' /\ OthersWait(s) /\ todo'[s] = <<>>
      /\ UNCHANGED <<evidence, done, mistold, verifications, rivals>>
  BY <1>1, AnswerMoves, AtOnceMoves DEF OracleFails, RevokeCredential, oracleTables, oraclePast
<1>3. Asked(s)' /\ ~InHand(s)' /\ ~Inserting(s)'
  BY <1>2, EndsAsked
<1>4. CASE OracleFails(s)
  <2>1. UNCHANGED credentials
    BY <1>4 DEF OracleFails, oracleTables
  <2> QED
    BY <1>1, <1>2, <1>3, <2>1, CredentialsStay, LogStays DEF OracleTypeOK
<1>5. CASE \E k \in Credential : RevokeCredential(s, k)
  <2>1. PICK k \in Credential : credentials' = [credentials EXCEPT ![k] = "revoked"]
    BY <1>5 DEF RevokeCredential
  <2>2. credentials' \in [Credential -> {"none", "active", "revoked"}] /\ Active' \subseteq Active
    BY <1>1, <2>1 DEF OracleTypeOK, Active
  <2>3. \A t \in Slot : Inserting(t)' => Inserting(t)
    BY <1>2, <1>3, OthersAsked
  <2>4. OneCredential'
    BY <1>2, <2>2, <2>3 DEF OracleSound, OneCredential
  <2> QED
    BY <1>1, <1>2, <1>3, <2>2, <2>4, LogStays DEF OracleTypeOK
<1> QED
  BY <1>4, <1>5

LEMMA CreatesKeep ==
  ASSUME OracleSound, NEW s \in Slot,
         (\E k \in Credential : CreateCredential(s, k)) \/ InsertCredential(s)
  PROVE  OracleSound'
<1>1. Requested(OracleStatement) /\ OracleTypeOK /\ Asked(s)
  BY DEF OracleSound
<1>2. CASE \E k \in Credential : CreateCredential(s, k)
  <2>1. PICK k \in Credential : CreateCredential(s, k)
    BY <1>2
  <2> DEFINE m == [what |-> "credential", key |-> k]
  <2>2. Begin(s, <<"insert credential">>, m) /\ Active = {} /\ UNCHANGED <<oracleTables, oraclePast>>
    BY <2>1 DEF CreateCredential
  <2>3. m.key = k
    OBVIOUS
  <2> HIDE DEF m
  <2>4. Requested(OracleStatement)' /\ OthersWait(s) /\ Inserting(s)' /\ mem'[s] = m
    BY <1>1, <2>2, OracleSeqs, BeginMoves DEF Inserting
  <2>5. Asked(s)' /\ ~InHand(s)'
    <3>1. ~Judging(s)' /\ ~Caching(s)' /\ ~Reserving(s)' /\ ~InHand(s)' /\ ~Writing(s)' /\ ~Closing(s)'
      <4>1. /\ <<"insert credential">> # <<"verify", "cache">> /\ <<"insert credential">> # <<"cache">>
            /\ <<"insert credential">> # <<"reserve", "mutate", "finalize">>
            /\ <<"insert credential">> # <<"mutate", "finalize">>
            /\ <<"insert credential">> # <<"finalize">>
        OBVIOUS
      <4> QED
        BY <2>4, <4>1 DEF Inserting, Judging, Caching, Reserving, Writing, Closing, InHand
    <3> QED
      BY <2>3, <2>4, <3>1 DEF Asked
  <2>6. Active' = {} /\ UNCHANGED <<evidence, done, mistold, credentials, verifications, rivals>>
    BY <2>2 DEF oracleTables, oraclePast, Active
  <2>7. OneCredential'
    BY <2>6 DEF OneCredential
  <2> QED
    BY <1>1, <2>4, <2>5, <2>6, <2>7, LogStays DEF OracleTypeOK
<1>3. CASE InsertCredential(s)
  <2>1. /\ At(s, "insert credential") /\ Pass(s)
        /\ credentials' = [credentials EXCEPT ![mem[s].key] = "active"]
        /\ rivals' = (rivals \/ \E t \in Slot \ {s} : Pending(t, "insert credential"))
        /\ UNCHANGED <<evidence, verifications, done, mistold>>
    BY <1>3 DEF InsertCredential
  <2>2. Inserting(s) /\ mem[s].key \in Credential
    BY <1>1, <2>1, OracleNextIs DEF Asked
  <2>3. Requested(OracleStatement)' /\ OthersWait(s) /\ todo'[s] = <<>>
    BY <1>1, <2>1, <2>2, OracleTails, OracleSeqs, PassTo DEF Inserting
  <2>4. Asked(s)' /\ ~InHand(s)' /\ ~Inserting(s)'
    BY <2>3, EndsAsked
  <2>5. /\ credentials' \in [Credential -> {"none", "active", "revoked"}] /\ rivals' \in BOOLEAN
        /\ Active' = Active \cup {mem[s].key}
    BY <1>1, <2>1, <2>2 DEF OracleTypeOK, Active
  <2>6. ASSUME NEW t \in Slot \ {s}, Inserting(t) PROVE Pending(t, "insert credential")
    <3>1. DOMAIN <<"insert credential">> = {1} /\ <<"insert credential">>[1] = "insert credential"
      OBVIOUS
    <3> QED
      BY <2>6, <3>1 DEF Inserting, Pending, Steps
  <2>7. ~rivals' => Active = {} /\ ~rivals /\ \A t \in Slot : ~Inserting(t)'
    <3>1. rivals \/ Active = {}
      BY <2>2 DEF OracleSound, OneCredential
    <3> QED
      BY <2>1, <2>3, <2>4, <2>6, <3>1, OthersAsked
  <2>8. OneCredential'
    BY <2>5, <2>7 DEF OneCredential
  <2> QED
    BY <1>1, <2>1, <2>3, <2>4, <2>5, <2>8, LogStays DEF OracleTypeOK
<1> QED
  BY <1>2, <1>3

LEMMA VerdictsKeep ==
  ASSUME OracleSound, NEW s \in Slot,
         (\E p \in Proof : SubmitProof(s, p)) \/ VerifyProof(s) \/ CacheVerification(s)
  PROVE  OracleSound'
<1>1. Requested(OracleStatement) /\ OracleTypeOK /\ Asked(s)
  BY DEF OracleSound
<1>2. UNCHANGED <<evidence, done, mistold, credentials, rivals>>
  BY DEF SubmitProof, VerifyProof, CacheVerification, oracleTables, oraclePast
<1>3. ASSUME Requested(OracleStatement)', OthersWait(s),
             todo'[s] = <<>> \/ ((Judging(s)' \/ Caching(s)') /\ mem'[s] \in ProofRecord),
             verifications' \in [Proof -> {"none", "verified", "refuted"}]
      PROVE  OracleSound'
  <2>1. Asked(s)' /\ ~InHand(s)' /\ ~Inserting(s)'
    <3>1. CASE todo'[s] = <<>>
      BY <3>1, EndsAsked
    <3>2. CASE (Judging(s)' \/ Caching(s)') /\ mem'[s] \in ProofRecord
      <4>1. /\ <<"verify", "cache">> # <<"insert credential">> /\ <<"cache">> # <<"insert credential">>
            /\ <<"verify", "cache">> # <<"reserve", "mutate", "finalize">>
            /\ <<"cache">> # <<"reserve", "mutate", "finalize">>
            /\ <<"verify", "cache">> # <<"mutate", "finalize">> /\ <<"cache">> # <<"mutate", "finalize">>
            /\ <<"verify", "cache">> # <<"finalize">> /\ <<"cache">> # <<"finalize">>
        <5>1. Head(<<"verify", "cache">>) = "verify" /\ Head(<<"cache">>) = "cache"
          OBVIOUS
        <5>2. /\ Head(<<"reserve", "mutate", "finalize">>) = "reserve"
              /\ Head(<<"mutate", "finalize">>) = "mutate" /\ Head(<<"finalize">>) = "finalize"
              /\ Head(<<"insert credential">>) = "insert credential"
          OBVIOUS
        <5> QED
          BY <5>1, <5>2
      <4>2. ~Inserting(s)' /\ ~Reserving(s)' /\ ~InHand(s)' /\ ~Writing(s)' /\ ~Closing(s)'
        BY <3>2, <4>1 DEF Inserting, Judging, Caching, Reserving, Writing, Closing, InHand
      <4> QED
        BY <3>2, <4>2 DEF Asked
    <3> QED
      BY <1>3, <3>1, <3>2
  <2>2. OneCredential'
    BY <1>2, <1>3, <2>1, CredentialsStay
  <2> QED
    BY <1>1, <1>2, <1>3, <2>1, <2>2, LogStays DEF OracleTypeOK
<1>4. CASE \E p \in Proof : SubmitProof(s, p)
  <2>1. PICK p \in Proof : SubmitProof(s, p)
    BY <1>4
  <2> DEFINE m == [what |-> "proof", proof |-> p, verdict |-> "none"]
             steps == IF verifications[p] = "none" THEN <<"verify", "cache">> ELSE <<>>
  <2>2. Begin(s, steps, m) /\ UNCHANGED <<oracleTables, oraclePast>>
    BY <2>1 DEF SubmitProof
  <2>3. m \in ProofRecord
    BY DEF ProofRecord
  <2>4. steps \in Seq(OracleStatement) /\ steps \in {<<>>, <<"verify", "cache">>}
    BY OracleSeqs
  <2> HIDE DEF m, steps
  <2>5. /\ Requested(OracleStatement)' /\ OthersWait(s) /\ todo'[s] = steps
        /\ steps # <<>> => mem'[s] = m
    BY <1>1, <2>2, <2>4, BeginMoves
  <2> QED
    BY <1>1, <1>3, <2>2, <2>3, <2>4, <2>5, OracleSeqs DEF Judging, oracleTables, OracleTypeOK
<1>5. CASE VerifyProof(s)
  <2>1. PICK verdict \in {"verified", "refuted"} :
          At(s, "verify") /\ Note(s, [mem[s] EXCEPT !.verdict = verdict])
          /\ UNCHANGED <<oracleTables, oraclePast>>
    BY <1>5 DEF VerifyProof
  <2>2. Judging(s) /\ mem[s] \in ProofRecord
    BY <1>1, <2>1, OracleNextIs DEF Asked
  <2> DEFINE m == [mem[s] EXCEPT !.verdict = verdict]
  <2>3. m \in ProofRecord
    BY <2>2 DEF ProofRecord
  <2>4. Note(s, m)
    BY <2>1
  <2> HIDE DEF m
  <2>5. Requested(OracleStatement)' /\ OthersWait(s) /\ todo'[s] = <<"cache">> /\ mem'[s] = m
    BY <1>1, <2>2, <2>4, OracleTails, OracleSeqs, NoteTo DEF Judging
  <2> QED
    BY <1>1, <1>3, <2>1, <2>3, <2>5 DEF Caching, oracleTables, OracleTypeOK
<1>6. CASE CacheVerification(s)
  <2>1. /\ At(s, "cache") /\ Pass(s)
        /\ verifications' = [verifications EXCEPT ![mem[s].proof] = mem[s].verdict]
    BY <1>6 DEF CacheVerification
  <2>2. Caching(s) /\ mem[s] \in ProofRecord
    BY <1>1, <2>1, OracleNextIs DEF Asked
  <2>3. Requested(OracleStatement)' /\ OthersWait(s) /\ todo'[s] = <<>>
    BY <1>1, <2>1, <2>2, OracleTails, OracleSeqs, PassTo DEF Caching
  <2>4. verifications' \in [Proof -> {"none", "verified", "refuted"}]
    BY <1>1, <2>1, <2>2 DEF ProofRecord, OracleTypeOK
  <2> QED
    BY <1>3, <2>3, <2>4
<1> QED
  BY <1>4, <1>5, <1>6


LEMMA MutateStarts ==
  ASSUME OracleSound, NEW s \in Slot, NEW p \in Proof, NEW c \in Change, OracleMutate(s, p, c)
  PROVE  OracleSound'
<1>1. Requested(OracleStatement) /\ OracleTypeOK
  BY DEF OracleSound
<1> DEFINE m == [Mutation(p, c) EXCEPT !.seen = RowsFor(p)]
<1>2. /\ Begin(s, <<"reserve", "mutate", "finalize">>, m)
      /\ UNCHANGED <<evidence, done, mistold, credentials, rivals, verifications>>
  BY DEF OracleMutate, oracleTables, oraclePast
<1>3. m \in MutationRecord
  <2>1. DOMAIN evidence \subseteq Nat
    BY <1>1 DEF OracleTypeOK
  <2>2. RowsFor(p) \in SUBSET Nat
    BY <2>1 DEF RowsFor
  <2> QED
    BY <2>2 DEF Mutation, MutationRecord
<1> HIDE DEF m
<1>4. Requested(OracleStatement)' /\ OthersWait(s) /\ Reserving(s)' /\ mem'[s] = m
  BY <1>1, <1>2, OracleSeqs, BeginMoves DEF Reserving
<1>5. ~Inserting(s)' /\ ~Judging(s)' /\ ~Caching(s)' /\ ~InHand(s)' /\ ~Writing(s)' /\ ~Closing(s)'
  <2>1. /\ Head(<<"reserve", "mutate", "finalize">>) = "reserve" /\ Head(<<"verify", "cache">>) = "verify"
        /\ Head(<<"cache">>) = "cache" /\ Head(<<"insert credential">>) = "insert credential"
        /\ Head(<<"mutate", "finalize">>) = "mutate" /\ Head(<<"finalize">>) = "finalize"
    OBVIOUS
  <2> QED
    BY <1>4, <2>1 DEF Inserting, Judging, Caching, Reserving, Writing, Closing, InHand
<1>6. Asked(s)'
  BY <1>3, <1>4, <1>5 DEF Asked
<1>7. OneCredential'
  BY <1>2, <1>4, <1>5, CredentialsStay
<1> QED
  BY <1>1, <1>2, <1>4, <1>5, <1>6, <1>7, LogStays DEF OracleTypeOK

\* A proof without a row gets one, and its request is the only one that has it.
LEMMA RowReserved ==
  ASSUME OracleSound, NEW s \in Slot, Reserving(s), NEW m,
         m = [mem[s] EXCEPT !.row = Len(evidence) + 1], Note(s, m),
         RowsFor(mem[s].proof) = {},
         evidence' = Append(evidence, Row(mem[s].proof, mem[s].change, "pending", TRUE)),
         UNCHANGED <<credentials, verifications, done, rivals, mistold>>
  PROVE  OracleSound'
<1>1. /\ Requested(OracleStatement) /\ OracleTypeOK /\ DOMAIN done = Proof /\ EvidenceTrue /\ OneInHand
      /\ \A t \in Slot : Asked(t)
  BY DEF OracleSound
<1> DEFINE n == Row(mem[s].proof, mem[s].change, "pending", TRUE)
<1>2. mem[s] \in MutationRecord
  BY <1>1 DEF Asked
<1>3. /\ n \in Evidence /\ n.proof = mem[s].proof /\ n.change = mem[s].change /\ n.status = "pending"
      /\ evidence \in Seq(Evidence) /\ Len(evidence) \in Nat
  BY <1>1, <1>2 DEF OracleTypeOK, Evidence, Row, MutationRecord
<1>4. m \in MutationRecord /\ m.proof = mem[s].proof /\ m.change = mem[s].change /\ m.row = Len(evidence) + 1
  BY <1>2, <1>3 DEF MutationRecord
<1>5. evidence' = Append(evidence, n)
  OBVIOUS
<1> HIDE DEF n
<1>6. /\ evidence' \in Seq(Evidence) /\ DOMAIN evidence' = DOMAIN evidence \cup {Len(evidence) + 1}
      /\ Len(evidence) + 1 \notin DOMAIN evidence
      /\ \A i \in DOMAIN evidence : evidence'[i] = evidence[i]
      /\ evidence'[Len(evidence) + 1] = n
  <2>1. DOMAIN evidence = 1 .. Len(evidence)
    BY <1>3
  <2>2. /\ evidence' \in Seq(Evidence) /\ Len(evidence') = Len(evidence) + 1
        /\ \A i \in 1 .. Len(evidence) : evidence'[i] = evidence[i]
        /\ evidence'[Len(evidence) + 1] = n
    <3>1. /\ Append(evidence, n) \in Seq(Evidence) /\ Len(Append(evidence, n)) = Len(evidence) + 1
          /\ \A i \in 1 .. Len(evidence) : Append(evidence, n)[i] = evidence[i]
          /\ Append(evidence, n)[Len(evidence) + 1] = n
      BY <1>3, AppendProperties
    <3> QED
      BY <1>5, <3>1
  <2>3. DOMAIN evidence' = 1 .. Len(evidence) + 1
    BY <2>2
  <2>4. \A l \in Nat : 1 .. l + 1 = (1 .. l) \cup {l + 1} /\ l + 1 \notin 1 .. l
    OBVIOUS
  <2> QED
    BY <1>3, <2>1, <2>2, <2>3, <2>4
<1>7. \A i \in DOMAIN evidence : evidence[i].proof # mem[s].proof
  BY DEF RowsFor
<1>8. mem[s].proof \in Proof /\ done[mem[s].proof] = <<>>
  BY <1>1, <1>2, <1>7 DEF EvidenceTrue, MutationRecord
<1>9. EvidenceTrue'
  <2>1. /\ \A i, j \in DOMAIN evidence : evidence[i].proof = evidence[j].proof => i = j
        /\ \A i \in DOMAIN evidence :
             /\ done[evidence[i].proof] \in {<<>>, <<evidence[i].change>>}
             /\ evidence[i].status = "applied" => done[evidence[i].proof] = <<evidence[i].change>>
        /\ \A p \in Proof : done[p] # <<>> => \E i \in DOMAIN evidence : evidence[i].proof = p
        /\ ~mistold
    BY <1>1 DEF EvidenceTrue
  <2>2. \A i, j \in DOMAIN evidence' : evidence'[i].proof = evidence'[j].proof => i = j
    <3>1. \A i \in DOMAIN evidence' : i = Len(evidence) + 1 \/ i \in DOMAIN evidence
      BY <1>6
    <3>2. evidence'[Len(evidence) + 1].proof = mem[s].proof
      BY <1>3, <1>6
    <3>3. \A i \in DOMAIN evidence : evidence'[i].proof = evidence[i].proof
      BY <1>6
    <3> DEFINE last == Len(evidence) + 1
    <3>4. \A i \in DOMAIN evidence' : i = last \/ i \in DOMAIN evidence
      BY <3>1
    <3>5. evidence'[last].proof = mem[s].proof
      BY <3>2
    <3> HIDE DEF last
    <3> TAKE i, j \in DOMAIN evidence'
    <3>6. CASE i = last
      BY <1>7, <3>3, <3>4, <3>5, <3>6
    <3>7. CASE j = last
      BY <1>7, <3>3, <3>4, <3>5, <3>7
    <3>8. CASE i # last /\ j # last
      BY <2>1, <3>3, <3>4, <3>8
    <3> QED
      BY <3>6, <3>7, <3>8
  <2>3. \A i \in DOMAIN evidence' :
          /\ done[evidence'[i].proof] \in {<<>>, <<evidence'[i].change>>}
          /\ evidence'[i].status = "applied" => done[evidence'[i].proof] = <<evidence'[i].change>>
    <3> TAKE i \in DOMAIN evidence'
    <3>1. CASE i = Len(evidence) + 1
      <4>1. evidence'[i] = n
        BY <1>6, <3>1
      <4>2. n.proof = mem[s].proof /\ n.status # "applied" /\ done[mem[s].proof] = <<>>
        BY <1>3, <1>8
      <4>3. done[n.proof] = <<>>
        BY <4>2
      <4> QED
        BY <4>1, <4>2, <4>3
    <3>2. CASE i \in DOMAIN evidence
      BY <1>6, <2>1, <3>2
    <3> QED
      BY <1>6, <3>1, <3>2
  <2>4. \A p \in Proof : done[p] # <<>> => \E i \in DOMAIN evidence' : evidence'[i].proof = p
    BY <1>6, <2>1
  <2> QED
    BY <2>1, <2>2, <2>3, <2>4 DEF EvidenceTrue
<1>10. /\ Requested(OracleStatement)' /\ OthersWait(s) /\ Writing(s)' /\ mem'[s] = m
  <2> DEFINE rest == <<"mutate", "finalize">>
  <2>1. rest \in Seq(OracleStatement) /\ rest # <<>> /\ Tail(todo[s]) = rest
    BY OracleSeqs, OracleTails DEF Reserving
  <2>2. Note(s, m) /\ Requested(OracleStatement)
    BY <1>1
  <2> HIDE DEF rest
  <2>3. Requested(OracleStatement)' /\ OthersWait(s) /\ todo'[s] = rest /\ mem'[s] = m
    BY <2>1, <2>2, NoteTo
  <2> QED
    BY <2>3 DEF Writing, rest
<1>11. ~Inserting(s)' /\ ~Judging(s)' /\ ~Caching(s)' /\ ~Reserving(s)' /\ ~Closing(s)' /\ InHand(s)'
  <2>1. /\ Head(<<"reserve", "mutate", "finalize">>) = "reserve" /\ Head(<<"verify", "cache">>) = "verify"
        /\ Head(<<"cache">>) = "cache" /\ Head(<<"insert credential">>) = "insert credential"
        /\ Head(<<"mutate", "finalize">>) = "mutate" /\ Head(<<"finalize">>) = "finalize"
    OBVIOUS
  <2> QED
    BY <1>10, <2>1 DEF Inserting, Judging, Caching, Reserving, Writing, Closing, InHand
<1>12. Asked(s)'
  BY <1>3, <1>4, <1>6, <1>8, <1>10, <1>11 DEF Asked
<1>13. ASSUME NEW t \in Slot \ {s} PROVE Asked(t)' /\ (InHand(t)' => InHand(t) /\ mem'[t].proof # mem[s].proof)
  <2>1. Asked(t)
    BY <1>1
  <2> QED
    BY <1>6, <1>7, <1>10, <2>1, OthersAsked DEF Asked
<1>14. OneInHand'
  <2>1. \A t \in Slot \ {s} : mem'[t] = mem[t]
    BY <1>10, OthersAsked
  <2> QED
    BY <1>1, <1>4, <1>10, <1>13, <2>1 DEF OneInHand
<1>15. OneCredential'
  BY <1>10, <1>11, CredentialsStay
<1>16. OracleTypeOK'
  BY <1>1, <1>6 DEF OracleTypeOK, Evidence
<1> QED
  BY <1>1, <1>9, <1>10, <1>12, <1>13, <1>14, <1>15, <1>16 DEF OracleSound

LEMMA ReserveKeeps ==
  ASSUME OracleSound, NEW s \in Slot, Reserve(s)
  PROVE  OracleSound'
<1> DEFINE shown == RowsFor(mem[s].proof)
<1>1. /\ Requested(OracleStatement) /\ OracleTypeOK /\ Asked(s) /\ EvidenceTrue
      /\ At(s, "reserve") /\ UNCHANGED <<credentials, verifications, done, rivals>>
  BY DEF OracleSound, Reserve, Reservation
<1>2. Reserving(s) /\ mem[s] \in MutationRecord
  BY <1>1, OracleNextIs DEF Asked
<1>3. CASE shown = {}
  <2>1. /\ Note(s, [mem[s] EXCEPT !.row = Len(evidence) + 1])
        /\ evidence' = Append(evidence, Row(mem[s].proof, mem[s].change, "pending", TRUE))
        /\ UNCHANGED mistold
    BY <1>3 DEF Reserve, Reservation
  <2> QED
    BY <1>1, <1>2, <1>3, <2>1, RowReserved
<1>4. CASE shown # {}
  <2> DEFINE newest == CHOOSE i \in shown : \A j \in shown : j <= i
             stored == /\ \A i \in shown : evidence[i].change = mem[s].change
                       /\ evidence[newest].status = "applied"
  <2>1. /\ Answer(s) /\ UNCHANGED evidence
        /\ mistold' = (mistold \/ (stored /\ Len(done[mem[s].proof]) = 0))
    BY <1>4 DEF Reserve, Reservation
  <2>2. newest \in shown
    <3>1. PICK i \in shown : \A j \in shown : j = i
      BY <1>1, <1>4 DEF RowsFor, EvidenceTrue
    <3>2. i \in Nat
      BY <1>1 DEF OracleTypeOK, RowsFor
    <3>3. \A j \in shown : j <= i
      BY <3>1, <3>2
    <3> QED
      BY <3>1, <3>3
  <2> HIDE DEF newest, stored
  <2>3. evidence[newest].status = "applied" => Len(done[mem[s].proof]) # 0
    <3>1. newest \in DOMAIN evidence /\ evidence[newest].proof = mem[s].proof
      BY <2>2 DEF RowsFor
    <3>2. evidence[newest].status = "applied" => done[mem[s].proof] = <<evidence[newest].change>>
      BY <1>1, <3>1 DEF EvidenceTrue
    <3>3. \A c : Len(<<c>>) # 0
      OBVIOUS
    <3> QED
      BY <3>2, <3>3
  <2>4. mistold' = mistold
    <3>1. mistold = FALSE
      BY <1>1 DEF EvidenceTrue, OracleTypeOK
    <3> QED
      BY <2>1, <2>3, <3>1 DEF stored
  <2>5. Requested(OracleStatement)' /\ OthersWait(s) /\ todo'[s] = <<>>
    BY <1>1, <2>1, AnswerMoves
  <2>6. Asked(s)' /\ ~InHand(s)' /\ ~Inserting(s)'
    BY <2>5, EndsAsked
  <2>7. OneCredential'
    BY <1>1, <2>5, <2>6, CredentialsStay
  <2> QED
    BY <1>1, <2>1, <2>4, <2>5, <2>6, <2>7, LogStays DEF OracleTypeOK
<1> QED
  BY <1>3, <1>4

\* The change is made by the one request that has the proof in hand.
LEMMA MutateKeeps ==
  ASSUME OracleSound, NEW s \in Slot, Mutate(s)
  PROVE  OracleSound'
<1>1. /\ Requested(OracleStatement) /\ OracleTypeOK /\ Asked(s) /\ EvidenceTrue /\ OneInHand
      /\ DOMAIN done = Proof /\ \A t \in Slot : Asked(t)
      /\ At(s, "mutate") /\ UNCHANGED <<credentials, evidence, verifications, rivals, mistold>>
  BY DEF OracleSound, Mutate, oracleTables
<1>2. Writing(s) /\ InHand(s) /\ mem[s] \in MutationRecord
  BY <1>1, OracleNextIs DEF Asked, InHand
<1>3. CASE Answer(s) /\ UNCHANGED done
  <2>1. Requested(OracleStatement)' /\ OthersWait(s) /\ todo'[s] = <<>>
    BY <1>1, <1>3, AnswerMoves
  <2>2. Asked(s)' /\ ~InHand(s)' /\ ~Inserting(s)'
    BY <2>1, EndsAsked
  <2>3. OneCredential'
    BY <1>1, <2>1, <2>2, CredentialsStay
  <2> QED
    BY <1>1, <1>3, <2>1, <2>2, <2>3, LogStays DEF OracleTypeOK
<1>4. CASE Pass(s) /\ done' = [done EXCEPT ![mem[s].proof] = Append(@, mem[s].change)]
  <2>1. /\ mem[s].proof \in Proof /\ mem[s].change \in Change /\ done[mem[s].proof] = <<>>
        /\ mem[s].row \in DOMAIN evidence /\ evidence[mem[s].row].proof = mem[s].proof
        /\ evidence[mem[s].row].change = mem[s].change
    BY <1>1, <1>2 DEF Asked, MutationRecord
  <2>2. /\ done'[mem[s].proof] = <<mem[s].change>> /\ DOMAIN done' = Proof
        /\ \A p \in Proof \ {mem[s].proof} : done'[p] = done[p]
    <3>1. Append(<<>>, mem[s].change) = <<mem[s].change>>
      OBVIOUS
    <3> QED
      BY <1>1, <1>4, <2>1, <3>1
  <2>3. /\ Requested(OracleStatement)' /\ OthersWait(s) /\ Closing(s)' /\ mem'[s] = mem[s]
    BY <1>1, <1>2, <1>4, OracleSeqs, OracleTails, PassTo DEF Writing, Closing
  <2>4. /\ ~Inserting(s)' /\ ~Judging(s)' /\ ~Caching(s)' /\ ~Reserving(s)' /\ ~Writing(s)' /\ InHand(s)'
    <3>1. /\ Head(<<"reserve", "mutate", "finalize">>) = "reserve" /\ Head(<<"verify", "cache">>) = "verify"
          /\ Head(<<"cache">>) = "cache" /\ Head(<<"insert credential">>) = "insert credential"
          /\ Head(<<"mutate", "finalize">>) = "mutate" /\ Head(<<"finalize">>) = "finalize"
      OBVIOUS
    <3> QED
      BY <2>3, <3>1 DEF Inserting, Judging, Caching, Reserving, Writing, Closing, InHand
  <2>5. Asked(s)'
    BY <1>1, <1>2, <2>1, <2>2, <2>3, <2>4 DEF Asked
  <2>6. ASSUME NEW t \in Slot \ {s} PROVE Asked(t)'
    <3>1. Asked(t) /\ (InHand(t) => mem[t].proof # mem[s].proof)
      BY <1>1, <1>2 DEF OneInHand
    <3>2. InHand(t) => mem[t].proof \in Proof
      BY <3>1 DEF Asked, MutationRecord
    <3>3. InHand(t) => done'[mem[t].proof] = done[mem[t].proof]
      BY <2>2, <3>1, <3>2
    <3> QED
      BY <1>1, <2>3, <3>1, <3>3, OthersAsked DEF Asked, InHand
  <2>7. OneInHand'
    <3>1. \A t \in Slot : InHand(t)' => InHand(t) /\ mem'[t] = mem[t]
      BY <1>2, <2>3, <2>4, OthersAsked
    <3> QED
      BY <1>1, <3>1 DEF OneInHand
  <2>8. EvidenceTrue'
    <3>1. ASSUME NEW i \in DOMAIN evidence
          PROVE  /\ done'[evidence[i].proof] \in {<<>>, <<evidence[i].change>>}
                 /\ evidence[i].status = "applied" => done'[evidence[i].proof] = <<evidence[i].change>>
      <4>1. CASE i = mem[s].row
        BY <2>1, <2>2, <4>1
      <4>2. CASE i # mem[s].row
        <5>1. evidence[i].proof # mem[s].proof
          BY <1>1, <2>1, <4>2 DEF EvidenceTrue
        <5>2. evidence[i].proof \in Proof
          <6>1. evidence \in Seq(Evidence)
            BY <1>1 DEF OracleTypeOK, Evidence
          <6>2. evidence[i] \in Evidence
            BY <6>1
          <6> QED
            BY <6>2 DEF Evidence
        <5> QED
          BY <1>1, <2>2, <5>1, <5>2 DEF EvidenceTrue
      <4> QED
        BY <4>1, <4>2
    <3>2. \A p \in Proof : done'[p] # <<>> => \E i \in DOMAIN evidence : evidence[i].proof = p
      BY <1>1, <2>1, <2>2 DEF EvidenceTrue
    <3> QED
      BY <1>1, <3>1, <3>2 DEF EvidenceTrue
  <2>9. OracleTypeOK'
    <3>1. <<mem[s].change>> \in Seq(Change)
      BY <2>1
    <3> QED
      BY <1>1, <2>2, <3>1 DEF OracleTypeOK
  <2>10. OneCredential'
    BY <1>1, <2>3, <2>4, CredentialsStay
  <2> QED
    BY <2>2, <2>3, <2>5, <2>6, <2>7, <2>8, <2>9, <2>10 DEF OracleSound
<1> QED
  BY <1>3, <1>4 DEF Mutate

LEMMA FinalizeKeeps ==
  ASSUME OracleSound, NEW s \in Slot, Finalize(s)
  PROVE  OracleSound'
<1>1. /\ Requested(OracleStatement) /\ OracleTypeOK /\ Asked(s) /\ EvidenceTrue /\ OneInHand
      /\ DOMAIN done = Proof /\ \A t \in Slot : Asked(t)
      /\ At(s, "finalize") /\ Pass(s)
      /\ evidence' = [evidence EXCEPT ![mem[s].row].status = "applied"]
      /\ UNCHANGED <<credentials, verifications, done, rivals, mistold>>
  BY DEF OracleSound, Finalize, oraclePast
<1>2. /\ Closing(s) /\ mem[s].row \in DOMAIN evidence /\ done[mem[s].proof] = <<mem[s].change>>
      /\ evidence[mem[s].row].proof = mem[s].proof /\ evidence[mem[s].row].change = mem[s].change
  BY <1>1, OracleNextIs DEF Asked, InHand
<1>3. Requested(OracleStatement)' /\ OthersWait(s) /\ todo'[s] = <<>>
  BY <1>1, <1>2, OracleSeqs, OracleTails, PassTo DEF Closing
<1>4. Asked(s)' /\ ~InHand(s)' /\ ~Inserting(s)'
  BY <1>3, EndsAsked
<1>5. /\ evidence' \in Seq(Evidence) /\ DOMAIN evidence' = DOMAIN evidence
      /\ \A i \in DOMAIN evidence :
           /\ evidence'[i].proof = evidence[i].proof /\ evidence'[i].change = evidence[i].change
           /\ i # mem[s].row => evidence'[i] = evidence[i]
  <2> DEFINE row == mem[s].row
             n == [evidence[row] EXCEPT !.status = "applied"]
  <2>1. /\ evidence \in Seq(Evidence) /\ row \in DOMAIN evidence
        /\ evidence' = [evidence EXCEPT ![row] = n]
    BY <1>1, <1>2 DEF OracleTypeOK, Evidence
  <2>2. n \in Evidence /\ n.proof = evidence[row].proof /\ n.change = evidence[row].change
    <3>1. evidence[row] \in Evidence
      BY <2>1
    <3> QED
      BY <3>1 DEF Evidence
  <2> HIDE DEF n
  <2>3. /\ DOMAIN evidence' = DOMAIN evidence /\ evidence' \in Seq(Evidence)
        /\ evidence'[row] = n /\ \A i \in DOMAIN evidence \ {row} : evidence'[i] = evidence[i]
    BY <2>1, <2>2
  <2> QED
    BY <2>2, <2>3
<1>6. EvidenceTrue'
  <2>1. ASSUME NEW i \in DOMAIN evidence
        PROVE  /\ done[evidence[i].proof] \in {<<>>, <<evidence[i].change>>}
               /\ evidence'[i].status = "applied" => done[evidence[i].proof] = <<evidence[i].change>>
    BY <1>1, <1>2, <1>5 DEF EvidenceTrue
  <2>2. \A i, j \in DOMAIN evidence' : evidence'[i].proof = evidence'[j].proof => i = j
    BY <1>1, <1>5 DEF EvidenceTrue
  <2>3. \A i \in DOMAIN evidence' :
          /\ done[evidence'[i].proof] \in {<<>>, <<evidence'[i].change>>}
          /\ evidence'[i].status = "applied" => done[evidence'[i].proof] = <<evidence'[i].change>>
    BY <1>5, <2>1
  <2>4. \A p \in Proof : done[p] # <<>> => \E i \in DOMAIN evidence' : evidence'[i].proof = p
    BY <1>1, <1>5 DEF EvidenceTrue
  <2> QED
    BY <1>1, <2>2, <2>3, <2>4 DEF EvidenceTrue
<1>7. ASSUME NEW t \in Slot \ {s} PROVE Asked(t)'
  <2>1. Asked(t)
    BY <1>1
  <2>2. mem[t].row \in DOMAIN evidence =>
          /\ mem[t].row \in DOMAIN evidence'
          /\ evidence'[mem[t].row].proof = evidence[mem[t].row].proof
          /\ evidence'[mem[t].row].change = evidence[mem[t].row].change
    BY <1>5
  <2>3. done' = done
    BY <1>1
  <2> QED
    BY <1>3, <2>1, <2>2, <2>3, OthersAsked DEF Asked
<1>8. OneInHand'
  <2>1. \A t \in Slot : InHand(t)' => InHand(t) /\ mem'[t] = mem[t]
    BY <1>3, <1>4, OthersAsked
  <2> QED
    BY <1>1, <2>1 DEF OneInHand
<1>9. OracleTypeOK'
  BY <1>1, <1>5 DEF OracleTypeOK, Evidence
<1>10. OneCredential'
  BY <1>1, <1>3, <1>4, CredentialsStay
<1> QED
  BY <1>1, <1>3, <1>4, <1>6, <1>7, <1>8, <1>9, <1>10 DEF OracleSound

LEMMA OracleIdles ==
  ASSUME OracleSound, (\E p \in Proof : VerdictLapses(p)) \/ UNCHANGED oracleVars
  PROVE  OracleSound'
<1>1. /\ UNCHANGED requests /\ UNCHANGED <<credentials, evidence, done, rivals, mistold>>
      /\ verifications' \in [Proof -> {"none", "verified", "refuted"}]
  BY DEF VerdictLapses, oracleVars, oracleTables, oraclePast, OracleSound, OracleTypeOK
<1>2. todo' = todo /\ mem' = mem
  BY <1>1 DEF requests
<1>3. Requested(OracleStatement)'
  BY <1>2 DEF OracleSound, Requested
<1>4. \A s \in Slot : /\ Inserting(s)' = Inserting(s) /\ Judging(s)' = Judging(s)
                      /\ Caching(s)' = Caching(s) /\ Reserving(s)' = Reserving(s)
                      /\ Writing(s)' = Writing(s) /\ Closing(s)' = Closing(s)
                      /\ InHand(s)' = InHand(s)
  BY <1>2 DEF Inserting, Judging, Caching, Reserving, Writing, Closing, InHand
<1>5. \A s \in Slot : Asked(s)'
  BY <1>1, <1>2, <1>4 DEF OracleSound, Asked
<1>6. OneInHand' /\ EvidenceTrue' /\ OracleTypeOK' /\ DOMAIN done' = Proof
  BY <1>1, <1>2, <1>4 DEF OracleSound, OneInHand, EvidenceTrue, OracleTypeOK
<1>7. OneCredential'
  BY <1>1, <1>4 DEF OracleSound, OneCredential, Active
<1> QED
  BY <1>3, <1>5, <1>6, <1>7 DEF OracleSound

LEMMA InitOracleSound ==
  ASSUME OracleInit
  PROVE  OracleSound
<1>1. Requested(OracleStatement) /\ \A s \in Slot : todo[s] = <<>>
  BY InitRequested DEF OracleInit
<1>2. \A s \in Slot : /\ ~Inserting(s) /\ ~Judging(s) /\ ~Caching(s) /\ ~Reserving(s)
                      /\ ~Writing(s) /\ ~Closing(s) /\ ~InHand(s)
  BY <1>1, StagesApart DEF InHand
<1>3. OneInHand /\ OneCredential /\ \A s \in Slot : Asked(s)
  BY <1>1, <1>2 DEF OracleInit, OneInHand, OneCredential, Asked, Active
<1>4. EvidenceTrue /\ OracleTypeOK /\ DOMAIN done = Proof
  <2>1. /\ DOMAIN done = Proof /\ ~mistold /\ mistold \in BOOLEAN /\ rivals \in BOOLEAN
        /\ credentials \in [Credential -> {"none", "active", "revoked"}]
        /\ verifications \in [Proof -> {"none", "verified", "refuted"}]
    BY DEF OracleInit
  <2>2. CASE evidence = <<>>
    <3>1. \A p \in Proof : done[p] = <<>>
      BY <2>2 DEF OracleInit
    <3>2. DOMAIN evidence = {} /\ evidence \in Seq(Evidence) /\ <<>> \in Seq(Change)
      BY <2>2
    <3> QED
      BY <2>1, <3>1, <3>2 DEF EvidenceTrue, OracleTypeOK, Evidence
  <2>3. ASSUME NEW p \in Proof, NEW c \in Change, evidence = <<Row(p, c, "applied", FALSE)>>
        PROVE  EvidenceTrue /\ OracleTypeOK
    <3> DEFINE n == Row(p, c, "applied", FALSE)
    <3>1. n \in Evidence /\ n.proof = p /\ n.change = c
      BY DEF Evidence, Row
    <3>2. evidence = <<n>>
      BY <2>3
    <3> HIDE DEF n
    <3>3. DOMAIN evidence = {1} /\ evidence[1] = n /\ evidence # <<>> /\ evidence \in Seq(Evidence)
      BY <3>1, <3>2
    <3>4. \A q \in Proof : done[q] = IF p = q THEN <<c>> ELSE <<>>
      BY <3>1, <3>3 DEF OracleInit
    <3>5. <<c>> \in Seq(Change) /\ <<>> \in Seq(Change)
      OBVIOUS
    <3>6. EvidenceTrue
      BY <2>1, <3>1, <3>3, <3>4 DEF EvidenceTrue
    <3>7. \A q \in Proof : done[q] \in Seq(Change)
      BY <3>4, <3>5
    <3> QED
      BY <2>1, <3>3, <3>6, <3>7 DEF OracleTypeOK, Evidence
  <2>4. evidence = <<>> \/ \E p \in Proof, c \in Change : evidence = <<Row(p, c, "applied", FALSE)>>
    BY DEF OracleInit
  <2> QED
    BY <2>1, <2>2, <2>3, <2>4
<1> QED
  BY <1>1, <1>3, <1>4 DEF OracleSound

LEMMA OracleSoundAlways == OracleSpec => []OracleSound
<1>1. OracleInit => OracleSound
  BY InitOracleSound
<1>2. OracleSound /\ [OracleNext]_oracleVars => OracleSound'
  BY CreatesKeep, OracleEndsKeep, VerdictsKeep, MutateStarts, ReserveKeeps, MutateKeeps,
     FinalizeKeeps, OracleIdles DEF OracleNext
<1> QED
  BY <1>1, <1>2, PTL DEF OracleSpec

\* However many requests present a proof at a time, fail between reserving it and
\* making the change, or present it again: it buys one change, the audit row
\* names that change and calls it applied only when it was made, a retry that is
\* told the stored result is told the truth, and a community has one active
\* credential unless two were created at once (the reservation in the audit log
\* and createCredential).
THEOREM ProofsBuyOneChange == OracleSpec => []ProofBuysOneChange
<1>1. ASSUME NEW S, \A x, y \in S : x = y
      PROVE  Cardinality(S) <= 1
  <2>1. CASE S = {}
    BY <2>1, FS_EmptySet
  <2>2. CASE S # {}
    <3>1. PICK x \in S : S = {x}
      BY <1>1, <2>2
    <3> QED
      BY <3>1, FS_Singleton
  <2> QED
    BY <2>1, <2>2
<1>2. OracleSound => ProofBuysOneChange
  <2> SUFFICES ASSUME OracleSound PROVE ProofBuysOneChange
    OBVIOUS
  <2>1. EvidenceTrue /\ OracleTypeOK
    BY DEF OracleSound
  <2>2. ASSUME NEW p \in Proof
        PROVE  /\ Len(done[p]) <= 1
               /\ Cardinality(RowsFor(p)) <= 1
               /\ \A i \in DOMAIN done[p] : \E r \in RowsFor(p) : evidence[r].change = done[p][i]
               /\ \A r \in RowsFor(p) : evidence[r].status = "applied" => done[p] = <<evidence[r].change>>
    <3>1. \A r \in RowsFor(p) : /\ r \in DOMAIN evidence /\ evidence[r].proof = p
                                /\ done[p] \in {<<>>, <<evidence[r].change>>}
                                /\ evidence[r].status = "applied" => done[p] = <<evidence[r].change>>
      BY <2>1 DEF RowsFor, EvidenceTrue
    <3>2. Cardinality(RowsFor(p)) <= 1
      <4>1. \A i, j \in RowsFor(p) : i = j
        BY <2>1 DEF RowsFor, EvidenceTrue
      <4> QED
        BY <1>1, <4>1
    <3>3. CASE done[p] = <<>>
      BY <3>1, <3>2, <3>3
    <3>4. CASE done[p] # <<>>
      <4>1. PICK r \in RowsFor(p) : done[p] = <<evidence[r].change>>
        BY <2>1, <3>1, <3>4 DEF EvidenceTrue, RowsFor
      <4>2. /\ Len(<<evidence[r].change>>) = 1 /\ DOMAIN <<evidence[r].change>> = {1}
            /\ <<evidence[r].change>>[1] = evidence[r].change
        OBVIOUS
      <4> QED
        BY <3>1, <3>2, <4>1, <4>2
    <3> QED
      BY <3>3, <3>4
  <2>3. ~mistold
    BY <2>1 DEF EvidenceTrue
  <2>4. rivals \/ Cardinality(Active) <= 1
    BY <1>1 DEF OracleSound, OneCredential
  <2> QED
    BY <2>2, <2>3, <2>4 DEF ProofBuysOneChange
<1> QED
  BY <1>2, OracleSoundAlways, PTL

-----------------------------------------------------------------------------
(* Communities: what a request under way is about, and has read.           *)

MemberRecord ==
  [what : {"join", "resolve", "leave", "update"}, about : Person, key : 0 .. keys, role : 0 .. keys]
RolePut  == [what : {"role"}, about : People, key : 1 .. keys, name : RoleName, writes : BOOLEAN]
RoleDrop == [what : {"role"}, about : People, key : 1 .. keys]
HandoverPut  == [what : {"delegation"}, about : People, to : People, key : 0 .. keys, new : 1 .. keys]
HandoverDrop == [what : {"delegation"}, about : People, key : 1 .. keys]
PolicyPut == [what : {"settings"}, about : {Proprietor}]

\* What a request about a member has yet to do, by what it is.
Admitting == {<<"role", "put", "row">>, <<"put", "row">>, <<"row">>}
MemberCourse(s) ==
  \/ /\ mem[s].what = "join"
     /\ todo[s] \in {<<"policy">>, <<"request">>, <<"reopen">>, <<"ask">>} \cup Admitting
  \/ /\ mem[s].what = "resolve"
     /\ todo[s] \in {<<"approved", "role", "put", "row">>, <<"rejected">>} \cup Admitting
  \/ mem[s].what = "leave" /\ todo[s] \in {<<"delete", "unrow", "unask">>, <<"unrow", "unask">>, <<"unask">>}
  \/ mem[s].what = "update" /\ todo[s] \in {<<"record", "put", "row">>, <<"put", "row">>, <<"row">>}

\* A request, by the record it keeps of what it was asked.
Petition(s) ==
  \/ todo[s] = <<>>
  \/ /\ mem[s] \in MemberRecord /\ MemberCourse(s)
     /\ At(s, "put") \/ At(s, "row") \/ mem[s].what = "leave" => mem[s].key # 0
     /\ At(s, "policy") => mem[s].role = 0
  \/ mem[s] \in RolePut /\ todo[s] = <<"putRole">>
  \/ mem[s] \in RoleDrop /\ todo[s] = <<"dropRole">>
  \/ mem[s] \in HandoverPut /\ todo[s] \in {<<"dropHandover", "putHandover">>, <<"putHandover">>}
  \/ mem[s] \in HandoverDrop /\ todo[s] = <<"dropHandover">>
  \/ mem[s] \in PolicyPut /\ todo[s] \in {<<"open">>, <<"approval">>}

AboutMember(s) == todo[s] # <<>> /\ mem[s].what \in {"join", "resolve", "leave", "update"}

\* Whose a record key is: no two people come by the same.
Holds(p, k) ==
  \/ rows[p] = k
  \/ \E m \in roster : m.who = p /\ m.key = k
  \/ \E s \in Slot : AboutMember(s) /\ mem[s].about = p /\ mem[s].key = k
KeysApart == \A p, q \in People : \A k \in Nat \ {0} : Holds(p, k) /\ Holds(q, k) => p = q

Listed(p, K) ==
  /\ \A m \in roster : m.who = p => m.key \in K
  /\ \A k \in K : \E m \in roster : m.who = p /\ m.key = k
Whole(p) == Listed(p, {rows[p]} \ {0})
RolesThere(p) == \A m \in roster : m.who = p /\ m.role # 0 => RoleAt(m.role) # {}

\* Between its two writes.
Halfway(s) == At(s, "row") \/ At(s, "unrow")
Settled ==
  \A p \in People \ tangled :
    RolesThere(p) /\ ((\A s \in Slot : Halfway(s) => About(s) # p) => Whole(p))

\* What a request has read still holds.
Abreast(s) ==
  LET p == About(s)
      k == mem[s].key
  IN AboutMember(s) /\ p \notin tangled =>
       /\ At(s, "row") => Listed(p, {k})
       /\ At(s, "unrow") => Listed(p, {}) /\ rows[p] = k
       /\ At(s, "delete") => rows[p] = k
       /\ At(s, "put") /\ mem[s].what = "update" => rows[p] = k
       /\ At(s, "record") => rows[p] # 0
       /\ mem[s].what # "update" /\ (At(s, "policy") \/ At(s, "role") \/ At(s, "put")) => rows[p] = 0
       /\ Pending(s, "put") /\ mem[s].role # 0 => RoleAt(mem[s].role) # {}

DropsUnused ==
  \A s \in Slot : At(s, "dropRole") =>
    \A m \in roster : m.who \notin tangled => m.role # mem[s].key

HandedOnce ==
  /\ \A p \in People \ crossed :
       /\ \A h, g \in Handovers(p) : h = g
       /\ \A s, t \in Slot : Delegating(s) /\ Delegating(t) /\ About(s) = p /\ About(t) = p => s = t
  /\ \A s \in Slot : About(s) \notin crossed =>
       /\ At(s, "dropHandover") => \A h \in Handovers(About(s)) : h.key = mem[s].key
       /\ At(s, "putHandover") => Handovers(About(s)) = {}

CommunitiesSound ==
  /\ CommunitiesTypeOK /\ DOMAIN todo = Slot /\ DOMAIN mem = Slot
  /\ \A s \in Slot : Petition(s) /\ Abreast(s)
  /\ KeysApart /\ Settled /\ DropsUnused /\ NobodyLockedOut /\ HandedOnce

-----------------------------------------------------------------------------
LEMMA Todo0 ==
  ASSUME NEW s
  PROVE  /\ todo[s] = <<>> => Steps(s) = {} /\ \A x : ~At(s, x)
         /\ todo'[s] = <<>> => Steps(s)' = {} /\ \A x : ~At(s, x)'
BY DEF Steps, At

LEMMA Todo1 ==
  ASSUME NEW s, NEW a
  PROVE  /\ todo[s] = <<a>> =>
              Steps(s) = {a} /\ (\A x : At(s, x) <=> x = a) /\ Tail(todo[s]) = <<>> /\ todo[s] # <<>>
         /\ todo'[s] = <<a>> =>
              Steps(s)' = {a} /\ (\A x : At(s, x)' <=> x = a) /\ todo'[s] # <<>>
<1>1. \A t : t = <<a>> => {t[i] : i \in DOMAIN t} = {a} /\ Head(t) = a /\ Tail(t) = <<>> /\ t # <<>>
  OBVIOUS
<1> QED
  BY <1>1, Zenon DEF Steps, At

LEMMA AdmissionInFull == <<"approved">> \o <<"role", "put", "row">> = <<"approved", "role", "put", "row">>
<1> DEFINE T == {"approved", "role", "put", "row"}
<1>1. /\ <<"approved">> \in Seq(T) /\ <<"role", "put", "row">> \in Seq(T)
      /\ <<"approved", "role", "put", "row">> \in Seq(T)
  OBVIOUS
<1>2. /\ <<"approved">> \o <<"role", "put", "row">> \in Seq(T)
      /\ Len(<<"approved">> \o <<"role", "put", "row">>) = 4
      /\ \A i \in 1 .. 4 :
           (<<"approved">> \o <<"role", "put", "row">>)[i] = <<"approved", "role", "put", "row">>[i]
  BY <1>1
<1> QED
  BY <1>1, <1>2, SeqEqual

LEMMA Todo2 ==
  ASSUME NEW s, NEW a, NEW b
  PROVE  /\ todo[s] = <<a, b>> =>
              Steps(s) = {a, b} /\ (\A x : At(s, x) <=> x = a) /\ Tail(todo[s]) = <<b>> /\ todo[s] # <<>>
         /\ todo'[s] = <<a, b>> =>
              Steps(s)' = {a, b} /\ (\A x : At(s, x)' <=> x = a) /\ todo'[s] # <<>>
<1>1. \A t : t = <<a, b>> => {t[i] : i \in DOMAIN t} = {a, b} /\ Head(t) = a /\ Tail(t) = <<b>> /\ t # <<>>
  OBVIOUS
<1> QED
  BY <1>1, Zenon DEF Steps, At

LEMMA Todo3 ==
  ASSUME NEW s, NEW a, NEW b, NEW c
  PROVE  /\ todo[s] = <<a, b, c>> =>
              /\ Steps(s) = {a, b, c} /\ (\A x : At(s, x) <=> x = a)
              /\ Tail(todo[s]) = <<b, c>> /\ todo[s] # <<>>
         /\ todo'[s] = <<a, b, c>> =>
              Steps(s)' = {a, b, c} /\ (\A x : At(s, x)' <=> x = a) /\ todo'[s] # <<>>
<1>1. \A t : t = <<a, b, c>> =>
        {t[i] : i \in DOMAIN t} = {a, b, c} /\ Head(t) = a /\ Tail(t) = <<b, c>> /\ t # <<>>
  OBVIOUS
<1> QED
  BY <1>1, Zenon DEF Steps, At

LEMMA Todo4 ==
  ASSUME NEW s, NEW a, NEW b, NEW c, NEW d
  PROVE  /\ todo[s] = <<a, b, c, d>> =>
              /\ Steps(s) = {a, b, c, d} /\ (\A x : At(s, x) <=> x = a)
              /\ Tail(todo[s]) = <<b, c, d>> /\ todo[s] # <<>>
         /\ todo'[s] = <<a, b, c, d>> =>
              Steps(s)' = {a, b, c, d} /\ (\A x : At(s, x)' <=> x = a) /\ todo'[s] # <<>>
<1>1. \A t : t = <<a, b, c, d>> =>
        {t[i] : i \in DOMAIN t} = {a, b, c, d} /\ Head(t) = a /\ Tail(t) = <<b, c, d>> /\ t # <<>>
  OBVIOUS
<1> QED
  BY <1>1, Zenon DEF Steps, At

MemberWork ==
  {"policy", "request", "reopen", "ask", "approved", "rejected", "role", "put", "row",
   "delete", "unrow", "unask", "record"}

\* What the statement a request is at says of it.
AtMember(s) ==
  /\ At(s, "policy") =>
       mem[s].what = "join" /\ mem[s].role = 0 /\ Steps(s) = {"policy"} /\ Tail(todo[s]) = <<>>
  /\ At(s, "request") => mem[s].what = "join" /\ Steps(s) = {"request"} /\ Tail(todo[s]) = <<>>
  /\ At(s, "reopen") => mem[s].what = "join" /\ Steps(s) = {"reopen"} /\ Tail(todo[s]) = <<>>
  /\ At(s, "ask") => mem[s].what = "join" /\ Steps(s) = {"ask"} /\ Tail(todo[s]) = <<>>
  /\ At(s, "approved") =>
       /\ mem[s].what = "resolve" /\ Steps(s) = {"approved", "role", "put", "row"}
       /\ Tail(todo[s]) = <<"role", "put", "row">>
  /\ At(s, "rejected") => mem[s].what = "resolve" /\ Steps(s) = {"rejected"} /\ Tail(todo[s]) = <<>>
  /\ At(s, "role") =>
       /\ mem[s].what \in {"join", "resolve"} /\ Steps(s) = {"role", "put", "row"}
       /\ Tail(todo[s]) = <<"put", "row">>
  /\ At(s, "put") =>
       /\ mem[s].what \in {"join", "resolve", "update"} /\ mem[s].key # 0 /\ Steps(s) = {"put", "row"}
       /\ Tail(todo[s]) = <<"row">>
  /\ At(s, "row") =>
       /\ mem[s].what \in {"join", "resolve", "update"} /\ mem[s].key # 0 /\ Steps(s) = {"row"}
       /\ Tail(todo[s]) = <<>>
  /\ At(s, "delete") =>
       /\ mem[s].what = "leave" /\ mem[s].key # 0 /\ Steps(s) = {"delete", "unrow", "unask"}
       /\ Tail(todo[s]) = <<"unrow", "unask">>
  /\ At(s, "unrow") =>
       /\ mem[s].what = "leave" /\ mem[s].key # 0 /\ Steps(s) = {"unrow", "unask"}
       /\ Tail(todo[s]) = <<"unask">>
  /\ At(s, "unask") =>
       mem[s].what = "leave" /\ mem[s].key # 0 /\ Steps(s) = {"unask"} /\ Tail(todo[s]) = <<>>
  /\ At(s, "record") =>
       /\ mem[s].what = "update" /\ Steps(s) = {"record", "put", "row"}
       /\ Tail(todo[s]) = <<"put", "row">>

AtOther(s) ==
  /\ At(s, "putRole") => mem[s] \in RolePut /\ Steps(s) = {"putRole"} /\ Tail(todo[s]) = <<>>
  /\ At(s, "dropRole") => mem[s] \in RoleDrop /\ Steps(s) = {"dropRole"} /\ Tail(todo[s]) = <<>>
  /\ At(s, "dropHandover") =>
       \/ mem[s] \in HandoverDrop /\ Steps(s) = {"dropHandover"} /\ Tail(todo[s]) = <<>>
       \/ /\ mem[s] \in HandoverPut /\ Steps(s) = {"dropHandover", "putHandover"}
          /\ Tail(todo[s]) = <<"putHandover">>
  /\ At(s, "putHandover") => mem[s] \in HandoverPut /\ Steps(s) = {"putHandover"} /\ Tail(todo[s]) = <<>>
  /\ At(s, "open") \/ At(s, "approval") =>
       mem[s] \in PolicyPut /\ Steps(s) \subseteq {"open", "approval"} /\ Tail(todo[s]) = <<>>

\* A request about a member is at the work of one, any other is not.
Sorted(s) ==
  /\ About(s) = mem[s].about /\ About(s) \in People
  /\ AboutMember(s) => /\ mem[s] \in MemberRecord /\ Steps(s) \subseteq MemberWork
                       /\ AtMember(s) /\ \E x \in MemberWork : At(s, x)
                       /\ \A x : At(s, x) => x \in MemberWork
  /\ ~AboutMember(s) => /\ Steps(s) \cap MemberWork = {} /\ AtOther(s)
                        /\ \A x : At(s, x) => x \notin MemberWork
  /\ \A x : At(s, x) => x \in Steps(s)

LEMMA Sorting ==
  ASSUME NEW s, Petition(s), todo[s] # <<>>
  PROVE  Sorted(s)
<1>1. CASE mem[s] \in MemberRecord /\ MemberCourse(s) /\
           (At(s, "put") \/ At(s, "row") \/ mem[s].what = "leave" => mem[s].key # 0) /\
           (At(s, "policy") => mem[s].role = 0)
  <2>1. /\ "about" \in DOMAIN mem[s] /\ mem[s].about \in People
        /\ mem[s].what \in {"join", "resolve", "leave", "update"}
    BY <1>1 DEF MemberRecord, People
  <2>2. About(s) = mem[s].about /\ About(s) \in People /\ AboutMember(s)
    BY <2>1 DEF About, AboutMember
  <2>3. CASE mem[s].what = "join" /\ todo[s] = <<"policy">>
    BY <1>1, <2>2, <2>3, Todo1 DEF Sorted, AtMember, MemberWork
  <2>4. CASE mem[s].what = "join" /\ todo[s] = <<"request">>
    BY <1>1, <2>2, <2>4, Todo1 DEF Sorted, AtMember, MemberWork
  <2>5. CASE mem[s].what = "join" /\ todo[s] = <<"reopen">>
    BY <1>1, <2>2, <2>5, Todo1 DEF Sorted, AtMember, MemberWork
  <2>6. CASE mem[s].what = "join" /\ todo[s] = <<"ask">>
    BY <1>1, <2>2, <2>6, Todo1 DEF Sorted, AtMember, MemberWork
  <2>7. CASE mem[s].what = "join" /\ todo[s] = <<"role", "put", "row">>
    BY <1>1, <2>2, <2>7, Todo3 DEF Sorted, AtMember, MemberWork
  <2>8. CASE mem[s].what = "join" /\ todo[s] = <<"put", "row">>
    BY <1>1, <2>2, <2>8, Todo2 DEF Sorted, AtMember, MemberWork
  <2>9. CASE mem[s].what = "join" /\ todo[s] = <<"row">>
    BY <1>1, <2>2, <2>9, Todo1 DEF Sorted, AtMember, MemberWork
  <2>10. CASE mem[s].what = "resolve" /\ todo[s] = <<"role", "put", "row">>
    BY <1>1, <2>2, <2>10, Todo3 DEF Sorted, AtMember, MemberWork
  <2>11. CASE mem[s].what = "resolve" /\ todo[s] = <<"put", "row">>
    BY <1>1, <2>2, <2>11, Todo2 DEF Sorted, AtMember, MemberWork
  <2>12. CASE mem[s].what = "resolve" /\ todo[s] = <<"row">>
    BY <1>1, <2>2, <2>12, Todo1 DEF Sorted, AtMember, MemberWork
  <2>13. CASE mem[s].what = "resolve" /\ todo[s] = <<"approved", "role", "put", "row">>
    BY <1>1, <2>2, <2>13, Todo4 DEF Sorted, AtMember, MemberWork
  <2>14. CASE mem[s].what = "resolve" /\ todo[s] = <<"rejected">>
    BY <1>1, <2>2, <2>14, Todo1 DEF Sorted, AtMember, MemberWork
  <2>15. CASE mem[s].what = "leave" /\ todo[s] = <<"delete", "unrow", "unask">>
    BY <1>1, <2>2, <2>15, Todo3 DEF Sorted, AtMember, MemberWork
  <2>16. CASE mem[s].what = "leave" /\ todo[s] = <<"unrow", "unask">>
    BY <1>1, <2>2, <2>16, Todo2 DEF Sorted, AtMember, MemberWork
  <2>17. CASE mem[s].what = "leave" /\ todo[s] = <<"unask">>
    BY <1>1, <2>2, <2>17, Todo1 DEF Sorted, AtMember, MemberWork
  <2>18. CASE mem[s].what = "update" /\ todo[s] = <<"record", "put", "row">>
    BY <1>1, <2>2, <2>18, Todo3 DEF Sorted, AtMember, MemberWork
  <2>19. CASE mem[s].what = "update" /\ todo[s] = <<"put", "row">>
    BY <1>1, <2>2, <2>19, Todo2 DEF Sorted, AtMember, MemberWork
  <2>20. CASE mem[s].what = "update" /\ todo[s] = <<"row">>
    BY <1>1, <2>2, <2>20, Todo1 DEF Sorted, AtMember, MemberWork
  <2> QED
    BY <1>1, <2>1, <2>3, <2>4, <2>5, <2>6, <2>7, <2>8, <2>9, <2>10, <2>11,
       <2>12, <2>13, <2>14, <2>15, <2>16, <2>17, <2>18, <2>19, <2>20 DEF MemberCourse, Admitting
<1>2. CASE mem[s] \in RolePut /\ todo[s] = <<"putRole">>
  <2>1. /\ "about" \in DOMAIN mem[s] /\ mem[s].about \in People
        /\ mem[s].what \in {"role", "delegation", "settings"}
    BY <1>2 DEF RolePut, People
  <2>2. About(s) = mem[s].about /\ About(s) \in People /\ ~AboutMember(s)
    BY <2>1 DEF About, AboutMember
  <2> QED
    BY <1>2, <2>2, Todo1 DEF Sorted, AtOther, MemberWork
<1>3. CASE mem[s] \in RoleDrop /\ todo[s] = <<"dropRole">>
  <2>1. /\ "about" \in DOMAIN mem[s] /\ mem[s].about \in People
        /\ mem[s].what \in {"role", "delegation", "settings"}
    BY <1>3 DEF RoleDrop, People
  <2>2. About(s) = mem[s].about /\ About(s) \in People /\ ~AboutMember(s)
    BY <2>1 DEF About, AboutMember
  <2> QED
    BY <1>3, <2>2, Todo1 DEF Sorted, AtOther, MemberWork
<1>4. CASE mem[s] \in HandoverPut /\ todo[s] = <<"dropHandover", "putHandover">>
  <2>1. /\ "about" \in DOMAIN mem[s] /\ mem[s].about \in People
        /\ mem[s].what \in {"role", "delegation", "settings"}
    BY <1>4 DEF HandoverPut, People
  <2>2. About(s) = mem[s].about /\ About(s) \in People /\ ~AboutMember(s)
    BY <2>1 DEF About, AboutMember
  <2> QED
    BY <1>4, <2>2, Todo2 DEF Sorted, AtOther, MemberWork
<1>5. CASE mem[s] \in HandoverPut /\ todo[s] = <<"putHandover">>
  <2>1. /\ "about" \in DOMAIN mem[s] /\ mem[s].about \in People
        /\ mem[s].what \in {"role", "delegation", "settings"}
    BY <1>5 DEF HandoverPut, People
  <2>2. About(s) = mem[s].about /\ About(s) \in People /\ ~AboutMember(s)
    BY <2>1 DEF About, AboutMember
  <2> QED
    BY <1>5, <2>2, Todo1 DEF Sorted, AtOther, MemberWork
<1>6. CASE mem[s] \in HandoverDrop /\ todo[s] = <<"dropHandover">>
  <2>1. /\ "about" \in DOMAIN mem[s] /\ mem[s].about \in People
        /\ mem[s].what \in {"role", "delegation", "settings"}
    BY <1>6 DEF HandoverDrop, People
  <2>2. About(s) = mem[s].about /\ About(s) \in People /\ ~AboutMember(s)
    BY <2>1 DEF About, AboutMember
  <2> QED
    BY <1>6, <2>2, Todo1 DEF Sorted, AtOther, MemberWork
<1>7. CASE mem[s] \in PolicyPut /\ todo[s] = <<"open">>
  <2>1. /\ "about" \in DOMAIN mem[s] /\ mem[s].about \in People
        /\ mem[s].what \in {"role", "delegation", "settings"}
    BY <1>7 DEF PolicyPut, People
  <2>2. About(s) = mem[s].about /\ About(s) \in People /\ ~AboutMember(s)
    BY <2>1 DEF About, AboutMember
  <2> QED
    BY <1>7, <2>2, Todo1 DEF Sorted, AtOther, MemberWork
<1>8. CASE mem[s] \in PolicyPut /\ todo[s] = <<"approval">>
  <2>1. /\ "about" \in DOMAIN mem[s] /\ mem[s].about \in People
        /\ mem[s].what \in {"role", "delegation", "settings"}
    BY <1>8 DEF PolicyPut, People
  <2>2. About(s) = mem[s].about /\ About(s) \in People /\ ~AboutMember(s)
    BY <2>1 DEF About, AboutMember
  <2> QED
    BY <1>8, <2>2, Todo1 DEF Sorted, AtOther, MemberWork
<1> QED
  BY <1>1, <1>2, <1>3, <1>4, <1>5, <1>6, <1>7, <1>8 DEF Petition

Waits(s, p) == About(s) = p /\ Steps(s) \cap {"row", "unask"} # {}

LEMMA CommunityTurns ==
  ASSUME DOMAIN todo = Slot, DOMAIN mem = Slot, NEW s \in Slot, NEW steps, NEW m,
         Turn(s, steps, m) \/ Begin(s, steps, m)
  PROVE  /\ DOMAIN todo' = Slot /\ DOMAIN mem' = Slot /\ OthersWait(s)
         /\ todo'[s] = steps /\ mem'[s] = IF steps = <<>> THEN Nothing ELSE m
BY DEF Turn, Begin, OthersWait

\* The others are where they were.
LEMMA OthersSame ==
  ASSUME NEW s \in Slot, OthersWait(s), NEW t \in Slot \ {s}
  PROVE  /\ todo'[t] = todo[t] /\ mem'[t] = mem[t] /\ (\A x : At(t, x)' <=> At(t, x))
         /\ Steps(t)' = Steps(t) /\ About(t)' = About(t) /\ (AboutMember(t)' <=> AboutMember(t))
         /\ (Halfway(t)' <=> Halfway(t)) /\ (Delegating(t)' <=> Delegating(t))
         /\ (Underway(t)' <=> Underway(t)) /\ (\A p : Waits(t, p)' <=> Waits(t, p))
<1>1. todo'[t] = todo[t] /\ mem'[t] = mem[t]
  BY DEF OthersWait
<1>2. (\A x : At(t, x)' <=> At(t, x)) /\ Steps(t)' = Steps(t) /\ About(t)' = About(t)
  BY <1>1 DEF At, Steps, About
<1> QED
  BY <1>1, <1>2 DEF AboutMember, Halfway, Delegating, Underway, Changing, Waits

LEMMA KeysGrow ==
  ASSUME keys \in Nat, keys' \in Nat, keys <= keys'
  PROVE  /\ 0 .. keys \subseteq 0 .. keys' /\ 1 .. keys \subseteq 1 .. keys'
         /\ MemberRecord \subseteq MemberRecord' /\ RolePut \subseteq RolePut' /\ RoleDrop \subseteq RoleDrop'
         /\ HandoverPut \subseteq HandoverPut' /\ HandoverDrop \subseteq HandoverDrop'
         /\ PolicyPut \subseteq PolicyPut'
<1>1. 0 .. keys \subseteq 0 .. keys' /\ 1 .. keys \subseteq 1 .. keys'
  OBVIOUS
<1>2. MemberRecord \subseteq MemberRecord'
  BY <1>1 DEF MemberRecord
<1>3. RolePut \subseteq RolePut' /\ RoleDrop \subseteq RoleDrop'
  BY <1>1 DEF RolePut, RoleDrop
<1>4. HandoverPut \subseteq HandoverPut' /\ HandoverDrop \subseteq HandoverDrop'
  BY <1>1 DEF HandoverPut, HandoverDrop
<1> QED
  BY <1>1, <1>2, <1>3, <1>4 DEF PolicyPut

LEMMA PetitionStays ==
  ASSUME NEW t, Petition(t), todo'[t] = todo[t], mem'[t] = mem[t],
         keys \in Nat, keys' \in Nat, keys <= keys'
  PROVE  Petition(t)'
<1>1. \A x : At(t, x)' <=> At(t, x)
  BY DEF At
<1>2. MemberCourse(t)' <=> MemberCourse(t)
  BY DEF MemberCourse
<1>3. CASE mem[t] \in MemberRecord /\ MemberCourse(t) /\
           (At(t, "put") \/ At(t, "row") \/ mem[t].what = "leave" => mem[t].key # 0) /\
           (At(t, "policy") => mem[t].role = 0)
  BY <1>1, <1>2, <1>3, KeysGrow DEF Petition
<1> QED
  BY <1>3, KeysGrow DEF Petition

LEMMA HandedKept ==
  ASSUME HandedOnce, NEW s \in Slot, OthersWait(s), handovers' \subseteq handovers,
         crossed \subseteq crossed', ~Delegating(s)', ~At(s, "dropHandover")', ~At(s, "putHandover")'
  PROVE  HandedOnce'
<1>1. \A p : Handovers(p)' \subseteq Handovers(p)
  BY DEF Handovers
<1>2. \A t \in Slot : Delegating(t)' => t # s /\ Delegating(t) /\ About(t)' = About(t)
  BY OthersSame
<1>3. \A t \in Slot : (At(t, "dropHandover")' \/ At(t, "putHandover")') =>
        /\ t # s /\ About(t)' = About(t) /\ mem'[t] = mem[t]
        /\ (At(t, "dropHandover")' => At(t, "dropHandover"))
        /\ (At(t, "putHandover")' => At(t, "putHandover"))
  BY OthersSame
<1>4. ASSUME NEW p \in People \ crossed'
      PROVE  /\ \A h, g \in Handovers(p)' : h = g
             /\ \A t, u \in Slot : Delegating(t)' /\ Delegating(u)' /\ About(t)' = p /\ About(u)' = p => t = u
  BY <1>1, <1>2 DEF HandedOnce
<1>5. ASSUME NEW t \in Slot, About(t)' \notin crossed'
      PROVE  /\ At(t, "dropHandover")' => \A h \in Handovers(About(t))' : h.key = mem'[t].key
             /\ At(t, "putHandover")' => Handovers(About(t))' = {}
  BY <1>1, <1>3, <1>5 DEF HandedOnce
<1> QED
  BY <1>4, <1>5 DEF HandedOnce

LEMMA LockedKept ==
  ASSUME NobodyLockedOut, NEW s \in Slot, OthersWait(s), tangled \subseteq tangled',
         \A p \in Person \ tangled' : asked'[p] = "approved" /\ rows'[p] = 0 =>
           (asked[p] = "approved" /\ rows[p] = 0 /\ ~Waits(s, p)) \/ Waits(s, p)'
  PROVE  NobodyLockedOut'
<1> SUFFICES ASSUME NEW p \in Person \ tangled', asked'[p] = "approved", rows'[p] = 0
             PROVE  \E t \in Slot : About(t)' = p /\ Steps(t)' \cap {"row", "unask"} # {}
  BY DEF NobodyLockedOut
<1>1. CASE Waits(s, p)'
  BY <1>1 DEF Waits
<1>2. CASE asked[p] = "approved" /\ rows[p] = 0 /\ ~Waits(s, p)
  <2>1. PICK t \in Slot : About(t) = p /\ Steps(t) \cap {"row", "unask"} # {}
    BY <1>2 DEF NobodyLockedOut
  <2>2. t # s
    BY <1>2, <2>1 DEF Waits
  <2> QED
    BY <2>1, <2>2, OthersSame
<1> QED
  BY <1>1, <1>2

\* The records of a person stay as they are.
RecordsStay(p) == \A m : m.who = p => (m \in roster' <=> m \in roster)

LEMMA ListedStays ==
  ASSUME NEW p, RecordsStay(p)
  PROVE  \A K : Listed(p, K) <=> Listed(p, K)'
BY DEF RecordsStay, Listed

LEMMA AbreastStays ==
  ASSUME NEW s \in Slot, OthersWait(s), NEW t \in Slot \ {s}, Abreast(t), tangled \subseteq tangled',
         About(t) \notin tangled' => rows'[About(t)] = rows[About(t)] /\ RecordsStay(About(t)),
         About(t) \notin tangled' /\ Pending(t, "put") /\ RoleAt(mem[t].role) # {} =>
           RoleAt(mem[t].role)' # {}
  PROVE  Abreast(t)'
<1>1. /\ mem'[t] = mem[t] /\ (\A x : At(t, x)' <=> At(t, x)) /\ Steps(t)' = Steps(t)
      /\ About(t)' = About(t) /\ (AboutMember(t)' <=> AboutMember(t))
  BY OthersSame
<1> SUFFICES ASSUME AboutMember(t), About(t) \notin tangled' PROVE Abreast(t)'
  BY <1>1 DEF Abreast
<1>2. PICK p, k : p = About(t) /\ k = mem[t].key
  OBVIOUS
<1>3. rows'[p] = rows[p] /\ RecordsStay(p) /\ p \notin tangled
  BY <1>2
<1>4. (Listed(p, {k}) => Listed(p, {k})') /\ (Listed(p, {}) => Listed(p, {})')
  BY <1>3, ListedStays
<1>5. /\ At(t, "row") => Listed(p, {k})
      /\ At(t, "unrow") => Listed(p, {}) /\ rows[p] = k
      /\ At(t, "delete") => rows[p] = k
      /\ At(t, "put") /\ mem[t].what = "update" => rows[p] = k
      /\ At(t, "record") => rows[p] # 0
      /\ mem[t].what # "update" /\ (At(t, "policy") \/ At(t, "role") \/ At(t, "put")) => rows[p] = 0
      /\ Pending(t, "put") /\ mem[t].role # 0 => RoleAt(mem[t].role) # {}
  BY <1>2, <1>3 DEF Abreast
<1>6. Pending(t, "put")' <=> Pending(t, "put")
  BY <1>1 DEF Pending
<1> QED
  BY <1>1, <1>2, <1>3, <1>4, <1>5, <1>6 DEF Abreast

\* A request comes by a key that somebody has for the same person, or a new one.
LEMMA ApartStays ==
  ASSUME CommunitiesSound, NEW s \in Slot, OthersWait(s), keys \in Nat,
         \A p \in People : \A k \in Nat \ {0} : rows'[p] = k => Holds(p, k),
         \A m \in roster' : m.key # 0 => Holds(m.who, m.key),
         AboutMember(s)' /\ mem'[s].key # 0 =>
           Holds(mem'[s].about, mem'[s].key) \/ mem'[s].key > keys
  PROVE  KeysApart'
<1>1. \A p \in People : \A k \in Nat \ {0} :
        Holds(p, k)' => \/ Holds(p, k)
                        \/ AboutMember(s)' /\ mem'[s].about = p /\ mem'[s].key = k /\ k > keys
  <2> SUFFICES ASSUME NEW p \in People, NEW k \in Nat \ {0}, Holds(p, k)'
               PROVE  \/ Holds(p, k)
                      \/ AboutMember(s)' /\ mem'[s].about = p /\ mem'[s].key = k /\ k > keys
    OBVIOUS
  <2>1. CASE rows'[p] = k
    BY <2>1
  <2>2. CASE \E m \in roster' : m.who = p /\ m.key = k
    BY <2>2
  <2>3. CASE \E t \in Slot : AboutMember(t)' /\ mem'[t].about = p /\ mem'[t].key = k
    <3>1. PICK t \in Slot : AboutMember(t)' /\ mem'[t].about = p /\ mem'[t].key = k
      BY <2>3
    <3>2. CASE t = s
      BY <3>1, <3>2
    <3>3. CASE t # s
      <4>1. AboutMember(t) /\ mem[t].about = p /\ mem[t].key = k
        BY <3>1, <3>3, OthersSame
      <4> QED
        BY <4>1 DEF Holds
    <3> QED
      BY <3>2, <3>3
  <2> QED
    BY <2>1, <2>2, <2>3 DEF Holds
<1>2. \A p \in People : \A k \in Nat \ {0} : Holds(p, k) => k \in 1 .. keys
  <2> SUFFICES ASSUME NEW p \in People, NEW k \in Nat \ {0}, Holds(p, k) PROVE k \in 1 .. keys
    OBVIOUS
  <2>1. rows[p] \in 0 .. keys /\ \A m \in roster : m.key \in 1 .. keys
    BY DEF CommunitiesSound, CommunitiesTypeOK
  <2>2. \A t \in Slot : AboutMember(t) => mem[t].key \in 0 .. keys
    <3> SUFFICES ASSUME NEW t \in Slot, AboutMember(t) PROVE mem[t].key \in 0 .. keys
      OBVIOUS
    <3>1. mem[t] \in MemberRecord
      BY Sorting DEF CommunitiesSound, AboutMember, Sorted
    <3> QED
      BY <3>1 DEF MemberRecord
  <2> QED
    BY <2>1, <2>2 DEF Holds
<1>3. KeysApart
  BY DEF CommunitiesSound
<1> SUFFICES ASSUME NEW p \in People, NEW q \in People, NEW k \in Nat \ {0}, Holds(p, k)', Holds(q, k)'
             PROVE  p = q
  BY DEF KeysApart
<1>4. CASE Holds(p, k) /\ Holds(q, k)
  BY <1>3, <1>4 DEF KeysApart
<1>5. CASE Holds(p, k) /\ ~Holds(q, k)
  BY <1>1, <1>2, <1>5
<1>6. CASE ~Holds(p, k) /\ Holds(q, k)
  BY <1>1, <1>2, <1>6
<1>7. CASE ~Holds(p, k) /\ ~Holds(q, k)
  BY <1>1, <1>7
<1> QED
  BY <1>4, <1>5, <1>6, <1>7

\* The roles that members have or are being given stay, those of tangled apart.
RolesEnough(s) ==
  /\ \A t \in Slot \ {s} : About(t) \notin tangled' /\ Pending(t, "put") =>
       \A k : k = mem[t].role /\ RoleAt(k) # {} => RoleAt(k)' # {}
  /\ \A m \in roster : m.who \notin tangled' /\ RoleAt(m.role) # {} => RoleAt(m.role)' # {}

LEMMA RolesGrow ==
  ASSUME NEW s, \A k : RoleAt(k) # {} => RoleAt(k)' # {}
  PROVE  RolesEnough(s)
BY DEF RolesEnough

\* No record or row goes, and none is put.
LEMMA MembersCarry ==
  ASSUME CommunitiesSound, NEW s \in Slot, DOMAIN todo' = Slot, DOMAIN mem' = Slot, OthersWait(s),
         CommunitiesTypeOK', Petition(s)', Abreast(s)', rows' = rows, roster' = roster,
         keys <= keys', tangled \subseteq tangled',
         RolesEnough(s),
         AboutMember(s)' /\ mem'[s].key # 0 =>
           Holds(mem'[s].about, mem'[s].key) \/ mem'[s].key > keys,
         Halfway(s) => About(s) \in tangled',
         At(s, "dropRole")' => \A m \in roster : m.who \notin tangled' => m.role # mem'[s].key,
         NobodyLockedOut', HandedOnce'
  PROVE  CommunitiesSound'
<1>1. keys \in Nat /\ keys' \in Nat
  BY DEF CommunitiesSound, CommunitiesTypeOK
<1>2. \A p : RecordsStay(p)
  BY DEF RecordsStay
<1>3. ASSUME NEW t \in Slot PROVE Petition(t)' /\ Abreast(t)'
  <2>1. CASE t = s
    BY <2>1
  <2>2. CASE t # s
    <3>1. Petition(t) /\ Abreast(t) /\ todo'[t] = todo[t] /\ mem'[t] = mem[t]
      BY <2>2, OthersSame DEF CommunitiesSound
    <3>2. Petition(t)'
      BY <1>1, <3>1, PetitionStays
    <3>3. Abreast(t)'
      BY <1>2, <2>2, <3>1, AbreastStays DEF RolesEnough
    <3> QED
      BY <3>2, <3>3
  <2> QED
    BY <2>1, <2>2
<1>4. KeysApart'
  <2>1. /\ \A p \in People : \A k \in Nat \ {0} : rows'[p] = k => Holds(p, k)
        /\ \A m \in roster' : m.key # 0 => Holds(m.who, m.key)
    BY DEF Holds
  <2> QED
    BY <1>1, <2>1, ApartStays
<1>5. Settled'
  <2> SUFFICES ASSUME NEW p \in People \ tangled'
               PROVE  /\ RolesThere(p)'
                      /\ (\A t \in Slot : Halfway(t)' => About(t)' # p) => Whole(p)'
    BY DEF Settled
  <2>1. RolesThere(p) /\ ((\A t \in Slot : Halfway(t) => About(t) # p) => Whole(p))
    BY DEF CommunitiesSound, Settled
  <2>2. RolesThere(p)'
    BY <2>1 DEF RolesThere, RolesEnough
  <2>3. ASSUME \A t \in Slot : Halfway(t)' => About(t)' # p PROVE Whole(p)'
    <3>1. \A t \in Slot : Halfway(t) => About(t) # p
      BY <2>3, OthersSame
    <3>2. Listed(p, {rows[p]} \ {0})
      BY <2>1, <3>1 DEF Whole
    <3> QED
      BY <3>2 DEF Whole, Listed
  <2> QED
    BY <2>2, <2>3
<1>6. DropsUnused'
  <2> SUFFICES ASSUME NEW t \in Slot, At(t, "dropRole")', NEW m \in roster, m.who \notin tangled'
               PROVE  m.role # mem'[t].key
    BY DEF DropsUnused
  <2>1. CASE t = s
    BY <2>1
  <2>2. CASE t # s
    BY <2>2, OthersSame DEF CommunitiesSound, DropsUnused
  <2> QED
    BY <2>1, <2>2
<1> QED
  BY <1>3, <1>4, <1>5, <1>6 DEF CommunitiesSound

\* Not at a delegation, nor at taking a role away.
Plain(s) == ~At(s, "dropRole") /\ ~At(s, "dropHandover") /\ ~At(s, "putHandover") /\ ~Delegating(s)

LEMMA TanglingGrows ==
  ASSUME NEW s, Tangling(s)
  PROVE  tangled \subseteq tangled'
BY DEF Tangling

\* Who writes a person's record or row and leaves them untangled is alone with them.
LEMMA AloneWith ==
  ASSUME CommunitiesSound, NEW s \in Slot, Tangling(s), About(s) \notin tangled',
         NEW t \in Slot \ {s}, About(t) = About(s)
  PROVE  /\ ~Pending(t, "put") /\ ~At(t, "policy") /\ ~At(t, "role") /\ ~At(t, "put") /\ ~At(t, "row")
         /\ ~At(t, "record") /\ ~At(t, "delete") /\ ~At(t, "unrow")
<1>1. ~Underway(t)
  BY DEF Tangling
<1>2. Steps(t) \cap {"put", "row", "delete", "unrow", "policy", "role", "record"} = {}
  BY <1>1 DEF Underway, Changing
<1>3. CASE todo[t] = <<>>
  BY <1>2, <1>3, Todo0 DEF Pending
<1>4. CASE todo[t] # <<>>
  <2>1. \A x : At(t, x) => x \in Steps(t)
    BY <1>4, Sorting DEF CommunitiesSound, Sorted
  <2> QED
    BY <1>2, <2>1 DEF Pending
<1> QED
  BY <1>3, <1>4

\* A request writes the record or the row of the person it is about.
LEMMA MembersWrite ==
  ASSUME CommunitiesSound, NEW s \in Slot, DOMAIN todo' = Slot, DOMAIN mem' = Slot, OthersWait(s),
         NEW p \in People, p = About(s), Tangling(s), CommunitiesTypeOK', Plain(s)',
         roles' = roles, keys' = keys, handovers' = handovers, crossed' = crossed,
         \A q \in People \ {p} : rows'[q] = rows[q] /\ RecordsStay(q),
         Petition(s)', Abreast(s)', Halfway(s)' => About(s)' = p,
         p \notin tangled' => RolesThere(p)' /\ (Halfway(s)' \/ Whole(p)'),
         \A q \in People : \A k \in Nat \ {0} : rows'[q] = k => Holds(q, k),
         \A m \in roster' : m.key # 0 => Holds(m.who, m.key),
         AboutMember(s)' /\ mem'[s].key # 0 => Holds(mem'[s].about, mem'[s].key),
         \A t \in Slot : At(t, "dropRole") =>
           \A m \in roster' : m.who \notin tangled' /\ m \notin roster => m.role # mem[t].key,
         NobodyLockedOut'
  PROVE  CommunitiesSound'
<1>1. keys \in Nat /\ tangled \subseteq tangled'
  BY TanglingGrows DEF CommunitiesSound, CommunitiesTypeOK
<1>2. \A k : RoleAt(k)' = RoleAt(k)
  BY DEF RoleAt
<1>3. ASSUME NEW t \in Slot PROVE Petition(t)' /\ Abreast(t)'
  <2>1. CASE t = s
    BY <2>1
  <2>2. CASE t # s
    <3>1. Petition(t) /\ Abreast(t) /\ todo'[t] = todo[t] /\ mem'[t] = mem[t]
      BY <2>2, OthersSame DEF CommunitiesSound
    <3>2. Petition(t)'
      BY <1>1, <3>1, PetitionStays
    <3>3. CASE ~AboutMember(t)
      BY <2>2, <3>2, <3>3, OthersSame DEF Abreast
    <3>4. CASE AboutMember(t) /\ About(t) # p
      <4>1. About(t) \in People \ {p}
        BY <3>1, <3>4, Sorting DEF AboutMember, Sorted
      <4> QED
        BY <1>1, <1>2, <2>2, <3>1, <3>2, <4>1, AbreastStays
    <3>5. CASE AboutMember(t) /\ About(t) = p /\ p \notin tangled'
      <4>1. /\ ~Pending(t, "put") /\ ~At(t, "policy") /\ ~At(t, "role") /\ ~At(t, "put") /\ ~At(t, "row")
            /\ ~At(t, "record") /\ ~At(t, "delete") /\ ~At(t, "unrow")
        BY <2>2, <3>5, AloneWith
      <4>2. /\ ~Pending(t, "put")' /\ ~At(t, "policy")' /\ ~At(t, "role")' /\ ~At(t, "put")' /\ ~At(t, "row")'
            /\ ~At(t, "record")' /\ ~At(t, "delete")' /\ ~At(t, "unrow")'
        BY <2>2, <4>1, OthersSame DEF Pending
      <4> QED
        BY <3>2, <4>2 DEF Abreast
    <3>6. CASE About(t) = p /\ p \in tangled'
      BY <2>2, <3>2, <3>6, OthersSame DEF Abreast
    <3> QED
      BY <3>2, <3>3, <3>4, <3>5, <3>6
  <2> QED
    BY <2>1, <2>2
<1>4. KeysApart'
  BY <1>1, ApartStays
<1>5. Settled'
  <2> SUFFICES ASSUME NEW q \in People \ tangled'
               PROVE  /\ RolesThere(q)'
                      /\ (\A t \in Slot : Halfway(t)' => About(t)' # q) => Whole(q)'
    BY DEF Settled
  <2>1. CASE q = p
    BY <2>1
  <2>2. CASE q # p
    <3>1. RolesThere(q) /\ ((\A t \in Slot : Halfway(t) => About(t) # q) => Whole(q))
      BY <1>1 DEF CommunitiesSound, Settled
    <3>2. rows'[q] = rows[q] /\ RecordsStay(q)
      BY <2>2
    <3>3. RolesThere(q)'
      BY <1>2, <3>1, <3>2 DEF RolesThere, RecordsStay
    <3>4. ASSUME \A t \in Slot : Halfway(t)' => About(t)' # q PROVE Whole(q)'
      <4>1. \A t \in Slot : Halfway(t) => About(t) # q
        BY <2>2, <3>4, OthersSame
      <4>2. Listed(q, {rows[q]} \ {0})
        BY <3>1, <4>1 DEF Whole
      <4> QED
        BY <3>2, <4>2 DEF Whole, Listed, RecordsStay
    <3> QED
      BY <3>3, <3>4
  <2> QED
    BY <2>1, <2>2
<1>6. DropsUnused'
  <2> SUFFICES ASSUME NEW t \in Slot, At(t, "dropRole")', NEW m \in roster', m.who \notin tangled'
               PROVE  m.role # mem'[t].key
    BY DEF DropsUnused
  <2>1. t # s /\ At(t, "dropRole") /\ mem'[t] = mem[t]
    BY OthersSame DEF Plain
  <2>2. m \in roster => m.role # mem[t].key
    BY <1>1, <2>1 DEF CommunitiesSound, DropsUnused
  <2> QED
    BY <2>1, <2>2
<1>7. HandedOnce'
  BY HandedKept DEF CommunitiesSound, Plain
<1> QED
  BY <1>3, <1>4, <1>5, <1>6, <1>7 DEF CommunitiesSound

\* A request that is done, or not yet begun.
LEMMA AtRest ==
  ASSUME NEW s
  PROVE  /\ todo[s] = <<>> =>
              ~AboutMember(s) /\ Plain(s) /\ ~Halfway(s) /\ (\A p : ~Waits(s, p))
         /\ todo'[s] = <<>> =>
              Petition(s)' /\ Abreast(s)' /\ ~AboutMember(s)' /\ Plain(s)' /\ ~Halfway(s)'
BY Todo0 DEF Petition, Abreast, AboutMember, Plain, Halfway, Waits, Delegating

LEMMA OneStatement ==
  ASSUME NEW s, NEW x, At(s, x)
  PROVE  todo[s] # <<>> /\ \A y : At(s, y) => y = x
BY DEF At

LEMMA TypesGrow ==
  ASSUME CommunitiesTypeOK, keys' \in Nat, keys <= keys', roster' = roster, rows' = rows,
         policy' \in {"open", "approval"},
         asked' \in [Person -> {"none", "pending", "approved", "rejected"}],
         roles' \subseteq [key : 1 .. keys', name : RoleName, writes : BOOLEAN],
         handovers' \subseteq [key : 1 .. keys', from : People, to : People],
         tangled' \subseteq People, crossed' \subseteq People
  PROVE  CommunitiesTypeOK'
<1>1. 0 .. keys \subseteq 0 .. keys' /\ 1 .. keys \subseteq 1 .. keys'
  BY DEF CommunitiesTypeOK
<1>2. roster' \subseteq [key : 1 .. keys', who : People, role : 0 .. keys']
  BY <1>1 DEF CommunitiesTypeOK
<1>3. rows' \in [People -> 0 .. keys']
  BY <1>1 DEF CommunitiesTypeOK
<1> QED
  BY <1>2, <1>3 DEF CommunitiesTypeOK

LEMMA RecordsType ==
  ASSUME CommunitiesTypeOK, keys' \in Nat, keys <= keys'
  PROVE  /\ roles \subseteq [key : 1 .. keys', name : RoleName, writes : BOOLEAN]
         /\ handovers \subseteq [key : 1 .. keys', from : People, to : People]
<1>1. 1 .. keys \subseteq 1 .. keys'
  BY DEF CommunitiesTypeOK
<1> QED
  BY <1>1 DEF CommunitiesTypeOK

\* Steps that leave the members, their rows and the delegations alone.
LEMMA MembersGoOn ==
  ASSUME CommunitiesSound, NEW s \in Slot, DOMAIN todo' = Slot, DOMAIN mem' = Slot, OthersWait(s),
         Petition(s)', Abreast(s)', Plain(s)', rows' = rows, roster' = roster,
         handovers' = handovers, crossed' = crossed, roles' = roles,
         policy' \in {"open", "approval"},
         asked' \in [Person -> {"none", "pending", "approved", "rejected"}],
         keys' \in Nat, keys <= keys', tangled \subseteq tangled', tangled' \subseteq People,
         AboutMember(s)' /\ mem'[s].key # 0 =>
           Holds(mem'[s].about, mem'[s].key) \/ mem'[s].key > keys,
         Halfway(s) => About(s) \in tangled',
         \A p \in Person \ tangled' : asked'[p] = "approved" /\ rows'[p] = 0 =>
           (asked[p] = "approved" /\ rows[p] = 0 /\ ~Waits(s, p)) \/ Waits(s, p)'
  PROVE  CommunitiesSound'
<1>1. CommunitiesTypeOK /\ NobodyLockedOut /\ HandedOnce
  BY DEF CommunitiesSound
<1>2. CommunitiesTypeOK'
  <2>1. /\ roles' \subseteq [key : 1 .. keys', name : RoleName, writes : BOOLEAN]
        /\ handovers' \subseteq [key : 1 .. keys', from : People, to : People]
    BY <1>1, RecordsType
  <2>2. crossed' \subseteq People
    BY <1>1 DEF CommunitiesTypeOK
  <2> QED
    BY <1>1, <2>1, <2>2, TypesGrow
<1>3. RolesEnough(s)
  BY RolesGrow DEF RoleAt
<1>4. NobodyLockedOut'
  BY <1>1, LockedKept
<1>5. HandedOnce'
  BY <1>1, HandedKept DEF Plain
<1>6. ~At(s, "dropRole")'
  BY DEF Plain
<1> QED
  BY <1>2, <1>3, <1>4, <1>5, <1>6, MembersCarry

\* What can be said of a request by where it is.
LEMMA MemberAt ==
  ASSUME CommunitiesSound, NEW s \in Slot, NEW x \in MemberWork, At(s, x)
  PROVE  /\ mem[s] \in MemberRecord /\ About(s) = mem[s].about /\ About(s) \in Person
         /\ AboutMember(s) /\ AtMember(s) /\ todo[s] # <<>>
         /\ (\A y : At(s, y) => y = x) /\ Abreast(s) /\ Petition(s)
<1>1. todo[s] # <<>> /\ (\A y : At(s, y) => y = x)
  BY OneStatement
<1>2. Sorted(s) /\ Petition(s) /\ Abreast(s)
  BY <1>1, Sorting DEF CommunitiesSound
<1>3. AboutMember(s)
  BY <1>2 DEF Sorted
<1>4. mem[s] \in MemberRecord /\ AtMember(s) /\ About(s) = mem[s].about
  BY <1>2, <1>3 DEF Sorted
<1>5. mem[s].about \in Person
  BY <1>4 DEF MemberRecord
<1> QED
  BY <1>1, <1>2, <1>3, <1>4, <1>5

\* A request about a member goes on with what it was asked.
LEMMA MemberGoesOn ==
  ASSUME NEW s, mem'[s] \in MemberRecord', MemberCourse(s)',
         At(s, "put")' \/ At(s, "row")' \/ mem'[s].what = "leave" => mem'[s].key # 0,
         At(s, "policy")' => mem'[s].role = 0
  PROVE  /\ Petition(s)' /\ Plain(s)' /\ AboutMember(s)' /\ About(s)' = mem'[s].about
<1>1. Petition(s)'
  BY DEF Petition
<1>2. mem'[s].what \in {"join", "resolve", "leave", "update"} /\ "about" \in DOMAIN mem'[s]
  BY DEF MemberRecord
<1>3. /\ todo'[s] # <<>>
      /\ Steps(s)' \cap {"dropRole", "dropHandover", "putHandover"} = {}
      /\ ~At(s, "dropRole")' /\ ~At(s, "dropHandover")' /\ ~At(s, "putHandover")'
  <2>1. CASE \E x \in {"policy", "request", "reopen", "ask", "row", "rejected", "unask"} : todo'[s] = <<x>>
    <3>1. PICK x \in {"policy", "request", "reopen", "ask", "row", "rejected", "unask"} : todo'[s] = <<x>>
      BY <2>1
    <3>2. Steps(s)' = {x} /\ (\A y : At(s, y)' <=> y = x) /\ todo'[s] # <<>>
      BY <3>1, Todo1
    <3> QED
      BY <3>2
  <2>2. CASE todo'[s] = <<"put", "row">>
    BY <2>2, Todo2
  <2>3. CASE todo'[s] = <<"role", "put", "row">>
    BY <2>3, Todo3
  <2>4. CASE todo'[s] = <<"approved", "role", "put", "row">>
    BY <2>4, Todo4
  <2>5. CASE todo'[s] = <<"delete", "unrow", "unask">>
    BY <2>5, Todo3
  <2>6. CASE todo'[s] = <<"unrow", "unask">>
    BY <2>6, Todo2
  <2>7. CASE todo'[s] = <<"record", "put", "row">>
    BY <2>7, Todo3
  <2> QED
    BY <2>1, <2>2, <2>3, <2>4, <2>5, <2>6, <2>7 DEF MemberCourse, Admitting
<1>4. Plain(s)'
  BY <1>3 DEF Plain, Delegating
<1> QED
  BY <1>1, <1>2, <1>3, <1>4 DEF AboutMember, About

LEMMA SoundBasics ==
  ASSUME CommunitiesSound
  PROVE  /\ CommunitiesTypeOK /\ DOMAIN todo = Slot /\ DOMAIN mem = Slot
         /\ policy \in {"open", "approval"} /\ rows \in [People -> 0 .. keys]
         /\ asked \in [Person -> {"none", "pending", "approved", "rejected"}]
         /\ keys \in Nat /\ tangled \subseteq People
BY DEF CommunitiesSound, CommunitiesTypeOK

LEMMA NobodyAnswered ==
  ASSUME NEW s, \A p : ~Waits(s, p), rows' = rows, asked' = asked
  PROVE  \A p \in Person \ tangled' : asked'[p] = "approved" /\ rows'[p] = 0 =>
           (asked[p] = "approved" /\ rows[p] = 0 /\ ~Waits(s, p)) \/ Waits(s, p)'
OBVIOUS

LEMMA JoinSound ==
  ASSUME CommunitiesSound, NEW s \in Slot, NEW p \in Person, Join(s, p)
  PROVE  CommunitiesSound'
<1>1. PICK m : m = Asking("join", p)
  OBVIOUS
<1>2. /\ m \in MemberRecord' /\ m.what = "join" /\ m.about = p /\ m.key = 0 /\ m.role = 0
  BY <1>1, SoundBasics DEF Asking, MemberRecord, Join, tables
<1>3. PICK steps : steps = <<"policy">>
  OBVIOUS
<1>4. Begin(s, steps, m) /\ todo[s] = <<>> /\ rows[p] = 0 /\ steps # <<>>
  BY <1>1, <1>3, Todo1 DEF Join, Begin
<1>5. DOMAIN todo' = Slot /\ DOMAIN mem' = Slot /\ OthersWait(s) /\ todo'[s] = steps /\ mem'[s] = m
  BY <1>4, SoundBasics, CommunityTurns
<1>6. Steps(s)' = {"policy"} /\ (\A x : At(s, x)' <=> x = "policy")
  BY <1>3, <1>5, Todo1
<1>7. MemberCourse(s)'
  BY <1>2, <1>3, <1>5 DEF MemberCourse
<1>8. Petition(s)' /\ Plain(s)' /\ AboutMember(s)' /\ About(s)' = p
  BY <1>2, <1>5, <1>6, <1>7, MemberGoesOn
<1>9. UNCHANGED <<tables, tangled, crossed>>
  BY DEF Join
<1>10. Abreast(s)'
  BY <1>2, <1>4, <1>5, <1>6, <1>8, <1>9 DEF Abreast, Pending, tables
<1>11. (\A q : ~Waits(s, q)) /\ ~Halfway(s)
  BY <1>4, AtRest
<1>12. \A q \in Person \ tangled' : asked'[q] = "approved" /\ rows'[q] = 0 =>
           (asked[q] = "approved" /\ rows[q] = 0 /\ ~Waits(s, q)) \/ Waits(s, q)'
  BY <1>9, <1>11 DEF tables
<1> QED
  BY <1>2, <1>5, <1>8, <1>9, <1>10, <1>11, <1>12, SoundBasics, MembersGoOn DEF tables

\* A request about a member that is done.
LEMMA MemberDone ==
  ASSUME CommunitiesSound, NEW s \in Slot, Turn(s, <<>>, Nothing) \/ Turn(s, <<>>, mem[s]),
         rows' = rows, roster' = roster, handovers' = handovers, crossed' = crossed, roles' = roles,
         policy' \in {"open", "approval"}, keys' = keys,
         asked' \in [Person -> {"none", "pending", "approved", "rejected"}],
         tangled \subseteq tangled', tangled' \subseteq People,
         Halfway(s) => About(s) \in tangled',
         \A p \in Person \ tangled' : asked'[p] = "approved" => asked[p] = "approved" /\ ~Waits(s, p)
  PROVE  CommunitiesSound'
<1>1. DOMAIN todo' = Slot /\ DOMAIN mem' = Slot /\ OthersWait(s) /\ todo'[s] = <<>>
  BY SoundBasics, CommunityTurns
<1>2. Petition(s)' /\ Abreast(s)' /\ ~AboutMember(s)' /\ Plain(s)'
  BY <1>1, AtRest
<1>3. keys' \in Nat /\ keys <= keys'
  BY SoundBasics
<1>4. \A p \in Person \ tangled' : asked'[p] = "approved" /\ rows'[p] = 0 =>
           (asked[p] = "approved" /\ rows[p] = 0 /\ ~Waits(s, p)) \/ Waits(s, p)'
  OBVIOUS
<1> QED
  BY <1>1, <1>2, <1>3, <1>4, MembersGoOn

LEMMA ReadPolicySound ==
  ASSUME CommunitiesSound, NEW s \in Slot, ReadPolicy(s)
  PROVE  CommunitiesSound'
<1>1. At(s, "policy") /\ UNCHANGED <<tables, tangled, crossed>>
  BY DEF ReadPolicy
<1>2. /\ mem[s] \in MemberRecord /\ About(s) = mem[s].about /\ About(s) \in Person
      /\ AboutMember(s) /\ Abreast(s) /\ (\A y : At(s, y) => y = "policy")
      /\ mem[s].what = "join" /\ mem[s].role = 0 /\ Steps(s) = {"policy"}
  BY <1>1, MemberAt DEF MemberWork, AtMember
<1>3. PICK steps : steps = IF policy = "open" THEN Admission ELSE <<"request">>
  OBVIOUS
<1>4. steps \in {<<"role", "put", "row">>, <<"request">>} /\ steps # <<>>
  BY <1>3 DEF Admission
<1>5. /\ DOMAIN todo' = Slot /\ DOMAIN mem' = Slot /\ OthersWait(s)
      /\ todo'[s] = steps /\ mem'[s] = mem[s]
  <2>1. Turn(s, steps, mem[s])
    BY <1>3 DEF ReadPolicy
  <2> QED
    BY <2>1, <1>4, SoundBasics, CommunityTurns
<1>6. /\ \A x : At(s, x)' => x \in {"role", "request"}
      /\ Steps(s)' \subseteq {"role", "put", "row", "request"}
  BY <1>4, <1>5, Todo1, Todo3
<1>7. MemberCourse(s)'
  BY <1>2, <1>4, <1>5 DEF MemberCourse, Admitting
<1>8. mem'[s] \in MemberRecord'
  BY <1>1, <1>2, <1>5 DEF MemberRecord, tables
<1>9. Petition(s)' /\ Plain(s)' /\ AboutMember(s)' /\ About(s)' = About(s)
  BY <1>2, <1>5, <1>6, <1>7, <1>8, MemberGoesOn
<1>10. Abreast(s)'
  <2>1. About(s) \notin tangled => rows[About(s)] = 0
    BY <1>1, <1>2 DEF Abreast
  <2> QED
    BY <2>1, <1>1, <1>2, <1>5, <1>6, <1>9 DEF Abreast, tables
<1>11. (\A q : ~Waits(s, q)) /\ ~Halfway(s)
  BY <1>2 DEF Waits, Halfway
<1>12. \A q \in Person \ tangled' : asked'[q] = "approved" /\ rows'[q] = 0 =>
           (asked[q] = "approved" /\ rows[q] = 0 /\ ~Waits(s, q)) \/ Waits(s, q)'
  BY <1>1, <1>11 DEF tables
<1>13. mem'[s].key # 0 => Holds(mem'[s].about, mem'[s].key)
  BY <1>2, <1>5 DEF Holds
<1> QED
  BY <1>1, <1>5, <1>9, <1>10, <1>11, <1>12, <1>13, SoundBasics, MembersGoOn DEF tables

LEMMA ReadRequestSound ==
  ASSUME CommunitiesSound, NEW s \in Slot, ReadRequest(s)
  PROVE  CommunitiesSound'
<1>1. At(s, "request") /\ UNCHANGED <<tables, tangled, crossed>>
  BY DEF ReadRequest
<1>2. /\ mem[s] \in MemberRecord /\ About(s) = mem[s].about /\ About(s) \in Person
      /\ AboutMember(s) /\ Abreast(s) /\ (\A y : At(s, y) => y = "request")
      /\ mem[s].what = "join" /\ Steps(s) = {"request"}
  BY <1>1, MemberAt DEF MemberWork, AtMember
<1>3. (\A q : ~Waits(s, q)) /\ ~Halfway(s)
  BY <1>2 DEF Waits, Halfway
<1>4. CASE Answer(s)
  BY <1>1, <1>3, <1>4, SoundBasics, MemberDone DEF tables, Answer
<1>5. CASE \E x \in {"reopen", "ask"} : Turn(s, <<x>>, mem[s])
  <2>1. PICK x \in {"reopen", "ask"} : Turn(s, <<x>>, mem[s])
    BY <1>5
  <2>2. PICK steps : steps = <<x>>
    OBVIOUS
  <2>3. /\ DOMAIN todo' = Slot /\ DOMAIN mem' = Slot /\ OthersWait(s)
        /\ todo'[s] = steps /\ mem'[s] = mem[s]
    <3>1. steps # <<>> /\ Turn(s, steps, mem[s])
      BY <2>1, <2>2
    <3> QED
      BY <3>1, SoundBasics, CommunityTurns
  <2>4. Steps(s)' = {x} /\ \A y : At(s, y)' <=> y = x
    BY <2>2, <2>3, Todo1
  <2>5. MemberCourse(s)'
    BY <1>2, <2>2, <2>3 DEF MemberCourse
  <2>6. mem'[s] \in MemberRecord'
    BY <1>1, <1>2, <2>3 DEF MemberRecord, tables
  <2>7. Petition(s)' /\ Plain(s)' /\ AboutMember(s)' /\ About(s)' = About(s)
    BY <1>2, <2>3, <2>4, <2>5, <2>6, MemberGoesOn
  <2>8. Abreast(s)'
    BY <2>3, <2>4, <2>7 DEF Abreast, Pending
  <2>9. \A q \in Person \ tangled' : asked'[q] = "approved" /\ rows'[q] = 0 =>
           (asked[q] = "approved" /\ rows[q] = 0 /\ ~Waits(s, q)) \/ Waits(s, q)'
    BY <1>1, <1>3 DEF tables
  <2>10. mem'[s].key # 0 => Holds(mem'[s].about, mem'[s].key)
    BY <1>2, <2>3 DEF Holds
  <2> QED
    BY <1>1, <1>3, <2>3, <2>7, <2>8, <2>9, <2>10, SoundBasics, MembersGoOn DEF tables
<1> QED
  BY <1>4, <1>5 DEF ReadRequest

LEMMA RequestWritten ==
  ASSUME CommunitiesSound, NEW s \in Slot, Reopen(s) \/ FileRequest(s) \/ Unask(s) \/ Decide(s, "rejected")
  PROVE  CommunitiesSound'
<1>1. PICK x \in {"reopen", "ask", "unask", "rejected"} : At(s, x)
  BY DEF Reopen, FileRequest, Unask, Decide
<1>2. /\ About(s) \in Person /\ Tail(todo[s]) = <<>> /\ (\A y : At(s, y) => y = x)
      /\ Steps(s) = {x}
  BY <1>1, MemberAt DEF MemberWork, AtMember
<1>3. ~Halfway(s) /\ \A q : q # About(s) => ~Waits(s, q)
  BY <1>2 DEF Waits, Halfway
<1>4. /\ Turn(s, <<>>, mem[s])
      /\ UNCHANGED <<policy, roster, rows, roles, handovers, keys, crossed>> /\ tangled' = tangled
  <2>1. Pass(s)
    BY DEF Reopen, FileRequest, Unask, Decide
  <2>2. Turn(s, <<>>, mem[s])
    BY <1>2, <2>1 DEF Pass
  <2> QED
    BY <2>2 DEF Reopen, FileRequest, Unask, Decide
<1>5. PICK a \in {"none", "pending", "rejected", "approved"} :
        /\ asked' = [asked EXCEPT ![About(s)] = a]
        /\ a = "approved" => asked[About(s)] = "approved" /\ x = "ask"
  <2>1. asked[About(s)] \in {"none", "pending", "approved", "rejected"}
    BY <1>2, SoundBasics
  <2>2. CASE Reopen(s)
    BY <2>1, <2>2 DEF Reopen
  <2>3. CASE FileRequest(s)
    BY <1>2, <2>1, <2>3 DEF FileRequest
  <2>4. CASE Unask(s)
    BY <2>1, <2>4 DEF Unask
  <2>5. CASE Decide(s, "rejected")
    BY <2>1, <2>5 DEF Decide
  <2> QED
    BY <2>2, <2>3, <2>4, <2>5
<1>6. asked' \in [Person -> {"none", "pending", "approved", "rejected"}]
  BY <1>2, <1>5, SoundBasics
<1>7. \A p \in Person \ tangled' : asked'[p] = "approved" => asked[p] = "approved" /\ ~Waits(s, p)
  <2> SUFFICES ASSUME NEW p \in Person, asked'[p] = "approved"
               PROVE  asked[p] = "approved" /\ ~Waits(s, p)
    OBVIOUS
  <2>1. CASE p = About(s)
    <3>1. x = "ask" /\ asked[p] = "approved"
      BY <1>2, <1>5, <2>1, SoundBasics
    <3> QED
      BY <1>2, <3>1 DEF Waits
  <2>2. CASE p # About(s)
    BY <1>3, <1>5, <2>2, SoundBasics
  <2> QED
    BY <2>1, <2>2
<1> QED
  BY <1>3, <1>4, <1>6, <1>7, SoundBasics, MemberDone

\* A request about a member that goes on.
LEMMA MemberMoves ==
  ASSUME CommunitiesSound, NEW s \in Slot, NEW steps, NEW m,
         Turn(s, steps, m) \/ Begin(s, steps, m), steps # <<>>,
         m \in MemberRecord', MemberCourse(s)',
         At(s, "put")' \/ At(s, "row")' \/ m.what = "leave" => m.key # 0,
         At(s, "policy")' => m.role = 0, Abreast(s)',
         m.key # 0 => Holds(m.about, m.key) \/ m.key > keys,
         rows' = rows, roster' = roster, handovers' = handovers, crossed' = crossed, roles' = roles,
         policy' = policy, keys' \in Nat, keys <= keys',
         asked' \in [Person -> {"none", "pending", "approved", "rejected"}],
         tangled \subseteq tangled', tangled' \subseteq People, ~Halfway(s),
         \A p \in Person \ tangled' : asked'[p] = "approved" /\ rows'[p] = 0 =>
           (asked[p] = "approved" /\ rows[p] = 0 /\ ~Waits(s, p)) \/ Waits(s, p)'
  PROVE  CommunitiesSound'
<1>1. /\ DOMAIN todo' = Slot /\ DOMAIN mem' = Slot /\ OthersWait(s)
      /\ todo'[s] = steps /\ mem'[s] = m
  BY SoundBasics, CommunityTurns
<1>2. Petition(s)' /\ Plain(s)' /\ AboutMember(s)'
  BY <1>1, MemberGoesOn
<1>3. AboutMember(s)' /\ mem'[s].key # 0 =>
        Holds(mem'[s].about, mem'[s].key) \/ mem'[s].key > keys
  BY <1>1
<1> QED
  BY <1>1, <1>2, <1>3, SoundBasics, MembersGoOn

LEMMA ResolveSound ==
  ASSUME CommunitiesSound, NEW s \in Slot, NEW p \in Person, NEW ruling \in {"approved", "rejected"},
         Resolve(s, p, ruling)
  PROVE  CommunitiesSound'
<1>1. PICK m : m = Asking("resolve", p)
  OBVIOUS
<1>2. /\ m \in MemberRecord' /\ m.what = "resolve" /\ m.about = p /\ m.key = 0 /\ m.role = 0
  BY <1>1, SoundBasics DEF Asking, MemberRecord, Resolve, tables
<1>3. PICK steps : steps = IF ruling = "approved" THEN << ruling >> \o Admission ELSE << ruling >>
  OBVIOUS
<1>4. steps \in {<<"approved", "role", "put", "row">>, <<"rejected">>} /\ steps # <<>>
  <2>1. CASE ruling = "approved"
    <3>1. steps = <<"approved">> \o <<"role", "put", "row">>
      BY <1>3, <2>1 DEF Admission
    <3>2. steps = <<"approved", "role", "put", "row">>
      BY <3>1, AdmissionInFull
    <3> QED
      BY <3>2
  <2>2. CASE ruling = "rejected"
    BY <1>3, <2>2
  <2> QED
    BY <2>1, <2>2
<1>5. Begin(s, steps, m) /\ todo[s] = <<>> /\ UNCHANGED <<tables, tangled, crossed>>
  BY <1>1, <1>3 DEF Resolve, Begin
<1>6. todo'[s] = steps /\ mem'[s] = m
  BY <1>4, <1>5, SoundBasics, CommunityTurns
<1>7. \A x : At(s, x)' => x \in {"approved", "rejected"}
  BY <1>4, <1>6, Todo1, Todo4
<1>8. MemberCourse(s)'
  BY <1>2, <1>4, <1>6 DEF MemberCourse
<1>9. Abreast(s)'
  BY <1>2, <1>6, <1>7 DEF Abreast
<1>10. (\A q : ~Waits(s, q)) /\ ~Halfway(s)
  BY <1>5, AtRest
<1>11. \A q \in Person \ tangled' : asked'[q] = "approved" /\ rows'[q] = 0 =>
           (asked[q] = "approved" /\ rows[q] = 0 /\ ~Waits(s, q)) \/ Waits(s, q)'
  BY <1>5, <1>10 DEF tables
<1> QED
  BY <1>2, <1>4, <1>5, <1>7, <1>8, <1>9, <1>10, <1>11, SoundBasics, MemberMoves DEF tables

LEMMA DecideSound ==
  ASSUME CommunitiesSound, NEW s \in Slot, Decide(s, "approved")
  PROVE  CommunitiesSound'
<1>1. At(s, "approved") /\ UNCHANGED <<policy, roster, rows, roles, handovers, keys, crossed>>
  BY DEF Decide
<1>2. /\ mem[s] \in MemberRecord /\ About(s) = mem[s].about /\ About(s) \in Person
      /\ AboutMember(s) /\ Abreast(s) /\ (\A y : At(s, y) => y = "approved")
      /\ mem[s].what = "resolve" /\ Steps(s) = {"approved", "role", "put", "row"}
      /\ Tail(todo[s]) = <<"role", "put", "row">>
  BY <1>1, MemberAt DEF MemberWork, AtMember
<1>3. PICK steps : steps = <<"role", "put", "row">>
  OBVIOUS
<1>4. Turn(s, steps, mem[s]) /\ steps # <<>>
  BY <1>2, <1>3 DEF Decide, Pass
<1>5. todo'[s] = steps /\ mem'[s] = mem[s]
  BY <1>4, SoundBasics, CommunityTurns
<1>6. Steps(s)' = {"role", "put", "row"} /\ (\A x : At(s, x)' <=> x = "role")
  BY <1>3, <1>5, Todo3
<1>7. MemberCourse(s)'
  BY <1>2, <1>3, <1>5 DEF MemberCourse, Admitting
<1>8. mem[s] \in MemberRecord'
  BY <1>1, <1>2 DEF MemberRecord
<1>9. /\ tangled \subseteq tangled' /\ tangled' \subseteq People
      /\ About(s) \notin tangled' => rows[About(s)] = 0
  BY <1>2, SoundBasics DEF Decide, People
<1>10. About(s)' = About(s)
  BY <1>5 DEF About
<1>11. Abreast(s)'
  <2>1. About(s) \notin tangled /\ mem[s].role # 0 => RoleAt(mem[s].role) # {}
    BY <1>2 DEF Abreast, Pending
  <2>2. \A k : RoleAt(k)' = RoleAt(k)
    BY <1>1 DEF RoleAt
  <2> QED
    BY <2>1, <2>2, <1>1, <1>5, <1>6, <1>9, <1>10 DEF Abreast
<1>12. ~Halfway(s) /\ \A q : IF q = About(s) THEN Waits(s, q)' ELSE ~Waits(s, q)
  BY <1>2, <1>6, <1>10 DEF Waits, Halfway
<1>13. asked' \in [Person -> {"none", "pending", "approved", "rejected"}]
  BY <1>2, SoundBasics DEF Decide
<1>14. \A q \in Person \ tangled' : asked'[q] = "approved" /\ rows'[q] = 0 =>
           (asked[q] = "approved" /\ rows[q] = 0 /\ ~Waits(s, q)) \/ Waits(s, q)'
  <2> SUFFICES ASSUME NEW q \in Person, asked'[q] = "approved", q # About(s) PROVE asked[q] = "approved"
    BY <1>1, <1>12
  <2> QED
    BY <1>2, SoundBasics DEF Decide
<1>15. mem[s].key # 0 => Holds(mem[s].about, mem[s].key)
  BY <1>2 DEF Holds
<1>16. /\ rows' = rows /\ roster' = roster /\ handovers' = handovers /\ crossed' = crossed
       /\ roles' = roles /\ policy' = policy /\ keys' \in Nat /\ keys <= keys'
  BY <1>1, SoundBasics
<1>17. ~At(s, "put")' /\ ~At(s, "row")' /\ ~At(s, "policy")' /\ mem[s].what # "leave"
  BY <1>2, <1>6
<1> QED
  BY <1>4, <1>7, <1>8, <1>9, <1>11, <1>12, <1>13, <1>14, <1>15, <1>16, <1>17, MemberMoves

LEMMA FindRoleSound ==
  ASSUME CommunitiesSound, NEW s \in Slot, FindRole(s)
  PROVE  CommunitiesSound'
<1>1. /\ At(s, "role") /\ keys' = keys + 1
      /\ UNCHANGED <<policy, roster, rows, asked, roles, handovers, tangled, crossed>>
  BY DEF FindRole
<1>2. /\ mem[s] \in MemberRecord /\ About(s) = mem[s].about /\ About(s) \in Person
      /\ AboutMember(s) /\ Abreast(s) /\ (\A y : At(s, y) => y = "role")
      /\ mem[s].what \in {"join", "resolve"} /\ Steps(s) = {"role", "put", "row"}
      /\ Tail(todo[s]) = <<"put", "row">>
  BY <1>1, MemberAt DEF MemberWork, AtMember
<1>3. PICK role : /\ role = 0 \/ \E r \in roles : r.key = role
                  /\ Note(s, [mem[s] EXCEPT !.key = keys + 1, !.role = role])
  BY DEF FindRole
<1>4. PICK m : m = [mem[s] EXCEPT !.key = keys + 1, !.role = role]
  OBVIOUS
<1>5. role \in 0 .. keys' /\ (role # 0 => RoleAt(role) # {}) /\ keys + 1 \in 0 .. keys'
  BY <1>1, <1>3, SoundBasics DEF CommunitiesTypeOK, RoleAt
<1>6. /\ m.what \in {"join", "resolve"} /\ m.about = About(s) /\ m.key = keys + 1 /\ m.role = role
      /\ m \in MemberRecord'
  <2>1. /\ m.what = mem[s].what /\ m.about = mem[s].about /\ m.key = keys + 1 /\ m.role = role
        /\ m = [what |-> mem[s].what, about |-> mem[s].about, key |-> keys + 1, role |-> role]
    BY <1>2, <1>4 DEF MemberRecord
  <2> QED
    BY <2>1, <1>2, <1>5 DEF MemberRecord
<1>7. PICK steps : steps = <<"put", "row">>
  OBVIOUS
<1>8. Turn(s, steps, m) /\ steps # <<>>
  BY <1>2, <1>3, <1>4, <1>7 DEF Note
<1>9. todo'[s] = steps /\ mem'[s] = m
  BY <1>8, SoundBasics, CommunityTurns
<1>10. Steps(s)' = {"put", "row"} /\ (\A x : At(s, x)' <=> x = "put")
  BY <1>7, <1>9, Todo2
<1>11. MemberCourse(s)'
  BY <1>6, <1>7, <1>9 DEF MemberCourse, Admitting
<1>12. About(s)' = About(s)
  BY <1>6, <1>9 DEF About, MemberRecord
<1>13. Abreast(s)'
  <2>1. About(s) \notin tangled => rows[About(s)] = 0
    BY <1>1, <1>2 DEF Abreast
  <2>2. \A k : RoleAt(k)' = RoleAt(k)
    BY <1>1 DEF RoleAt
  <2> QED
    BY <2>1, <2>2, <1>1, <1>5, <1>6, <1>9, <1>10, <1>12 DEF Abreast
<1>14. ~Halfway(s) /\ \A q : Waits(s, q) => Waits(s, q)'
  BY <1>2, <1>10, <1>12 DEF Waits, Halfway
<1>15. \A q \in Person \ tangled' : asked'[q] = "approved" /\ rows'[q] = 0 =>
           (asked[q] = "approved" /\ rows[q] = 0 /\ ~Waits(s, q)) \/ Waits(s, q)'
  BY <1>1, <1>14
<1>16. m.key # 0 /\ m.key > keys /\ keys' \in Nat /\ keys <= keys'
  BY <1>1, <1>6, SoundBasics
<1> QED
  BY <1>1, <1>6, <1>8, <1>10, <1>11, <1>13, <1>14, <1>15, <1>16, SoundBasics, MemberMoves

LEMMA LeaveSound ==
  ASSUME CommunitiesSound, NEW s \in Slot, NEW p \in Person, Leave(s, p)
  PROVE  CommunitiesSound'
<1>1. PICK m : m = [Asking("leave", p) EXCEPT !.key = rows[p]]
  OBVIOUS
<1>2. p \in People /\ rows[p] # 0 /\ rows[p] \in 0 .. keys' /\ UNCHANGED <<tables, tangled, crossed>>
  BY SoundBasics DEF Leave, tables, People
<1>3. /\ m.what = "leave" /\ m.about = p /\ m.key = rows[p] /\ m.role = 0
      /\ m \in MemberRecord'
  <2>1. m = [what |-> "leave", about |-> p, key |-> rows[p], role |-> 0]
    BY <1>1 DEF Asking
  <2> QED
    BY <2>1, <1>2, SoundBasics DEF MemberRecord, tables
<1>4. PICK steps : steps = <<"delete", "unrow", "unask">>
  OBVIOUS
<1>5. Begin(s, steps, m) /\ todo[s] = <<>> /\ steps # <<>>
  BY <1>1, <1>4 DEF Leave, Begin
<1>6. todo'[s] = steps /\ mem'[s] = m
  BY <1>5, SoundBasics, CommunityTurns
<1>7. Steps(s)' = {"delete", "unrow", "unask"} /\ (\A x : At(s, x)' <=> x = "delete")
  BY <1>4, <1>6, Todo3
<1>8. MemberCourse(s)'
  BY <1>3, <1>4, <1>6 DEF MemberCourse
<1>9. About(s)' = p
  BY <1>3, <1>6 DEF About, MemberRecord
<1>10. Abreast(s)'
  BY <1>2, <1>3, <1>6, <1>7, <1>9 DEF Abreast, Pending, tables
<1>11. (\A q : ~Waits(s, q)) /\ ~Halfway(s)
  BY <1>5, AtRest
<1>12. \A q \in Person \ tangled' : asked'[q] = "approved" /\ rows'[q] = 0 =>
           (asked[q] = "approved" /\ rows[q] = 0 /\ ~Waits(s, q)) \/ Waits(s, q)'
  BY <1>2, <1>11 DEF tables
<1>13. Holds(m.about, m.key)
  BY <1>3 DEF Holds
<1> QED
  BY <1>2, <1>3, <1>5, <1>7, <1>8, <1>10, <1>11, <1>12, <1>13, SoundBasics, MemberMoves DEF tables

LEMMA UpdateMemberSound ==
  ASSUME CommunitiesSound, NEW s \in Slot, NEW p \in Person, NEW by \in People, NEW r \in roles,
         UpdateMember(s, by, p, r.key)
  PROVE  CommunitiesSound'
<1>1. PICK m : m = [Asking("update", p) EXCEPT !.role = r.key]
  OBVIOUS
<1>2. /\ rows[p] # 0 /\ RoleAt(r.key) # {} /\ UNCHANGED <<tables, tangled, crossed>>
      /\ r.key \in 0 .. keys' /\ 0 \in 0 .. keys'
  BY SoundBasics DEF UpdateMember, tables, CommunitiesTypeOK
<1>3. /\ m.what = "update" /\ m.about = p /\ m.key = 0 /\ m.role = r.key
      /\ m \in MemberRecord'
  <2>1. m = [what |-> "update", about |-> p, key |-> 0, role |-> r.key]
    BY <1>1 DEF Asking
  <2> QED
    BY <2>1, <1>2, SoundBasics DEF MemberRecord, tables
<1>4. PICK steps : steps = <<"record", "put", "row">>
  OBVIOUS
<1>5. Begin(s, steps, m) /\ todo[s] = <<>> /\ steps # <<>>
  BY <1>1, <1>4 DEF UpdateMember, Begin
<1>6. todo'[s] = steps /\ mem'[s] = m
  BY <1>5, SoundBasics, CommunityTurns
<1>7. Steps(s)' = {"record", "put", "row"} /\ (\A x : At(s, x)' <=> x = "record")
  BY <1>4, <1>6, Todo3
<1>8. MemberCourse(s)'
  BY <1>3, <1>4, <1>6 DEF MemberCourse
<1>9. About(s)' = p
  BY <1>3, <1>6 DEF About, MemberRecord
<1>10. Abreast(s)'
  <2>1. RoleAt(r.key)' = RoleAt(r.key)
    BY <1>2 DEF RoleAt, tables
  <2> QED
    BY <2>1, <1>2, <1>3, <1>6, <1>7, <1>9 DEF Abreast, Pending, tables
<1>11. (\A q : ~Waits(s, q)) /\ ~Halfway(s)
  BY <1>5, AtRest
<1>12. \A q \in Person \ tangled' : asked'[q] = "approved" /\ rows'[q] = 0 =>
           (asked[q] = "approved" /\ rows[q] = 0 /\ ~Waits(s, q)) \/ Waits(s, q)'
  BY <1>2, <1>11 DEF tables
<1> QED
  BY <1>2, <1>3, <1>5, <1>7, <1>8, <1>10, <1>11, <1>12, SoundBasics, MemberMoves DEF tables

LEMMA ReadMemberSound ==
  ASSUME CommunitiesSound, NEW s \in Slot, ReadMember(s)
  PROVE  CommunitiesSound'
<1>1. At(s, "record") /\ UNCHANGED <<tables, tangled, crossed>>
  BY DEF ReadMember
<1>2. /\ mem[s] \in MemberRecord /\ About(s) = mem[s].about /\ About(s) \in Person
      /\ AboutMember(s) /\ Abreast(s) /\ (\A y : At(s, y) => y = "record")
      /\ mem[s].what = "update" /\ Steps(s) = {"record", "put", "row"}
      /\ Tail(todo[s]) = <<"put", "row">>
  BY <1>1, MemberAt DEF MemberWork, AtMember
<1>3. ~Halfway(s)
  BY <1>2 DEF Halfway
<1>4. \A q \in Person \ tangled : asked[q] = "approved" /\ rows[q] = 0 => ~Waits(s, q)
  BY <1>1, <1>2 DEF Waits, Abreast
<1>5. CASE Answer(s)
  <2>1. DOMAIN todo' = Slot /\ DOMAIN mem' = Slot /\ OthersWait(s) /\ todo'[s] = <<>>
    BY <1>5, SoundBasics, CommunityTurns DEF Answer
  <2>2. Petition(s)' /\ Abreast(s)' /\ ~AboutMember(s)' /\ Plain(s)'
    BY <2>1, AtRest
  <2>3. \A p \in Person \ tangled' : asked'[p] = "approved" /\ rows'[p] = 0 =>
           (asked[p] = "approved" /\ rows[p] = 0 /\ ~Waits(s, p)) \/ Waits(s, p)'
    BY <1>1, <1>4 DEF tables
  <2> QED
    BY <1>1, <1>3, <2>1, <2>2, <2>3, SoundBasics, MembersGoOn DEF tables
<1>6. CASE Record(rows[About(s)]) # {} /\ Note(s, [mem[s] EXCEPT !.key = rows[About(s)]])
  <2>1. PICK m : m = [mem[s] EXCEPT !.key = rows[About(s)]]
    OBVIOUS
  <2>2. rows[About(s)] \in 0 .. keys' /\ rows[About(s)] # 0 /\ About(s) \in People
    BY <1>1, <1>2, <1>6, SoundBasics DEF tables, Record, People, CommunitiesTypeOK
  <2>3. /\ m.what = "update" /\ m.about = About(s) /\ m.key = rows[About(s)] /\ m.role = mem[s].role
        /\ m \in MemberRecord'
    <3>1. m = [what |-> mem[s].what, about |-> mem[s].about, key |-> rows[About(s)], role |-> mem[s].role]
      BY <1>2, <2>1 DEF MemberRecord
    <3>2. mem[s].about \in Person /\ mem[s].role \in 0 .. keys'
      BY <1>1, <1>2 DEF MemberRecord, tables
    <3> QED
      BY <3>1, <3>2, <1>2, <2>2 DEF MemberRecord
  <2>4. PICK steps : steps = <<"put", "row">>
    OBVIOUS
  <2>5. Turn(s, steps, m) /\ steps # <<>>
    BY <1>2, <1>6, <2>1, <2>4 DEF Note
  <2>6. todo'[s] = steps /\ mem'[s] = m
    BY <2>5, SoundBasics, CommunityTurns
  <2>7. Steps(s)' = {"put", "row"} /\ (\A x : At(s, x)' <=> x = "put")
    BY <2>4, <2>6, Todo2
  <2>8. MemberCourse(s)'
    BY <2>3, <2>4, <2>6 DEF MemberCourse, Admitting
  <2>9. About(s)' = About(s)
    BY <2>3, <2>6 DEF About, MemberRecord
  <2>10. Abreast(s)'
    <3>1. \A k : RoleAt(k)' = RoleAt(k)
      BY <1>1 DEF RoleAt, tables
    <3>2. About(s) \notin tangled /\ mem[s].role # 0 => RoleAt(mem[s].role) # {}
      BY <1>2 DEF Abreast, Pending
    <3> QED
      BY <3>1, <3>2, <1>1, <2>3, <2>6, <2>7, <2>9 DEF Abreast, tables
  <2>11. \A q \in Person \ tangled' : asked'[q] = "approved" /\ rows'[q] = 0 =>
           (asked[q] = "approved" /\ rows[q] = 0 /\ ~Waits(s, q)) \/ Waits(s, q)'
    BY <1>1, <1>4 DEF tables
  <2>12. Holds(m.about, m.key)
    BY <2>3 DEF Holds
  <2> QED
    BY <1>1, <1>3, <2>2, <2>3, <2>5, <2>7, <2>8, <2>10, <2>11, <2>12, SoundBasics, MemberMoves DEF tables
<1> QED
  BY <1>5, <1>6 DEF ReadMember

LEMMA InterruptSound ==
  ASSUME CommunitiesSound, NEW s \in Slot, Interrupt(s)
  PROVE  CommunitiesSound'
<1>1. todo[s] # <<>> /\ Answer(s) /\ UNCHANGED <<tables, crossed>>
  BY DEF Interrupt
<1>2. tangled' = IF Changing(s) \/ Pending(s, "unask") THEN tangled \cup {About(s)} ELSE tangled
  BY DEF Interrupt
<1>3. Sorted(s)
  BY <1>1, Sorting DEF CommunitiesSound
<1>4. About(s) \in People /\ \A x : At(s, x) => x \in Steps(s)
  BY <1>3 DEF Sorted
<1>5. tangled \subseteq tangled' /\ tangled' \subseteq People
  BY <1>2, <1>4, SoundBasics
<1>6. Halfway(s) => About(s) \in tangled'
  BY <1>2, <1>4 DEF Halfway, Changing
<1>7. \A p \in Person \ tangled' : ~Waits(s, p)
  BY <1>2 DEF Waits, Changing, Pending
<1> QED
  BY <1>1, <1>5, <1>6, <1>7, SoundBasics, MemberDone DEF tables, Answer

\* Who comes to write a person's record and leaves them untangled finds it whole.
LEMMA FoundWhole ==
  ASSUME CommunitiesSound, NEW s \in Slot, Tangling(s), About(s) \in People, About(s) \notin tangled',
         ~Halfway(s)
  PROVE  Whole(About(s)) /\ RolesThere(About(s))
<1>1. \A t \in Slot : Halfway(t) => About(t) # About(s)
  BY AloneWith DEF Halfway
<1>2. About(s) \notin tangled
  BY TanglingGrows
<1> QED
  BY <1>1, <1>2 DEF CommunitiesSound, Settled

\* Records by a key that somebody holds are theirs.
LEMMA RecordsHeld ==
  ASSUME CommunitiesSound, NEW p \in People, NEW k \in Nat \ {0}, Holds(p, k)
  PROVE  /\ \A m \in Record(k) : m.who = p
         /\ \A q \in People : rows[q] = k => q = p
<1>1. \A m \in Record(k) : m.who \in People /\ Holds(m.who, k)
  BY SoundBasics DEF Record, CommunitiesTypeOK, Holds
<1>2. \A q \in People : rows[q] = k => Holds(q, k)
  BY DEF Holds
<1> QED
  BY <1>1, <1>2 DEF CommunitiesSound, KeysApart

\* What a request at a write has been asked.
LEMMA WriterAt ==
  ASSUME CommunitiesSound, NEW s \in Slot, NEW x \in {"put", "row", "delete", "unrow"}, At(s, x)
  PROVE  /\ mem[s] \in MemberRecord /\ About(s) = mem[s].about /\ About(s) \in Person /\ About(s) \in People
         /\ AboutMember(s) /\ AtMember(s) /\ Abreast(s) /\ (\A y : At(s, y) => y = x)
         /\ mem[s].key \in 1 .. keys /\ mem[s].key \in Nat \ {0} /\ mem[s].role \in 0 .. keys
         /\ Holds(About(s), mem[s].key)
<1>1. /\ mem[s] \in MemberRecord /\ About(s) = mem[s].about /\ About(s) \in Person
      /\ AboutMember(s) /\ AtMember(s) /\ Abreast(s) /\ (\A y : At(s, y) => y = x)
  BY MemberAt DEF MemberWork
<1>2. mem[s].key \in 0 .. keys /\ mem[s].role \in 0 .. keys /\ mem[s].key # 0
  BY <1>1 DEF MemberRecord, AtMember
<1>3. mem[s].key \in 1 .. keys /\ mem[s].key \in Nat \ {0}
  BY <1>2, SoundBasics
<1> QED
  BY <1>1, <1>2, <1>3 DEF Holds, People

LEMMA PutMemberSound ==
  ASSUME CommunitiesSound, NEW s \in Slot, PutMember(s)
  PROVE  CommunitiesSound'
<1>1. /\ At(s, "put") /\ Pass(s) /\ Tangling(s)
      /\ UNCHANGED <<policy, rows, asked, roles, handovers, keys, crossed>>
  BY DEF PutMember
<1>2. PICK p, k, new : /\ p = About(s) /\ k = mem[s].key
                       /\ new = [key |-> k, who |-> p, role |-> mem[s].role]
  OBVIOUS
<1>3. /\ mem[s] \in MemberRecord /\ p = mem[s].about /\ p \in Person /\ p \in People
      /\ AboutMember(s) /\ Abreast(s) /\ (\A y : At(s, y) => y = "put")
      /\ k \in 1 .. keys /\ k \in Nat \ {0} /\ mem[s].role \in 0 .. keys
      /\ Holds(p, k)
  BY <1>1, <1>2, WriterAt
<1>4. /\ mem[s].what \in {"join", "resolve", "update"} /\ Steps(s) = {"put", "row"}
      /\ Tail(todo[s]) = <<"row">>
  BY <1>1, WriterAt DEF AtMember
<1>5. roster' = (roster \ Record(k)) \cup {new}
  BY <1>2 DEF PutMember
<1>6. PICK steps : steps = <<"row">>
  OBVIOUS
<1>7. /\ DOMAIN todo' = Slot /\ DOMAIN mem' = Slot /\ OthersWait(s)
      /\ todo'[s] = steps /\ mem'[s] = mem[s]
  <2>1. Turn(s, steps, mem[s]) /\ steps # <<>>
    BY <1>1, <1>4, <1>6 DEF Pass
  <2> QED
    BY <2>1, SoundBasics, CommunityTurns
<1>8. Steps(s)' = {"row"} /\ (\A x : At(s, x)' <=> x = "row")
  BY <1>6, <1>7, Todo1
<1>9. Petition(s)' /\ Plain(s)' /\ AboutMember(s)' /\ About(s)' = p
  <2>1. MemberCourse(s)'
    BY <1>4, <1>6, <1>7 DEF MemberCourse, Admitting
  <2>2. mem'[s] \in MemberRecord'
    BY <1>1, <1>3, <1>7 DEF MemberRecord
  <2> QED
    BY <1>2, <1>3, <1>7, <1>8, <2>1, <2>2, MemberGoesOn
<1>10. \A m \in Record(k) : m.who = p
  BY <1>3, RecordsHeld
<1>11. \A q \in People \ {p} : rows'[q] = rows[q] /\ RecordsStay(q)
  BY <1>1, <1>2, <1>5, <1>10 DEF RecordsStay
<1>12. ASSUME p \notin tangled' PROVE Listed(p, {k})' /\ RolesThere(p)'
  <2>1. ~Halfway(s)
    BY <1>3 DEF Halfway
  <2>2. p \notin tangled
    BY <1>1, <1>12, TanglingGrows
  <2>3. Listed(p, {rows[p]} \ {0}) /\ RolesThere(p)
    BY <1>1, <1>2, <1>3, <1>12, <2>1, FoundWhole DEF Whole
  <2>4. rows[p] \in {0, k} /\ (mem[s].role # 0 => RoleAt(mem[s].role) # {})
    BY <1>1, <1>2, <1>3, <1>4, <2>2 DEF Abreast, Pending
  <2>5. \A m \in roster : m.who = p => m.key = k
    BY <2>3, <2>4 DEF Listed
  <2>6. Listed(p, {k})'
    BY <1>2, <1>5, <2>5 DEF Listed
  <2>7. \A j : RoleAt(j)' = RoleAt(j)
    BY <1>1 DEF RoleAt
  <2>8. RolesThere(p)'
    BY <1>2, <1>5, <2>3, <2>4, <2>7 DEF RolesThere
  <2> QED
    BY <2>6, <2>8
<1>13. Abreast(s)'
  BY <1>2, <1>7, <1>8, <1>9, <1>12 DEF Abreast, Pending
<1>14. CommunitiesTypeOK'
  <2>1. new \in [key : 1 .. keys, who : People, role : 0 .. keys]
    BY <1>2, <1>3
  <2>2. roster' \subseteq [key : 1 .. keys, who : People, role : 0 .. keys]
    BY <1>5, <2>1, SoundBasics DEF CommunitiesTypeOK
  <2>3. tangled' \subseteq People
    BY <1>1, <1>2, <1>3, SoundBasics DEF Tangling
  <2> QED
    BY <1>1, <2>2, <2>3, SoundBasics DEF CommunitiesTypeOK
<1>15. ASSUME NEW t \in Slot, At(t, "dropRole"), NEW m \in roster', m.who \notin tangled', m \notin roster
       PROVE  m.role # mem[t].key
  <2>0. new.who = p /\ new.role = mem[s].role
    BY <1>2
  <2>1. m = new /\ p \notin tangled' /\ t # s
    BY <1>3, <1>5, <1>15, <2>0
  <2>2. Pending(t, "dropRole")
    BY <1>15, OneStatement, Sorting DEF CommunitiesSound, Sorted, Pending
  <2>3. ~Dropping(t, mem[s].role)
    BY <1>1, <1>2, <2>1 DEF Tangling
  <2> QED
    BY <2>0, <2>1, <2>2, <2>3 DEF Dropping
<1>16. NobodyLockedOut'
  <2>1. \A q : Waits(s, q) => Waits(s, q)'
    BY <1>2, <1>8, <1>9 DEF Waits
  <2>2. \A q \in Person \ tangled' : asked'[q] = "approved" /\ rows'[q] = 0 =>
           (asked[q] = "approved" /\ rows[q] = 0 /\ ~Waits(s, q)) \/ Waits(s, q)'
    BY <1>1, <2>1
  <2> QED
    BY <1>1, <1>7, <2>2, LockedKept, TanglingGrows DEF CommunitiesSound
<1>17. /\ \A q \in People : \A j \in Nat \ {0} : rows'[q] = j => Holds(q, j)
       /\ \A m \in roster' : m.key # 0 => Holds(m.who, m.key)
       /\ AboutMember(s)' /\ mem'[s].key # 0 => Holds(mem'[s].about, mem'[s].key)
  <2>1. new.who = p /\ new.key = k
    BY <1>2
  <2>2. \A m \in roster : m.key # 0 => Holds(m.who, m.key)
    BY DEF Holds
  <2>3. \A m \in roster' : m.key # 0 => Holds(m.who, m.key)
    BY <1>3, <1>5, <2>1, <2>2
  <2>4. \A q \in People : \A j \in Nat \ {0} : rows'[q] = j => Holds(q, j)
    BY <1>1 DEF Holds
  <2> QED
    BY <1>2, <1>3, <1>7, <2>3, <2>4
<1>18. Halfway(s)' /\ (Halfway(s)' => About(s)' = p)
  BY <1>8, <1>9 DEF Halfway
<1> QED
  BY <1>1, <1>2, <1>3, <1>7, <1>9, <1>11, <1>12, <1>13, <1>14, <1>15, <1>16, <1>17, <1>18, MembersWrite

LEMMA ProjectMemberSound ==
  ASSUME CommunitiesSound, NEW s \in Slot, ProjectMember(s)
  PROVE  CommunitiesSound'
<1>1. /\ At(s, "row") /\ Pass(s) /\ Tangling(s)
      /\ UNCHANGED <<policy, roster, asked, roles, handovers, keys, crossed>>
  BY DEF ProjectMember
<1>2. PICK p, k : p = About(s) /\ k = mem[s].key
  OBVIOUS
<1>3. /\ p = mem[s].about /\ p \in Person /\ p \in People /\ Abreast(s) /\ AboutMember(s)
      /\ k \in 1 .. keys /\ k \in Nat \ {0} /\ Holds(p, k)
      /\ Steps(s) = {"row"} /\ Tail(todo[s]) = <<>>
  BY <1>1, <1>2, WriterAt DEF AtMember
<1>4. rows' = [rows EXCEPT ![p] = k]
  BY <1>2 DEF ProjectMember
<1>5. /\ DOMAIN todo' = Slot /\ DOMAIN mem' = Slot /\ OthersWait(s) /\ todo'[s] = <<>>
  <2>1. Turn(s, <<>>, mem[s])
    BY <1>1, <1>3 DEF Pass
  <2> QED
    BY <2>1, SoundBasics, CommunityTurns
<1>6. Petition(s)' /\ Abreast(s)' /\ ~AboutMember(s)' /\ Plain(s)' /\ ~Halfway(s)'
  BY <1>5, AtRest
<1>7. rows'[p] = k /\ \A q \in People \ {p} : rows'[q] = rows[q] /\ RecordsStay(q)
  BY <1>1, <1>3, <1>4, SoundBasics DEF RecordsStay
<1>8. ASSUME p \notin tangled' PROVE Whole(p)' /\ RolesThere(p)'
  <2>1. p \notin tangled
    BY <1>1, <1>8, TanglingGrows
  <2>2. Listed(p, {k})
    BY <1>1, <1>2, <1>3, <2>1 DEF Abreast
  <2>3. Whole(p)'
    BY <1>1, <1>3, <1>7, <2>2 DEF Listed, Whole
  <2>4. RolesThere(p)
    BY <1>3, <2>1 DEF CommunitiesSound, Settled
  <2> QED
    BY <1>1, <2>3, <2>4 DEF RolesThere, RoleAt
<1>9. CommunitiesTypeOK'
  <2>1. rows' \in [People -> 0 .. keys]
    BY <1>3, <1>4, SoundBasics
  <2>2. tangled' \subseteq People
    BY <1>1, <1>2, <1>3, SoundBasics DEF Tangling
  <2> QED
    BY <1>1, <2>1, <2>2, SoundBasics DEF CommunitiesTypeOK
<1>10. NobodyLockedOut'
  <2>1. \A q \in Person \ tangled' : asked'[q] = "approved" /\ rows'[q] = 0 =>
           (asked[q] = "approved" /\ rows[q] = 0 /\ ~Waits(s, q)) \/ Waits(s, q)'
    BY <1>1, <1>2, <1>3, <1>7 DEF Waits, People
  <2> QED
    BY <1>1, <1>5, <2>1, LockedKept, TanglingGrows DEF CommunitiesSound
<1>11. /\ \A q \in People : \A j \in Nat \ {0} : rows'[q] = j => Holds(q, j)
       /\ \A m \in roster' : m.key # 0 => Holds(m.who, m.key)
  <2>1. \A q \in People : \A j \in Nat \ {0} : rows'[q] = j => Holds(q, j)
    BY <1>3, <1>7 DEF Holds
  <2> QED
    BY <1>1, <2>1 DEF Holds
<1> QED
  BY <1>1, <1>2, <1>3, <1>5, <1>6, <1>7, <1>8, <1>9, <1>10, <1>11, MembersWrite

LEMMA DeleteMemberSound ==
  ASSUME CommunitiesSound, NEW s \in Slot, DeleteMember(s)
  PROVE  CommunitiesSound'
<1>1. /\ At(s, "delete") /\ Tangling(s)
      /\ UNCHANGED <<policy, rows, asked, roles, handovers, keys, crossed>>
  BY DEF DeleteMember
<1>2. PICK p, k : p = About(s) /\ k = mem[s].key
  OBVIOUS
<1>3. /\ mem[s] \in MemberRecord /\ p = mem[s].about /\ p \in Person /\ p \in People
      /\ Abreast(s) /\ AboutMember(s)
      /\ k \in 1 .. keys /\ k \in Nat \ {0} /\ Holds(p, k)
      /\ mem[s].what = "leave" /\ Steps(s) = {"delete", "unrow", "unask"}
      /\ Tail(todo[s]) = <<"unrow", "unask">> /\ (\A y : At(s, y) => y = "delete")
  BY <1>1, <1>2, WriterAt DEF AtMember
<1>4. roster' = roster \ Record(k)
  BY <1>2 DEF DeleteMember
<1>5. \A m \in Record(k) : m.who = p
  BY <1>3, RecordsHeld
<1>6. \A q \in People \ {p} : rows'[q] = rows[q] /\ RecordsStay(q)
  BY <1>1, <1>4, <1>5 DEF RecordsStay
<1>7. p \notin tangled' => rows[p] = k /\ Listed(p, {k}) /\ RolesThere(p)
  <2> SUFFICES ASSUME p \notin tangled' PROVE rows[p] = k /\ Listed(p, {k}) /\ RolesThere(p)
    OBVIOUS
  <2>1. ~Halfway(s)
    BY <1>3 DEF Halfway
  <2>2. p \notin tangled
    BY <1>1, TanglingGrows
  <2>3. Listed(p, {rows[p]} \ {0}) /\ RolesThere(p)
    BY <1>1, <1>2, <1>3, <2>1, FoundWhole DEF Whole
  <2>4. rows[p] = k
    BY <1>1, <1>2, <1>3, <2>2 DEF Abreast
  <2>5. {rows[p]} \ {0} = {k}
    BY <1>3, <2>4
  <2> QED
    BY <2>3, <2>4, <2>5
<1>8. CommunitiesTypeOK'
  <2>1. tangled' \subseteq People
    BY <1>1, <1>2, <1>3, SoundBasics DEF Tangling
  <2> QED
    BY <1>1, <1>4, <2>1, SoundBasics DEF CommunitiesTypeOK
<1>9. /\ \A q \in People : \A j \in Nat \ {0} : rows'[q] = j => Holds(q, j)
      /\ \A m \in roster' : m.key # 0 => Holds(m.who, m.key)
      /\ \A m \in roster' : m \in roster
  BY <1>1, <1>4 DEF Holds
<1>10. CASE Record(k) = {}
  <2>1. DOMAIN todo' = Slot /\ DOMAIN mem' = Slot /\ OthersWait(s) /\ todo'[s] = <<>>
    BY <1>2, <1>10, SoundBasics, CommunityTurns DEF DeleteMember, Answer
  <2>2. Petition(s)' /\ Abreast(s)' /\ ~AboutMember(s)' /\ Plain(s)' /\ ~Halfway(s)'
    BY <2>1, AtRest
  <2>3. p \in tangled'
    BY <1>7, <1>10 DEF Listed, Record
  <2>4. NobodyLockedOut'
    <3>1. \A q \in Person \ tangled' : asked'[q] = "approved" /\ rows'[q] = 0 =>
             (asked[q] = "approved" /\ rows[q] = 0 /\ ~Waits(s, q)) \/ Waits(s, q)'
      BY <1>1, <1>2, <2>3 DEF Waits
    <3> QED
      BY <1>1, <2>1, <3>1, LockedKept, TanglingGrows DEF CommunitiesSound
  <2> QED
    BY <1>1, <1>2, <1>3, <1>6, <1>8, <1>9, <2>1, <2>2, <2>3, <2>4, MembersWrite
<1>11. CASE Record(k) # {}
  <2>1. PICK steps : steps = <<"unrow", "unask">>
    OBVIOUS
  <2>2. /\ DOMAIN todo' = Slot /\ DOMAIN mem' = Slot /\ OthersWait(s)
        /\ todo'[s] = steps /\ mem'[s] = mem[s]
    <3>1. Turn(s, steps, mem[s]) /\ steps # <<>>
      BY <1>2, <1>3, <1>11, <2>1 DEF Pass, DeleteMember
    <3> QED
      BY <3>1, SoundBasics, CommunityTurns
  <2>3. Steps(s)' = {"unrow", "unask"} /\ (\A x : At(s, x)' <=> x = "unrow")
    BY <2>1, <2>2, Todo2
  <2>4. Petition(s)' /\ Plain(s)' /\ AboutMember(s)' /\ About(s)' = p
    <3>1. MemberCourse(s)'
      BY <1>3, <2>1, <2>2 DEF MemberCourse
    <3>2. mem'[s] \in MemberRecord'
      BY <1>1, <1>3, <2>2 DEF MemberRecord
    <3> QED
      BY <1>2, <1>3, <2>2, <2>3, <3>1, <3>2, MemberGoesOn
  <2>5. p \notin tangled' => Listed(p, {})' /\ RolesThere(p)' /\ rows'[p] = k
    <3> SUFFICES ASSUME p \notin tangled' PROVE Listed(p, {})' /\ RolesThere(p)' /\ rows'[p] = k
      OBVIOUS
    <3>1. rows'[p] = k
      BY <1>1, <1>7
    <3>2. Listed(p, {})'
      BY <1>4, <1>7 DEF Listed, Record
    <3>3. RolesThere(p)'
      BY <1>1, <1>4, <1>7 DEF RolesThere, RoleAt
    <3> QED
      BY <3>1, <3>2, <3>3
  <2>6. Abreast(s)'
    BY <1>2, <2>2, <2>3, <2>4, <2>5 DEF Abreast, Pending
  <2>7. NobodyLockedOut'
    <3>1. \A q \in Person \ tangled' : asked'[q] = "approved" /\ rows'[q] = 0 =>
             (asked[q] = "approved" /\ rows[q] = 0 /\ ~Waits(s, q)) \/ Waits(s, q)'
      BY <1>1, <1>2, <2>3, <2>4 DEF Waits
    <3> QED
      BY <1>1, <2>2, <3>1, LockedKept, TanglingGrows DEF CommunitiesSound
  <2>8. Halfway(s)'
    BY <2>3 DEF Halfway
  <2>9. mem'[s].key # 0 => Holds(mem'[s].about, mem'[s].key)
    BY <1>2, <1>3, <2>2
  <2> QED
    BY <1>1, <1>2, <1>3, <1>6, <1>8, <1>9, <2>2, <2>4, <2>5, <2>6, <2>7, <2>8, <2>9, MembersWrite
<1> QED
  BY <1>10, <1>11

LEMMA UnprojectSound ==
  ASSUME CommunitiesSound, NEW s \in Slot, Unproject(s)
  PROVE  CommunitiesSound'
<1>1. /\ At(s, "unrow") /\ Pass(s) /\ Tangling(s)
      /\ UNCHANGED <<policy, roster, asked, roles, handovers, keys, crossed>>
  BY DEF Unproject
<1>2. PICK p, k : p = About(s) /\ k = mem[s].key
  OBVIOUS
<1>3. /\ mem[s] \in MemberRecord /\ p = mem[s].about /\ p \in Person /\ p \in People
      /\ Abreast(s) /\ AboutMember(s)
      /\ k \in 1 .. keys /\ k \in Nat \ {0} /\ Holds(p, k)
      /\ mem[s].what = "leave" /\ Steps(s) = {"unrow", "unask"}
      /\ Tail(todo[s]) = <<"unask">>
  BY <1>1, <1>2, WriterAt DEF AtMember
<1>4. rows' = [q \in People |-> IF rows[q] = k THEN 0 ELSE rows[q]]
  BY <1>2 DEF Unproject
<1>5. PICK steps : steps = <<"unask">>
  OBVIOUS
<1>6. /\ DOMAIN todo' = Slot /\ DOMAIN mem' = Slot /\ OthersWait(s)
      /\ todo'[s] = steps /\ mem'[s] = mem[s]
  <2>1. Turn(s, steps, mem[s]) /\ steps # <<>>
    BY <1>1, <1>3, <1>5 DEF Pass
  <2> QED
    BY <2>1, SoundBasics, CommunityTurns
<1>7. Steps(s)' = {"unask"} /\ (\A x : At(s, x)' <=> x = "unask")
  BY <1>5, <1>6, Todo1
<1>8. Petition(s)' /\ Plain(s)' /\ AboutMember(s)' /\ About(s)' = p
  <2>1. MemberCourse(s)'
    BY <1>3, <1>5, <1>6 DEF MemberCourse
  <2>2. mem'[s] \in MemberRecord'
    BY <1>1, <1>3, <1>6 DEF MemberRecord
  <2> QED
    BY <1>2, <1>3, <1>6, <1>7, <2>1, <2>2, MemberGoesOn
<1>9. Abreast(s)'
  BY <1>7 DEF Abreast, Pending
<1>10. \A q \in People : rows[q] = k => q = p
  BY <1>3, RecordsHeld
<1>11. \A q \in People \ {p} : rows'[q] = rows[q] /\ RecordsStay(q)
  BY <1>1, <1>4, <1>10 DEF RecordsStay
<1>12. p \notin tangled' => RolesThere(p)' /\ Whole(p)'
  <2> SUFFICES ASSUME p \notin tangled' PROVE RolesThere(p)' /\ Whole(p)'
    OBVIOUS
  <2>1. p \notin tangled
    BY <1>1, TanglingGrows
  <2>2. Listed(p, {}) /\ rows[p] = k
    BY <1>1, <1>2, <1>3, <2>1 DEF Abreast
  <2>3. rows'[p] = 0
    BY <1>3, <1>4, <2>2
  <2>4. Whole(p)'
    BY <1>1, <2>2, <2>3 DEF Whole, Listed
  <2>5. RolesThere(p)
    BY <1>3, <2>1 DEF CommunitiesSound, Settled
  <2> QED
    BY <1>1, <2>4, <2>5 DEF RolesThere, RoleAt
<1>13. CommunitiesTypeOK'
  <2>1. tangled' \subseteq People
    BY <1>1, <1>2, <1>3, SoundBasics DEF Tangling
  <2>2. rows' \in [People -> 0 .. keys]
    BY <1>4, SoundBasics
  <2> QED
    BY <1>1, <2>1, <2>2, SoundBasics DEF CommunitiesTypeOK
<1>14. NobodyLockedOut'
  <2>1. \A q \in Person \ tangled' : asked'[q] = "approved" /\ rows'[q] = 0 =>
           (asked[q] = "approved" /\ rows[q] = 0 /\ ~Waits(s, q)) \/ Waits(s, q)'
    <3> TAKE q \in Person \ tangled'
    <3>1. CASE q = p
      BY <1>2, <1>7, <1>8, <3>1 DEF Waits
    <3>2. CASE q # p
      BY <1>1, <1>2, <1>11, <3>2 DEF Waits, People
    <3> QED
      BY <3>1, <3>2
  <2> QED
    BY <1>1, <1>6, <2>1, LockedKept, TanglingGrows DEF CommunitiesSound
<1>15. /\ \A q \in People : \A j \in Nat \ {0} : rows'[q] = j => Holds(q, j)
       /\ \A m \in roster' : m.key # 0 => Holds(m.who, m.key)
       /\ \A m \in roster' : m \in roster
       /\ mem'[s].key # 0 => Holds(mem'[s].about, mem'[s].key)
  <2>1. \A q \in People : \A j \in Nat \ {0} : rows'[q] = j => rows[q] = j
    BY <1>4
  <2> QED
    BY <1>1, <1>2, <1>3, <1>6, <2>1 DEF Holds
<1>16. ~Halfway(s)'
  BY <1>7 DEF Halfway
<1> QED
  BY <1>1, <1>2, <1>3, <1>6, <1>8, <1>9, <1>11, <1>12, <1>13, <1>14, <1>15, <1>16, MembersWrite

\* What can be said of a request that is not about a member, by where it is.
LEMMA OtherAt ==
  ASSUME CommunitiesSound, NEW s \in Slot, NEW x, x \notin MemberWork, At(s, x)
  PROVE  /\ About(s) = mem[s].about /\ About(s) \in People /\ AtOther(s)
         /\ (\A y : At(s, y) => y = x) /\ (\A q : ~Waits(s, q)) /\ ~Halfway(s)
<1>1. todo[s] # <<>> /\ (\A y : At(s, y) => y = x)
  BY OneStatement
<1>2. Sorted(s)
  BY <1>1, Sorting DEF CommunitiesSound
<1>3. ~AboutMember(s)
  BY <1>2 DEF Sorted
<1>4. About(s) = mem[s].about /\ About(s) \in People /\ AtOther(s) /\ Steps(s) \cap MemberWork = {}
  BY <1>2, <1>3 DEF Sorted
<1>5. ~Halfway(s) /\ \A q : ~Waits(s, q)
  BY <1>1, <1>4 DEF Halfway, Waits, MemberWork
<1> QED
  BY <1>1, <1>4, <1>5

\* A request that is not about a member takes up its statements.
LEMMA OtherMoves ==
  ASSUME CommunitiesSound, NEW s \in Slot, NEW steps, NEW m, steps # <<>>,
         Turn(s, steps, m) \/ Begin(s, steps, m), m.what \notin {"join", "resolve", "leave", "update"}
  PROVE  /\ DOMAIN todo' = Slot /\ DOMAIN mem' = Slot /\ OthersWait(s)
         /\ todo'[s] = steps /\ mem'[s] = m /\ ~AboutMember(s)' /\ Abreast(s)'
<1>1. /\ DOMAIN todo' = Slot /\ DOMAIN mem' = Slot /\ OthersWait(s)
      /\ todo'[s] = steps /\ mem'[s] = m
  BY SoundBasics, CommunityTurns
<1>2. ~AboutMember(s)'
  BY <1>1 DEF AboutMember
<1> QED
  BY <1>1, <1>2 DEF Abreast

\* A step that leaves the join requests alone and is none of theirs.
LEMMA NobodyLocked ==
  ASSUME CommunitiesSound, NEW s \in Slot, OthersWait(s), tangled \subseteq tangled',
         asked' = asked, rows' = rows, \A q : ~Waits(s, q)
  PROVE  NobodyLockedOut'
<1>1. \A p \in Person \ tangled' : asked'[p] = "approved" /\ rows'[p] = 0 =>
        (asked[p] = "approved" /\ rows[p] = 0 /\ ~Waits(s, p)) \/ Waits(s, p)'
  OBVIOUS
<1> QED
  BY <1>1, LockedKept DEF CommunitiesSound

LEMMA RoleAsked ==
  ASSUME CommunitiesSound, NEW s \in Slot, NEW by \in People, NEW name \in RoleName, NEW writes \in BOOLEAN,
         CreateRole(s, by, name, writes) \/ \E r \in roles : UpdateRole(s, by, r, name, writes)
  PROVE  CommunitiesSound'
<1>1. /\ keys' \in Nat /\ keys <= keys'
      /\ UNCHANGED <<policy, roster, rows, asked, roles, handovers, tangled, crossed>>
  <2>1. CASE CreateRole(s, by, name, writes)
    BY <2>1, SoundBasics DEF CreateRole
  <2>2. CASE \E r \in roles : UpdateRole(s, by, r, name, writes)
    BY <2>2, SoundBasics DEF UpdateRole, tables
  <2> QED
    BY <2>1, <2>2
<1>2. PICK key \in 1 .. keys' :
        Begin(s, <<"putRole">>,
              [what |-> "role", about |-> by, key |-> key, name |-> name, writes |-> writes])
  <2>1. CASE CreateRole(s, by, name, writes)
    <3>1. keys + 1 \in 1 .. keys'
      BY <2>1, SoundBasics DEF CreateRole
    <3> QED
      BY <2>1, <3>1 DEF CreateRole
  <2>2. CASE \E r \in roles : UpdateRole(s, by, r, name, writes)
    <3>1. PICK r \in roles : UpdateRole(s, by, r, name, writes)
      BY <2>2
    <3>2. r.key \in 1 .. keys'
      BY <1>1, SoundBasics DEF CommunitiesTypeOK
    <3> QED
      BY <3>1, <3>2 DEF UpdateRole
  <2> QED
    BY <2>1, <2>2
<1>3. PICK m, steps : /\ m = [what |-> "role", about |-> by, key |-> key, name |-> name, writes |-> writes]
                      /\ steps = <<"putRole">>
  OBVIOUS
<1>4. m \in RolePut' /\ m.what = "role" /\ steps # <<>> /\ todo[s] = <<>> /\ Begin(s, steps, m)
  BY <1>2, <1>3 DEF RolePut, Begin
<1>5. /\ DOMAIN todo' = Slot /\ DOMAIN mem' = Slot /\ OthersWait(s)
      /\ todo'[s] = steps /\ mem'[s] = m /\ ~AboutMember(s)' /\ Abreast(s)'
  BY <1>4, OtherMoves
<1>6. Steps(s)' = {"putRole"} /\ (\A x : At(s, x)' <=> x = "putRole")
  BY <1>3, <1>5, Todo1
<1>7. Petition(s)' /\ Plain(s)'
  BY <1>3, <1>4, <1>5, <1>6 DEF Petition, Plain, Delegating
<1>8. (\A q : ~Waits(s, q)) /\ ~Halfway(s)
  BY <1>4, AtRest
<1>9. \A p \in Person \ tangled' : asked'[p] = "approved" /\ rows'[p] = 0 =>
        (asked[p] = "approved" /\ rows[p] = 0 /\ ~Waits(s, p)) \/ Waits(s, p)'
  BY <1>1, <1>8
<1> QED
  BY <1>1, <1>5, <1>7, <1>8, <1>9, SoundBasics, MembersGoOn

LEMMA PutRoleSound ==
  ASSUME CommunitiesSound, NEW s \in Slot, PutRole(s)
  PROVE  CommunitiesSound'
<1>1. /\ At(s, "putRole") /\ Pass(s)
      /\ UNCHANGED <<policy, roster, rows, asked, handovers, keys, tangled, crossed>>
  BY DEF PutRole
<1>2. /\ About(s) \in People /\ mem[s] \in RolePut /\ Tail(todo[s]) = <<>>
      /\ (\A q : ~Waits(s, q)) /\ ~Halfway(s)
  BY <1>1, OtherAt DEF MemberWork, AtOther
<1>3. DOMAIN todo' = Slot /\ DOMAIN mem' = Slot /\ OthersWait(s) /\ todo'[s] = <<>>
  <2>1. Turn(s, <<>>, mem[s])
    BY <1>1, <1>2 DEF Pass
  <2> QED
    BY <2>1, SoundBasics, CommunityTurns
<1>4. Petition(s)' /\ Abreast(s)' /\ ~AboutMember(s)' /\ Plain(s)'
  BY <1>3, AtRest
<1>5. PICK new : new = [key |-> mem[s].key, name |-> mem[s].name, writes |-> mem[s].writes]
  OBVIOUS
<1>6. roles' = (roles \ RoleAt(mem[s].key)) \cup {new} /\ new.key = mem[s].key
  BY <1>5 DEF PutRole
<1>7. RolesEnough(s)
  <2> SUFFICES ASSUME NEW k, NEW r \in roles, r.key = k PROVE \E n \in roles' : n.key = k
    BY RolesGrow DEF RoleAt
  <2>1. CASE k = mem[s].key
    BY <1>6, <2>1
  <2>2. CASE k # mem[s].key
    BY <1>6, <2>2 DEF RoleAt
  <2> QED
    BY <2>1, <2>2
<1>8. CommunitiesTypeOK'
  <2>1. new \in [key : 1 .. keys, name : RoleName, writes : BOOLEAN]
    BY <1>2, <1>5 DEF RolePut
  <2>2. roles' \subseteq [key : 1 .. keys, name : RoleName, writes : BOOLEAN]
    BY <1>6, <2>1, SoundBasics DEF CommunitiesTypeOK
  <2> QED
    BY <1>1, <2>2, SoundBasics DEF CommunitiesTypeOK
<1>9. NobodyLockedOut'
  BY <1>1, <1>2, <1>3, NobodyLocked
<1>10. HandedOnce'
  BY <1>1, <1>3, <1>4, HandedKept DEF CommunitiesSound, Plain
<1>11. keys <= keys' /\ ~At(s, "dropRole")'
  BY <1>1, <1>4, SoundBasics DEF Plain
<1> QED
  BY <1>1, <1>2, <1>3, <1>4, <1>7, <1>8, <1>9, <1>10, <1>11, MembersCarry

LEMMA DeleteRoleSound ==
  ASSUME CommunitiesSound, NEW s \in Slot, NEW by \in People, NEW r \in roles, DeleteRole(s, by, r)
  PROVE  CommunitiesSound'
<1>1. UNCHANGED <<tables, tangled, crossed>> /\ \A n \in roster : n.role # r.key
  BY DEF DeleteRole
<1>2. PICK m, steps : m = [what |-> "role", about |-> by, key |-> r.key] /\ steps = <<"dropRole">>
  OBVIOUS
<1>3. Begin(s, steps, m) /\ todo[s] = <<>> /\ steps # <<>> /\ m.what = "role" /\ m.key = r.key
  BY <1>2 DEF DeleteRole, Begin
<1>4. m \in RoleDrop'
  <2>1. r.key \in 1 .. keys'
    BY <1>1, SoundBasics DEF CommunitiesTypeOK, tables
  <2> QED
    BY <1>2, <2>1 DEF RoleDrop
<1>5. /\ DOMAIN todo' = Slot /\ DOMAIN mem' = Slot /\ OthersWait(s)
      /\ todo'[s] = steps /\ mem'[s] = m /\ ~AboutMember(s)' /\ Abreast(s)'
  BY <1>3, OtherMoves
<1>6. Steps(s)' = {"dropRole"} /\ (\A x : At(s, x)' <=> x = "dropRole")
  BY <1>2, <1>5, Todo1
<1>7. Petition(s)' /\ ~Delegating(s)'
  BY <1>2, <1>4, <1>5, <1>6 DEF Petition, Delegating
<1>8. (\A q : ~Waits(s, q)) /\ ~Halfway(s)
  BY <1>3, AtRest
<1>9. CommunitiesTypeOK'
  BY <1>1, SoundBasics DEF CommunitiesTypeOK, tables
<1>10. NobodyLockedOut'
  BY <1>1, <1>5, <1>8, NobodyLocked DEF tables
<1>11. HandedOnce'
  BY <1>1, <1>5, <1>6, <1>7, HandedKept DEF CommunitiesSound, tables
<1>12. RolesEnough(s)
  BY <1>1, RolesGrow DEF RoleAt, tables
<1>13. keys <= keys' /\ rows' = rows /\ roster' = roster /\ tangled' = tangled /\ mem'[s].key = r.key
  BY <1>1, <1>3, <1>5, SoundBasics DEF tables
<1> QED
  BY <1>1, <1>5, <1>7, <1>8, <1>9, <1>10, <1>11, <1>12, <1>13, MembersCarry

LEMMA DropRoleSound ==
  ASSUME CommunitiesSound, NEW s \in Slot, DropRole(s)
  PROVE  CommunitiesSound'
<1>1. /\ At(s, "dropRole") /\ Pass(s)
      /\ UNCHANGED <<policy, roster, rows, asked, handovers, keys, crossed>>
  BY DEF DropRole
<1>2. PICK k : k = mem[s].key
  OBVIOUS
<1>3. /\ Tail(todo[s]) = <<>> /\ (\A q : ~Waits(s, q)) /\ ~Halfway(s)
  BY <1>1, OtherAt DEF MemberWork, AtOther
<1>4. /\ roles' = roles \ RoleAt(k)
      /\ tangled' = tangled \cup {About(t) : t \in {u \in Slot : Pending(u, "put") /\ mem[u].role = k}}
  BY <1>2 DEF DropRole
<1>5. DOMAIN todo' = Slot /\ DOMAIN mem' = Slot /\ OthersWait(s) /\ todo'[s] = <<>>
  <2>1. Turn(s, <<>>, mem[s])
    BY <1>1, <1>3 DEF Pass
  <2> QED
    BY <2>1, SoundBasics, CommunityTurns
<1>6. Petition(s)' /\ Abreast(s)' /\ ~AboutMember(s)' /\ Plain(s)'
  BY <1>5, AtRest
<1>7. \A j : j # k => RoleAt(j)' = RoleAt(j)
  BY <1>4 DEF RoleAt
<1>8. tangled \subseteq tangled' /\ tangled' \subseteq People
  <2>1. \A t \in Slot : Pending(t, "put") => About(t) \in People
    <3> SUFFICES ASSUME NEW t \in Slot, Pending(t, "put") PROVE About(t) \in People
      OBVIOUS
    <3>1. todo[t] # <<>>
      BY Todo0 DEF Pending
    <3> QED
      BY <3>1, Sorting DEF CommunitiesSound, Sorted
  <2> QED
    BY <1>4, <2>1, SoundBasics
<1>9. \A t \in Slot \ {s} : About(t) \notin tangled' /\ Pending(t, "put") => mem[t].role # k
  BY <1>4
<1>10. \A m \in roster : m.who \notin tangled' => m.role # k
  BY <1>1, <1>2, <1>8 DEF CommunitiesSound, DropsUnused
<1>11. CommunitiesTypeOK'
  BY <1>1, <1>4, <1>8, SoundBasics DEF CommunitiesTypeOK
<1>12. NobodyLockedOut'
  BY <1>1, <1>3, <1>5, <1>8, NobodyLocked
<1>13. HandedOnce'
  BY <1>1, <1>5, <1>6, HandedKept DEF CommunitiesSound, Plain
<1>14. keys <= keys' /\ ~At(s, "dropRole")' /\ RolesEnough(s)
  BY <1>1, <1>6, <1>7, <1>9, <1>10, SoundBasics DEF Plain, RolesEnough
<1> QED
  BY <1>1, <1>3, <1>5, <1>6, <1>8, <1>11, <1>12, <1>13, <1>14, MembersCarry

\* A request about a delegation: the rest stays as it is.
LEMMA DelegationGoesOn ==
  ASSUME CommunitiesSound, NEW s \in Slot, DOMAIN todo' = Slot, DOMAIN mem' = Slot, OthersWait(s),
         Petition(s)', ~AboutMember(s)', ~At(s, "dropRole")', \A q : ~Waits(s, q), ~Halfway(s),
         UNCHANGED <<policy, roster, rows, asked, roles, tangled>>,
         keys' \in Nat, keys <= keys', crossed' \subseteq People,
         handovers' \subseteq [key : 1 .. keys', from : People, to : People],
         HandedOnce'
  PROVE  CommunitiesSound'
<1>1. CommunitiesTypeOK'
  <2>1. roles' \subseteq [key : 1 .. keys', name : RoleName, writes : BOOLEAN]
    BY SoundBasics, RecordsType
  <2> QED
    BY <2>1, SoundBasics, TypesGrow
<1>2. Abreast(s)'
  BY DEF Abreast
<1>3. NobodyLockedOut'
  BY NobodyLocked
<1>4. RolesEnough(s)
  BY RolesGrow DEF RoleAt
<1> QED
  BY <1>1, <1>2, <1>3, <1>4, MembersCarry

\* A person's request about their delegation sets out with what there is.
LEMMA DelegationBegun ==
  ASSUME CommunitiesSound, NEW s \in Slot, OthersWait(s), NEW p \in People, Crossing(s, p),
         todo[s] = <<>>, handovers' = handovers, About(s)' = p,
         At(s, "dropHandover")' => mem'[s].key \in Replaced(p) /\ mem'[s].key # 0,
         At(s, "putHandover")' => 0 \in Replaced(p)
  PROVE  HandedOnce' /\ crossed' \subseteq People
<1>1. HandedOnce /\ crossed \subseteq People /\ \A h \in handovers : h.key # 0
  BY DEF CommunitiesSound, CommunitiesTypeOK
<1>2. crossed \subseteq crossed' /\ crossed' \subseteq People
  BY <1>1 DEF Crossing
<1>3. p \notin crossed' => \A t \in Slot \ {s} : Delegating(t) => About(t) # p
  BY DEF Crossing
<1>4. \A q : Handovers(q)' = Handovers(q)
  BY DEF Handovers
<1>5. ASSUME NEW q \in People \ crossed'
      PROVE  /\ \A h, g \in Handovers(q)' : h = g
             /\ \A t, u \in Slot :
                  Delegating(t)' /\ Delegating(u)' /\ About(t)' = q /\ About(u)' = q => t = u
  <2>1. q \notin crossed
    BY <1>2
  <2>2. \A h, g \in Handovers(q)' : h = g
    BY <1>1, <1>4, <2>1 DEF HandedOnce
  <2>3. ASSUME NEW t \in Slot, NEW u \in Slot, Delegating(t)', Delegating(u)', About(t)' = q, About(u)' = q
        PROVE  t = u
    <3>1. CASE t # s /\ u # s
      BY <1>1, <2>1, <2>3, <3>1, OthersSame DEF HandedOnce
    <3>2. CASE t = s /\ u # s
      BY <1>3, <2>3, <3>2, OthersSame
    <3>3. CASE t # s /\ u = s
      BY <1>3, <2>3, <3>3, OthersSame
    <3> QED
      BY <3>1, <3>2, <3>3
  <2> QED
    BY <2>2, <2>3
<1>6. ASSUME NEW t \in Slot, About(t)' \notin crossed'
      PROVE  /\ At(t, "dropHandover")' => \A h \in Handovers(About(t))' : h.key = mem'[t].key
             /\ At(t, "putHandover")' => Handovers(About(t))' = {}
  <2>1. CASE t # s
    <3>1. /\ About(t)' = About(t) /\ mem'[t] = mem[t] /\ About(t) \notin crossed
          /\ (At(t, "dropHandover")' => At(t, "dropHandover"))
          /\ (At(t, "putHandover")' => At(t, "putHandover"))
      BY <1>2, <1>6, <2>1, OthersSame
    <3> QED
      BY <1>1, <1>4, <3>1 DEF HandedOnce
  <2>2. CASE t = s
    <3>1. \A h, g \in Handovers(p) : h = g
      BY <1>1, <1>2, <1>6, <2>2 DEF HandedOnce
    <3>2. \A h \in Handovers(p) : h.key # 0
      BY <1>1 DEF Handovers
    <3>3. At(s, "dropHandover")' => \A h \in Handovers(p) : h.key = mem'[s].key
      BY <3>1 DEF Replaced
    <3>4. At(s, "putHandover")' => Handovers(p) = {}
      BY <3>2 DEF Replaced
    <3> QED
      BY <1>4, <2>2, <3>3, <3>4
  <2> QED
    BY <2>1, <2>2
<1> QED
  BY <1>2, <1>5, <1>6 DEF HandedOnce

LEMMA SetDelegationSound ==
  ASSUME CommunitiesSound, NEW s \in Slot, NEW p \in People, NEW to \in People, SetDelegation(s, p, to)
  PROVE  CommunitiesSound'
<1>1. /\ keys' = keys + 1 /\ Crossing(s, p)
      /\ UNCHANGED <<policy, roster, rows, asked, roles, handovers, tangled>>
  BY DEF SetDelegation
<1>2. PICK key \in Replaced(p) :
        Begin(s, IF key = 0 THEN <<"putHandover">> ELSE <<"dropHandover", "putHandover">>,
              [what |-> "delegation", about |-> p, to |-> to, key |-> key, new |-> keys + 1])
  BY DEF SetDelegation
<1>3. PICK m, steps : /\ m = [what |-> "delegation", about |-> p, to |-> to, key |-> key, new |-> keys + 1]
                      /\ steps = IF key = 0 THEN <<"putHandover">> ELSE <<"dropHandover", "putHandover">>
  OBVIOUS
<1>4. /\ Begin(s, steps, m) /\ todo[s] = <<>> /\ steps # <<>>
      /\ m.what = "delegation" /\ m.about = p /\ m.key = key /\ "about" \in DOMAIN m
  BY <1>2, <1>3 DEF Begin
<1>5. /\ keys' \in Nat /\ keys <= keys' /\ keys + 1 \in 1 .. keys' /\ key \in 0 .. keys'
      /\ handovers' \subseteq [key : 1 .. keys', from : People, to : People]
  <2>1. keys' \in Nat /\ keys <= keys' /\ keys + 1 \in 1 .. keys'
    BY <1>1, SoundBasics
  <2>2. \A h \in handovers : h.key \in 1 .. keys
    BY SoundBasics DEF CommunitiesTypeOK
  <2>3. key \in 0 .. keys'
    BY <1>1, <2>1, <2>2, SoundBasics DEF Replaced, Handovers
  <2> QED
    BY <1>1, <2>1, <2>3, SoundBasics, RecordsType
<1>6. m \in HandoverPut'
  BY <1>3, <1>5 DEF HandoverPut
<1>7. /\ DOMAIN todo' = Slot /\ DOMAIN mem' = Slot /\ OthersWait(s)
      /\ todo'[s] = steps /\ mem'[s] = m /\ ~AboutMember(s)'
  BY <1>4, OtherMoves
<1>8. /\ \A x : At(s, x)' => x = IF key = 0 THEN "putHandover" ELSE "dropHandover"
      /\ About(s)' = p
  BY <1>3, <1>4, <1>7, Todo1, Todo2 DEF About
<1>9. Petition(s)'
  BY <1>3, <1>6, <1>7 DEF Petition
<1>10. (\A q : ~Waits(s, q)) /\ ~Halfway(s)
  BY <1>4, AtRest
<1>11. HandedOnce' /\ crossed' \subseteq People
  <2>1. At(s, "dropHandover")' => mem'[s].key \in Replaced(p) /\ mem'[s].key # 0
    BY <1>2, <1>4, <1>7, <1>8
  <2>2. At(s, "putHandover")' => 0 \in Replaced(p)
    BY <1>2, <1>8
  <2> QED
    BY <1>1, <1>4, <1>7, <1>8, <2>1, <2>2, DelegationBegun
<1>12. ~At(s, "dropRole")'
  BY <1>8
<1> QED
  BY <1>1, <1>5, <1>7, <1>9, <1>10, <1>11, <1>12, DelegationGoesOn

LEMMA RevokeDelegationSound ==
  ASSUME CommunitiesSound, NEW s \in Slot, NEW p \in People, RevokeDelegation(s, p)
  PROVE  CommunitiesSound'
<1>1. Handovers(p) # {} /\ Crossing(s, p) /\ UNCHANGED <<tables, tangled>>
  BY DEF RevokeDelegation
<1>2. PICK key \in Replaced(p) :
        Begin(s, <<"dropHandover">>, [what |-> "delegation", about |-> p, key |-> key])
  BY DEF RevokeDelegation
<1>3. PICK m, steps : m = [what |-> "delegation", about |-> p, key |-> key] /\ steps = <<"dropHandover">>
  OBVIOUS
<1>4. /\ Begin(s, steps, m) /\ todo[s] = <<>> /\ steps # <<>>
      /\ m.what = "delegation" /\ m.about = p /\ m.key = key /\ "about" \in DOMAIN m
  BY <1>2, <1>3 DEF Begin
<1>5. key \in 1 .. keys' /\ key # 0
  <2>1. \A h \in handovers : h.key \in 1 .. keys
    BY SoundBasics DEF CommunitiesTypeOK
  <2>2. PICK h \in Handovers(p) : key = h.key
    BY <1>1, <1>2 DEF Replaced
  <2>3. h \in handovers
    BY <2>2 DEF Handovers
  <2> QED
    BY <1>1, <2>1, <2>2, <2>3, SoundBasics DEF tables
<1>6. m \in HandoverDrop'
  BY <1>3, <1>5 DEF HandoverDrop
<1>7. /\ DOMAIN todo' = Slot /\ DOMAIN mem' = Slot /\ OthersWait(s)
      /\ todo'[s] = steps /\ mem'[s] = m /\ ~AboutMember(s)'
  BY <1>4, OtherMoves
<1>8. (\A x : At(s, x)' => x = "dropHandover") /\ About(s)' = p
  BY <1>3, <1>4, <1>7, Todo1 DEF About
<1>9. Petition(s)'
  BY <1>3, <1>6, <1>7 DEF Petition
<1>10. (\A q : ~Waits(s, q)) /\ ~Halfway(s)
  BY <1>4, AtRest
<1>11. HandedOnce' /\ crossed' \subseteq People
  BY <1>1, <1>2, <1>4, <1>5, <1>7, <1>8, DelegationBegun DEF tables
<1>12. /\ ~At(s, "dropRole")' /\ keys' \in Nat /\ keys <= keys'
       /\ handovers' \subseteq [key : 1 .. keys', from : People, to : People]
  BY <1>1, <1>8, SoundBasics DEF tables, CommunitiesTypeOK
<1> QED
  BY <1>1, <1>7, <1>9, <1>10, <1>11, <1>12, DelegationGoesOn DEF tables

LEMMA DropHandoverSound ==
  ASSUME CommunitiesSound, NEW s \in Slot, DropHandover(s)
  PROVE  CommunitiesSound'
<1>1. /\ At(s, "dropHandover")
      /\ UNCHANGED <<policy, roster, rows, asked, roles, keys, tangled, crossed>>
  BY DEF DropHandover
<1>2. PICK p, gone : p = About(s) /\ gone = {h \in handovers : h.key = mem[s].key}
  OBVIOUS
<1>3. ((gone = {} /\ Answer(s)) \/ Pass(s)) /\ handovers' = handovers \ gone
  BY <1>2 DEF DropHandover
<1>4. /\ (\A q : ~Waits(s, q)) /\ ~Halfway(s) /\ About(s) = mem[s].about
      /\ \/ mem[s] \in HandoverDrop /\ Steps(s) = {"dropHandover"} /\ Tail(todo[s]) = <<>>
         \/ /\ mem[s] \in HandoverPut /\ Steps(s) = {"dropHandover", "putHandover"}
            /\ Tail(todo[s]) = <<"putHandover">>
  BY <1>1, OtherAt DEF MemberWork, AtOther
<1>5. /\ handovers' \subseteq [key : 1 .. keys', from : People, to : People]
      /\ keys' \in Nat /\ keys <= keys' /\ crossed' \subseteq People
  BY <1>1, <1>3, SoundBasics DEF CommunitiesTypeOK
<1>6. CASE Turn(s, <<>>, Nothing) \/ Turn(s, <<>>, mem[s])
  <2>1. DOMAIN todo' = Slot /\ DOMAIN mem' = Slot /\ OthersWait(s) /\ todo'[s] = <<>>
    BY <1>6, SoundBasics, CommunityTurns
  <2>2. Petition(s)' /\ ~AboutMember(s)' /\ Plain(s)'
    BY <2>1, AtRest
  <2>3. HandedOnce'
    BY <1>1, <1>3, <2>1, <2>2, HandedKept DEF CommunitiesSound, Plain
  <2>4. ~At(s, "dropRole")'
    BY <2>2 DEF Plain
  <2> QED
    BY <1>1, <1>4, <1>5, <2>1, <2>2, <2>3, <2>4, DelegationGoesOn
<1>7. CASE mem[s] \in HandoverPut /\ Turn(s, <<"putHandover">>, mem[s])
  <2>1. PICK steps : steps = <<"putHandover">>
    OBVIOUS
  <2>2. mem[s].what = "delegation" /\ steps # <<>> /\ Turn(s, steps, mem[s])
    BY <1>7, <2>1 DEF HandoverPut
  <2>3. /\ DOMAIN todo' = Slot /\ DOMAIN mem' = Slot /\ OthersWait(s)
        /\ todo'[s] = steps /\ mem'[s] = mem[s] /\ ~AboutMember(s)'
    BY <2>2, OtherMoves
  <2>4. (\A x : At(s, x)' <=> x = "putHandover") /\ About(s)' = p
    BY <1>2, <2>1, <2>3, Todo1 DEF About
  <2>5. Petition(s)'
    BY <1>1, <1>7, <2>1, <2>3 DEF Petition, HandoverPut
  <2>6. HandedOnce
    BY DEF CommunitiesSound
  <2>7. Delegating(s)
    BY <1>4 DEF Delegating
  <2>8. \A q : Handovers(q)' = Handovers(q) \ gone
    BY <1>3 DEF Handovers
  <2>9. \A t \in Slot : Delegating(t)' => Delegating(t) /\ About(t)' = About(t)
    BY <1>2, <2>3, <2>4, <2>7, OthersSame
  <2>10. ASSUME NEW q \in People \ crossed'
         PROVE  /\ \A h, g \in Handovers(q)' : h = g
                /\ \A t, u \in Slot :
                     Delegating(t)' /\ Delegating(u)' /\ About(t)' = q /\ About(u)' = q => t = u
    BY <1>1, <2>6, <2>8, <2>9 DEF HandedOnce
  <2>11. ASSUME NEW t \in Slot, About(t)' \notin crossed'
         PROVE  /\ At(t, "dropHandover")' => \A h \in Handovers(About(t))' : h.key = mem'[t].key
                /\ At(t, "putHandover")' => Handovers(About(t))' = {}
    <3>1. CASE t # s
      <4>1. /\ About(t)' = About(t) /\ mem'[t] = mem[t] /\ About(t) \notin crossed
            /\ (At(t, "dropHandover")' => At(t, "dropHandover"))
            /\ (At(t, "putHandover")' => At(t, "putHandover"))
        BY <1>1, <2>3, <2>11, <3>1, OthersSame
      <4> QED
        BY <2>6, <2>8, <4>1 DEF HandedOnce
    <3>2. CASE t = s
      <4>1. \A h \in Handovers(p) : h.key = mem[s].key
        BY <1>1, <1>2, <2>4, <2>6, <2>11, <3>2 DEF HandedOnce
      <4>2. Handovers(p)' = {}
        BY <1>2, <2>8, <4>1 DEF Handovers
      <4> QED
        BY <2>4, <3>2, <4>2
    <3> QED
      BY <3>1, <3>2
  <2>12. HandedOnce'
    BY <2>10, <2>11 DEF HandedOnce
  <2>13. ~At(s, "dropRole")'
    BY <2>4
  <2> QED
    BY <1>1, <1>4, <1>5, <2>3, <2>5, <2>12, <2>13, DelegationGoesOn
<1> QED
  BY <1>3, <1>4, <1>6, <1>7 DEF Pass, Answer

LEMMA PutHandoverSound ==
  ASSUME CommunitiesSound, NEW s \in Slot, PutHandover(s)
  PROVE  CommunitiesSound'
<1>1. /\ At(s, "putHandover") /\ Pass(s)
      /\ UNCHANGED <<policy, roster, rows, asked, roles, keys, tangled, crossed>>
  BY DEF PutHandover
<1>2. PICK p, new : p = About(s) /\ new = [key |-> mem[s].new, from |-> p, to |-> mem[s].to]
  OBVIOUS
<1>3. handovers' = handovers \cup {new} /\ new.from = p
  BY <1>2 DEF PutHandover
<1>4. /\ (\A q : ~Waits(s, q)) /\ ~Halfway(s) /\ p \in People
      /\ mem[s] \in HandoverPut /\ Steps(s) = {"putHandover"} /\ Tail(todo[s]) = <<>>
  BY <1>1, <1>2, OtherAt DEF MemberWork, AtOther
<1>5. /\ handovers' \subseteq [key : 1 .. keys', from : People, to : People]
      /\ keys' \in Nat /\ keys <= keys' /\ crossed' \subseteq People
  <2>1. new \in [key : 1 .. keys, from : People, to : People]
    BY <1>2, <1>4 DEF HandoverPut
  <2> QED
    BY <1>1, <1>3, <2>1, SoundBasics DEF CommunitiesTypeOK
<1>6. DOMAIN todo' = Slot /\ DOMAIN mem' = Slot /\ OthersWait(s) /\ todo'[s] = <<>>
  <2>1. Turn(s, <<>>, mem[s])
    BY <1>1, <1>4 DEF Pass
  <2> QED
    BY <2>1, SoundBasics, CommunityTurns
<1>7. Petition(s)' /\ ~AboutMember(s)' /\ Plain(s)'
  BY <1>6, AtRest
<1>8. HandedOnce /\ Delegating(s)
  BY <1>4 DEF CommunitiesSound, Delegating
<1>9. p \notin crossed =>
        Handovers(p) = {} /\ \A t \in Slot \ {s} : Delegating(t) => About(t) # p
  BY <1>1, <1>2, <1>4, <1>8 DEF HandedOnce
<1>10. /\ \A q : q # p => Handovers(q)' = Handovers(q)
       /\ Handovers(p)' = Handovers(p) \cup {new}
  BY <1>3 DEF Handovers
<1>11. \A t \in Slot : Delegating(t)' => t # s /\ Delegating(t) /\ About(t)' = About(t) /\ mem'[t] = mem[t]
  BY <1>6, <1>7, OthersSame DEF Plain
<1>12. ASSUME NEW q \in People \ crossed'
       PROVE  /\ \A h, g \in Handovers(q)' : h = g
              /\ \A t, u \in Slot :
                   Delegating(t)' /\ Delegating(u)' /\ About(t)' = q /\ About(u)' = q => t = u
  <2>1. \A t, u \in Slot : Delegating(t)' /\ Delegating(u)' /\ About(t)' = q /\ About(u)' = q => t = u
    BY <1>1, <1>8, <1>11 DEF HandedOnce
  <2>2. CASE q = p
    BY <1>1, <1>9, <1>10, <2>1, <2>2
  <2>3. CASE q # p
    BY <1>1, <1>8, <1>10, <2>1, <2>3 DEF HandedOnce
  <2> QED
    BY <2>2, <2>3
<1>13. ASSUME NEW t \in Slot, About(t)' \notin crossed'
       PROVE  /\ At(t, "dropHandover")' => \A h \in Handovers(About(t))' : h.key = mem'[t].key
              /\ At(t, "putHandover")' => Handovers(About(t))' = {}
  <2> SUFFICES ASSUME At(t, "dropHandover")' \/ At(t, "putHandover")'
               PROVE  /\ At(t, "dropHandover")' => \A h \in Handovers(About(t))' : h.key = mem'[t].key
                      /\ At(t, "putHandover")' => Handovers(About(t))' = {}
    OBVIOUS
  <2>1. t # s
    BY <1>7 DEF Plain
  <2>2. /\ About(t)' = About(t) /\ mem'[t] = mem[t] /\ About(t) \notin crossed
        /\ (At(t, "dropHandover")' => At(t, "dropHandover"))
        /\ (At(t, "putHandover")' => At(t, "putHandover"))
    BY <1>1, <1>6, <1>13, <2>1, OthersSame
  <2>3. Delegating(t)
    <3>1. todo[t] # <<>>
      BY <2>2, OneStatement
    <3>2. \A x : At(t, x) => x \in Steps(t)
      BY <3>1, Sorting DEF CommunitiesSound, Sorted
    <3> QED
      BY <2>2, <3>2 DEF Delegating
  <2>4. About(t) # p
    BY <1>9, <2>1, <2>2, <2>3
  <2> QED
    BY <1>8, <1>10, <2>2, <2>4 DEF HandedOnce
<1>14. HandedOnce'
  BY <1>12, <1>13 DEF HandedOnce
<1>15. ~At(s, "dropRole")'
  BY <1>7 DEF Plain
<1> QED
  BY <1>1, <1>4, <1>5, <1>6, <1>7, <1>14, <1>15, DelegationGoesOn

LEMMA UpdateCommunitySound ==
  ASSUME CommunitiesSound, NEW s \in Slot, NEW to \in {"open", "approval"}, UpdateCommunity(s, to)
  PROVE  CommunitiesSound'
<1>1. UNCHANGED <<tables, tangled, crossed>>
  BY DEF UpdateCommunity
<1>2. PICK m, steps : m = [what |-> "settings", about |-> Proprietor] /\ steps = <<to>>
  OBVIOUS
<1>3. Begin(s, steps, m) /\ todo[s] = <<>> /\ steps # <<>> /\ m.what = "settings" /\ m \in PolicyPut'
  BY <1>2 DEF UpdateCommunity, Begin, PolicyPut
<1>4. /\ DOMAIN todo' = Slot /\ DOMAIN mem' = Slot /\ OthersWait(s)
      /\ todo'[s] = steps /\ mem'[s] = m /\ ~AboutMember(s)' /\ Abreast(s)'
  BY <1>3, OtherMoves
<1>5. Steps(s)' = {to} /\ (\A x : At(s, x)' <=> x = to)
  BY <1>2, <1>4, Todo1
<1>6. Petition(s)' /\ Plain(s)'
  BY <1>2, <1>3, <1>4, <1>5 DEF Petition, Plain, Delegating
<1>7. (\A q : ~Waits(s, q)) /\ ~Halfway(s)
  BY <1>3, AtRest
<1>8. \A p \in Person \ tangled' : asked'[p] = "approved" /\ rows'[p] = 0 =>
        (asked[p] = "approved" /\ rows[p] = 0 /\ ~Waits(s, p)) \/ Waits(s, p)'
  BY <1>1, <1>7 DEF tables
<1> QED
  BY <1>1, <1>4, <1>6, <1>7, <1>8, SoundBasics, MembersGoOn DEF tables

LEMMA PutPolicySound ==
  ASSUME CommunitiesSound, NEW s \in Slot, NEW to \in {"open", "approval"}, PutPolicy(s, to)
  PROVE  CommunitiesSound'
<1>1. /\ At(s, to) /\ Pass(s) /\ policy' = to
      /\ UNCHANGED <<roster, rows, asked, roles, handovers, keys, tangled, crossed>>
  BY DEF PutPolicy
<1>2. (\A q : ~Waits(s, q)) /\ ~Halfway(s) /\ Tail(todo[s]) = <<>>
  BY <1>1, OtherAt DEF MemberWork, AtOther
<1>3. Turn(s, <<>>, mem[s])
  BY <1>1, <1>2 DEF Pass
<1> QED
  BY <1>1, <1>2, <1>3, SoundBasics, MemberDone

-----------------------------------------------------------------------------
LEMMA CommunitiesBegin == CommunitiesInit => CommunitiesSound
<1> SUFFICES ASSUME CommunitiesInit PROVE CommunitiesSound
  OBVIOUS
<1>1. /\ DOMAIN todo = Slot /\ DOMAIN mem = Slot /\ \A s \in Slot : todo[s] = <<>> /\ mem[s] = Nothing
  BY DEF CommunitiesInit, RequestsInit
<1>2. PICK owner, moderator, plain :
        /\ owner = [key |-> 3, who |-> Proprietor, role |-> 1]
        /\ moderator = [key |-> 1, name |-> "moderator", writes |-> TRUE]
        /\ plain = [key |-> 2, name |-> "member", writes |-> FALSE]
  OBVIOUS
<1>3. /\ policy \in {"open", "approval"} /\ roster = {owner} /\ roles = {moderator, plain}
      /\ rows = [p \in People |-> IF p = Proprietor THEN 3 ELSE 0]
      /\ asked = [p \in Person |-> "none"] /\ handovers = {} /\ keys = 3
      /\ tangled = {} /\ crossed = {}
  BY <1>2 DEF CommunitiesInit
<1>4. owner.key = 3 /\ owner.who = Proprietor /\ owner.role = 1 /\ moderator.key = 1
  BY <1>2
<1>5. CommunitiesTypeOK
  <2>1. owner \in [key : 1 .. 3, who : People, role : 0 .. 3]
    BY <1>2 DEF People
  <2>2. roles \subseteq [key : 1 .. 3, name : RoleName, writes : BOOLEAN]
    BY <1>2, <1>3 DEF RoleName
  <2>3. rows \in [People -> 0 .. 3] /\ asked \in [Person -> {"none", "pending", "approved", "rejected"}]
    BY <1>3
  <2> QED
    BY <1>3, <2>1, <2>2, <2>3 DEF CommunitiesTypeOK
<1>6. \A s \in Slot : /\ Petition(s) /\ ~AboutMember(s) /\ ~Halfway(s) /\ ~Delegating(s)
                      /\ ~At(s, "dropRole") /\ ~At(s, "dropHandover") /\ ~At(s, "putHandover")
  BY <1>1, AtRest DEF Petition, Plain
<1>7. \A s \in Slot : Abreast(s)
  BY <1>6 DEF Abreast
<1>8. KeysApart
  BY <1>3, <1>4, <1>6 DEF KeysApart, Holds
<1>9. Settled
  <2> SUFFICES ASSUME NEW p \in People PROVE RolesThere(p) /\ Whole(p)
    BY DEF Settled
  <2>1. RolesThere(p)
    BY <1>3, <1>4 DEF RolesThere, RoleAt
  <2>2. Whole(p)
    BY <1>3, <1>4 DEF Whole, Listed
  <2> QED
    BY <2>1, <2>2
<1>10. DropsUnused /\ NobodyLockedOut
  BY <1>3, <1>6 DEF DropsUnused, NobodyLockedOut
<1>11. HandedOnce
  BY <1>3, <1>6 DEF HandedOnce, Handovers
<1> QED
  BY <1>1, <1>5, <1>6, <1>7, <1>8, <1>9, <1>10, <1>11 DEF CommunitiesSound

LEMMA CommunitiesStay ==
  ASSUME CommunitiesSound, UNCHANGED communitiesVars
  PROVE  CommunitiesSound'
<1>1. /\ UNCHANGED <<policy, roster, rows, asked, roles, handovers, keys, tangled, crossed>>
      /\ todo' = todo /\ mem' = mem
  BY DEF communitiesVars, tables, requests
<1>2. CommunitiesTypeOK'
  BY <1>1 DEF CommunitiesSound, CommunitiesTypeOK
<1>3. /\ \A s, x : At(s, x)' <=> At(s, x)
      /\ \A s : Steps(s)' = Steps(s) /\ About(s)' = About(s) /\ (AboutMember(s)' <=> AboutMember(s))
  BY <1>1 DEF At, Steps, About, AboutMember
<1>4. \A s : (Halfway(s)' <=> Halfway(s)) /\ (Delegating(s)' <=> Delegating(s))
  BY <1>3 DEF Halfway, Delegating
<1>5. /\ \A k : RoleAt(k)' = RoleAt(k)
      /\ \A p, K : Listed(p, K)' <=> Listed(p, K)
      /\ \A p : (Whole(p)' <=> Whole(p)) /\ (RolesThere(p)' <=> RolesThere(p)) /\ Handovers(p)' = Handovers(p)
  BY <1>1 DEF RoleAt, Listed, Whole, RolesThere, Handovers
<1>6. ASSUME NEW s \in Slot PROVE Petition(s)' /\ Abreast(s)'
  <2>1. Petition(s) /\ Abreast(s)
    BY DEF CommunitiesSound
  <2>2. Petition(s)'
    BY <1>1, <2>1, PetitionStays, SoundBasics
  <2>3. Abreast(s)'
    BY <1>1, <1>3, <1>5, <2>1 DEF Abreast, Pending
  <2> QED
    BY <2>2, <2>3
<1>7. KeysApart'
  <2>1. \A p, k : Holds(p, k)' <=> Holds(p, k)
    BY <1>1, <1>3 DEF Holds
  <2> QED
    BY <2>1 DEF CommunitiesSound, KeysApart
<1>8. Settled' /\ DropsUnused' /\ NobodyLockedOut'
  BY <1>1, <1>3, <1>4, <1>5 DEF CommunitiesSound, Settled, DropsUnused, NobodyLockedOut
<1>9. HandedOnce'
  BY <1>1, <1>3, <1>4, <1>5 DEF CommunitiesSound, HandedOnce
<1> QED
  BY <1>1, <1>2, <1>6, <1>7, <1>8, <1>9 DEF CommunitiesSound

LEMMA CommunitiesInduct ==
  CommunitiesSound /\ [CommunitiesNext]_communitiesVars => CommunitiesSound'
<1> SUFFICES ASSUME CommunitiesSound, [CommunitiesNext]_communitiesVars PROVE CommunitiesSound'
  OBVIOUS
<1>1. CASE UNCHANGED communitiesVars
  BY <1>1, CommunitiesStay
<1>2. CASE CommunitiesNext
  <2>1. PICK s \in Slot : CommunitiesStep(s)
    BY <1>2 DEF CommunitiesNext
  <2>2. CASE \E p \in Person : \/ Join(s, p) \/ Leave(s, p)
                               \/ \E ruling \in {"approved", "rejected"} : Resolve(s, p, ruling)
    BY <2>2, JoinSound, LeaveSound, ResolveSound
  <2>3. CASE \E p \in Person, by \in People, r \in roles : UpdateMember(s, by, p, r.key)
    BY <2>3, UpdateMemberSound
  <2>4. CASE ReadPolicy(s) \/ ReadRequest(s) \/ FindRole(s) \/ ReadMember(s)
    BY <2>4, ReadPolicySound, ReadRequestSound, FindRoleSound, ReadMemberSound
  <2>5. CASE \/ Reopen(s) \/ FileRequest(s) \/ Unask(s)
             \/ \E ruling \in {"approved", "rejected"} : Decide(s, ruling)
    BY <2>5, RequestWritten, DecideSound
  <2>6. CASE PutMember(s) \/ ProjectMember(s) \/ DeleteMember(s) \/ Unproject(s)
    BY <2>6, PutMemberSound, ProjectMemberSound, DeleteMemberSound, UnprojectSound
  <2>7. CASE \E by \in People, writes \in BOOLEAN, name \in RoleName :
               CreateRole(s, by, name, writes) \/ \E r \in roles : UpdateRole(s, by, r, name, writes)
    BY <2>7, RoleAsked
  <2>8. CASE \E by \in People, r \in roles : DeleteRole(s, by, r)
    BY <2>8, DeleteRoleSound
  <2>9. CASE PutRole(s) \/ DropRole(s)
    BY <2>9, PutRoleSound, DropRoleSound
  <2>10. CASE \E p, to \in People : SetDelegation(s, p, to)
    BY <2>10, SetDelegationSound
  <2>11. CASE \E p \in People : RevokeDelegation(s, p)
    BY <2>11, RevokeDelegationSound
  <2>12. CASE DropHandover(s) \/ PutHandover(s)
    BY <2>12, DropHandoverSound, PutHandoverSound
  <2>13. CASE \E to \in {"open", "approval"} : UpdateCommunity(s, to) \/ PutPolicy(s, to)
    BY <2>13, UpdateCommunitySound, PutPolicySound
  <2>14. CASE Interrupt(s)
    BY <2>14, InterruptSound
  <2> QED
    BY <2>1, <2>2, <2>3, <2>4, <2>5, <2>6, <2>7, <2>8, <2>9, <2>10, <2>11, <2>12, <2>13, <2>14
       DEF CommunitiesStep
<1> QED
  BY <1>1, <1>2

\* The inductive invariant: what every request has read still holds, unless
\* two were at the same member at once.
THEOREM CommunitiesInductive == CommunitiesSpec => []CommunitiesSound
<1>1. CommunitiesInit => CommunitiesSound
  BY CommunitiesBegin
<1>2. CommunitiesSound /\ [CommunitiesNext]_communitiesVars => CommunitiesSound'
  BY CommunitiesInduct
<1> QED
  BY <1>1, <1>2, PTL DEF CommunitiesSpec

\* Records, rows, join requests, roles and delegations keep their types.
THEOREM CommunitiesTyped == CommunitiesSpec => []CommunitiesTypeOK
<1>1. CommunitiesSound => CommunitiesTypeOK
  BY DEF CommunitiesSound
<1> QED
  BY <1>1, CommunitiesInductive, PTL

\* Whatever requests overlap, a member nobody changed in two ways at once is
\* whole, nobody is shut out for good, and nobody's vote is given to two.
THEOREM MembersAreHeld == CommunitiesSpec => []MembershipHolds
<1>1. CommunitiesSound => MembershipHolds
  <2> SUFFICES ASSUME CommunitiesSound PROVE MembershipHolds
    OBVIOUS
  <2>1. MembersAreWhole
    <3> SUFFICES ASSUME NEW p \in People \ tangled, \A s \in Slot : Changing(s) => About(s) # p
                 PROVE  /\ {m.key : m \in {n \in roster : n.who = p}} = {rows[p]} \ {0}
                        /\ \A m \in roster : m.who = p /\ m.role # 0 => RoleAt(m.role) # {}
      BY DEF MembersAreWhole
    <3>1. \A s \in Slot : Halfway(s) => About(s) # p
      <4> SUFFICES ASSUME NEW s \in Slot, Halfway(s) PROVE Changing(s)
        OBVIOUS
      <4>1. todo[s] # <<>>
        BY OneStatement DEF Halfway
      <4>2. \A x : At(s, x) => x \in Steps(s)
        BY <4>1, Sorting DEF CommunitiesSound, Sorted
      <4> QED
        BY <4>2 DEF Halfway, Changing
    <3>2. Listed(p, {rows[p]} \ {0}) /\ RolesThere(p)
      BY <3>1 DEF CommunitiesSound, Settled, Whole
    <3> QED
      BY <3>2 DEF Listed, RolesThere
  <2>2. NobodyLockedOut
    BY DEF CommunitiesSound
  <2>3. DelegatesOnce
    <3> SUFFICES ASSUME NEW p \in People \ crossed PROVE Cardinality(Handovers(p)) <= 1
      BY DEF DelegatesOnce
    <3>1. \A h, g \in Handovers(p) : h = g
      BY DEF CommunitiesSound, HandedOnce
    <3>2. CASE Handovers(p) = {}
      BY <3>2, FS_EmptySet
    <3>3. CASE Handovers(p) # {}
      <4>1. PICK h : Handovers(p) = {h}
        BY <3>1, <3>3
      <4>2. Cardinality({h}) = 1
        BY FS_Singleton
      <4> QED
        BY <4>1, <4>2
    <3> QED
      BY <3>2, <3>3
  <2> QED
    BY <2>1, <2>2, <2>3 DEF MembershipHolds
<1> QED
  BY <1>1, CommunitiesInductive, PTL
=============================================================================

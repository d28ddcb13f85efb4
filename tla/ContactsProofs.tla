--------------------------- MODULE ContactsProofs ---------------------------
(***************************************************************************)
(* Proofs about Contacts: two people who become contacts, and cease to be. *)
(* For any number of requests at a time, of requests ever made, and        *)
(* whatever overlaps and dies: first what each statement does (the Moves   *)
(* lemmas), then an invariant for each part of the property, then all of   *)
(* them together.                                                          *)
(***************************************************************************)
EXTENDS Contacts, RequestsProofs

-----------------------------------------------------------------------------
(* What a request may have left to do.                                     *)

\* What a request about the pair was told and has drawn.
LetterRecord ==
  [what : {"letter"}, me : Party, key : 0 .. drawn, mine : 0 .. drawn, theirs : 0 .. drawn]

ContactCourse ==
  {<<>>,
   <<"put ask", "ask row">>,
   <<"ask row">>,
   <<"drop own ask", "own ask row">>,
   <<"own ask row">>,
   <<"put bond", "put their bond", "drop ask", "bond rows", "unask">>,
   <<"put their bond", "drop ask", "bond rows", "unask">>,
   <<"drop ask", "bond rows", "unask">>,
   <<"bond rows", "unask">>,
   <<"reject ask", "unask">>,
   <<"unask">>,
   <<"their bond", "drop bond", "drop their bond", "unbond theirs", "unbond">>,
   <<"drop bond", "drop their bond", "unbond theirs", "unbond">>,
   <<"drop their bond", "unbond theirs", "unbond">>,
   <<"unbond theirs", "unbond">>,
   <<"drop bond", "unbond">>,
   <<"unbond">>,
   <<"drop bonds", "unbond both", "read asks", "drop asks", "unask both", "put bar", "bar row">>,
   <<"unbond both", "read asks", "drop asks", "unask both", "put bar", "bar row">>,
   <<"read asks", "drop asks", "unask both", "put bar", "bar row">>,
   <<"drop asks", "unask both", "put bar", "bar row">>,
   <<"unask both", "put bar", "bar row">>,
   <<"put bar", "bar row">>,
   <<"bar row">>,
   <<"drop bar", "unbar">>,
   <<"unbar">>}

\* The statement a request stands at, and the one that comes next.
Now(s)    == IF todo[s] = <<>> THEN "done" ELSE Head(todo[s])
Onward(s) == IF Tail(todo[s]) = <<>> THEN "done" ELSE Head(Tail(todo[s]))

\* Where there was no row of the other, a removal has but two statements.
Brief == <<"drop bond", "unbond">>

Adders  == {"put ask", "ask row", "put bond", "put their bond", "drop ask", "bond rows"}
Barrers == {"drop bonds", "unbond both", "read asks", "drop asks", "unask both", "put bar", "bar row"}

Leading(s) ==
  /\ Now(s) = "put ask" => Onward(s) = "ask row"
  /\ Now(s) = "ask row" => Onward(s) = "done"
  /\ Now(s) = "drop own ask" => Onward(s) = "own ask row"
  /\ Now(s) = "own ask row" => Onward(s) = "done"
  /\ Now(s) = "put bond" => Onward(s) = "put their bond"
  /\ Now(s) = "put their bond" => Onward(s) = "drop ask"
  /\ Now(s) = "drop ask" => Onward(s) = "bond rows"
  /\ Now(s) = "bond rows" => Onward(s) = "unask"
  /\ Now(s) = "reject ask" => Onward(s) = "unask"
  /\ Now(s) = "unask" => Onward(s) = "done"
  /\ Now(s) = "their bond" => Onward(s) = "drop bond" /\ Tail(todo[s]) # Brief
  /\ Now(s) = "drop bond" =>
       Onward(s) = IF todo[s] = Brief THEN "unbond" ELSE "drop their bond"
  /\ Now(s) = "drop their bond" => Onward(s) = "unbond theirs"
  /\ Now(s) = "unbond theirs" => Onward(s) = "unbond"
  /\ Now(s) = "unbond" => Onward(s) = "done"
  /\ Now(s) = "drop bonds" => Onward(s) = "unbond both"
  /\ Now(s) = "unbond both" => Onward(s) = "read asks"
  /\ Now(s) = "read asks" => Onward(s) = "drop asks"
  /\ Now(s) = "drop asks" => Onward(s) = "unask both"
  /\ Now(s) = "unask both" => Onward(s) = "put bar"
  /\ Now(s) = "put bar" => Onward(s) = "bar row"
  /\ Now(s) = "bar row" => Onward(s) = "done"
  /\ Now(s) = "drop bar" => Onward(s) = "unbar"
  /\ Now(s) = "unbar" => Onward(s) = "done"
  /\ Now(s) \in Adders => Pending(s, "ask row") \/ Pending(s, "bond rows")
  /\ Now(s) \in Barrers => Pending(s, "bar row")

LEMMA TwoParties ==
  ASSUME NEW p \in Party
  PROVE  /\ Other(p) \in Party /\ Other(p) # p /\ Other(Other(p)) = p
         /\ \A q \in Party : q = p \/ q = Other(p)
<1>1. PICK a \in Party : \E b \in Party \ {a} : Party = {a, b}
  BY PartyAssumption
<1>2. PICK b \in Party \ {a} : Party = {a, b}
  BY <1>1
<1>3. \A q \in Party : Other(q) \in Party /\ Other(q) # q
  BY <1>2 DEF Other
<1> QED
  BY <1>2, <1>3

LEMMA Runs1 ==
  \A t, a : t = <<a>> =>
    /\ Head(t) = a /\ Tail(t) = <<>> /\ t # <<>>
OBVIOUS

LEMMA Runs2 ==
  \A t, a, b : t = <<a, b>> =>
    /\ Head(t) = a /\ Tail(t) = <<b>> /\ t # <<>>
    /\ Tail(t) # <<>> /\ Head(Tail(t)) = b /\ Tail(Tail(t)) = <<>>
OBVIOUS

LEMMA Runs3 ==
  \A t, a, b, c : t = <<a, b, c>> =>
    /\ Head(t) = a /\ Tail(t) = <<b, c>> /\ t # <<>>
    /\ Tail(t) # <<>> /\ Head(Tail(t)) = b /\ Tail(Tail(t)) = <<c>>
OBVIOUS

LEMMA Runs4 ==
  \A t, a, b, c, d : t = <<a, b, c, d>> =>
    /\ Head(t) = a /\ Tail(t) = <<b, c, d>> /\ t # <<>>
    /\ Tail(t) # <<>> /\ Head(Tail(t)) = b /\ Tail(Tail(t)) = <<c, d>>
OBVIOUS

LEMMA Runs5 ==
  \A t, a, b, c, d, e : t = <<a, b, c, d, e>> =>
    /\ Head(t) = a /\ Tail(t) = <<b, c, d, e>> /\ t # <<>>
    /\ Tail(t) # <<>> /\ Head(Tail(t)) = b /\ Tail(Tail(t)) = <<c, d, e>>
OBVIOUS

LEMMA Runs6 ==
  \A t, a, b, c, d, e, f : t = <<a, b, c, d, e, f>> =>
    /\ Head(t) = a /\ Tail(t) = <<b, c, d, e, f>> /\ t # <<>>
    /\ Tail(t) # <<>> /\ Head(Tail(t)) = b /\ Tail(Tail(t)) = <<c, d, e, f>>
OBVIOUS

LEMMA Runs7 ==
  \A t, a, b, c, d, e, f, g : t = <<a, b, c, d, e, f, g>> =>
    /\ Head(t) = a /\ Tail(t) = <<b, c, d, e, f, g>> /\ t # <<>>
    /\ Tail(t) # <<>> /\ Head(Tail(t)) = b /\ Tail(Tail(t)) = <<c, d, e, f, g>>
OBVIOUS


LEMMA LongerRuns == \A a, b, c, d, e, f : <<a, b, c, d>> # <<e, f>>
OBVIOUS

LEMMA Among1 ==
  ASSUME NEW s, NEW a, todo[s] = <<a>>
  PROVE  Pending(s, a)
<1>1. 1 \in DOMAIN todo[s] /\ todo[s][1] = a
  OBVIOUS
<1> QED
  BY <1>1 DEF Pending, Steps

LEMMA Among2 ==
  ASSUME NEW s, NEW a, NEW b, todo[s] = <<a, b>>
  PROVE  Pending(s, a) /\ Pending(s, b)
<1>1. 1 \in DOMAIN todo[s] /\ todo[s][1] = a /\ 2 \in DOMAIN todo[s] /\ todo[s][2] = b
  OBVIOUS
<1> QED
  BY <1>1 DEF Pending, Steps

LEMMA Among3 ==
  ASSUME NEW s, NEW a, NEW b, NEW c, todo[s] = <<a, b, c>>
  PROVE  Pending(s, b) /\ Pending(s, c)
<1>1. 2 \in DOMAIN todo[s] /\ todo[s][2] = b /\ 3 \in DOMAIN todo[s] /\ todo[s][3] = c
  OBVIOUS
<1> QED
  BY <1>1 DEF Pending, Steps

LEMMA Among4 ==
  ASSUME NEW s, NEW a, NEW b, NEW c, NEW d, todo[s] = <<a, b, c, d>>
  PROVE  Pending(s, c) /\ Pending(s, d)
<1>1. 3 \in DOMAIN todo[s] /\ todo[s][3] = c /\ 4 \in DOMAIN todo[s] /\ todo[s][4] = d
  OBVIOUS
<1> QED
  BY <1>1 DEF Pending, Steps

LEMMA Among5 ==
  ASSUME NEW s, NEW a, NEW b, NEW c, NEW d, NEW e, todo[s] = <<a, b, c, d, e>>
  PROVE  Pending(s, d) /\ Pending(s, e)
<1>1. 4 \in DOMAIN todo[s] /\ todo[s][4] = d /\ 5 \in DOMAIN todo[s] /\ todo[s][5] = e
  OBVIOUS
<1> QED
  BY <1>1 DEF Pending, Steps

LEMMA Among6 ==
  ASSUME NEW s, NEW a, NEW b, NEW c, NEW d, NEW e, NEW f, todo[s] = <<a, b, c, d, e, f>>
  PROVE  Pending(s, f)
<1>1. 6 \in DOMAIN todo[s] /\ todo[s][6] = f
  OBVIOUS
<1> QED
  BY <1>1 DEF Pending, Steps

LEMMA Among7 ==
  ASSUME NEW s, NEW a, NEW b, NEW c, NEW d, NEW e, NEW f, NEW g, todo[s] = <<a, b, c, d, e, f, g>>
  PROVE  Pending(s, g)
<1>1. 7 \in DOMAIN todo[s] /\ todo[s][7] = g
  OBVIOUS
<1> QED
  BY <1>1 DEF Pending, Steps

LEMMA ContactCourses ==
  ASSUME NEW s, todo[s] \in ContactCourse
  PROVE  /\ Leading(s)
         /\ todo[s] # <<>> => Now(s) # "done" /\ Tail(todo[s]) \in ContactCourse
<1>1. CASE todo[s] = <<>>
  BY <1>1 DEF Leading, Now, Adders, Barrers
<1>2. CASE todo[s] = <<"put ask", "ask row">>
  <2>1. /\ Head(todo[s]) = "put ask" /\ Tail(todo[s]) = <<"ask row">> /\ todo[s] # <<>>
        /\ Tail(todo[s]) # <<>> /\ Head(Tail(todo[s])) = "ask row"
    BY <1>2, Runs2, Zenon
  <2>2. Now(s) = "put ask" /\ Onward(s) = "ask row"
    BY <2>1, Zenon DEF Now, Onward
  <2>3. <<"ask row">> \in ContactCourse
    BY DEF ContactCourse
  <2>4. Pending(s, "ask row")
    BY <1>2, Among2, Zenon
  <2> QED
    BY <2>1, <2>2, <2>3, <2>4 DEF Leading, Adders, Barrers
<1>3. CASE todo[s] = <<"ask row">>
  <2>1. /\ Head(todo[s]) = "ask row" /\ Tail(todo[s]) = <<>> /\ todo[s] # <<>>
    BY <1>3, Runs1, Zenon
  <2>2. Now(s) = "ask row" /\ Onward(s) = "done"
    BY <2>1, Zenon DEF Now, Onward
  <2>3. <<>> \in ContactCourse
    BY DEF ContactCourse
  <2>4. Pending(s, "ask row")
    BY <1>3, Among1, Zenon
  <2> QED
    BY <2>1, <2>2, <2>3, <2>4 DEF Leading, Adders, Barrers
<1>4. CASE todo[s] = <<"drop own ask", "own ask row">>
  <2>1. /\ Head(todo[s]) = "drop own ask" /\ Tail(todo[s]) = <<"own ask row">> /\ todo[s] # <<>>
        /\ Tail(todo[s]) # <<>> /\ Head(Tail(todo[s])) = "own ask row"
    BY <1>4, Runs2, Zenon
  <2>2. Now(s) = "drop own ask" /\ Onward(s) = "own ask row"
    BY <2>1, Zenon DEF Now, Onward
  <2>3. <<"own ask row">> \in ContactCourse
    BY DEF ContactCourse
  <2> QED
    BY <2>1, <2>2, <2>3 DEF Leading, Adders, Barrers
<1>5. CASE todo[s] = <<"own ask row">>
  <2>1. /\ Head(todo[s]) = "own ask row" /\ Tail(todo[s]) = <<>> /\ todo[s] # <<>>
    BY <1>5, Runs1, Zenon
  <2>2. Now(s) = "own ask row" /\ Onward(s) = "done"
    BY <2>1, Zenon DEF Now, Onward
  <2>3. <<>> \in ContactCourse
    BY DEF ContactCourse
  <2> QED
    BY <2>1, <2>2, <2>3 DEF Leading, Adders, Barrers
<1>6. CASE todo[s] = <<"put bond", "put their bond", "drop ask", "bond rows", "unask">>
  <2>1. /\ Head(todo[s]) = "put bond" /\ todo[s] # <<>>
        /\ Tail(todo[s]) = <<"put their bond", "drop ask", "bond rows", "unask">>
        /\ Tail(todo[s]) # <<>> /\ Head(Tail(todo[s])) = "put their bond"
    <3> DEFINE a == "put bond"
               b == "put their bond"
               c == "drop ask"
               d == "bond rows"
               e == "unask"
    <3>1. todo[s] = <<a, b, c, d, e>>
      BY <1>6, Zenon
    <3> HIDE DEF a, b, c, d, e
    <3>2. /\ Head(todo[s]) = a /\ Tail(todo[s]) = <<b, c, d, e>> /\ todo[s] # <<>>
          /\ Tail(todo[s]) # <<>> /\ Head(Tail(todo[s])) = b
      BY <3>1, Runs5
    <3> QED
      BY <3>2, Zenon DEF a, b, c, d, e
  <2>2. Now(s) = "put bond" /\ Onward(s) = "put their bond"
    BY <2>1, Zenon DEF Now, Onward
  <2>3. <<"put their bond", "drop ask", "bond rows", "unask">> \in ContactCourse
    BY DEF ContactCourse
  <2>4. Pending(s, "bond rows")
    <3> DEFINE a == "put bond"
               b == "put their bond"
               c == "drop ask"
               d == "bond rows"
               e == "unask"
    <3>1. todo[s] = <<a, b, c, d, e>>
      BY <1>6, Zenon
    <3> HIDE DEF a, b, c, d, e
    <3>2. Pending(s, d)
      BY <3>1, Among5
    <3> QED
      BY <3>2, Zenon DEF a, b, c, d, e
  <2> QED
    BY <2>1, <2>2, <2>3, <2>4 DEF Leading, Adders, Barrers
<1>7. CASE todo[s] = <<"put their bond", "drop ask", "bond rows", "unask">>
  <2>1. /\ Head(todo[s]) = "put their bond" /\ todo[s] # <<>>
        /\ Tail(todo[s]) = <<"drop ask", "bond rows", "unask">>
        /\ Tail(todo[s]) # <<>> /\ Head(Tail(todo[s])) = "drop ask"
    <3> DEFINE a == "put their bond"
               b == "drop ask"
               c == "bond rows"
               d == "unask"
    <3>1. todo[s] = <<a, b, c, d>>
      BY <1>7, Zenon
    <3> HIDE DEF a, b, c, d
    <3>2. /\ Head(todo[s]) = a /\ Tail(todo[s]) = <<b, c, d>> /\ todo[s] # <<>>
          /\ Tail(todo[s]) # <<>> /\ Head(Tail(todo[s])) = b
      BY <3>1, Runs4
    <3> QED
      BY <3>2, Zenon DEF a, b, c, d
  <2>2. Now(s) = "put their bond" /\ Onward(s) = "drop ask"
    BY <2>1, Zenon DEF Now, Onward
  <2>3. <<"drop ask", "bond rows", "unask">> \in ContactCourse
    BY DEF ContactCourse
  <2>4. Pending(s, "bond rows")
    <3> DEFINE a == "put their bond"
               b == "drop ask"
               c == "bond rows"
               d == "unask"
    <3>1. todo[s] = <<a, b, c, d>>
      BY <1>7, Zenon
    <3> HIDE DEF a, b, c, d
    <3>2. Pending(s, c)
      BY <3>1, Among4
    <3> QED
      BY <3>2, Zenon DEF a, b, c, d
  <2> QED
    BY <2>1, <2>2, <2>3, <2>4 DEF Leading, Adders, Barrers
<1>8. CASE todo[s] = <<"drop ask", "bond rows", "unask">>
  <2>1. /\ Head(todo[s]) = "drop ask" /\ Tail(todo[s]) = <<"bond rows", "unask">> /\ todo[s] # <<>>
        /\ Tail(todo[s]) # <<>> /\ Head(Tail(todo[s])) = "bond rows"
    <3> DEFINE a == "drop ask"
               b == "bond rows"
               c == "unask"
    <3>1. todo[s] = <<a, b, c>>
      BY <1>8, Zenon
    <3> HIDE DEF a, b, c
    <3>2. /\ Head(todo[s]) = a /\ Tail(todo[s]) = <<b, c>> /\ todo[s] # <<>>
          /\ Tail(todo[s]) # <<>> /\ Head(Tail(todo[s])) = b
      BY <3>1, Runs3
    <3> QED
      BY <3>2, Zenon DEF a, b, c
  <2>2. Now(s) = "drop ask" /\ Onward(s) = "bond rows"
    BY <2>1, Zenon DEF Now, Onward
  <2>3. <<"bond rows", "unask">> \in ContactCourse
    BY DEF ContactCourse
  <2>4. Pending(s, "bond rows")
    <3> DEFINE a == "drop ask"
               b == "bond rows"
               c == "unask"
    <3>1. todo[s] = <<a, b, c>>
      BY <1>8, Zenon
    <3> HIDE DEF a, b, c
    <3>2. Pending(s, b)
      BY <3>1, Among3
    <3> QED
      BY <3>2, Zenon DEF a, b, c
  <2> QED
    BY <2>1, <2>2, <2>3, <2>4 DEF Leading, Adders, Barrers
<1>9. CASE todo[s] = <<"bond rows", "unask">>
  <2>1. /\ Head(todo[s]) = "bond rows" /\ Tail(todo[s]) = <<"unask">> /\ todo[s] # <<>>
        /\ Tail(todo[s]) # <<>> /\ Head(Tail(todo[s])) = "unask"
    BY <1>9, Runs2, Zenon
  <2>2. Now(s) = "bond rows" /\ Onward(s) = "unask"
    BY <2>1, Zenon DEF Now, Onward
  <2>3. <<"unask">> \in ContactCourse
    BY DEF ContactCourse
  <2>4. Pending(s, "bond rows")
    BY <1>9, Among2, Zenon
  <2> QED
    BY <2>1, <2>2, <2>3, <2>4 DEF Leading, Adders, Barrers
<1>10. CASE todo[s] = <<"reject ask", "unask">>
  <2>1. /\ Head(todo[s]) = "reject ask" /\ Tail(todo[s]) = <<"unask">> /\ todo[s] # <<>>
        /\ Tail(todo[s]) # <<>> /\ Head(Tail(todo[s])) = "unask"
    BY <1>10, Runs2, Zenon
  <2>2. Now(s) = "reject ask" /\ Onward(s) = "unask"
    BY <2>1, Zenon DEF Now, Onward
  <2>3. <<"unask">> \in ContactCourse
    BY DEF ContactCourse
  <2> QED
    BY <2>1, <2>2, <2>3 DEF Leading, Adders, Barrers
<1>11. CASE todo[s] = <<"unask">>
  <2>1. /\ Head(todo[s]) = "unask" /\ Tail(todo[s]) = <<>> /\ todo[s] # <<>>
    BY <1>11, Runs1, Zenon
  <2>2. Now(s) = "unask" /\ Onward(s) = "done"
    BY <2>1, Zenon DEF Now, Onward
  <2>3. <<>> \in ContactCourse
    BY DEF ContactCourse
  <2> QED
    BY <2>1, <2>2, <2>3 DEF Leading, Adders, Barrers
<1>12. CASE todo[s] = <<"their bond", "drop bond", "drop their bond", "unbond theirs", "unbond">>
  <2>1. /\ Head(todo[s]) = "their bond" /\ todo[s] # <<>>
        /\ Tail(todo[s]) = <<"drop bond", "drop their bond", "unbond theirs", "unbond">>
        /\ Tail(todo[s]) # <<>> /\ Head(Tail(todo[s])) = "drop bond"
    <3> DEFINE a == "their bond"
               b == "drop bond"
               c == "drop their bond"
               d == "unbond theirs"
               e == "unbond"
    <3>1. todo[s] = <<a, b, c, d, e>>
      BY <1>12, Zenon
    <3> HIDE DEF a, b, c, d, e
    <3>2. /\ Head(todo[s]) = a /\ Tail(todo[s]) = <<b, c, d, e>> /\ todo[s] # <<>>
          /\ Tail(todo[s]) # <<>> /\ Head(Tail(todo[s])) = b
      BY <3>1, Runs5
    <3> QED
      BY <3>2, Zenon DEF a, b, c, d, e
  <2>2. Now(s) = "their bond" /\ Onward(s) = "drop bond"
    BY <2>1, Zenon DEF Now, Onward
  <2>3. <<"drop bond", "drop their bond", "unbond theirs", "unbond">> \in ContactCourse
    BY DEF ContactCourse
  <2>4. Tail(todo[s]) # Brief
    BY <2>1, LongerRuns, Zenon DEF Brief
  <2> QED
    BY <2>1, <2>2, <2>3, <2>4 DEF Leading, Adders, Barrers
<1>13. CASE todo[s] = <<"drop bond", "drop their bond", "unbond theirs", "unbond">>
  <2>1. /\ Head(todo[s]) = "drop bond" /\ todo[s] # <<>>
        /\ Tail(todo[s]) = <<"drop their bond", "unbond theirs", "unbond">>
        /\ Tail(todo[s]) # <<>> /\ Head(Tail(todo[s])) = "drop their bond"
    <3> DEFINE a == "drop bond"
               b == "drop their bond"
               c == "unbond theirs"
               d == "unbond"
    <3>1. todo[s] = <<a, b, c, d>>
      BY <1>13, Zenon
    <3> HIDE DEF a, b, c, d
    <3>2. /\ Head(todo[s]) = a /\ Tail(todo[s]) = <<b, c, d>> /\ todo[s] # <<>>
          /\ Tail(todo[s]) # <<>> /\ Head(Tail(todo[s])) = b
      BY <3>1, Runs4
    <3> QED
      BY <3>2, Zenon DEF a, b, c, d
  <2>2. Now(s) = "drop bond" /\ Onward(s) = "drop their bond"
    BY <2>1, Zenon DEF Now, Onward
  <2>3. <<"drop their bond", "unbond theirs", "unbond">> \in ContactCourse
    BY DEF ContactCourse
  <2>4. todo[s] # Brief
    BY <1>13, LongerRuns, Zenon DEF Brief
  <2> QED
    BY <2>1, <2>2, <2>3, <2>4 DEF Leading, Adders, Barrers
<1>14. CASE todo[s] = <<"drop their bond", "unbond theirs", "unbond">>
  <2>1. /\ Head(todo[s]) = "drop their bond" /\ todo[s] # <<>>
        /\ Tail(todo[s]) = <<"unbond theirs", "unbond">>
        /\ Tail(todo[s]) # <<>> /\ Head(Tail(todo[s])) = "unbond theirs"
    <3> DEFINE a == "drop their bond"
               b == "unbond theirs"
               c == "unbond"
    <3>1. todo[s] = <<a, b, c>>
      BY <1>14, Zenon
    <3> HIDE DEF a, b, c
    <3>2. /\ Head(todo[s]) = a /\ Tail(todo[s]) = <<b, c>> /\ todo[s] # <<>>
          /\ Tail(todo[s]) # <<>> /\ Head(Tail(todo[s])) = b
      BY <3>1, Runs3
    <3> QED
      BY <3>2, Zenon DEF a, b, c
  <2>2. Now(s) = "drop their bond" /\ Onward(s) = "unbond theirs"
    BY <2>1, Zenon DEF Now, Onward
  <2>3. <<"unbond theirs", "unbond">> \in ContactCourse
    BY DEF ContactCourse
  <2> QED
    BY <2>1, <2>2, <2>3 DEF Leading, Adders, Barrers
<1>15. CASE todo[s] = <<"unbond theirs", "unbond">>
  <2>1. /\ Head(todo[s]) = "unbond theirs" /\ Tail(todo[s]) = <<"unbond">> /\ todo[s] # <<>>
        /\ Tail(todo[s]) # <<>> /\ Head(Tail(todo[s])) = "unbond"
    BY <1>15, Runs2, Zenon
  <2>2. Now(s) = "unbond theirs" /\ Onward(s) = "unbond"
    BY <2>1, Zenon DEF Now, Onward
  <2>3. <<"unbond">> \in ContactCourse
    BY DEF ContactCourse
  <2> QED
    BY <2>1, <2>2, <2>3 DEF Leading, Adders, Barrers
<1>16. CASE todo[s] = <<"drop bond", "unbond">>
  <2>1. /\ Head(todo[s]) = "drop bond" /\ Tail(todo[s]) = <<"unbond">> /\ todo[s] # <<>>
        /\ Tail(todo[s]) # <<>> /\ Head(Tail(todo[s])) = "unbond"
    BY <1>16, Runs2, Zenon
  <2>2. Now(s) = "drop bond" /\ Onward(s) = "unbond"
    BY <2>1, Zenon DEF Now, Onward
  <2>3. <<"unbond">> \in ContactCourse
    BY DEF ContactCourse
  <2>4. todo[s] = Brief
    BY <1>16 DEF Brief
  <2> QED
    BY <2>1, <2>2, <2>3, <2>4 DEF Leading, Adders, Barrers
<1>17. CASE todo[s] = <<"unbond">>
  <2>1. /\ Head(todo[s]) = "unbond" /\ Tail(todo[s]) = <<>> /\ todo[s] # <<>>
    BY <1>17, Runs1, Zenon
  <2>2. Now(s) = "unbond" /\ Onward(s) = "done"
    BY <2>1, Zenon DEF Now, Onward
  <2>3. <<>> \in ContactCourse
    BY DEF ContactCourse
  <2> QED
    BY <2>1, <2>2, <2>3 DEF Leading, Adders, Barrers
<1>18. CASE todo[s] = <<"drop bonds", "unbond both", "read asks", "drop asks", "unask both", "put bar", "bar row">>
  <2>1. /\ Head(todo[s]) = "drop bonds" /\ todo[s] # <<>>
        /\ Tail(todo[s]) = <<"unbond both", "read asks", "drop asks", "unask both", "put bar", "bar row">>
        /\ Tail(todo[s]) # <<>> /\ Head(Tail(todo[s])) = "unbond both"
    <3> DEFINE a == "drop bonds"
               b == "unbond both"
               c == "read asks"
               d == "drop asks"
               e == "unask both"
               f == "put bar"
               g == "bar row"
    <3>1. todo[s] = <<a, b, c, d, e, f, g>>
      BY <1>18, Zenon
    <3> HIDE DEF a, b, c, d, e, f, g
    <3>2. /\ Head(todo[s]) = a /\ Tail(todo[s]) = <<b, c, d, e, f, g>> /\ todo[s] # <<>>
          /\ Tail(todo[s]) # <<>> /\ Head(Tail(todo[s])) = b
      BY <3>1, Runs7
    <3> QED
      BY <3>2, Zenon DEF a, b, c, d, e, f, g
  <2>2. Now(s) = "drop bonds" /\ Onward(s) = "unbond both"
    BY <2>1, Zenon DEF Now, Onward
  <2>3. <<"unbond both", "read asks", "drop asks", "unask both", "put bar", "bar row">> \in ContactCourse
    BY DEF ContactCourse
  <2>4. Pending(s, "bar row")
    <3> DEFINE a == "drop bonds"
               b == "unbond both"
               c == "read asks"
               d == "drop asks"
               e == "unask both"
               f == "put bar"
               g == "bar row"
    <3>1. todo[s] = <<a, b, c, d, e, f, g>>
      BY <1>18, Zenon
    <3> HIDE DEF a, b, c, d, e, f, g
    <3>2. Pending(s, g)
      BY <3>1, Among7
    <3> QED
      BY <3>2, Zenon DEF a, b, c, d, e, f, g
  <2> QED
    BY <2>1, <2>2, <2>3, <2>4 DEF Leading, Adders, Barrers
<1>19. CASE todo[s] = <<"unbond both", "read asks", "drop asks", "unask both", "put bar", "bar row">>
  <2>1. /\ Head(todo[s]) = "unbond both" /\ todo[s] # <<>>
        /\ Tail(todo[s]) = <<"read asks", "drop asks", "unask both", "put bar", "bar row">>
        /\ Tail(todo[s]) # <<>> /\ Head(Tail(todo[s])) = "read asks"
    <3> DEFINE a == "unbond both"
               b == "read asks"
               c == "drop asks"
               d == "unask both"
               e == "put bar"
               f == "bar row"
    <3>1. todo[s] = <<a, b, c, d, e, f>>
      BY <1>19, Zenon
    <3> HIDE DEF a, b, c, d, e, f
    <3>2. /\ Head(todo[s]) = a /\ Tail(todo[s]) = <<b, c, d, e, f>> /\ todo[s] # <<>>
          /\ Tail(todo[s]) # <<>> /\ Head(Tail(todo[s])) = b
      BY <3>1, Runs6
    <3> QED
      BY <3>2, Zenon DEF a, b, c, d, e, f
  <2>2. Now(s) = "unbond both" /\ Onward(s) = "read asks"
    BY <2>1, Zenon DEF Now, Onward
  <2>3. <<"read asks", "drop asks", "unask both", "put bar", "bar row">> \in ContactCourse
    BY DEF ContactCourse
  <2>4. Pending(s, "bar row")
    <3> DEFINE a == "unbond both"
               b == "read asks"
               c == "drop asks"
               d == "unask both"
               e == "put bar"
               f == "bar row"
    <3>1. todo[s] = <<a, b, c, d, e, f>>
      BY <1>19, Zenon
    <3> HIDE DEF a, b, c, d, e, f
    <3>2. Pending(s, f)
      BY <3>1, Among6
    <3> QED
      BY <3>2, Zenon DEF a, b, c, d, e, f
  <2> QED
    BY <2>1, <2>2, <2>3, <2>4 DEF Leading, Adders, Barrers
<1>20. CASE todo[s] = <<"read asks", "drop asks", "unask both", "put bar", "bar row">>
  <2>1. /\ Head(todo[s]) = "read asks" /\ todo[s] # <<>>
        /\ Tail(todo[s]) = <<"drop asks", "unask both", "put bar", "bar row">>
        /\ Tail(todo[s]) # <<>> /\ Head(Tail(todo[s])) = "drop asks"
    <3> DEFINE a == "read asks"
               b == "drop asks"
               c == "unask both"
               d == "put bar"
               e == "bar row"
    <3>1. todo[s] = <<a, b, c, d, e>>
      BY <1>20, Zenon
    <3> HIDE DEF a, b, c, d, e
    <3>2. /\ Head(todo[s]) = a /\ Tail(todo[s]) = <<b, c, d, e>> /\ todo[s] # <<>>
          /\ Tail(todo[s]) # <<>> /\ Head(Tail(todo[s])) = b
      BY <3>1, Runs5
    <3> QED
      BY <3>2, Zenon DEF a, b, c, d, e
  <2>2. Now(s) = "read asks" /\ Onward(s) = "drop asks"
    BY <2>1, Zenon DEF Now, Onward
  <2>3. <<"drop asks", "unask both", "put bar", "bar row">> \in ContactCourse
    BY DEF ContactCourse
  <2>4. Pending(s, "bar row")
    <3> DEFINE a == "read asks"
               b == "drop asks"
               c == "unask both"
               d == "put bar"
               e == "bar row"
    <3>1. todo[s] = <<a, b, c, d, e>>
      BY <1>20, Zenon
    <3> HIDE DEF a, b, c, d, e
    <3>2. Pending(s, e)
      BY <3>1, Among5
    <3> QED
      BY <3>2, Zenon DEF a, b, c, d, e
  <2> QED
    BY <2>1, <2>2, <2>3, <2>4 DEF Leading, Adders, Barrers
<1>21. CASE todo[s] = <<"drop asks", "unask both", "put bar", "bar row">>
  <2>1. /\ Head(todo[s]) = "drop asks" /\ todo[s] # <<>>
        /\ Tail(todo[s]) = <<"unask both", "put bar", "bar row">>
        /\ Tail(todo[s]) # <<>> /\ Head(Tail(todo[s])) = "unask both"
    <3> DEFINE a == "drop asks"
               b == "unask both"
               c == "put bar"
               d == "bar row"
    <3>1. todo[s] = <<a, b, c, d>>
      BY <1>21, Zenon
    <3> HIDE DEF a, b, c, d
    <3>2. /\ Head(todo[s]) = a /\ Tail(todo[s]) = <<b, c, d>> /\ todo[s] # <<>>
          /\ Tail(todo[s]) # <<>> /\ Head(Tail(todo[s])) = b
      BY <3>1, Runs4
    <3> QED
      BY <3>2, Zenon DEF a, b, c, d
  <2>2. Now(s) = "drop asks" /\ Onward(s) = "unask both"
    BY <2>1, Zenon DEF Now, Onward
  <2>3. <<"unask both", "put bar", "bar row">> \in ContactCourse
    BY DEF ContactCourse
  <2>4. Pending(s, "bar row")
    <3> DEFINE a == "drop asks"
               b == "unask both"
               c == "put bar"
               d == "bar row"
    <3>1. todo[s] = <<a, b, c, d>>
      BY <1>21, Zenon
    <3> HIDE DEF a, b, c, d
    <3>2. Pending(s, d)
      BY <3>1, Among4
    <3> QED
      BY <3>2, Zenon DEF a, b, c, d
  <2> QED
    BY <2>1, <2>2, <2>3, <2>4 DEF Leading, Adders, Barrers
<1>22. CASE todo[s] = <<"unask both", "put bar", "bar row">>
  <2>1. /\ Head(todo[s]) = "unask both" /\ Tail(todo[s]) = <<"put bar", "bar row">> /\ todo[s] # <<>>
        /\ Tail(todo[s]) # <<>> /\ Head(Tail(todo[s])) = "put bar"
    <3> DEFINE a == "unask both"
               b == "put bar"
               c == "bar row"
    <3>1. todo[s] = <<a, b, c>>
      BY <1>22, Zenon
    <3> HIDE DEF a, b, c
    <3>2. /\ Head(todo[s]) = a /\ Tail(todo[s]) = <<b, c>> /\ todo[s] # <<>>
          /\ Tail(todo[s]) # <<>> /\ Head(Tail(todo[s])) = b
      BY <3>1, Runs3
    <3> QED
      BY <3>2, Zenon DEF a, b, c
  <2>2. Now(s) = "unask both" /\ Onward(s) = "put bar"
    BY <2>1, Zenon DEF Now, Onward
  <2>3. <<"put bar", "bar row">> \in ContactCourse
    BY DEF ContactCourse
  <2>4. Pending(s, "bar row")
    <3> DEFINE a == "unask both"
               b == "put bar"
               c == "bar row"
    <3>1. todo[s] = <<a, b, c>>
      BY <1>22, Zenon
    <3> HIDE DEF a, b, c
    <3>2. Pending(s, c)
      BY <3>1, Among3
    <3> QED
      BY <3>2, Zenon DEF a, b, c
  <2> QED
    BY <2>1, <2>2, <2>3, <2>4 DEF Leading, Adders, Barrers
<1>23. CASE todo[s] = <<"put bar", "bar row">>
  <2>1. /\ Head(todo[s]) = "put bar" /\ Tail(todo[s]) = <<"bar row">> /\ todo[s] # <<>>
        /\ Tail(todo[s]) # <<>> /\ Head(Tail(todo[s])) = "bar row"
    BY <1>23, Runs2, Zenon
  <2>2. Now(s) = "put bar" /\ Onward(s) = "bar row"
    BY <2>1, Zenon DEF Now, Onward
  <2>3. <<"bar row">> \in ContactCourse
    BY DEF ContactCourse
  <2>4. Pending(s, "bar row")
    BY <1>23, Among2, Zenon
  <2> QED
    BY <2>1, <2>2, <2>3, <2>4 DEF Leading, Adders, Barrers
<1>24. CASE todo[s] = <<"bar row">>
  <2>1. /\ Head(todo[s]) = "bar row" /\ Tail(todo[s]) = <<>> /\ todo[s] # <<>>
    BY <1>24, Runs1, Zenon
  <2>2. Now(s) = "bar row" /\ Onward(s) = "done"
    BY <2>1, Zenon DEF Now, Onward
  <2>3. <<>> \in ContactCourse
    BY DEF ContactCourse
  <2>4. Pending(s, "bar row")
    BY <1>24, Among1, Zenon
  <2> QED
    BY <2>1, <2>2, <2>3, <2>4 DEF Leading, Adders, Barrers
<1>25. CASE todo[s] = <<"drop bar", "unbar">>
  <2>1. /\ Head(todo[s]) = "drop bar" /\ Tail(todo[s]) = <<"unbar">> /\ todo[s] # <<>>
        /\ Tail(todo[s]) # <<>> /\ Head(Tail(todo[s])) = "unbar"
    BY <1>25, Runs2, Zenon
  <2>2. Now(s) = "drop bar" /\ Onward(s) = "unbar"
    BY <2>1, Zenon DEF Now, Onward
  <2>3. <<"unbar">> \in ContactCourse
    BY DEF ContactCourse
  <2> QED
    BY <2>1, <2>2, <2>3 DEF Leading, Adders, Barrers
<1>26. CASE todo[s] = <<"unbar">>
  <2>1. /\ Head(todo[s]) = "unbar" /\ Tail(todo[s]) = <<>> /\ todo[s] # <<>>
    BY <1>26, Runs1, Zenon
  <2>2. Now(s) = "unbar" /\ Onward(s) = "done"
    BY <2>1, Zenon DEF Now, Onward
  <2>3. <<>> \in ContactCourse
    BY DEF ContactCourse
  <2> QED
    BY <2>1, <2>2, <2>3 DEF Leading, Adders, Barrers
<1> QED
  BY <1>1, <1>2, <1>3, <1>4, <1>5, <1>6, <1>7, <1>8, <1>9, <1>10, <1>11, <1>12, <1>13, <1>14, <1>15,
     <1>16, <1>17, <1>18, <1>19, <1>20, <1>21, <1>22, <1>23, <1>24, <1>25, <1>26 DEF ContactCourse

-----------------------------------------------------------------------------
(* The shape of requests and tables, and where each statement leads.       *)

Lettered(s) ==
  todo[s] \in ContactCourse /\ (todo[s] # <<>> => mem[s] \in LetterRecord)

ContactsShape ==
  /\ DOMAIN todo = Slot /\ DOMAIN mem = Slot
  /\ ContactsTypeOK /\ \A s \in Slot : Lettered(s)

\* The others stand where they stood.
Waits(s) ==
  \A t \in Slot \ {s} :
    /\ todo'[t] = todo[t] /\ mem'[t] = mem[t]
    /\ Now(t)' = Now(t) /\ Me(t)' = Me(t) /\ You(t)' = You(t)

\* Whose a request is, and who the other is.
Paired(s) ==
  /\ Me(s) \in Party /\ You(s) \in Party /\ Me(s) # You(s)
  /\ Other(Me(s)) = You(s) /\ Other(You(s)) = Me(s)
  /\ \A p \in Party : p = Me(s) \/ p = You(s)
  /\ mem[s].key \in 0 .. drawn /\ mem[s].mine \in 0 .. drawn /\ mem[s].theirs \in 0 .. drawn

\* From one statement on to another, remembering m.
Moves(s, x, y, m) ==
  /\ Waits(s) /\ Now(s) = x /\ Now(s)' = y
  /\ y # "done" => /\ mem'[s] = m /\ Me(s)' = m.me /\ You(s)' = Other(m.me)

\* A record or a row, by kind, person and key.
Entry == {"ask", "bond", "bar"} \X Party \X (0 .. drawn)

LEMMA Further ==
  \A n \in Nat :
    /\ n + 1 \in Nat /\ n + 1 # 0 /\ n + 1 \in 0 .. n + 1 /\ n + 1 \in 1 .. n + 1
    /\ 1 .. n \subseteq 1 .. n + 1 /\ 0 .. n \subseteq 0 .. n + 1
    /\ n + 1 \notin 0 .. n
OBVIOUS

LEMMA TablesTyped ==
  ASSUME ContactsTypeOK
  PROVE  /\ drawn \in Nat /\ asksVoid \subseteq 1 .. drawn
         /\ askRecords \in [Party -> SUBSET (1 .. drawn)] /\ askRows \in [Party -> 0 .. drawn]
         /\ bondRecords \in [Party -> SUBSET (1 .. drawn)] /\ bondRows \in [Party -> 0 .. drawn]
         /\ barRecords \in [Party -> SUBSET (1 .. drawn)] /\ barRows \in [Party -> 0 .. drawn]
         /\ asksMade \in [Party -> SUBSET (1 .. drawn)] /\ asksGranted \in [Party -> SUBSET (1 .. drawn)]
         /\ parted \in [Party -> SUBSET (1 .. drawn)] /\ grounds \in [Party -> 0 .. drawn]
         /\ loose \subseteq Entry
         /\ halved \in BOOLEAN /\ asksCrossed \in BOOLEAN /\ overtaken \in BOOLEAN
BY DEF ContactsTypeOK, Entry

\* A table that is left alone, or given keys drawn by now, has its type.
LEMMA TablesStayTyped ==
  ASSUME ContactsTypeOK, drawn' = drawn \/ drawn' = drawn + 1,
         askRecords' = askRecords \/ askRecords' \in [Party -> SUBSET (1 .. drawn')],
         bondRecords' = bondRecords \/ bondRecords' \in [Party -> SUBSET (1 .. drawn')],
         barRecords' = barRecords \/ barRecords' \in [Party -> SUBSET (1 .. drawn')],
         askRows' = askRows \/ askRows' \in [Party -> 0 .. drawn'],
         bondRows' = bondRows \/ bondRows' \in [Party -> 0 .. drawn'],
         barRows' = barRows \/ barRows' \in [Party -> 0 .. drawn'],
         asksMade' = asksMade \/ asksMade' \in [Party -> SUBSET (1 .. drawn')],
         asksGranted' = asksGranted \/ asksGranted' \in [Party -> SUBSET (1 .. drawn')],
         parted' = parted \/ parted' \in [Party -> SUBSET (1 .. drawn')],
         grounds' = grounds \/ grounds' \in [Party -> 0 .. drawn'],
         asksVoid' = asksVoid \/ asksVoid' \subseteq 1 .. drawn',
         loose' = loose \/ (loose' \subseteq Entry /\ drawn' = drawn),
         halved' \in BOOLEAN, asksCrossed' \in BOOLEAN, overtaken' \in BOOLEAN
  PROVE  ContactsTypeOK'
<1>1. drawn \in Nat /\ drawn' \in Nat /\ 1 .. drawn \subseteq 1 .. drawn' /\ 0 .. drawn \subseteq 0 .. drawn'
  BY TablesTyped, Further
<1>2. /\ askRecords' \in [Party -> SUBSET (1 .. drawn')] /\ bondRecords' \in [Party -> SUBSET (1 .. drawn')]
      /\ barRecords' \in [Party -> SUBSET (1 .. drawn')] /\ asksMade' \in [Party -> SUBSET (1 .. drawn')]
      /\ asksGranted' \in [Party -> SUBSET (1 .. drawn')] /\ parted' \in [Party -> SUBSET (1 .. drawn')]
  <2>1. \A f \in [Party -> SUBSET (1 .. drawn)] : f \in [Party -> SUBSET (1 .. drawn')]
    BY <1>1
  <2> QED
    BY <2>1, TablesTyped
<1>3. /\ askRows' \in [Party -> 0 .. drawn'] /\ bondRows' \in [Party -> 0 .. drawn']
      /\ barRows' \in [Party -> 0 .. drawn'] /\ grounds' \in [Party -> 0 .. drawn']
  <2>1. \A f \in [Party -> 0 .. drawn] : f \in [Party -> 0 .. drawn']
    BY <1>1
  <2> QED
    BY <2>1, TablesTyped
<1>4. asksVoid' \subseteq 1 .. drawn' /\ loose' \subseteq {"ask", "bond", "bar"} \X Party \X (0 .. drawn')
  BY <1>1, TablesTyped DEF Entry
<1> QED
  BY <1>1, <1>2, <1>3, <1>4 DEF ContactsTypeOK

\* Letters stay letters while keys are drawn, and carry what was drawn.
LEMMA LettersLast ==
  ASSUME drawn \in Nat, drawn' = drawn \/ drawn' = drawn + 1
  PROVE  LetterRecord \subseteq LetterRecord'
<1>1. 0 .. drawn \subseteq 0 .. drawn'
  BY Further
<1> QED
  BY <1>1 DEF LetterRecord

LEMMA LetterNotes ==
  ASSUME NEW l \in LetterRecord, drawn \in Nat, drawn' = drawn \/ drawn' = drawn + 1,
         NEW k \in 0 .. drawn'
  PROVE  /\ [l EXCEPT !.key = k] \in LetterRecord' /\ [l EXCEPT !.key = k].key = k
         /\ [l EXCEPT !.key = k].me = l.me
         /\ [l EXCEPT !.mine = k] \in LetterRecord' /\ [l EXCEPT !.mine = k].mine = k
         /\ [l EXCEPT !.mine = k].me = l.me /\ [l EXCEPT !.mine = k].key = l.key
         /\ [l EXCEPT !.mine = k].theirs = l.theirs
         /\ [l EXCEPT !.theirs = k] \in LetterRecord' /\ [l EXCEPT !.theirs = k].theirs = k
         /\ [l EXCEPT !.theirs = k].me = l.me /\ [l EXCEPT !.theirs = k].key = l.key
         /\ [l EXCEPT !.theirs = k].mine = l.mine
<1>1. l \in LetterRecord'
  BY LettersLast
<1> QED
  BY <1>1 DEF LetterRecord

LEMMA PairOf ==
  ASSUME ContactsShape, NEW s \in Slot, todo[s] # <<>>
  PROVE  mem[s] \in LetterRecord /\ Paired(s)
<1>1. mem[s] \in LetterRecord
  BY DEF ContactsShape, Lettered
<1>2. /\ Me(s) \in Party /\ mem[s].key \in 0 .. drawn
      /\ mem[s].mine \in 0 .. drawn /\ mem[s].theirs \in 0 .. drawn
  BY <1>1 DEF LetterRecord, Me
<1> QED
  BY <1>1, <1>2, TwoParties DEF You, Me, Paired

\* What a request is halfway through, by the statement it stands at.
AskOwed(now, me, you, m, p, key) ==
  \/ now \in {"ask row", "own ask row"} /\ p = me /\ key = m.key
  \/ now \in {"bond rows", "unask"} /\ p = you /\ key = m.key
  \/ now = "unask both" /\ ((p = me /\ key = m.mine) \/ (p = you /\ key = m.theirs))

BondOwed(now, me, you, m, p, key) ==
  \/ /\ now \in {"put their bond", "drop ask", "bond rows", "unbond both"}
     /\ (p = me /\ key = m.mine) \/ (p = you /\ key = m.theirs)
  \/ now \in {"drop their bond", "unbond theirs", "unbond"} /\ p = me /\ key = m.key
  \/ now = "unbond theirs" /\ p = you /\ key = m.theirs

BarOwed(now, me, m, p, key) == now \in {"bar row", "unbar"} /\ p = me /\ key = m.key

Owing(s) ==
  \A p, key :
    /\ <<"ask", p, key>> \in HalfDone(s) <=> AskOwed(Now(s), Me(s), You(s), mem[s], p, key)
    /\ <<"bond", p, key>> \in HalfDone(s) <=> BondOwed(Now(s), Me(s), You(s), mem[s], p, key)
    /\ <<"bar", p, key>> \in HalfDone(s) <=> BarOwed(Now(s), Me(s), mem[s], p, key)

\* By what is in the set, whoever's it is.
HalfIs(half, now, me, you, m) ==
  /\ now \in {"ask row", "own ask row"} => half = {<<"ask", me, m.key>>}
  /\ now \in {"put their bond", "drop ask", "unbond both"} =>
       half = {<<"bond", me, m.mine>>, <<"bond", you, m.theirs>>}
  /\ now \in {"bond rows"} =>
       half = {<<"bond", me, m.mine>>, <<"bond", you, m.theirs>>, <<"ask", you, m.key>>}
  /\ now \in {"unask"} => half = {<<"ask", you, m.key>>}
  /\ now \in {"drop their bond", "unbond"} => half = {<<"bond", me, m.key>>}
  /\ now \in {"unbond theirs"} => half = {<<"bond", me, m.key>>, <<"bond", you, m.theirs>>}
  /\ now \in {"unask both"} => half = {<<"ask", me, m.mine>>, <<"ask", you, m.theirs>>}
  /\ now \in {"bar row", "unbar"} => half = {<<"bar", me, m.key>>}
  /\ half = {} \/ now \in {"ask row", "own ask row", "put their bond", "drop ask", "unbond both", "bond rows", "unask",
                            "drop their bond", "unbond", "unbond theirs", "unask both", "bar row", "unbar"}

LEMMA HalvesAre ==
  \A s : /\ HalfIs(HalfDone(s), Now(s), Me(s), You(s), mem[s])
         /\ HalfIs(HalfDone(s), Now(s), Me(s), You(s), mem[s])'
<1>1. ASSUME NEW s PROVE HalfIs(HalfDone(s), Now(s), Me(s), You(s), mem[s])
  BY DEF HalfIs, HalfDone, Now, At
<1>2. ASSUME NEW s PROVE HalfIs(HalfDone(s), Now(s), Me(s), You(s), mem[s])'
  BY DEF HalfIs, HalfDone, Now, At
<1> QED
  BY <1>1, <1>2

LEMMA OwedIs ==
  ASSUME NEW half, NEW now, NEW me, NEW you, NEW m, HalfIs(half, now, me, you, m), NEW p, NEW key
  PROVE  /\ <<"ask", p, key>> \in half <=> AskOwed(now, me, you, m, p, key)
         /\ <<"bond", p, key>> \in half <=> BondOwed(now, me, you, m, p, key)
         /\ <<"bar", p, key>> \in half <=> BarOwed(now, me, m, p, key)
<1>1. CASE now \in {"ask row", "own ask row"}
  <2>1. half = {<<"ask", me, m.key>>}
    BY <1>1 DEF HalfIs
  <2> QED
    BY <1>1, <2>1 DEF AskOwed, BondOwed, BarOwed
<1>2. CASE now \in {"put their bond", "drop ask", "unbond both"}
  <2>1. half = {<<"bond", me, m.mine>>, <<"bond", you, m.theirs>>}
    BY <1>2 DEF HalfIs
  <2> QED
    BY <1>2, <2>1 DEF AskOwed, BondOwed, BarOwed
<1>3. CASE now \in {"bond rows"}
  <2>1. half = {<<"bond", me, m.mine>>, <<"bond", you, m.theirs>>, <<"ask", you, m.key>>}
    BY <1>3 DEF HalfIs
  <2> QED
    BY <1>3, <2>1 DEF AskOwed, BondOwed, BarOwed
<1>4. CASE now \in {"unask"}
  <2>1. half = {<<"ask", you, m.key>>}
    BY <1>4 DEF HalfIs
  <2> QED
    BY <1>4, <2>1 DEF AskOwed, BondOwed, BarOwed
<1>5. CASE now \in {"drop their bond", "unbond"}
  <2>1. half = {<<"bond", me, m.key>>}
    BY <1>5 DEF HalfIs
  <2> QED
    BY <1>5, <2>1 DEF AskOwed, BondOwed, BarOwed
<1>6. CASE now \in {"unbond theirs"}
  <2>1. half = {<<"bond", me, m.key>>, <<"bond", you, m.theirs>>}
    BY <1>6 DEF HalfIs
  <2> QED
    BY <1>6, <2>1 DEF AskOwed, BondOwed, BarOwed
<1>7. CASE now \in {"unask both"}
  <2>1. half = {<<"ask", me, m.mine>>, <<"ask", you, m.theirs>>}
    BY <1>7 DEF HalfIs
  <2> QED
    BY <1>7, <2>1 DEF AskOwed, BondOwed, BarOwed
<1>8. CASE now \in {"bar row", "unbar"}
  <2>1. half = {<<"bar", me, m.key>>}
    BY <1>8 DEF HalfIs
  <2> QED
    BY <1>8, <2>1 DEF AskOwed, BondOwed, BarOwed
<1>9. CASE half = {}
  <2>1. now \notin {"ask row", "own ask row", "put their bond", "drop ask", "unbond both", "bond rows",
                    "unask", "drop their bond", "unbond", "unbond theirs", "unask both", "bar row", "unbar"}
    BY <1>9, Zenon DEF HalfIs
  <2> QED
    BY <1>9, <2>1 DEF AskOwed, BondOwed, BarOwed
<1> QED
  BY <1>1, <1>2, <1>3, <1>4, <1>5, <1>6, <1>7, <1>8, <1>9 DEF HalfIs

LEMMA HalvesOwed == \A s : Owing(s) /\ Owing(s)'
BY HalvesAre, OwedIs DEF Owing

LEMMA HalvesTyped ==
  ASSUME ContactsShape, NEW s \in Slot, todo[s] # <<>>
  PROVE  HalfDone(s) \subseteq Entry
<1> DEFINE m == mem[s]
<1>1. /\ Me(s) \in Party /\ You(s) \in Party
      /\ m.key \in 0 .. drawn /\ m.mine \in 0 .. drawn /\ m.theirs \in 0 .. drawn
  BY PairOf DEF Paired
<1>2. HalfIs(HalfDone(s), Now(s), Me(s), You(s), m)
  BY HalvesAre
<1>3. \A p \in Party, key \in 0 .. drawn :
        <<"ask", p, key>> \in Entry /\ <<"bond", p, key>> \in Entry /\ <<"bar", p, key>> \in Entry
  BY DEF Entry
<1> HIDE DEF m
<1>4. HalfDone(s) \subseteq Entry
  <2>1. CASE Now(s) \in {"ask row", "own ask row"}
    <3>1. HalfDone(s) = {<<"ask", Me(s), m.key>>}
      BY <1>2, <2>1 DEF HalfIs
    <3> QED
      BY <1>1, <1>3, <3>1
  <2>2. CASE Now(s) \in {"put their bond", "drop ask", "unbond both"}
    <3>1. HalfDone(s) = {<<"bond", Me(s), m.mine>>, <<"bond", You(s), m.theirs>>}
      BY <1>2, <2>2 DEF HalfIs
    <3> QED
      BY <1>1, <1>3, <3>1
  <2>3. CASE Now(s) \in {"bond rows"}
    <3>1. HalfDone(s) = {<<"bond", Me(s), m.mine>>, <<"bond", You(s), m.theirs>>, <<"ask", You(s), m.key>>}
      BY <1>2, <2>3 DEF HalfIs
    <3> QED
      BY <1>1, <1>3, <3>1
  <2>4. CASE Now(s) \in {"unask"}
    <3>1. HalfDone(s) = {<<"ask", You(s), m.key>>}
      BY <1>2, <2>4 DEF HalfIs
    <3> QED
      BY <1>1, <1>3, <3>1
  <2>5. CASE Now(s) \in {"drop their bond", "unbond"}
    <3>1. HalfDone(s) = {<<"bond", Me(s), m.key>>}
      BY <1>2, <2>5 DEF HalfIs
    <3> QED
      BY <1>1, <1>3, <3>1
  <2>6. CASE Now(s) \in {"unbond theirs"}
    <3>1. HalfDone(s) = {<<"bond", Me(s), m.key>>, <<"bond", You(s), m.theirs>>}
      BY <1>2, <2>6 DEF HalfIs
    <3> QED
      BY <1>1, <1>3, <3>1
  <2>7. CASE Now(s) \in {"unask both"}
    <3>1. HalfDone(s) = {<<"ask", Me(s), m.mine>>, <<"ask", You(s), m.theirs>>}
      BY <1>2, <2>7 DEF HalfIs
    <3> QED
      BY <1>1, <1>3, <3>1
  <2>8. CASE Now(s) \in {"bar row", "unbar"}
    <3>1. HalfDone(s) = {<<"bar", Me(s), m.key>>}
      BY <1>2, <2>8 DEF HalfIs
    <3> QED
      BY <1>1, <1>3, <3>1
  <2> QED
    BY <1>2, <2>1, <2>2, <2>3, <2>4, <2>5, <2>6, <2>7, <2>8 DEF HalfIs
<1> QED
  BY <1>4

LEMMA NowAt ==
  ASSUME ContactsShape, NEW s \in Slot
  PROVE  /\ \A x : At(s, x) => Now(s) = x
         /\ Now(s) # "done" => todo[s] # <<>> /\ At(s, Now(s))
         /\ todo[s] # <<>> => Now(s) # "done"
<1>1. todo[s] \in ContactCourse
  BY DEF ContactsShape, Lettered
<1>2. todo[s] # <<>> => Now(s) # "done"
  BY <1>1, ContactCourses
<1> QED
  BY <1>2 DEF Now, At

LEMMA WaitsOthers ==
  ASSUME NEW s, OthersWait(s)
  PROVE  Waits(s)
BY DEF OthersWait, Waits, Now, Me, You

LEMMA ContactTurns ==
  ASSUME ContactsShape, NEW s \in Slot, NEW steps, NEW m,
         Turn(s, steps, m) \/ Begin(s, steps, m)
  PROVE  /\ DOMAIN todo' = Slot /\ DOMAIN mem' = Slot /\ OthersWait(s)
         /\ todo'[s] = steps /\ mem'[s] = IF steps = <<>> THEN Nothing ELSE m
BY DEF ContactsShape, Turn, Begin, OthersWait

\* The shape is kept where the tables are and the request goes on with a letter.
LEMMA ShapeStays ==
  ASSUME ContactsShape, NEW s \in Slot, DOMAIN todo' = Slot, DOMAIN mem' = Slot, OthersWait(s),
         Lettered(s)', drawn' = drawn \/ drawn' = drawn + 1, ContactsTypeOK'
  PROVE  ContactsShape'
<1>1. drawn \in Nat
  BY DEF ContactsShape, ContactsTypeOK
<1>2. LetterRecord \subseteq LetterRecord'
  BY <1>1, LettersLast
<1>3. ASSUME NEW t \in Slot \ {s} PROVE Lettered(t)'
  BY <1>2 DEF ContactsShape, Lettered, OthersWait
<1> QED
  BY <1>3 DEF ContactsShape

\* A request goes on to its next statement, or has reached its end.
LEMMA ContactGoesOn ==
  ASSUME ContactsShape, NEW s \in Slot, NEW x, At(s, x), NEW m, Note(s, m),
         m \in LetterRecord', drawn' = drawn \/ drawn' = drawn + 1, ContactsTypeOK'
  PROVE  /\ ContactsShape' /\ Paired(s) /\ Leading(s) /\ Moves(s, x, Onward(s), m)
         /\ mem[s] \in LetterRecord
<1>1. /\ DOMAIN todo' = Slot /\ DOMAIN mem' = Slot /\ OthersWait(s)
      /\ todo'[s] = Tail(todo[s]) /\ mem'[s] = IF Tail(todo[s]) = <<>> THEN Nothing ELSE m
  BY ContactTurns DEF Note
<1>2. /\ todo[s] # <<>> /\ todo[s] \in ContactCourse /\ mem[s] \in LetterRecord /\ Paired(s)
      /\ Now(s) = x
  BY PairOf, NowAt DEF ContactsShape, Lettered, At
<1>3. Leading(s) /\ Tail(todo[s]) \in ContactCourse
  BY <1>2, ContactCourses
<1>4. Lettered(s)'
  BY <1>1, <1>3 DEF Lettered, ContactCourse
<1>5. Now(s)' = Onward(s) /\ (Onward(s) # "done" => mem'[s] = m)
  BY <1>1 DEF Now, Onward
<1>6. Waits(s) /\ ContactsShape'
  BY <1>1, <1>4, WaitsOthers, ShapeStays
<1> QED
  BY <1>2, <1>3, <1>5, <1>6 DEF Moves, Me, You

\* A request begins.
LEMMA ContactBegins ==
  ASSUME ContactsShape, NEW s \in Slot, NEW steps \in ContactCourse, steps # <<>>,
         NEW m \in LetterRecord, Begin(s, steps, m), drawn' = drawn, ContactsTypeOK'
  PROVE  /\ ContactsShape' /\ Waits(s) /\ todo'[s] = steps /\ mem'[s] = m
         /\ Now(s) = "done" /\ Now(s)' = Head(steps)
<1>1. /\ DOMAIN todo' = Slot /\ DOMAIN mem' = Slot /\ OthersWait(s)
      /\ todo'[s] = steps /\ mem'[s] = m /\ todo[s] = <<>>
  BY ContactTurns DEF Begin
<1>2. LetterRecord' = LetterRecord
  BY DEF LetterRecord
<1>3. Lettered(s)'
  BY <1>1, <1>2 DEF Lettered
<1>4. Waits(s) /\ ContactsShape'
  BY <1>1, <1>3, WaitsOthers, ShapeStays
<1>5. Now(s) = "done" /\ Now(s)' = Head(steps)
  BY <1>1 DEF Now
<1> QED
  BY <1>1, <1>4, <1>5

\* A request ends before its time, refused or with the process.
LEMMA ContactAnswers ==
  ASSUME ContactsShape, NEW s \in Slot, todo[s] # <<>>, Answer(s),
         drawn' = drawn, ContactsTypeOK'
  PROVE  ContactsShape' /\ Waits(s) /\ Paired(s) /\ Now(s)' = "done"
<1>1. /\ DOMAIN todo' = Slot /\ DOMAIN mem' = Slot /\ OthersWait(s) /\ todo'[s] = <<>>
  BY ContactTurns DEF Answer
<1>2. Lettered(s)'
  BY <1>1 DEF Lettered, ContactCourse
<1>3. Now(s)' = "done"
  BY <1>1 DEF Now
<1> QED
  BY <1>1, <1>2, <1>3, PairOf, WaitsOthers, ShapeStays


\* From one statement on to the next, whose request it is being kept.
Goes(s, x, y) ==
  /\ Waits(s) /\ Paired(s) /\ Now(s) = x /\ Now(s)' = y
  /\ y # "done" => Me(s)' = Me(s) /\ You(s)' = You(s)

Remembers(s) == mem'[s] = mem[s]

LEMMA ContactNotes ==
  ASSUME ContactsShape, NEW s \in Slot, NEW x, At(s, x), NEW m, Note(s, m), m.me = Me(s),
         m \in LetterRecord', drawn' = drawn \/ drawn' = drawn + 1, ContactsTypeOK'
  PROVE  /\ ContactsShape' /\ Leading(s) /\ Goes(s, x, Onward(s))
         /\ Onward(s) # "done" => mem'[s] = m
<1>1. /\ ContactsShape' /\ Paired(s) /\ Leading(s) /\ Moves(s, x, Onward(s), m)
  BY ContactGoesOn
<1> QED
  BY <1>1 DEF Moves, Goes, Me, You

LEMMA ContactPasses ==
  ASSUME ContactsShape, NEW s \in Slot, NEW x, At(s, x), Pass(s),
         drawn' = drawn \/ drawn' = drawn + 1, ContactsTypeOK'
  PROVE  /\ ContactsShape' /\ Leading(s) /\ Goes(s, x, Onward(s))
         /\ Onward(s) # "done" => Remembers(s)
<1>1. mem[s] \in LetterRecord
  BY PairOf DEF At
<1>2. mem[s] \in LetterRecord' /\ mem[s].me = Me(s) /\ Note(s, mem[s])
  BY <1>1, LettersLast, TablesTyped DEF ContactsShape, Me, Pass, Note
<1> QED
  BY <1>2, ContactNotes DEF Remembers

LEMMA LetterTyped ==
  ASSUME ContactsTypeOK, NEW p \in Party, NEW k \in 0 .. drawn
  PROVE  /\ Letter(p, k) \in LetterRecord /\ Letter(p, k).me = p /\ Letter(p, k).key = k
         /\ Letter(p, k).mine = 0 /\ Letter(p, k).theirs = 0
<1>1. 0 \in 0 .. drawn
  BY DEF ContactsTypeOK
<1> QED
  BY <1>1 DEF Letter, LetterRecord

\* Where a request sets out from, and whose it is.
Starts(s, p, y) ==
  /\ Waits(s) /\ Now(s) = "done" /\ Now(s)' = y
  /\ Me(s)' = p /\ You(s)' = Other(p)

Blank(s) == mem'[s].mine = 0 /\ mem'[s].theirs = 0

(* Asking, taking back, answering. *)

LEMMA ContactStarts ==
  ASSUME ContactsShape, NEW s \in Slot, NEW p \in Party, NEW k \in 0 .. drawn,
         NEW steps \in ContactCourse, steps # <<>>, Start(s, p, k, steps),
         asksGranted' = asksGranted \/ asksGranted' \in [Party -> SUBSET (1 .. drawn)],
         asksCrossed' \in BOOLEAN, overtaken' \in BOOLEAN
  PROVE  /\ ContactsShape' /\ Starts(s, p, Head(steps)) /\ mem'[s].key = k /\ Blank(s)
         /\ UNCHANGED <<askRecords, askRows, bondRecords, bondRows, barRecords, barRows, drawn,
                        asksMade, asksVoid, grounds, parted, loose, halved>>
<1> DEFINE m == Letter(p, k)
<1>1. m \in LetterRecord /\ m.me = p /\ m.key = k /\ m.mine = 0 /\ m.theirs = 0
  BY LetterTyped DEF ContactsShape
<1>2. /\ Begin(s, steps, m)
      /\ UNCHANGED <<askRecords, askRows, bondRecords, bondRows, barRecords, barRows, drawn,
                     asksMade, asksVoid, grounds, parted, loose, halved>>
  BY DEF Start, contactTables
<1> HIDE DEF m
<1>3. ContactsTypeOK'
  BY <1>2, TablesTyped, TablesStayTyped DEF ContactsShape
<1>4. /\ ContactsShape' /\ Waits(s) /\ mem'[s] = m /\ Now(s) = "done" /\ Now(s)' = Head(steps)
  BY <1>1, <1>2, <1>3, ContactBegins
<1> QED
  BY <1>1, <1>2, <1>4 DEF Starts, Blank, Me, You

LEMMA RunHeads ==
  /\ \A a, b : Head(<<a, b>>) = a /\ <<a, b>> # <<>>
  /\ \A a, b, c, d, e : Head(<<a, b, c, d, e>>) = a /\ <<a, b, c, d, e>> # <<>>
  /\ \A a, b, c, d, e, f, g :
       Head(<<a, b, c, d, e, f, g>>) = a /\ <<a, b, c, d, e, f, g>> # <<>>
BY Runs2, Runs5, Runs7

LEMMA SendRequestMoves ==
  ASSUME ContactsShape, NEW s \in Slot, NEW p \in Party, SendRequest(s, p)
  PROVE  /\ ContactsShape' /\ Starts(s, p, "put ask") /\ mem'[s].key = 0 /\ Blank(s)
         /\ UNCHANGED <<askRecords, askRows, bondRecords, bondRows, barRecords, barRows, drawn,
                        asksMade, asksVoid, grounds, parted, loose, halved>>
<1> DEFINE steps == <<"put ask", "ask row">>
           k == 0
<1>1. steps \in ContactCourse
  BY DEF ContactCourse
<1>2. steps # <<>> /\ Head(steps) = "put ask"
  BY RunHeads, Zenon
<1>3. k \in 0 .. drawn
  BY TablesTyped, TwoParties DEF ContactsShape
<1>4. Start(s, p, k, steps) /\ asksCrossed' \in BOOLEAN /\ overtaken' \in BOOLEAN
  BY TablesTyped DEF ContactsShape, SendRequest, meetings
<1>5. asksGranted' = asksGranted
  BY <1>3, TablesTyped DEF ContactsShape, SendRequest
<1> HIDE DEF steps, k
<1>6. /\ ContactsShape' /\ Starts(s, p, Head(steps)) /\ mem'[s].key = k /\ Blank(s)
      /\ UNCHANGED <<askRecords, askRows, bondRecords, bondRows, barRecords, barRows, drawn,
                     asksMade, asksVoid, grounds, parted, loose, halved>>
  BY <1>1, <1>2, <1>3, <1>4, <1>5, ContactStarts
<1> QED
  BY <1>2, <1>6 DEF k

LEMMA WithdrawRequestMoves ==
  ASSUME ContactsShape, NEW s \in Slot, NEW p \in Party, WithdrawRequest(s, p)
  PROVE  /\ ContactsShape' /\ Starts(s, p, "drop own ask") /\ mem'[s].key = askRows[p] /\ Blank(s)
         /\ UNCHANGED <<askRecords, askRows, bondRecords, bondRows, barRecords, barRows, drawn,
                        asksMade, asksVoid, grounds, parted, loose, halved>>
<1> DEFINE steps == <<"drop own ask", "own ask row">>
           k == askRows[p]
<1>1. steps \in ContactCourse
  BY DEF ContactCourse
<1>2. steps # <<>> /\ Head(steps) = "drop own ask"
  BY RunHeads, Zenon
<1>3. k \in 0 .. drawn
  BY TablesTyped, TwoParties DEF ContactsShape
<1>4. Start(s, p, k, steps) /\ asksCrossed' \in BOOLEAN /\ overtaken' \in BOOLEAN
  BY TablesTyped DEF ContactsShape, WithdrawRequest, meetings
<1>5. asksGranted' = asksGranted
  BY <1>3, TablesTyped DEF ContactsShape, WithdrawRequest
<1> HIDE DEF steps, k
<1>6. /\ ContactsShape' /\ Starts(s, p, Head(steps)) /\ mem'[s].key = k /\ Blank(s)
      /\ UNCHANGED <<askRecords, askRows, bondRecords, bondRows, barRecords, barRows, drawn,
                     asksMade, asksVoid, grounds, parted, loose, halved>>
  BY <1>1, <1>2, <1>3, <1>4, <1>5, ContactStarts
<1> QED
  BY <1>2, <1>6 DEF k

LEMMA AcceptMoves ==
  ASSUME ContactsShape, NEW s \in Slot, NEW p \in Party, Accept(s, p)
  PROVE  /\ ContactsShape' /\ Starts(s, p, "put bond") /\ mem'[s].key = askRows[Other(p)] /\ Blank(s)
         /\ UNCHANGED <<askRecords, askRows, bondRecords, bondRows, barRecords, barRows, drawn,
                        asksMade, asksVoid, grounds, parted, loose, halved>>
<1> DEFINE steps == <<"put bond", "put their bond", "drop ask", "bond rows", "unask">>
           k == askRows[Other(p)]
<1>1. steps \in ContactCourse
  BY DEF ContactCourse
<1>2. steps # <<>> /\ Head(steps) = "put bond"
  <2> DEFINE a == "put bond"
             b == "put their bond"
             c == "drop ask"
             d == "bond rows"
             e == "unask"
  <2>1. steps = <<a, b, c, d, e>>
    BY Zenon
  <2> HIDE DEF steps, a, b, c, d, e
  <2>2. steps # <<>> /\ Head(steps) = a
    BY <2>1, RunHeads
  <2> QED
    BY <2>2 DEF a
<1>3. k \in 0 .. drawn
  BY TablesTyped, TwoParties DEF ContactsShape
<1>4. Start(s, p, k, steps) /\ asksCrossed' \in BOOLEAN /\ overtaken' \in BOOLEAN
  BY TablesTyped DEF ContactsShape, Accept, meetings
<1>5. asksGranted' \in [Party -> SUBSET (1 .. drawn)]
  <2>0. k # 0
    BY DEF Accept
  <2> HIDE DEF k
  <2>1. k \in 1 .. drawn
    BY <1>3, <2>0, TablesTyped DEF ContactsShape
  <2>2. asksGranted' = [asksGranted EXCEPT ![p] = @ \cup {k}]
    BY DEF Accept, k
  <2> QED
    BY <2>1, <2>2, TablesTyped DEF ContactsShape
<1> HIDE DEF steps, k
<1>6. /\ ContactsShape' /\ Starts(s, p, Head(steps)) /\ mem'[s].key = k /\ Blank(s)
      /\ UNCHANGED <<askRecords, askRows, bondRecords, bondRows, barRecords, barRows, drawn,
                     asksMade, asksVoid, grounds, parted, loose, halved>>
  BY <1>1, <1>2, <1>3, <1>4, <1>5, ContactStarts
<1> QED
  BY <1>2, <1>6 DEF k

LEMMA RejectRequestMoves ==
  ASSUME ContactsShape, NEW s \in Slot, NEW p \in Party, RejectRequest(s, p)
  PROVE  /\ ContactsShape' /\ Starts(s, p, "reject ask") /\ mem'[s].key = askRows[Other(p)] /\ Blank(s)
         /\ UNCHANGED <<askRecords, askRows, bondRecords, bondRows, barRecords, barRows, drawn,
                        asksMade, asksVoid, grounds, parted, loose, halved>>
<1> DEFINE steps == <<"reject ask", "unask">>
           k == askRows[Other(p)]
<1>1. steps \in ContactCourse
  BY DEF ContactCourse
<1>2. steps # <<>> /\ Head(steps) = "reject ask"
  BY RunHeads, Zenon
<1>3. k \in 0 .. drawn
  BY TablesTyped, TwoParties DEF ContactsShape
<1>4. Start(s, p, k, steps) /\ asksCrossed' \in BOOLEAN /\ overtaken' \in BOOLEAN
  BY TablesTyped DEF ContactsShape, RejectRequest, meetings
<1>5. asksGranted' = asksGranted
  BY <1>3, TablesTyped DEF ContactsShape, RejectRequest
<1> HIDE DEF steps, k
<1>6. /\ ContactsShape' /\ Starts(s, p, Head(steps)) /\ mem'[s].key = k /\ Blank(s)
      /\ UNCHANGED <<askRecords, askRows, bondRecords, bondRows, barRecords, barRows, drawn,
                     asksMade, asksVoid, grounds, parted, loose, halved>>
  BY <1>1, <1>2, <1>3, <1>4, <1>5, ContactStarts
<1> QED
  BY <1>2, <1>6 DEF k

LEMMA RemoveContactMoves ==
  ASSUME ContactsShape, NEW s \in Slot, NEW p \in Party, RemoveContact(s, p)
  PROVE  /\ ContactsShape' /\ Starts(s, p, "their bond") /\ mem'[s].key = bondRows[p] /\ Blank(s)
         /\ UNCHANGED <<askRecords, askRows, bondRecords, bondRows, barRecords, barRows, drawn,
                        asksMade, asksVoid, grounds, parted, loose, halved>>
<1> DEFINE steps == <<"their bond", "drop bond", "drop their bond", "unbond theirs", "unbond">>
           k == bondRows[p]
<1>1. steps \in ContactCourse
  BY DEF ContactCourse
<1>2. steps # <<>> /\ Head(steps) = "their bond"
  <2> DEFINE a == "their bond"
             b == "drop bond"
             c == "drop their bond"
             d == "unbond theirs"
             e == "unbond"
  <2>1. steps = <<a, b, c, d, e>>
    BY Zenon
  <2> HIDE DEF steps, a, b, c, d, e
  <2>2. steps # <<>> /\ Head(steps) = a
    BY <2>1, RunHeads
  <2> QED
    BY <2>2 DEF a
<1>3. k \in 0 .. drawn
  BY TablesTyped, TwoParties DEF ContactsShape
<1>4. Start(s, p, k, steps) /\ asksCrossed' \in BOOLEAN /\ overtaken' \in BOOLEAN
  BY TablesTyped DEF ContactsShape, RemoveContact, meetings
<1>5. asksGranted' = asksGranted
  BY <1>3, TablesTyped DEF ContactsShape, RemoveContact
<1> HIDE DEF steps, k
<1>6. /\ ContactsShape' /\ Starts(s, p, Head(steps)) /\ mem'[s].key = k /\ Blank(s)
      /\ UNCHANGED <<askRecords, askRows, bondRecords, bondRows, barRecords, barRows, drawn,
                     asksMade, asksVoid, grounds, parted, loose, halved>>
  BY <1>1, <1>2, <1>3, <1>4, <1>5, ContactStarts
<1> QED
  BY <1>2, <1>6 DEF k

LEMMA UnblockContactMoves ==
  ASSUME ContactsShape, NEW s \in Slot, NEW p \in Party, UnblockContact(s, p)
  PROVE  /\ ContactsShape' /\ Starts(s, p, "drop bar") /\ mem'[s].key = barRows[p] /\ Blank(s)
         /\ UNCHANGED <<askRecords, askRows, bondRecords, bondRows, barRecords, barRows, drawn,
                        asksMade, asksVoid, grounds, parted, loose, halved>>
<1> DEFINE steps == <<"drop bar", "unbar">>
           k == barRows[p]
<1>1. steps \in ContactCourse
  BY DEF ContactCourse
<1>2. steps # <<>> /\ Head(steps) = "drop bar"
  BY RunHeads, Zenon
<1>3. k \in 0 .. drawn
  BY TablesTyped, TwoParties DEF ContactsShape
<1>4. Start(s, p, k, steps) /\ asksCrossed' \in BOOLEAN /\ overtaken' \in BOOLEAN
  BY TablesTyped DEF ContactsShape, UnblockContact, meetings
<1>5. asksGranted' = asksGranted
  BY <1>3, TablesTyped DEF ContactsShape, UnblockContact
<1> HIDE DEF steps, k
<1>6. /\ ContactsShape' /\ Starts(s, p, Head(steps)) /\ mem'[s].key = k /\ Blank(s)
      /\ UNCHANGED <<askRecords, askRows, bondRecords, bondRows, barRecords, barRows, drawn,
                     asksMade, asksVoid, grounds, parted, loose, halved>>
  BY <1>1, <1>2, <1>3, <1>4, <1>5, ContactStarts
<1> QED
  BY <1>2, <1>6 DEF k

LEMMA BlockContactMoves ==
  ASSUME ContactsShape, NEW s \in Slot, NEW p \in Party, BlockContact(s, p)
  PROVE  /\ ContactsShape' /\ Starts(s, p, "drop bonds")
         /\ mem'[s].key = 0 /\ mem'[s].mine = bondRows[p] /\ mem'[s].theirs = bondRows[Other(p)]
         /\ UNCHANGED <<askRecords, askRows, bondRecords, bondRows, barRecords, barRows, drawn,
                        asksMade, asksGranted, asksVoid, grounds, parted, loose, halved, asksCrossed>>
<1> DEFINE steps == <<"drop bonds", "unbond both", "read asks", "drop asks", "unask both",
                      "put bar", "bar row">>
           m == [Letter(p, 0) EXCEPT !.mine = bondRows[p], !.theirs = bondRows[Other(p)]]
<1>1. steps \in ContactCourse
  BY DEF ContactCourse
<1>2. steps # <<>> /\ Head(steps) = "drop bonds"
  <2> DEFINE a == "drop bonds"
             b == "unbond both"
             c == "read asks"
             d == "drop asks"
             e == "unask both"
             f == "put bar"
             g == "bar row"
  <2>1. steps = <<a, b, c, d, e, f, g>>
    BY Zenon
  <2> HIDE DEF steps, a, b, c, d, e, f, g
  <2>2. steps # <<>> /\ Head(steps) = a
    BY <2>1, RunHeads
  <2> QED
    BY <2>2 DEF a
<1>3. /\ m \in LetterRecord /\ m.me = p /\ m.key = 0
      /\ m.mine = bondRows[p] /\ m.theirs = bondRows[Other(p)]
  <2>1. bondRows[p] \in 0 .. drawn /\ bondRows[Other(p)] \in 0 .. drawn /\ 0 \in 0 .. drawn
    BY TablesTyped, TwoParties DEF ContactsShape
  <2> QED
    BY <2>1 DEF Letter, LetterRecord
<1>4. /\ Begin(s, steps, m) /\ overtaken' \in BOOLEAN
      /\ UNCHANGED <<askRecords, askRows, bondRecords, bondRows, barRecords, barRows, drawn,
                     asksMade, asksGranted, asksVoid, grounds, parted, loose, halved, asksCrossed>>
  BY TablesTyped DEF ContactsShape, BlockContact, contactTables, agreement
<1> HIDE DEF steps, m
<1>5. ContactsTypeOK'
  BY <1>4, TablesTyped, TablesStayTyped DEF ContactsShape
<1>6. /\ ContactsShape' /\ Waits(s) /\ mem'[s] = m /\ Now(s) = "done" /\ Now(s)' = Head(steps)
  BY <1>1, <1>2, <1>3, <1>4, <1>5, ContactBegins
<1> QED
  BY <1>2, <1>3, <1>4, <1>6 DEF Starts, Me, You

LEMMA Zeros ==
  ASSUME ContactsTypeOK
  PROVE  0 \in 0 .. drawn /\ \A k \in 0 .. drawn : k # 0 => k \in 1 .. drawn
BY DEF ContactsTypeOK

LEMMA EntriesTyped ==
  \A kind \in {"ask", "bond", "bar"}, p \in Party, key \in 0 .. drawn :
    <<kind, p, key>> \in Entry
BY DEF Entry

\* A stray entry is one of the tables' entries.
LEMMA StraysTyped ==
  ASSUME ContactsTypeOK, NEW kind \in {"ask", "bond", "bar"}
  PROVE  /\ \A p \in Party : \A read :
              /\ Stray(kind, p, askRows[p], read) \subseteq Entry
              /\ Stray(kind, p, bondRows[p], read) \subseteq Entry
              /\ Stray(kind, p, barRows[p], read) \subseteq Entry
BY TablesTyped, EntriesTyped DEF Stray

LEMMA PutAskMoves ==
  ASSUME ContactsShape, NEW s \in Slot, PutAsk(s)
  PROVE  /\ ContactsShape' /\ Goes(s, "put ask", "ask row") /\ drawn' = drawn + 1
         /\ mem'[s] = [mem[s] EXCEPT !.key = drawn + 1]
         /\ askRecords' = [askRecords EXCEPT ![Me(s)] = @ \cup {drawn + 1}]
         /\ asksMade' = [asksMade EXCEPT ![Me(s)] = @ \cup {drawn + 1}]
         /\ UNCHANGED <<askRows, bondRecords, bondRows, barRecords, barRows, asksGranted,
                        asksVoid, grounds, parted, loose, halved, asksCrossed, overtaken>>
<1> DEFINE m == [mem[s] EXCEPT !.key = drawn + 1]
<1>1. /\ At(s, "put ask") /\ Note(s, m) /\ drawn' = drawn + 1
      /\ askRecords' = [askRecords EXCEPT ![Me(s)] = @ \cup {drawn + 1}]
      /\ asksMade' = [asksMade EXCEPT ![Me(s)] = @ \cup {drawn + 1}]
      /\ UNCHANGED <<askRows, bondRecords, bondRows, barRecords, barRows, asksGranted,
                     asksVoid, grounds, parted, loose, halved, asksCrossed, overtaken>>
  BY DEF PutAsk, contactTables, agreement, meetings, contactPast, LeaveLoose
<1>2. /\ drawn \in Nat /\ mem[s] \in LetterRecord /\ Paired(s)
      /\ drawn + 1 \in 1 .. drawn' /\ drawn + 1 \in 0 .. drawn' /\ 1 .. drawn \subseteq 1 .. drawn'
  BY <1>1, TablesTyped, Further, PairOf DEF ContactsShape, At
<1>3. m \in LetterRecord' /\ m.me = Me(s)
  BY <1>1, <1>2, LetterNotes DEF Me
<1> HIDE DEF m
<1>4. ContactsTypeOK'
  <2>1. askRecords' \in [Party -> SUBSET (1 .. drawn')]
    BY <1>1, <1>2, Zeros, TablesTyped DEF ContactsShape, Paired
  <2>2. asksMade' \in [Party -> SUBSET (1 .. drawn')]
    BY <1>1, <1>2, Zeros, TablesTyped DEF ContactsShape, Paired
  <2> QED
    BY <1>1, <2>1, <2>2, TablesTyped, TablesStayTyped DEF ContactsShape
<1>5. /\ ContactsShape' /\ Leading(s) /\ Goes(s, "put ask", Onward(s))
      /\ Onward(s) # "done" => mem'[s] = m
  BY <1>1, <1>3, <1>4, ContactNotes
<1>6. Onward(s) = "ask row"
  BY <1>5 DEF Leading, Goes
<1> QED
  BY <1>1, <1>5, <1>6 DEF m

LEMMA PutBarMoves ==
  ASSUME ContactsShape, NEW s \in Slot, PutBar(s)
  PROVE  /\ ContactsShape' /\ Goes(s, "put bar", "bar row") /\ drawn' = drawn + 1
         /\ mem'[s] = [mem[s] EXCEPT !.key = drawn + 1]
         /\ barRecords' = [barRecords EXCEPT ![Me(s)] = @ \cup {drawn + 1}]
         /\ UNCHANGED <<askRecords, askRows, bondRecords, bondRows, barRows, asksMade,
                        asksGranted, asksVoid, grounds, parted, loose, halved, asksCrossed,
                        overtaken>>
<1> DEFINE m == [mem[s] EXCEPT !.key = drawn + 1]
<1>1. /\ At(s, "put bar") /\ Note(s, m) /\ drawn' = drawn + 1
      /\ barRecords' = [barRecords EXCEPT ![Me(s)] = @ \cup {drawn + 1}]
      /\ UNCHANGED <<askRecords, askRows, bondRecords, bondRows, barRows, asksMade,
                     asksGranted, asksVoid, grounds, parted, loose, halved, asksCrossed,
                     overtaken>>
  BY DEF PutBar, contactTables, agreement, meetings, contactPast, LeaveLoose
<1>2. /\ drawn \in Nat /\ mem[s] \in LetterRecord /\ Paired(s)
      /\ drawn + 1 \in 1 .. drawn' /\ drawn + 1 \in 0 .. drawn' /\ 1 .. drawn \subseteq 1 .. drawn'
  BY <1>1, TablesTyped, Further, PairOf DEF ContactsShape, At
<1>3. m \in LetterRecord' /\ m.me = Me(s)
  BY <1>1, <1>2, LetterNotes DEF Me
<1> HIDE DEF m
<1>4. ContactsTypeOK'
  <2>1. barRecords' \in [Party -> SUBSET (1 .. drawn')]
    BY <1>1, <1>2, Zeros, TablesTyped DEF ContactsShape, Paired
  <2> QED
    BY <1>1, <2>1, TablesTyped, TablesStayTyped DEF ContactsShape
<1>5. /\ ContactsShape' /\ Leading(s) /\ Goes(s, "put bar", Onward(s))
      /\ Onward(s) # "done" => mem'[s] = m
  BY <1>1, <1>3, <1>4, ContactNotes
<1>6. Onward(s) = "bar row"
  BY <1>5 DEF Leading, Goes
<1> QED
  BY <1>1, <1>5, <1>6 DEF m

LEMMA InsertAskMoves ==
  ASSUME ContactsShape, NEW s \in Slot, InsertAsk(s)
  PROVE  /\ ContactsShape' /\ Goes(s, "ask row", "done")
         /\ askRows' = [askRows EXCEPT ![Me(s)] = IF @ = 0 THEN mem[s].key ELSE @]
         /\ loose' = loose \cup (IF askRows[Me(s)] = 0 THEN {} ELSE {<<"ask", Me(s), mem[s].key>>})
         /\ UNCHANGED <<askRecords, bondRecords, bondRows, barRecords, barRows, drawn,
                        asksMade, asksGranted, asksVoid, grounds, parted, halved,
                        asksCrossed, overtaken>>
<1>1. /\ At(s, "ask row") /\ Pass(s)
      /\ askRows' = [askRows EXCEPT ![Me(s)] = IF @ = 0 THEN mem[s].key ELSE @]
      /\ UNCHANGED <<askRecords, bondRecords, bondRows, barRecords, barRows, drawn,
                     asksMade, asksGranted, asksVoid, grounds, parted, halved,
                     asksCrossed, overtaken>>
  BY DEF InsertAsk, contactTables, agreement, meetings, contactPast, LeaveLoose
<1>15. loose' = loose \cup (IF askRows[Me(s)] = 0 THEN {} ELSE {<<"ask", Me(s), mem[s].key>>})
  BY DEF InsertAsk, LeaveLoose
<1>2. Paired(s) /\ todo[s] # <<>>
  BY <1>1, PairOf DEF At
<1>3. ContactsTypeOK'
  <2>1. askRows' \in [Party -> 0 .. drawn']
    BY <1>1, <1>2, Zeros, TablesTyped DEF ContactsShape, Paired
  <2>2. loose' \subseteq Entry
    BY <1>1, <1>15, <1>2, EntriesTyped, Zeros, TablesTyped DEF ContactsShape, Paired
  <2> QED
    BY <1>1, <1>15, <2>1, <2>2, TablesTyped, TablesStayTyped DEF ContactsShape
<1>4. /\ ContactsShape' /\ Leading(s) /\ Goes(s, "ask row", Onward(s))
      /\ Onward(s) # "done" => Remembers(s)
  BY <1>1, <1>3, ContactPasses
<1>5. Onward(s) = "done"
  BY <1>4 DEF Leading, Goes
<1> QED
  BY <1>1, <1>15, <1>4, <1>5

LEMMA InsertBarMoves ==
  ASSUME ContactsShape, NEW s \in Slot, InsertBar(s)
  PROVE  /\ ContactsShape' /\ Goes(s, "bar row", "done")
         /\ barRows' = [barRows EXCEPT ![Me(s)] = IF @ = 0 THEN mem[s].key ELSE @]
         /\ loose' = loose \cup (IF barRows[Me(s)] = 0 THEN {} ELSE {<<"bar", Me(s), mem[s].key>>})
         /\ UNCHANGED <<askRecords, askRows, bondRecords, bondRows, barRecords, drawn,
                        asksMade, asksGranted, asksVoid, grounds, parted, halved,
                        asksCrossed, overtaken>>
<1>1. /\ At(s, "bar row") /\ Pass(s)
      /\ barRows' = [barRows EXCEPT ![Me(s)] = IF @ = 0 THEN mem[s].key ELSE @]
      /\ UNCHANGED <<askRecords, askRows, bondRecords, bondRows, barRecords, drawn,
                     asksMade, asksGranted, asksVoid, grounds, parted, halved,
                     asksCrossed, overtaken>>
  BY DEF InsertBar, contactTables, agreement, meetings, contactPast, LeaveLoose
<1>15. loose' = loose \cup (IF barRows[Me(s)] = 0 THEN {} ELSE {<<"bar", Me(s), mem[s].key>>})
  BY DEF InsertBar, LeaveLoose
<1>2. Paired(s) /\ todo[s] # <<>>
  BY <1>1, PairOf DEF At
<1>3. ContactsTypeOK'
  <2>1. barRows' \in [Party -> 0 .. drawn']
    BY <1>1, <1>2, Zeros, TablesTyped DEF ContactsShape, Paired
  <2>2. loose' \subseteq Entry
    BY <1>1, <1>15, <1>2, EntriesTyped, Zeros, TablesTyped DEF ContactsShape, Paired
  <2> QED
    BY <1>1, <1>15, <2>1, <2>2, TablesTyped, TablesStayTyped DEF ContactsShape
<1>4. /\ ContactsShape' /\ Leading(s) /\ Goes(s, "bar row", Onward(s))
      /\ Onward(s) # "done" => Remembers(s)
  BY <1>1, <1>3, ContactPasses
<1>5. Onward(s) = "done"
  BY <1>4 DEF Leading, Goes
<1> QED
  BY <1>1, <1>15, <1>4, <1>5

LEMMA DropTheirBondMoves ==
  ASSUME ContactsShape, NEW s \in Slot, DropTheirBond(s)
  PROVE  /\ ContactsShape' /\ Goes(s, "drop their bond", "unbond theirs") /\ Remembers(s)
         /\ bondRecords' = [bondRecords EXCEPT ![You(s)] = @ \ {mem[s].theirs}]
         /\ UNCHANGED <<askRecords, askRows, bondRows, barRecords, barRows, drawn,
                        asksMade, asksGranted, asksVoid, grounds, parted, loose, halved,
                        asksCrossed, overtaken>>
<1>1. /\ At(s, "drop their bond") /\ Pass(s)
      /\ bondRecords' = [bondRecords EXCEPT ![You(s)] = @ \ {mem[s].theirs}]
      /\ UNCHANGED <<askRecords, askRows, bondRows, barRecords, barRows, drawn,
                     asksMade, asksGranted, asksVoid, grounds, parted, loose, halved,
                     asksCrossed, overtaken>>
  BY DEF DropTheirBond, contactTables, agreement, meetings, contactPast, LeaveLoose
<1>2. Paired(s) /\ todo[s] # <<>>
  BY <1>1, PairOf DEF At
<1>3. ContactsTypeOK'
  <2>1. bondRecords' \in [Party -> SUBSET (1 .. drawn')]
    BY <1>1, <1>2, Zeros, TablesTyped DEF ContactsShape, Paired
  <2> QED
    BY <1>1, <2>1, TablesTyped, TablesStayTyped DEF ContactsShape
<1>4. /\ ContactsShape' /\ Leading(s) /\ Goes(s, "drop their bond", Onward(s))
      /\ Onward(s) # "done" => Remembers(s)
  BY <1>1, <1>3, ContactPasses
<1>5. Onward(s) = "unbond theirs"
  BY <1>4 DEF Leading, Goes
<1> QED
  BY <1>1, <1>4, <1>5

LEMMA DropBondsMoves ==
  ASSUME ContactsShape, NEW s \in Slot, DropBonds(s)
  PROVE  /\ ContactsShape' /\ Goes(s, "drop bonds", "unbond both") /\ Remembers(s)
         /\ bondRecords' = [p \in Party |-> bondRecords[p] \ {Pair(s)[p]}]
         /\ UNCHANGED <<askRecords, askRows, bondRows, barRecords, barRows, drawn,
                        asksMade, asksGranted, asksVoid, grounds, parted, loose, halved,
                        asksCrossed, overtaken>>
<1>1. /\ At(s, "drop bonds") /\ Pass(s)
      /\ bondRecords' = [p \in Party |-> bondRecords[p] \ {Pair(s)[p]}]
      /\ UNCHANGED <<askRecords, askRows, bondRows, barRecords, barRows, drawn,
                     asksMade, asksGranted, asksVoid, grounds, parted, loose, halved,
                     asksCrossed, overtaken>>
  BY DEF DropBonds, contactTables, agreement, meetings, contactPast, LeaveLoose
<1>2. Paired(s) /\ todo[s] # <<>>
  BY <1>1, PairOf DEF At
<1>3. ContactsTypeOK'
  <2>1. bondRecords' \in [Party -> SUBSET (1 .. drawn')]
    BY <1>1, <1>2, Zeros, TablesTyped DEF ContactsShape, Paired
  <2> QED
    BY <1>1, <2>1, TablesTyped, TablesStayTyped DEF ContactsShape
<1>4. /\ ContactsShape' /\ Leading(s) /\ Goes(s, "drop bonds", Onward(s))
      /\ Onward(s) # "done" => Remembers(s)
  BY <1>1, <1>3, ContactPasses
<1>5. Onward(s) = "unbond both"
  BY <1>4 DEF Leading, Goes
<1> QED
  BY <1>1, <1>4, <1>5

LEMMA DeleteBondsMoves ==
  ASSUME ContactsShape, NEW s \in Slot, DeleteBonds(s)
  PROVE  /\ ContactsShape' /\ Goes(s, "unbond both", "read asks") /\ Remembers(s)
         /\ bondRows' = [p \in Party |-> 0]
         /\ grounds' = [p \in Party |-> 0]
         /\ parted' = [p \in Party |-> parted[p] \cup ({grounds[p]} \ {0})]
         /\ loose' = loose \cup UNION {Stray("bond", p, bondRows[p], Pair(s)[p]) : p \in Party}
         /\ UNCHANGED <<askRecords, askRows, bondRecords, barRecords, barRows, drawn,
                        asksMade, asksGranted, asksVoid, halved, asksCrossed, overtaken>>
<1>1. /\ At(s, "unbond both") /\ Pass(s)
      /\ bondRows' = [p \in Party |-> 0]
      /\ grounds' = [p \in Party |-> 0]
      /\ parted' = [p \in Party |-> parted[p] \cup ({grounds[p]} \ {0})]
      /\ UNCHANGED <<askRecords, askRows, bondRecords, barRecords, barRows, drawn,
                     asksMade, asksGranted, asksVoid, halved, asksCrossed, overtaken>>
  BY DEF DeleteBonds, contactTables, agreement, meetings, contactPast, LeaveLoose
<1>15. loose' = loose \cup UNION {Stray("bond", p, bondRows[p], Pair(s)[p]) : p \in Party}
  BY DEF DeleteBonds, LeaveLoose
<1>2. Paired(s) /\ todo[s] # <<>>
  BY <1>1, PairOf DEF At
<1>3. ContactsTypeOK'
  <2>1. bondRows' \in [Party -> 0 .. drawn']
    BY <1>1, <1>2, Zeros, TablesTyped DEF ContactsShape, Paired
  <2>2. grounds' \in [Party -> 0 .. drawn']
    BY <1>1, <1>2, Zeros, TablesTyped DEF ContactsShape, Paired
  <2>3. parted' \in [Party -> SUBSET (1 .. drawn')]
    <3>1. \A p \in Party : parted[p] \cup ({grounds[p]} \ {0}) \in SUBSET (1 .. drawn)
      BY Zeros, TablesTyped DEF ContactsShape
    <3> QED
      BY <1>1, <3>1
  <2>4. loose' \subseteq Entry
    <3>1. \A p \in Party : Stray("bond", p, bondRows[p], Pair(s)[p]) \subseteq Entry
      BY StraysTyped DEF ContactsShape
    <3>2. loose \subseteq Entry
      BY TablesTyped DEF ContactsShape
    <3> QED
      BY <1>15, <3>1, <3>2
  <2> QED
    BY <1>1, <1>15, <2>1, <2>2, <2>3, <2>4, TablesTyped, TablesStayTyped DEF ContactsShape
<1>4. /\ ContactsShape' /\ Leading(s) /\ Goes(s, "unbond both", Onward(s))
      /\ Onward(s) # "done" => Remembers(s)
  BY <1>1, <1>3, ContactPasses
<1>5. Onward(s) = "read asks"
  BY <1>4 DEF Leading, Goes
<1> QED
  BY <1>1, <1>15, <1>4, <1>5

LEMMA DropAsksMoves ==
  ASSUME ContactsShape, NEW s \in Slot, DropAsks(s)
  PROVE  /\ ContactsShape' /\ Goes(s, "drop asks", "unask both") /\ Remembers(s)
         /\ askRecords' = [p \in Party |-> askRecords[p] \ {Pair(s)[p]}]
         /\ asksVoid' = asksVoid \cup UNION {askRecords[p] \cap {Pair(s)[p]} : p \in Party}
         /\ UNCHANGED <<askRows, bondRecords, bondRows, barRecords, barRows, drawn,
                        asksMade, asksGranted, grounds, parted, loose, halved, asksCrossed,
                        overtaken>>
<1>1. /\ At(s, "drop asks") /\ Pass(s)
      /\ askRecords' = [p \in Party |-> askRecords[p] \ {Pair(s)[p]}]
      /\ asksVoid' = asksVoid \cup UNION {askRecords[p] \cap {Pair(s)[p]} : p \in Party}
      /\ UNCHANGED <<askRows, bondRecords, bondRows, barRecords, barRows, drawn,
                     asksMade, asksGranted, grounds, parted, loose, halved, asksCrossed,
                     overtaken>>
  BY DEF DropAsks, contactTables, agreement, meetings, contactPast, LeaveLoose
<1>2. Paired(s) /\ todo[s] # <<>>
  BY <1>1, PairOf DEF At
<1>3. ContactsTypeOK'
  <2>1. askRecords' \in [Party -> SUBSET (1 .. drawn')]
    BY <1>1, <1>2, Zeros, TablesTyped DEF ContactsShape, Paired
  <2>2. asksVoid' \subseteq 1 .. drawn'
    BY <1>1, <1>2, Zeros, TablesTyped DEF ContactsShape, Paired
  <2> QED
    BY <1>1, <2>1, <2>2, TablesTyped, TablesStayTyped DEF ContactsShape
<1>4. /\ ContactsShape' /\ Leading(s) /\ Goes(s, "drop asks", Onward(s))
      /\ Onward(s) # "done" => Remembers(s)
  BY <1>1, <1>3, ContactPasses
<1>5. Onward(s) = "unask both"
  BY <1>4 DEF Leading, Goes
<1> QED
  BY <1>1, <1>4, <1>5

LEMMA DeleteAsksMoves ==
  ASSUME ContactsShape, NEW s \in Slot, DeleteAsks(s)
  PROVE  /\ ContactsShape' /\ Goes(s, "unask both", "put bar") /\ Remembers(s)
         /\ askRows' = [p \in Party |-> 0]
         /\ loose' = loose \cup UNION {Stray("ask", p, askRows[p], Pair(s)[p]) : p \in Party}
         /\ UNCHANGED <<askRecords, bondRecords, bondRows, barRecords, barRows, drawn,
                        asksMade, asksGranted, asksVoid, grounds, parted, halved,
                        asksCrossed, overtaken>>
<1>1. /\ At(s, "unask both") /\ Pass(s)
      /\ askRows' = [p \in Party |-> 0]
      /\ UNCHANGED <<askRecords, bondRecords, bondRows, barRecords, barRows, drawn,
                     asksMade, asksGranted, asksVoid, grounds, parted, halved,
                     asksCrossed, overtaken>>
  BY DEF DeleteAsks, contactTables, agreement, meetings, contactPast, LeaveLoose
<1>15. loose' = loose \cup UNION {Stray("ask", p, askRows[p], Pair(s)[p]) : p \in Party}
  BY DEF DeleteAsks, LeaveLoose
<1>2. Paired(s) /\ todo[s] # <<>>
  BY <1>1, PairOf DEF At
<1>3. ContactsTypeOK'
  <2>1. askRows' \in [Party -> 0 .. drawn']
    BY <1>1, <1>2, Zeros, TablesTyped DEF ContactsShape, Paired
  <2>2. loose' \subseteq Entry
    <3>1. \A p \in Party : Stray("ask", p, askRows[p], Pair(s)[p]) \subseteq Entry
      BY StraysTyped DEF ContactsShape
    <3>2. loose \subseteq Entry
      BY TablesTyped DEF ContactsShape
    <3> QED
      BY <1>15, <3>1, <3>2
  <2> QED
    BY <1>1, <1>15, <2>1, <2>2, TablesTyped, TablesStayTyped DEF ContactsShape
<1>4. /\ ContactsShape' /\ Leading(s) /\ Goes(s, "unask both", Onward(s))
      /\ Onward(s) # "done" => Remembers(s)
  BY <1>1, <1>3, ContactPasses
<1>5. Onward(s) = "put bar"
  BY <1>4 DEF Leading, Goes
<1> QED
  BY <1>1, <1>15, <1>4, <1>5

LEMMA DeleteBarMoves ==
  ASSUME ContactsShape, NEW s \in Slot, DeleteBar(s)
  PROVE  /\ ContactsShape' /\ Goes(s, "unbar", "done")
         /\ barRows' = [barRows EXCEPT ![Me(s)] = 0]
         /\ loose' = loose \cup Stray("bar", Me(s), barRows[Me(s)], mem[s].key)
         /\ UNCHANGED <<askRecords, askRows, bondRecords, bondRows, barRecords, drawn,
                        asksMade, asksGranted, asksVoid, grounds, parted, halved,
                        asksCrossed, overtaken>>
<1>1. /\ At(s, "unbar") /\ Pass(s)
      /\ barRows' = [barRows EXCEPT ![Me(s)] = 0]
      /\ UNCHANGED <<askRecords, askRows, bondRecords, bondRows, barRecords, drawn,
                     asksMade, asksGranted, asksVoid, grounds, parted, halved,
                     asksCrossed, overtaken>>
  BY DEF DeleteBar, contactTables, agreement, meetings, contactPast, LeaveLoose
<1>15. loose' = loose \cup Stray("bar", Me(s), barRows[Me(s)], mem[s].key)
  BY DEF DeleteBar, LeaveLoose
<1>2. Paired(s) /\ todo[s] # <<>>
  BY <1>1, PairOf DEF At
<1>3. ContactsTypeOK'
  <2>1. barRows' \in [Party -> 0 .. drawn']
    BY <1>1, <1>2, Zeros, TablesTyped DEF ContactsShape, Paired
  <2>2. loose' \subseteq Entry
    BY <1>1, <1>15, <1>2, StraysTyped, Zeros, TablesTyped DEF ContactsShape, Paired
  <2> QED
    BY <1>1, <1>15, <2>1, <2>2, TablesTyped, TablesStayTyped DEF ContactsShape
<1>4. /\ ContactsShape' /\ Leading(s) /\ Goes(s, "unbar", Onward(s))
      /\ Onward(s) # "done" => Remembers(s)
  BY <1>1, <1>3, ContactPasses
<1>5. Onward(s) = "done"
  BY <1>4 DEF Leading, Goes
<1> QED
  BY <1>1, <1>15, <1>4, <1>5

\* The record of a contact put, in whichever repository.
PutsBond(s, x, y, p) ==
  /\ Goes(s, x, y) /\ drawn' = drawn + 1
  /\ mem'[s] = IF p = Me(s) THEN [mem[s] EXCEPT !.mine = drawn + 1]
                            ELSE [mem[s] EXCEPT !.theirs = drawn + 1]
  /\ bondRecords' = [bondRecords EXCEPT ![p] = @ \cup {drawn + 1}]
  /\ UNCHANGED <<askRecords, askRows, bondRows, barRecords, barRows, asksMade, asksGranted,
                 asksVoid, grounds, parted, loose, halved, asksCrossed, overtaken>>

LEMMA PutBondMoves ==
  ASSUME ContactsShape, NEW s \in Slot, PutBond(s)
  PROVE  /\ ContactsShape' /\ Me(s) \in Party /\ You(s) \in Party
         /\ \/ PutsBond(s, "put bond", "put their bond", Me(s))
            \/ PutsBond(s, "put their bond", "drop ask", You(s))
<1> DEFINE owner == IF At(s, "put bond") THEN Me(s) ELSE You(s)
           m == IF owner = Me(s) THEN [mem[s] EXCEPT !.mine = drawn + 1]
                                 ELSE [mem[s] EXCEPT !.theirs = drawn + 1]
<1>1. /\ At(s, "put bond") \/ At(s, "put their bond")
      /\ Note(s, m) /\ drawn' = drawn + 1
      /\ bondRecords' = [bondRecords EXCEPT ![owner] = @ \cup {drawn + 1}]
      /\ UNCHANGED <<askRecords, askRows, bondRows, barRecords, barRows, asksMade, asksGranted,
                     asksVoid, grounds, parted, loose, halved, asksCrossed, overtaken>>
  BY DEF PutBond, contactTables, agreement, meetings, contactPast
<1>8. Me(s) \in Party /\ You(s) \in Party
  BY <1>1, PairOf DEF At, Paired
<1>2. /\ drawn \in Nat /\ mem[s] \in LetterRecord /\ Paired(s)
      /\ drawn + 1 \in 1 .. drawn' /\ drawn + 1 \in 0 .. drawn' /\ 1 .. drawn \subseteq 1 .. drawn'
  BY <1>1, TablesTyped, Further, PairOf DEF ContactsShape, At
<1>3. m \in LetterRecord' /\ m.me = Me(s)
  BY <1>1, <1>2, LetterNotes DEF Me
<1>4. owner \in Party
  BY <1>2 DEF Paired
<1> HIDE DEF m, owner
<1>5. ContactsTypeOK'
  <2>1. bondRecords' \in [Party -> SUBSET (1 .. drawn')]
    BY <1>1, <1>2, <1>4, TablesTyped DEF ContactsShape
  <2> QED
    BY <1>1, <2>1, TablesTyped, TablesStayTyped DEF ContactsShape
<1>6. CASE At(s, "put bond")
  <2>1. /\ ContactsShape' /\ Leading(s) /\ Goes(s, "put bond", Onward(s))
        /\ Onward(s) # "done" => mem'[s] = m
    BY <1>1, <1>3, <1>5, <1>6, ContactNotes
  <2>2. Onward(s) = "put their bond" /\ owner = Me(s)
    BY <1>6, <2>1 DEF Leading, Goes, owner
  <2> QED
    BY <1>8, <1>1, <2>1, <2>2 DEF m, PutsBond
<1>7. CASE At(s, "put their bond")
  <2>1. /\ ContactsShape' /\ Leading(s) /\ Goes(s, "put their bond", Onward(s))
        /\ Onward(s) # "done" => mem'[s] = m
    BY <1>1, <1>3, <1>5, <1>7, ContactNotes
  <2>2. Onward(s) = "drop ask" /\ owner = You(s)
    BY <1>7, <2>1 DEF Leading, Goes, owner, At
  <2>3. owner # Me(s)
    BY <1>2, <2>2 DEF Paired
  <2> QED
    BY <1>8, <1>1, <2>1, <2>2, <2>3 DEF m, PutsBond
<1> QED
  BY <1>1, <1>2, <1>6, <1>7, <1>8

\* The record of a request dropped, or found gone.
DropsAsk(s, x, y, p) ==
  /\ Paired(s) /\ Waits(s) /\ Now(s) = x
  /\ mem[s].key \in askRecords[p] => Goes(s, x, y) /\ Remembers(s) /\ loose' = loose
  /\ mem[s].key \notin askRecords[p] => Now(s)' = "done" /\ loose' = loose \cup HalfDone(s)
  /\ askRecords' = [askRecords EXCEPT ![p] = @ \ {mem[s].key}]
  /\ asksVoid' = IF mem[s].key \in askRecords[p] /\ x # "drop ask" THEN asksVoid \cup {mem[s].key}
                 ELSE asksVoid
  /\ UNCHANGED <<askRows, bondRecords, bondRows, barRecords, barRows, drawn, asksMade, asksGranted,
                 grounds, parted, halved, asksCrossed, overtaken>>

LEMMA DropAskMoves ==
  ASSUME ContactsShape, NEW s \in Slot, DropAsk(s)
  PROVE  /\ ContactsShape' /\ Me(s) \in Party /\ You(s) \in Party
         /\ \/ DropsAsk(s, "drop ask", "bond rows", You(s))
            \/ DropsAsk(s, "reject ask", "unask", You(s))
            \/ DropsAsk(s, "drop own ask", "own ask row", Me(s))
<1> DEFINE owner == IF At(s, "drop own ask") THEN Me(s) ELSE You(s)
           there == mem[s].key \in askRecords[owner]
           final == At(s, "drop ask")
<1>1. /\ At(s, "drop ask") \/ At(s, "reject ask") \/ At(s, "drop own ask")
      /\ IF there THEN Pass(s) ELSE Answer(s)
      /\ askRecords' = [askRecords EXCEPT ![owner] = @ \ {mem[s].key}]
      /\ asksVoid' = IF there /\ ~final THEN asksVoid \cup {mem[s].key} ELSE asksVoid
      /\ loose' = loose \cup (IF there THEN {} ELSE HalfDone(s))
      /\ UNCHANGED <<askRows, bondRecords, bondRows, barRecords, barRows, drawn, asksMade, asksGranted,
                     grounds, parted, halved, asksCrossed, overtaken>>
  BY DEF DropAsk, meetings, LeaveLoose
<1>20. Me(s) \in Party /\ You(s) \in Party
  BY <1>1, PairOf DEF At, Paired
<1>2. Paired(s) /\ todo[s] # <<>>
  BY <1>1, PairOf DEF At
<1>3. owner \in Party
  BY <1>2 DEF Paired
<1> HIDE DEF owner, final
<1>4. ContactsTypeOK'
  <2>1. askRecords' \in [Party -> SUBSET (1 .. drawn')]
    BY <1>1, <1>3, TablesTyped DEF ContactsShape
  <2>2. asksVoid' \subseteq 1 .. drawn'
    BY <1>1, <1>3, TablesTyped DEF ContactsShape
  <2>3. loose' \subseteq Entry
    BY <1>1, <1>2, HalvesTyped, TablesTyped DEF ContactsShape
  <2> QED
    BY <1>1, <2>1, <2>2, <2>3, TablesTyped, TablesStayTyped DEF ContactsShape
<1>5. ASSUME NEW x, At(s, x), there
      PROVE  /\ ContactsShape' /\ Leading(s) /\ Goes(s, x, Onward(s))
             /\ Onward(s) # "done" => Remembers(s)
  BY <1>1, <1>4, <1>5, ContactPasses
<1>6. ASSUME ~there PROVE ContactsShape' /\ Waits(s) /\ Now(s)' = "done"
  BY <1>1, <1>2, <1>4, <1>6, ContactAnswers
<1> HIDE DEF there
<1>7. ASSUME NEW x, NEW y, NEW p, At(s, x), p = owner, Leading(s) => Onward(s) = y, y # "done",
             final <=> x = "drop ask"
      PROVE  ContactsShape' /\ DropsAsk(s, x, y, p)
  <2>1. Now(s) = x
    BY <1>7 DEF At, Now
  <2>2. CASE there
    <3>1. /\ ContactsShape' /\ Goes(s, x, y) /\ Remembers(s) /\ Waits(s)
      BY <1>5, <1>7, <2>2 DEF Goes
    <3>2. loose' = loose
      BY <1>1, <2>2
    <3> QED
      BY <1>1, <1>2, <1>7, <2>1, <2>2, <3>1, <3>2 DEF DropsAsk, there
  <2>3. CASE ~there
    <3>1. loose' = loose \cup HalfDone(s)
      BY <1>1, <2>3
    <3> QED
      BY <1>1, <1>2, <1>6, <1>7, <2>1, <2>3, <3>1 DEF DropsAsk, there
  <2> QED
    BY <2>2, <2>3
<1>8. CASE At(s, "drop ask")
  <2>1. owner = You(s) /\ final
    BY <1>8 DEF owner, final, At
  <2>2. Leading(s) => Onward(s) = "bond rows"
    BY <1>8 DEF Leading, At, Now
  <2>3. "bond rows" # "done" /\ (final <=> "drop ask" = "drop ask")
    BY <2>1
  <2>4. ContactsShape' /\ DropsAsk(s, "drop ask", "bond rows", You(s))
    BY ONLY <1>7, <1>8, <2>1, <2>2, <2>3, Zenon
  <2> QED
    BY <1>20, <2>4
<1>9. CASE At(s, "reject ask")
  <2>1. owner = You(s) /\ ~final
    BY <1>9 DEF owner, final, At
  <2>2. Leading(s) => Onward(s) = "unask"
    BY <1>9 DEF Leading, At, Now
  <2>3. "unask" # "done" /\ (final <=> "reject ask" = "drop ask")
    BY <2>1
  <2>4. ContactsShape' /\ DropsAsk(s, "reject ask", "unask", You(s))
    BY ONLY <1>7, <1>9, <2>1, <2>2, <2>3, Zenon
  <2> QED
    BY <1>20, <2>4
<1>10. CASE At(s, "drop own ask")
  <2>1. owner = Me(s) /\ ~final
    BY <1>10 DEF owner, final, At
  <2>2. Leading(s) => Onward(s) = "own ask row"
    BY <1>10 DEF Leading, At, Now
  <2>3. "own ask row" # "done" /\ (final <=> "drop own ask" = "drop ask")
    BY <2>1
  <2>4. ContactsShape' /\ DropsAsk(s, "drop own ask", "own ask row", Me(s))
    BY ONLY <1>7, <1>10, <2>1, <2>2, <2>3, Zenon
  <2> QED
    BY <1>20, <2>4
<1> QED
  BY <1>1, <1>8, <1>9, <1>10, <1>20

NewBonds(s) == [p \in Party |-> IF p = Me(s) THEN mem[s].mine ELSE mem[s].theirs]
Taken == {p \in Party : bondRows[p] # 0}

LEMMA InsertBondsMoves ==
  ASSUME ContactsShape, NEW s \in Slot, InsertBonds(s)
  PROVE  /\ ContactsShape' /\ Goes(s, "bond rows", "unask") /\ Remembers(s)
         /\ bondRows' = [p \in Party |-> IF p \in Taken THEN bondRows[p] ELSE NewBonds(s)[p]]
         /\ grounds' = [p \in Party |-> IF p \in Taken THEN grounds[p] ELSE mem[s].key]
         /\ loose' = loose \cup {<<"bond", p, NewBonds(s)[p]>> : p \in Taken}
         /\ halved' = (halved \/ Taken \notin {{}, Party})
         /\ UNCHANGED <<askRecords, askRows, bondRecords, barRecords, barRows, drawn,
                        asksMade, asksGranted, asksVoid, parted, asksCrossed, overtaken>>
<1>1. /\ At(s, "bond rows") /\ Pass(s)
      /\ bondRows' = [p \in Party |-> IF p \in Taken THEN bondRows[p] ELSE NewBonds(s)[p]]
      /\ grounds' = [p \in Party |-> IF p \in Taken THEN grounds[p] ELSE mem[s].key]
      /\ loose' = loose \cup {<<"bond", p, NewBonds(s)[p]>> : p \in Taken}
      /\ halved' = (halved \/ Taken \notin {{}, Party})
      /\ UNCHANGED <<askRecords, askRows, bondRecords, barRecords, barRows, drawn,
                     asksMade, asksGranted, asksVoid, parted, asksCrossed, overtaken>>
  BY DEF InsertBonds, NewBonds, Taken, LeaveLoose, meetings
<1>2. Paired(s)
  BY <1>1, PairOf DEF At
<1>3. NewBonds(s) \in [Party -> 0 .. drawn] /\ Taken \subseteq Party
  BY <1>2 DEF NewBonds, Taken, Paired
<1>4. ContactsTypeOK'
  <2>1. bondRows' \in [Party -> 0 .. drawn']
    <3>1. \A p \in Party : (IF p \in Taken THEN bondRows[p] ELSE NewBonds(s)[p]) \in 0 .. drawn
      BY <1>3, TablesTyped DEF ContactsShape
    <3> QED
      BY <1>1, <3>1
  <2>2. grounds' \in [Party -> 0 .. drawn']
    <3>1. \A p \in Party : (IF p \in Taken THEN grounds[p] ELSE mem[s].key) \in 0 .. drawn
      BY <1>2, TablesTyped DEF ContactsShape, Paired
    <3> QED
      BY <1>1, <3>1
  <2>3. loose' \subseteq Entry
    <3>1. \A p \in Taken : <<"bond", p, NewBonds(s)[p]>> \in Entry
      BY <1>3, EntriesTyped
    <3>2. loose \subseteq Entry
      BY TablesTyped DEF ContactsShape
    <3> QED
      BY <1>1, <3>1, <3>2
  <2>4. halved' \in BOOLEAN
    BY <1>1
  <2> QED
    BY <1>1, <2>1, <2>2, <2>3, <2>4, TablesTyped, TablesStayTyped DEF ContactsShape
<1>5. /\ ContactsShape' /\ Leading(s) /\ Goes(s, "bond rows", Onward(s))
      /\ Onward(s) # "done" => Remembers(s)
  BY <1>1, <1>4, ContactPasses
<1>6. Onward(s) = "unask"
  BY <1>5 DEF Leading, Goes
<1> QED
  BY <1>1, <1>5, <1>6

\* The row of a request deleted, if it is still that request's.
DeletesAsk(s, x, p) ==
  /\ Goes(s, x, "done")
  /\ askRows' = [askRows EXCEPT ![p] = IF @ = mem[s].key THEN 0 ELSE @]
  /\ UNCHANGED <<askRecords, bondRecords, bondRows, barRecords, barRows, drawn, asksMade, asksGranted,
                 asksVoid, grounds, parted, loose, halved, asksCrossed, overtaken>>

LEMMA DeleteAskMoves ==
  ASSUME ContactsShape, NEW s \in Slot, DeleteAsk(s)
  PROVE  /\ ContactsShape' /\ Me(s) \in Party /\ You(s) \in Party
         /\ DeletesAsk(s, "unask", You(s)) \/ DeletesAsk(s, "own ask row", Me(s))
<1> DEFINE owner == IF At(s, "unask") THEN You(s) ELSE Me(s)
<1>1. /\ At(s, "unask") \/ At(s, "own ask row")
      /\ Pass(s)
      /\ askRows' = [askRows EXCEPT ![owner] = IF @ = mem[s].key THEN 0 ELSE @]
      /\ UNCHANGED <<askRecords, bondRecords, bondRows, barRecords, barRows, drawn, asksMade,
                     asksGranted, asksVoid, grounds, parted, loose, halved, asksCrossed, overtaken>>
  BY DEF DeleteAsk, agreement, meetings, contactPast
<1>7. Me(s) \in Party /\ You(s) \in Party
  BY <1>1, PairOf DEF At, Paired
<1>2. Paired(s)
  BY <1>1, PairOf DEF At
<1>3. owner \in Party
  BY <1>2 DEF Paired
<1> HIDE DEF owner
<1>4. ContactsTypeOK'
  <2>1. askRows' \in [Party -> 0 .. drawn']
    BY <1>1, <1>3, Zeros, TablesTyped DEF ContactsShape
  <2> QED
    BY <1>1, <2>1, TablesTyped, TablesStayTyped DEF ContactsShape
<1>5. CASE At(s, "unask")
  <2>1. ContactsShape' /\ Leading(s) /\ Goes(s, "unask", Onward(s))
    BY <1>1, <1>4, <1>5, ContactPasses
  <2>2. Onward(s) = "done" /\ owner = You(s)
    BY <1>5, <2>1 DEF Leading, Goes, owner
  <2> QED
    BY <1>7, <1>1, <2>1, <2>2 DEF DeletesAsk
<1>6. CASE At(s, "own ask row")
  <2>1. ContactsShape' /\ Leading(s) /\ Goes(s, "own ask row", Onward(s))
    BY <1>1, <1>4, <1>6, ContactPasses
  <2>2. Onward(s) = "done" /\ owner = Me(s)
    BY <1>6, <2>1 DEF Leading, Goes, owner, At
  <2> QED
    BY <1>7, <1>1, <2>1, <2>2 DEF DeletesAsk
<1> QED
  BY <1>1, <1>5, <1>6, <1>7

(* Parting and blocking. *)

LEMMA ReadTheirBondMoves ==
  ASSUME ContactsShape, NEW s \in Slot, ReadTheirBond(s)
  PROVE  /\ ContactsShape' /\ Goes(s, "their bond", "drop bond")
         /\ mem'[s] = [mem[s] EXCEPT !.theirs = bondRows[You(s)]]
         /\ todo'[s] = Brief => bondRows[You(s)] = 0
         /\ UNCHANGED <<contactTables, contactPast>>
<1> DEFINE theirs == bondRows[You(s)]
           steps == IF theirs # 0 THEN Tail(todo[s]) ELSE <<"drop bond", "unbond">>
           m == [mem[s] EXCEPT !.theirs = theirs]
<1>1. /\ At(s, "their bond") /\ Turn(s, steps, m)
      /\ UNCHANGED <<contactTables, contactPast>>
  BY DEF ReadTheirBond
<1>2. /\ todo[s] # <<>> /\ todo[s] \in ContactCourse /\ mem[s] \in LetterRecord /\ Paired(s)
      /\ Now(s) = "their bond"
  BY <1>1, PairOf, NowAt DEF ContactsShape, Lettered, At
<1>3. Leading(s) /\ Tail(todo[s]) \in ContactCourse
  BY <1>2, ContactCourses
<1>4. Onward(s) = "drop bond" /\ Tail(todo[s]) # Brief
  BY <1>2, <1>3 DEF Leading
<1>5. Tail(todo[s]) # <<>> /\ Head(Tail(todo[s])) = "drop bond"
  BY <1>4 DEF Onward
<1>6. <<"drop bond", "unbond">> \in ContactCourse
  BY DEF ContactCourse
<1>7. <<"drop bond", "unbond">> # <<>> /\ Head(<<"drop bond", "unbond">>) = "drop bond"
  BY RunHeads, Zenon
<1>8. steps \in ContactCourse /\ steps # <<>> /\ Head(steps) = "drop bond"
  BY <1>3, <1>5, <1>6, <1>7
<1>9. steps = Brief => theirs = 0
  BY <1>4
<1>10. theirs \in 0 .. drawn
  BY <1>2, TablesTyped DEF ContactsShape, Paired
<1>11. drawn' = drawn /\ ContactsTypeOK'
  <2>1. UNCHANGED <<askRecords, askRows, bondRecords, bondRows, barRecords, barRows, drawn, asksMade,
                    asksGranted, asksVoid, grounds, parted, loose, halved, asksCrossed, overtaken>>
    BY <1>1 DEF contactTables, contactPast, agreement, meetings
  <2> QED
    BY <2>1, TablesTyped, TablesStayTyped DEF ContactsShape
<1>12. m \in LetterRecord' /\ m.me = Me(s)
  BY <1>2, <1>10, <1>11, LetterNotes, TablesTyped DEF ContactsShape, Me
<1> HIDE DEF steps, m
<1>13. /\ DOMAIN todo' = Slot /\ DOMAIN mem' = Slot /\ OthersWait(s)
       /\ todo'[s] = steps /\ mem'[s] = m
  BY <1>1, <1>8, ContactTurns
<1>14. Lettered(s)'
  BY <1>8, <1>12, <1>13 DEF Lettered
<1>15. ContactsShape' /\ Waits(s)
  BY <1>11, <1>13, <1>14, WaitsOthers, ShapeStays
<1>16. Now(s)' = "drop bond" /\ Me(s)' = Me(s) /\ You(s)' = You(s)
  BY <1>8, <1>12, <1>13 DEF Now, Me, You
<1> QED
  BY <1>1, <1>2, <1>9, <1>13, <1>15, <1>16 DEF Goes, m

LEMMA DropBondMoves ==
  ASSUME ContactsShape, NEW s \in Slot, DropBond(s)
  PROVE  /\ ContactsShape' /\ Paired(s) /\ Waits(s) /\ Now(s) = "drop bond"
         /\ mem[s].key \in bondRecords[Me(s)] =>
              /\ Remembers(s)
              /\ Goes(s, "drop bond", IF todo[s] = Brief THEN "unbond" ELSE "drop their bond")
         /\ mem[s].key \notin bondRecords[Me(s)] => Now(s)' = "done"
         /\ bondRecords' = [bondRecords EXCEPT ![Me(s)] = @ \ {mem[s].key}]
         /\ UNCHANGED <<askRecords, askRows, bondRows, barRecords, barRows, drawn, contactPast>>
<1> DEFINE there == mem[s].key \in bondRecords[Me(s)]
<1>1. /\ At(s, "drop bond") /\ IF there THEN Pass(s) ELSE Answer(s)
      /\ bondRecords' = [bondRecords EXCEPT ![Me(s)] = @ \ {mem[s].key}]
      /\ UNCHANGED <<askRecords, askRows, bondRows, barRecords, barRows, drawn, contactPast>>
  BY DEF DropBond
<1>2. Paired(s) /\ todo[s] # <<>> /\ Now(s) = "drop bond"
  BY <1>1, PairOf DEF At, Now
<1>3. ContactsTypeOK'
  <2>1. bondRecords' \in [Party -> SUBSET (1 .. drawn')]
    BY <1>1, <1>2, TablesTyped DEF ContactsShape, Paired
  <2>2. UNCHANGED <<asksMade, asksGranted, asksVoid, grounds, parted, loose, halved, asksCrossed, overtaken>>
    BY <1>1 DEF contactPast, agreement, meetings
  <2> QED
    BY <1>1, <2>1, <2>2, TablesTyped, TablesStayTyped DEF ContactsShape
<1>4. CASE there
  <2>1. /\ ContactsShape' /\ Leading(s) /\ Goes(s, "drop bond", Onward(s))
        /\ Onward(s) # "done" => Remembers(s)
    BY <1>1, <1>3, <1>4, ContactPasses
  <2>2. Onward(s) = IF todo[s] = Brief THEN "unbond" ELSE "drop their bond"
    BY <1>2, <2>1 DEF Leading
  <2> QED
    BY <1>1, <1>2, <1>4, <2>1, <2>2 DEF Goes
<1>5. CASE ~there
  BY <1>1, <1>2, <1>3, <1>5, ContactAnswers
<1> QED
  BY <1>4, <1>5

LEMMA DropBarMoves ==
  ASSUME ContactsShape, NEW s \in Slot, DropBar(s)
  PROVE  /\ ContactsShape' /\ Paired(s) /\ Waits(s) /\ Now(s) = "drop bar"
         /\ mem[s].key \in barRecords[Me(s)] => Goes(s, "drop bar", "unbar") /\ Remembers(s)
         /\ mem[s].key \notin barRecords[Me(s)] => Now(s)' = "done"
         /\ barRecords' = [barRecords EXCEPT ![Me(s)] = @ \ {mem[s].key}]
         /\ UNCHANGED <<askRecords, askRows, bondRecords, bondRows, barRows, drawn, contactPast>>
<1> DEFINE there == mem[s].key \in barRecords[Me(s)]
<1>1. /\ At(s, "drop bar") /\ IF there THEN Pass(s) ELSE Answer(s)
      /\ barRecords' = [barRecords EXCEPT ![Me(s)] = @ \ {mem[s].key}]
      /\ UNCHANGED <<askRecords, askRows, bondRecords, bondRows, barRows, drawn, contactPast>>
  BY DEF DropBar
<1>2. Paired(s) /\ todo[s] # <<>> /\ Now(s) = "drop bar"
  BY <1>1, PairOf DEF At, Now
<1>3. ContactsTypeOK'
  <2>1. barRecords' \in [Party -> SUBSET (1 .. drawn')]
    BY <1>1, <1>2, TablesTyped DEF ContactsShape, Paired
  <2>2. UNCHANGED <<asksMade, asksGranted, asksVoid, grounds, parted, loose, halved, asksCrossed, overtaken>>
    BY <1>1 DEF contactPast, agreement, meetings
  <2> QED
    BY <1>1, <2>1, <2>2, TablesTyped, TablesStayTyped DEF ContactsShape
<1>4. CASE there
  <2>1. /\ ContactsShape' /\ Leading(s) /\ Goes(s, "drop bar", Onward(s))
        /\ Onward(s) # "done" => Remembers(s)
    BY <1>1, <1>3, <1>4, ContactPasses
  <2>2. Onward(s) = "unbar"
    BY <1>2, <2>1 DEF Leading
  <2> QED
    BY <1>1, <1>2, <1>4, <2>1, <2>2 DEF Goes
<1>5. CASE ~there
  BY <1>1, <1>2, <1>3, <1>5, ContactAnswers
<1> QED
  BY <1>4, <1>5

\* A row of contacts deleted, whichever it is by now.
DeletesBond(s, x, y, p, read) ==
  /\ Goes(s, x, y) /\ (y # "done" => Remembers(s))
  /\ bondRows' = [bondRows EXCEPT ![p] = 0]
  /\ grounds' = [grounds EXCEPT ![p] = 0]
  /\ parted' = [parted EXCEPT ![p] = @ \cup ({grounds[p]} \ {0})]
  /\ loose' = loose \cup Stray("bond", p, bondRows[p], read)
  /\ halved' = (halved \/ bondRows[p] \notin {0, read})
  /\ UNCHANGED <<askRecords, askRows, bondRecords, barRecords, barRows, drawn,
                 asksMade, asksGranted, asksVoid, asksCrossed, overtaken>>

LEMMA DeleteBondMoves ==
  ASSUME ContactsShape, NEW s \in Slot, DeleteBond(s)
  PROVE  /\ ContactsShape'
         /\ \/ DeletesBond(s, "unbond theirs", "unbond", You(s), mem[s].theirs)
            \/ DeletesBond(s, "unbond", "done", Me(s), mem[s].key)
<1> DEFINE owner == IF At(s, "unbond") THEN Me(s) ELSE You(s)
           read == IF At(s, "unbond") THEN mem[s].key ELSE mem[s].theirs
<1>1. /\ At(s, "unbond") \/ At(s, "unbond theirs")
      /\ Pass(s)
      /\ bondRows' = [bondRows EXCEPT ![owner] = 0]
      /\ grounds' = [grounds EXCEPT ![owner] = 0]
      /\ parted' = [parted EXCEPT ![owner] = @ \cup ({grounds[owner]} \ {0})]
      /\ halved' = (halved \/ bondRows[owner] \notin {0, read})
      /\ UNCHANGED <<askRecords, askRows, bondRecords, barRecords, barRows, drawn,
                     asksMade, asksGranted, asksVoid, asksCrossed, overtaken>>
  BY DEF DeleteBond, meetings
<1>2. loose' = loose \cup Stray("bond", owner, bondRows[owner], read)
  BY DEF DeleteBond, LeaveLoose
<1>3. Paired(s)
  BY <1>1, PairOf DEF At
<1>4. owner \in Party
  BY <1>3 DEF Paired
<1> HIDE DEF owner, read
<1>5. ContactsTypeOK'
  <2>1. bondRows' \in [Party -> 0 .. drawn'] /\ grounds' \in [Party -> 0 .. drawn']
    BY <1>1, <1>4, Zeros, TablesTyped DEF ContactsShape
  <2>2. parted' \in [Party -> SUBSET (1 .. drawn')]
    <3>1. parted[owner] \cup ({grounds[owner]} \ {0}) \in SUBSET (1 .. drawn)
      BY <1>4, Zeros, TablesTyped DEF ContactsShape
    <3> QED
      BY <1>1, <3>1, TablesTyped DEF ContactsShape
  <2>3. loose' \subseteq Entry
    <3>1. Stray("bond", owner, bondRows[owner], read) \subseteq Entry
      BY <1>4, StraysTyped DEF ContactsShape
    <3> QED
      BY <1>2, <3>1, TablesTyped DEF ContactsShape
  <2>4. halved' \in BOOLEAN
    BY <1>1
  <2> QED
    BY <1>1, <2>1, <2>2, <2>3, <2>4, TablesTyped, TablesStayTyped DEF ContactsShape
<1>6. CASE At(s, "unbond theirs")
  <2>1. /\ ContactsShape' /\ Leading(s) /\ Goes(s, "unbond theirs", Onward(s))
        /\ Onward(s) # "done" => Remembers(s)
    BY <1>1, <1>5, <1>6, ContactPasses
  <2>2. Onward(s) = "unbond" /\ owner = You(s) /\ read = mem[s].theirs
    BY <1>6, <2>1 DEF Leading, Goes, owner, read, At
  <2> QED
    BY <1>1, <1>2, <2>1, <2>2 DEF DeletesBond
<1>7. CASE At(s, "unbond")
  <2>1. ContactsShape' /\ Leading(s) /\ Goes(s, "unbond", Onward(s))
    BY <1>1, <1>5, <1>7, ContactPasses
  <2>2. Onward(s) = "done" /\ owner = Me(s) /\ read = mem[s].key
    BY <1>7, <2>1 DEF Leading, Goes, owner, read
  <2> QED
    BY <1>1, <1>2, <2>1, <2>2 DEF DeletesBond
<1> QED
  BY <1>1, <1>6, <1>7

LEMMA ReadAsksMoves ==
  ASSUME ContactsShape, NEW s \in Slot, ReadAsks(s)
  PROVE  /\ ContactsShape' /\ Goes(s, "read asks", "drop asks")
         /\ mem'[s] = [mem[s] EXCEPT !.mine = askRows[Me(s)], !.theirs = askRows[You(s)]]
         /\ UNCHANGED <<contactTables, contactPast>>
<1> DEFINE m == [mem[s] EXCEPT !.mine = askRows[Me(s)], !.theirs = askRows[You(s)]]
<1>1. /\ At(s, "read asks") /\ Note(s, m) /\ UNCHANGED <<contactTables, contactPast>>
  BY DEF ReadAsks
<1>2. mem[s] \in LetterRecord /\ Paired(s)
  BY <1>1, PairOf DEF At
<1>3. UNCHANGED <<askRecords, askRows, bondRecords, bondRows, barRecords, barRows, drawn, asksMade,
                  asksGranted, asksVoid, grounds, parted, loose, halved, asksCrossed, overtaken>>
  BY <1>1 DEF contactTables, contactPast, agreement, meetings
<1>4. ContactsTypeOK'
  BY <1>3, TablesTyped, TablesStayTyped DEF ContactsShape
<1>5. m \in LetterRecord' /\ m.me = Me(s)
  <2>1. askRows[Me(s)] \in 0 .. drawn /\ askRows[You(s)] \in 0 .. drawn
    BY <1>2, TablesTyped DEF ContactsShape, Paired
  <2> QED
    BY <1>2, <1>3, <2>1 DEF LetterRecord, Me
<1> HIDE DEF m
<1>6. /\ ContactsShape' /\ Leading(s) /\ Goes(s, "read asks", Onward(s))
      /\ Onward(s) # "done" => mem'[s] = m
  BY <1>1, <1>3, <1>4, <1>5, ContactNotes
<1>7. Onward(s) = "drop asks"
  BY <1>6 DEF Leading, Goes
<1> QED
  BY <1>1, <1>6, <1>7 DEF m

LEMMA ContactFailsMoves ==
  ASSUME ContactsShape, NEW s \in Slot, ContactFails(s)
  PROVE  /\ ContactsShape' /\ Paired(s) /\ Waits(s) /\ Now(s)' = "done"
         /\ loose' = loose \cup HalfDone(s)
         /\ halved' = (halved \/ Now(s) = "unbond")
         /\ UNCHANGED <<askRecords, askRows, bondRecords, bondRows, barRecords, barRows, drawn, asksMade,
                        asksGranted, asksVoid, grounds, parted, asksCrossed, overtaken>>
<1>1. /\ todo[s] # <<>> /\ Answer(s) /\ loose' = loose \cup HalfDone(s)
      /\ halved' = (halved \/ At(s, "unbond"))
      /\ UNCHANGED <<askRecords, askRows, bondRecords, bondRows, barRecords, barRows, drawn, asksMade,
                     asksGranted, asksVoid, grounds, parted, asksCrossed, overtaken>>
  BY DEF ContactFails, contactTables, agreement, meetings, LeaveLoose
<1>2. ContactsTypeOK'
  <2>1. loose' \subseteq Entry
    BY <1>1, HalvesTyped, TablesTyped DEF ContactsShape
  <2> QED
    BY <1>1, <2>1, TablesTyped, TablesStayTyped DEF ContactsShape
<1>3. At(s, "unbond") <=> Now(s) = "unbond"
  BY <1>1 DEF At, Now
<1> QED
  BY <1>1, <1>2, <1>3, ContactAnswers

-----------------------------------------------------------------------------
(* Whose each request is, and what rests on it. *)
\* Whose each request for contact is, and that its record goes before a contact
\* rests on it: a record is of its own person, neither void nor spent.
AskBooks ==
  /\ \A p \in Party :
       /\ askRecords[p] \subseteq asksMade[p] \ asksVoid
       /\ askRows[p] \in asksMade[p] \cup {0}
       /\ asksMade[p] \cap asksMade[Other(p)] = {}
       /\ \A q \in Party : askRecords[p] \cap parted[q] = {} /\ grounds[q] \notin askRecords[p]
  /\ ContactsAreAgreed

Unspent(key) ==
  /\ key \notin asksVoid
  /\ \A p \in Party : key \notin askRecords[p] /\ key \notin parted[p] /\ key # grounds[p]

Accepting == {"put bond", "put their bond", "drop ask", "bond rows"}

AskHeld(s) ==
  /\ Now(s) = "ask row" => mem[s].key \in asksMade[Me(s)]
  /\ Now(s) \in Accepting => mem[s].key \in asksGranted[Me(s)]
  /\ Now(s) \in Accepting \cup {"unask"} => mem[s].key \in asksMade[You(s)]
  /\ Now(s) = "reject ask" => mem[s].key \in asksMade[You(s)]
  /\ Now(s) = "bond rows" => Unspent(mem[s].key)

AsksSound ==
  /\ AskBooks /\ \A s \in Slot : AskHeld(s)
  /\ \A s, t \in Slot :
       s # t /\ Now(s) = "bond rows" /\ Now(t) = "bond rows" => mem[s].key # mem[t].key

\* What a statement may do to the books of requests.
BooksMove(s) ==
  /\ drawn \in Nat
  /\ \A k \in asksVoid' : k \in asksVoid \/ \E q \in Party : k \in askRecords[q]
  /\ \A p \in Party :
       /\ asksMade[p] \subseteq asksMade'[p] /\ asksGranted[p] \subseteq asksGranted'[p]
       /\ askRecords'[p] \subseteq askRecords[p] \cup {drawn + 1}
       /\ parted'[p] \subseteq parted[p] \cup {grounds[p]}
       /\ \/ grounds'[p] \in {grounds[p], 0}
          \/ grounds'[p] = mem[s].key /\ Now(s) = "bond rows"

BooksStay ==
  UNCHANGED <<askRecords, askRows, bondRows, asksMade, asksGranted, asksVoid, grounds, parted>>

LEMMA BooksStayKept ==
  ASSUME ContactsShape, NEW s \in Slot, AskBooks, BooksStay
  PROVE  AskBooks' /\ BooksMove(s)
<1>1. AskBooks'
  BY DEF AskBooks, BooksStay, ContactsAreAgreed
<1>2. BooksMove(s)
  BY TablesTyped DEF BooksMove, BooksStay, ContactsShape
<1> QED
  BY <1>1, <1>2

LEMMA OthersHold ==
  ASSUME ContactsShape, AsksSound, NEW s \in Slot, Waits(s), BooksMove(s),
         NEW t \in Slot, t # s
  PROVE  AskHeld(t)'
<1>1. /\ mem'[t] = mem[t] /\ Now(t)' = Now(t) /\ Me(t)' = Me(t) /\ You(t)' = You(t)
  BY DEF Waits
<1>2. AskHeld(t) /\ (Now(t) # "done" => Paired(t))
  BY NowAt, PairOf DEF AsksSound
<1>3. \A p \in Party : asksMade[p] \subseteq asksMade'[p] /\ asksGranted[p] \subseteq asksGranted'[p]
  BY DEF BooksMove
<1>4. ASSUME Now(t) = "bond rows" PROVE Unspent(mem[t].key)'
  <2> DEFINE k == mem[t].key
  <2>1. k \in 1 .. drawn /\ k # 0 /\ k # drawn + 1
    <3>1. k \in asksMade[You(t)] /\ You(t) \in Party
      BY <1>2, <1>4 DEF AskHeld, Accepting, Paired
    <3> QED
      BY <3>1, TablesTyped DEF ContactsShape
  <2>2. /\ k \notin asksVoid
        /\ \A p \in Party : k \notin askRecords[p] /\ k \notin parted[p] /\ k # grounds[p]
    BY <1>2, <1>4 DEF AskHeld, Unspent
  <2>3. Now(s) = "bond rows" => mem[s].key # k
    BY <1>4 DEF AsksSound
  <2>4. k \notin asksVoid'
    BY <2>2 DEF BooksMove
  <2>5. ASSUME NEW p \in Party PROVE k \notin askRecords'[p] /\ k \notin parted'[p] /\ k # grounds'[p]
    BY <2>1, <2>2, <2>3 DEF BooksMove
  <2> QED
    BY <1>1, <2>4, <2>5 DEF Unspent
<1> QED
  BY <1>1, <1>2, <1>3, <1>4 DEF AskHeld, Accepting, Paired

\* A request that is no acceptance at its last statement spends none.
LEMMA AsksHeldOn ==
  ASSUME ContactsShape, AsksSound, NEW s \in Slot, Waits(s), BooksMove(s), AskBooks', AskHeld(s)',
         Now(s)' = "bond rows" => \A t \in Slot \ {s} : Now(t) = "bond rows" => mem[t].key # mem'[s].key
  PROVE  AsksSound'
<1>1. \A t \in Slot : AskHeld(t)'
  BY OthersHold
<1>2. ASSUME NEW t \in Slot, NEW u \in Slot, t # u, Now(t)' = "bond rows", Now(u)' = "bond rows"
      PROVE  mem'[t].key # mem'[u].key
  BY <1>2 DEF AsksSound, Waits
<1> QED
  BY <1>1, <1>2 DEF AsksSound

Distant == {"done", "put ask", "drop own ask", "own ask row", "their bond", "drop bond", "drop their bond",
            "unbond theirs", "unbond", "bar row", "drop bar", "unbar"} \cup Barrers

LEMMA DistantHeld ==
  ASSUME NEW s \in Slot, Now(s)' \in Distant
  PROVE  AskHeld(s)' /\ Now(s)' # "bond rows"
BY DEF Distant, Barrers, AskHeld, Accepting

\* Whoever is elsewhere leaves the books alone.
LEMMA DistantAsks ==
  ASSUME ContactsShape, AsksSound, NEW s \in Slot, Waits(s), BooksStay, Now(s)' \in Distant
  PROVE  AsksSound'
<1>1. AskBooks' /\ BooksMove(s)
  BY BooksStayKept DEF AsksSound
<1> QED
  BY <1>1, DistantHeld, AsksHeldOn

LEMMA AcceptAsks ==
  ASSUME ContactsShape, AsksSound, NEW s \in Slot, NEW p \in Party, Accept(s, p)
  PROVE  AsksSound'
<1>1. /\ Starts(s, p, "put bond") /\ mem'[s].key = askRows[Other(p)] /\ askRows[Other(p)] # 0
      /\ asksGranted' = [asksGranted EXCEPT ![p] = @ \cup {askRows[Other(p)]}]
      /\ UNCHANGED <<askRecords, askRows, bondRows, asksMade, asksVoid, grounds, parted>>
  BY AcceptMoves DEF Accept
<1>2. Other(p) \in Party /\ p # Other(p)
  BY TwoParties
<1>3. \A q \in Party : asksGranted[q] \subseteq asksGranted'[q]
  BY <1>1, TablesTyped DEF ContactsShape
<1>4. AskBooks' /\ BooksMove(s)
  <2>1. ContactsAreAgreed'
    <3> SUFFICES ASSUME NEW q \in Party, bondRows'[q] # 0
                 PROVE  /\ \E r \in Party : grounds'[q] \in asksMade'[r] /\ grounds'[q] \in asksGranted'[Other(r)]
                        /\ grounds'[q] \notin asksVoid' /\ grounds'[q] \notin parted'[q]
      BY DEF ContactsAreAgreed
    <3>1. PICK r \in Party : grounds[q] \in asksMade[r] /\ grounds[q] \in asksGranted[Other(r)]
      BY <1>1 DEF AsksSound, AskBooks, ContactsAreAgreed
    <3>2. Other(r) \in Party
      BY TwoParties
    <3>3. grounds[q] \notin asksVoid /\ grounds[q] \notin parted[q]
      BY <1>1 DEF AsksSound, AskBooks, ContactsAreAgreed
    <3> QED
      BY <1>1, <1>3, <3>1, <3>2, <3>3
  <2>2. AskBooks'
    BY <1>1, <2>1 DEF AsksSound, AskBooks
  <2>3. BooksMove(s)
    BY <1>1, <1>3, TablesTyped DEF BooksMove, ContactsShape
  <2> QED
    BY <2>2, <2>3
<1>5. AskHeld(s)' /\ Now(s)' # "bond rows"
  <2>1. mem'[s].key \in asksGranted'[Me(s)']
    BY <1>1, TablesTyped DEF Starts, ContactsShape
  <2>2. askRows[Other(p)] \in asksMade[Other(p)]
    BY <1>1, <1>2 DEF AsksSound, AskBooks
  <2>3. mem'[s].key \in asksMade'[You(s)']
    BY <1>1, <2>2 DEF Starts
  <2> QED
    BY <1>1, <2>1, <2>3 DEF AskHeld, Accepting, Starts
<1> QED
  BY <1>1, <1>4, <1>5, AsksHeldOn DEF Starts

LEMMA RejectAsks ==
  ASSUME ContactsShape, AsksSound, NEW s \in Slot, NEW p \in Party, RejectRequest(s, p)
  PROVE  AsksSound'
<1>1. /\ Starts(s, p, "reject ask") /\ mem'[s].key = askRows[Other(p)] /\ askRows[Other(p)] # 0
      /\ BooksStay
  BY RejectRequestMoves DEF RejectRequest, BooksStay
<1>2. AskBooks' /\ BooksMove(s)
  BY <1>1, BooksStayKept DEF AsksSound
<1>3. AskHeld(s)' /\ Now(s)' # "bond rows"
  <2>1. askRows[Other(p)] \in asksMade[Other(p)]
    BY <1>1, TwoParties DEF AsksSound, AskBooks
  <2>2. mem'[s].key \in asksMade'[You(s)']
    BY <1>1, <2>1 DEF Starts, BooksStay
  <2> QED
    BY <1>1, <2>2 DEF AskHeld, Accepting, Starts
<1> QED
  BY <1>1, <1>2, <1>3, AsksHeldOn DEF Starts

LEMMA PutAskAsks ==
  ASSUME ContactsShape, AsksSound, NEW s \in Slot, PutAsk(s)
  PROVE  AsksSound'
<1> DEFINE k == drawn + 1
<1>1. /\ Goes(s, "put ask", "ask row") /\ mem'[s] = [mem[s] EXCEPT !.key = k]
      /\ askRecords' = [askRecords EXCEPT ![Me(s)] = @ \cup {k}]
      /\ asksMade' = [asksMade EXCEPT ![Me(s)] = @ \cup {k}]
      /\ UNCHANGED <<askRows, bondRows, asksGranted, asksVoid, grounds, parted>>
  BY PutAskMoves
<1>2. Paired(s)
  BY <1>1 DEF Goes
<1>3. /\ k # 0 /\ k \notin asksVoid
      /\ \A q \in Party : k \notin askRecords[q] /\ k \notin asksMade[q] /\ k \notin parted[q] /\ k # grounds[q]
  BY TablesTyped, Further DEF ContactsShape
<1> HIDE DEF k
<1>0. UNCHANGED <<askRows, bondRows, asksGranted, asksVoid, grounds, parted>>
  BY <1>1
<1>4. \A q \in Party : /\ asksMade'[q] = IF q = Me(s) THEN asksMade[q] \cup {k} ELSE asksMade[q]
                       /\ askRecords'[q] = IF q = Me(s) THEN askRecords[q] \cup {k} ELSE askRecords[q]
  BY <1>1, <1>2, TablesTyped DEF ContactsShape
<1>5. AskBooks'
  <2>1. ASSUME NEW p \in Party
        PROVE  /\ askRecords'[p] \subseteq asksMade'[p] \ asksVoid'
               /\ askRows'[p] \in asksMade'[p] \cup {0}
               /\ asksMade'[p] \cap asksMade'[Other(p)] = {}
               /\ \A q \in Party : askRecords'[p] \cap parted'[q] = {} /\ grounds'[q] \notin askRecords'[p]
    <3>1. /\ askRecords[p] \subseteq asksMade[p] \ asksVoid
          /\ askRows[p] \in asksMade[p] \cup {0}
          /\ asksMade[p] \cap asksMade[Other(p)] = {}
          /\ \A q \in Party : askRecords[p] \cap parted[q] = {} /\ grounds[q] \notin askRecords[p]
      BY DEF AsksSound, AskBooks
    <3>2. Other(p) \in Party /\ Other(p) # p
      BY TwoParties
    <3>3. askRecords'[p] \subseteq asksMade'[p] \ asksVoid'
      BY <1>0, <1>3, <1>4, <3>1
    <3>4. askRows'[p] \in asksMade'[p] \cup {0}
      BY <1>0, <1>4, <3>1
    <3>5. asksMade'[p] \cap asksMade'[Other(p)] = {}
      <4>1. k \notin asksMade[p] /\ k \notin asksMade[Other(p)]
        BY <1>3, <3>2
      <4>2. asksMade'[p] = asksMade[p] \/ asksMade'[Other(p)] = asksMade[Other(p)]
        BY <1>4, <3>2
      <4> QED
        BY <1>4, <3>1, <3>2, <4>1, <4>2
    <3>6. ASSUME NEW q \in Party PROVE askRecords'[p] \cap parted'[q] = {} /\ grounds'[q] \notin askRecords'[p]
      BY <1>0, <1>3, <1>4, <3>1
    <3> QED
      BY <3>3, <3>4, <3>5, <3>6
  <2>2. ContactsAreAgreed'
    <3> SUFFICES ASSUME NEW q \in Party, bondRows'[q] # 0
                 PROVE  /\ \E r \in Party : grounds'[q] \in asksMade'[r] /\ grounds'[q] \in asksGranted'[Other(r)]
                        /\ grounds'[q] \notin asksVoid' /\ grounds'[q] \notin parted'[q]
      BY DEF ContactsAreAgreed
    <3>1. PICK r \in Party : grounds[q] \in asksMade[r] /\ grounds[q] \in asksGranted[Other(r)]
      BY <1>1 DEF AsksSound, AskBooks, ContactsAreAgreed
    <3>2. grounds[q] \notin asksVoid /\ grounds[q] \notin parted[q]
      BY <1>1 DEF AsksSound, AskBooks, ContactsAreAgreed
    <3> QED
      BY <1>0, <1>4, <3>1, <3>2
  <2> QED
    BY <2>1, <2>2 DEF AskBooks
<1>6. BooksMove(s)
  BY <1>1, <1>4, TablesTyped DEF BooksMove, ContactsShape, k
<1>7. AskHeld(s)' /\ Now(s)' # "bond rows"
  <2>1. mem'[s].key = k
    BY <1>1, <1>2, PairOf, NowAt DEF Goes, LetterRecord
  <2>2. k \in asksMade'[Me(s)']
    <3>1. Me(s)' = Me(s) /\ Me(s) \in Party
      BY <1>1, <1>2 DEF Goes, Paired
    <3>2. k \in asksMade'[Me(s)]
      BY <1>4, <3>1
    <3> QED
      BY <3>1, <3>2
  <2> QED
    BY <1>1, <2>1, <2>2 DEF AskHeld, Accepting, Goes
<1> QED
  BY <1>1, <1>5, <1>6, <1>7, AsksHeldOn DEF Goes

LEMMA InsertAskAsks ==
  ASSUME ContactsShape, AsksSound, NEW s \in Slot, InsertAsk(s)
  PROVE  AsksSound'
<1>1. /\ Goes(s, "ask row", "done")
      /\ askRows' = [askRows EXCEPT ![Me(s)] = IF @ = 0 THEN mem[s].key ELSE @]
      /\ UNCHANGED <<askRecords, bondRows, asksMade, asksGranted, asksVoid, grounds, parted>>
  BY InsertAskMoves
<1>2. mem[s].key \in asksMade[Me(s)]
  BY <1>1 DEF AsksSound, AskHeld, Goes
<1>3. \A q \in Party : askRows'[q] \in {askRows[q]} \/ (q = Me(s) /\ askRows'[q] = mem[s].key)
  BY <1>1, TablesTyped DEF ContactsShape
<1>4. AskBooks' /\ BooksMove(s)
  <2>1. ContactsAreAgreed'
    BY <1>1 DEF AsksSound, AskBooks, ContactsAreAgreed
  <2>2. AskBooks'
    BY <1>1, <1>2, <1>3, <2>1 DEF AsksSound, AskBooks
  <2>3. BooksMove(s)
    BY <1>1, TablesTyped DEF BooksMove, ContactsShape
  <2> QED
    BY <2>2, <2>3
<1> QED
  BY <1>1, <1>4, DistantHeld, AsksHeldOn DEF Goes, Distant

\* Rows deleted.
LEMMA DeletedAsks ==
  ASSUME ContactsShape, AsksSound, NEW s \in Slot, Waits(s), Now(s)' \in Distant,
         \A q \in Party : askRows'[q] \in {askRows[q], 0},
         UNCHANGED <<askRecords, bondRows, asksMade, asksGranted, asksVoid, grounds, parted>>
  PROVE  AsksSound'
<1>1. ContactsAreAgreed'
  BY DEF AsksSound, AskBooks, ContactsAreAgreed
<1>2. AskBooks'
  BY <1>1 DEF AsksSound, AskBooks
<1>3. BooksMove(s)
  BY TablesTyped DEF BooksMove, ContactsShape
<1> QED
  BY <1>2, <1>3, DistantHeld, AsksHeldOn

LEMMA PartedAsks ==
  ASSUME ContactsShape, AsksSound, NEW s \in Slot, Waits(s), Now(s)' \in Distant,
         \A q \in Party : \/ bondRows'[q] = bondRows[q] /\ grounds'[q] = grounds[q] /\ parted'[q] = parted[q]
                          \/ /\ bondRows'[q] = 0 /\ grounds'[q] = 0
                             /\ parted'[q] = parted[q] \cup ({grounds[q]} \ {0}),
         UNCHANGED <<askRecords, askRows, asksMade, asksGranted, asksVoid>>
  PROVE  AsksSound'
<1>0. \A q \in Party : 0 \notin askRecords[q]
  BY TablesTyped DEF ContactsShape
<1>1. ContactsAreAgreed'
  BY DEF AsksSound, AskBooks, ContactsAreAgreed
<1>2. AskBooks'
  <2>1. ASSUME NEW p \in Party, NEW q \in Party
        PROVE  askRecords[p] \cap parted'[q] = {} /\ grounds'[q] \notin askRecords[p]
    <3>1. askRecords[p] \cap parted[q] = {} /\ grounds[q] \notin askRecords[p]
      BY DEF AsksSound, AskBooks
    <3> QED
      BY <1>0, <3>1
  <2> QED
    BY <1>1, <2>1 DEF AsksSound, AskBooks
<1>3. BooksMove(s)
  BY TablesTyped DEF BooksMove, ContactsShape
<1> QED
  BY <1>2, <1>3, DistantHeld, AsksHeldOn

\* Records dropped, void but for an acceptance.
LEMMA DroppedBooks ==
  ASSUME ContactsShape, AsksSound, NEW s \in Slot,
         \A q \in Party : askRecords'[q] \subseteq askRecords[q],
         \A k \in asksVoid' : k \in asksVoid \/ \E q \in Party : k \in askRecords[q] \ askRecords'[q],
         UNCHANGED <<askRows, bondRows, asksMade, asksGranted, grounds, parted>>
  PROVE  AskBooks' /\ BooksMove(s)
<1>1. ASSUME NEW p \in Party, NEW q \in Party, NEW k \in askRecords[q] \ askRecords'[q]
      PROVE  k \notin askRecords'[p]
  <2>1. k \in asksMade[q] /\ \A r \in Party : askRecords'[r] \subseteq asksMade[r]
    BY DEF AsksSound, AskBooks
  <2>2. p = q \/ asksMade[p] \cap asksMade[q] = {}
    BY TwoParties DEF AsksSound, AskBooks
  <2> QED
    BY <2>1, <2>2
<1>2. \A p \in Party : askRecords'[p] \subseteq asksMade[p] \ asksVoid'
  BY <1>1 DEF AsksSound, AskBooks
<1>3. ContactsAreAgreed'
  <2> SUFFICES ASSUME NEW q \in Party, bondRows'[q] # 0 PROVE grounds[q] \notin asksVoid'
    BY DEF AsksSound, AskBooks, ContactsAreAgreed
  <2>1. grounds[q] \notin asksVoid /\ \A p \in Party : grounds[q] \notin askRecords[p]
    BY DEF AsksSound, AskBooks, ContactsAreAgreed
  <2> QED
    BY <2>1
<1>4. AskBooks'
  BY <1>2, <1>3 DEF AsksSound, AskBooks
<1>5. BooksMove(s)
  BY TablesTyped DEF BooksMove, ContactsShape
<1> QED
  BY <1>4, <1>5

LEMMA DropAskAsks ==
  ASSUME ContactsShape, AsksSound, NEW s \in Slot, DropAsk(s)
  PROVE  AsksSound'
<1>1. ASSUME NEW x, NEW y, NEW p, DropsAsk(s, x, y, p), p \in Party,
             \/ x = "drop ask" /\ y = "bond rows" /\ p = You(s)
             \/ x = "reject ask" /\ y = "unask" /\ p = You(s)
             \/ x = "drop own ask" /\ y = "own ask row"
      PROVE  AsksSound'
  <2> DEFINE k == mem[s].key
  <2>1. /\ Waits(s) /\ Paired(s) /\ Now(s) = x
        /\ k \in askRecords[p] => Goes(s, x, y) /\ Remembers(s)
        /\ k \notin askRecords[p] => Now(s)' = "done"
        /\ askRecords' = [askRecords EXCEPT ![p] = @ \ {k}]
        /\ asksVoid' = IF k \in askRecords[p] /\ x # "drop ask" THEN asksVoid \cup {k} ELSE asksVoid
        /\ UNCHANGED <<askRows, bondRows, asksMade, asksGranted, grounds, parted>>
    BY <1>1 DEF DropsAsk
  <2> HIDE DEF k
  <2>2. \A q \in Party : askRecords'[q] = IF q = p THEN askRecords[q] \ {k} ELSE askRecords[q]
    BY <2>1, TablesTyped DEF ContactsShape
  <2>3. AskBooks' /\ BooksMove(s)
    <3>1. \A q \in Party : askRecords'[q] \subseteq askRecords[q]
      BY <2>2
    <3>2. ASSUME NEW j \in asksVoid', j \notin asksVoid
          PROVE  \E q \in Party : j \in askRecords[q] \ askRecords'[q]
      <4>1. j = k /\ k \in askRecords[p]
        BY <2>1, <3>2
      <4>2. k \notin askRecords'[p]
        BY <1>1, <2>2
      <4> QED
        BY <1>1, <4>1, <4>2
    <3> QED
      BY <2>1, <3>1, <3>2, DroppedBooks
  <2>4. CASE k \notin askRecords[p] \/ x = "drop own ask"
    BY <1>1, <2>1, <2>3, <2>4, DistantHeld, AsksHeldOn DEF Distant, Goes
  <2>5. CASE k \in askRecords[p] /\ x = "reject ask"
    <3>1. Now(s)' = "unask" /\ mem'[s].key = k /\ You(s)' = You(s) /\ k \in asksMade[You(s)]
      BY <1>1, <2>1, <2>5 DEF Goes, Remembers, AsksSound, AskBooks, k
    <3>2. AskHeld(s)'
      BY <2>1, <3>1 DEF AskHeld, Accepting
    <3> QED
      BY <2>1, <2>3, <3>1, <3>2, AsksHeldOn
  <2>6. CASE k \in askRecords[p] /\ x = "drop ask"
    <3>1. /\ Now(s)' = "bond rows" /\ mem'[s].key = k /\ You(s)' = You(s) /\ Me(s)' = Me(s)
          /\ p = You(s) /\ asksVoid' = asksVoid
      BY <1>1, <2>1, <2>6 DEF Goes, Remembers, k
    <3>2. k \in asksMade[You(s)] /\ k \in asksGranted[Me(s)]
      BY <1>1, <2>1, <2>6 DEF AsksSound, AskHeld, Accepting, k
    <3>3. Unspent(k)'
      <4>0. p \in Party /\ k \in askRecords[p]
        BY <1>1, <2>6
      <4>1. k \notin asksVoid /\ \A q \in Party : k \notin parted[q] /\ k # grounds[q]
        <5>1. /\ askRecords[p] \subseteq asksMade[p] \ asksVoid
              /\ \A q \in Party : askRecords[p] \cap parted[q] = {} /\ grounds[q] \notin askRecords[p]
          BY <4>0 DEF AsksSound, AskBooks
        <5> QED
          BY <4>0, <5>1
      <4>2. ASSUME NEW q \in Party PROVE k \notin askRecords'[q]
        <5>1. CASE q = p
          BY <2>2, <5>1
        <5>2. CASE q # p
          <6>1. asksMade[p] \cap asksMade[q] = {} /\ askRecords[q] \subseteq asksMade[q] /\ k \in asksMade[p]
            BY <4>0, <5>2, TwoParties DEF AsksSound, AskBooks
          <6> QED
            BY <2>2, <5>2, <6>1
        <5> QED
          BY <5>1, <5>2
      <4>3. k' = k
        BY <3>1 DEF k
      <4> QED
        BY <2>1, <3>1, <4>1, <4>2, <4>3 DEF Unspent
    <3>4. AskHeld(s)'
      BY <2>1, <3>1, <3>2, <3>3 DEF AskHeld, Accepting, k
    <3>5. \A t \in Slot \ {s} : Now(t) = "bond rows" => mem[t].key # k
      BY <1>1, <2>6 DEF AsksSound, AskHeld, Unspent
    <3> QED
      BY <2>1, <2>3, <3>1, <3>4, <3>5, AsksHeldOn
  <2> QED
    BY <1>1, <2>4, <2>5, <2>6
<1>2. Paired(s)
  BY DropAskMoves DEF DropsAsk
<1>3. Me(s) \in Party /\ You(s) \in Party
  BY <1>2 DEF Paired
<1> QED
  BY <1>1, <1>3, DropAskMoves

LEMMA DropAsksAsks ==
  ASSUME ContactsShape, AsksSound, NEW s \in Slot, DropAsks(s)
  PROVE  AsksSound'
<1>1. /\ Goes(s, "drop asks", "unask both")
      /\ askRecords' = [p \in Party |-> askRecords[p] \ {Pair(s)[p]}]
      /\ asksVoid' = asksVoid \cup UNION {askRecords[p] \cap {Pair(s)[p]} : p \in Party}
      /\ UNCHANGED <<askRows, bondRows, asksMade, asksGranted, grounds, parted>>
  BY DropAsksMoves
<1>2. \A q \in Party : askRecords'[q] = askRecords[q] \ {Pair(s)[q]}
  BY <1>1
<1>3. ASSUME NEW k \in asksVoid' PROVE k \in asksVoid \/ \E q \in Party : k \in askRecords[q] \ askRecords'[q]
  <2>1. CASE k \in asksVoid
    BY <2>1
  <2>2. CASE k \notin asksVoid
    <3>1. PICK q \in Party : k \in askRecords[q] /\ k = Pair(s)[q]
      BY <1>1, <2>2
    <3>2. k \notin askRecords'[q]
      BY <1>2, <3>1
    <3> QED
      BY <3>1, <3>2
  <2> QED
    BY <2>1, <2>2
<1>4. AskBooks' /\ BooksMove(s)
  BY <1>1, <1>2, <1>3, DroppedBooks
<1> QED
  BY <1>1, <1>4, DistantHeld, AsksHeldOn DEF Distant, Barrers, Goes

LEMMA PutBondAsks ==
  ASSUME ContactsShape, AsksSound, NEW s \in Slot, PutBond(s)
  PROVE  AsksSound'
<1>1. PICK x, y \in Accepting, p \in Party :
         PutsBond(s, x, y, p) /\ x \in Accepting /\ y # "bond rows"
  <2>1. {"put bond", "put their bond", "drop ask"} \subseteq Accepting
    BY DEF Accepting
  <2> QED
    BY <2>1, PutBondMoves
<1>2. Goes(s, x, y) /\ BooksStay
  BY <1>1 DEF PutsBond, BooksStay
<1>3. mem'[s].key = mem[s].key
  <2>1. mem[s] \in LetterRecord
    BY <1>2, PairOf, NowAt DEF Goes, Accepting, Now
  <2> QED
    BY <1>1, <2>1 DEF PutsBond, LetterRecord
<1>4. AskBooks' /\ BooksMove(s)
  BY <1>2, BooksStayKept DEF AsksSound
<1>5. AskHeld(s)'
  <2>1. mem[s].key \in asksGranted[Me(s)] /\ mem[s].key \in asksMade[You(s)]
    BY <1>1, <1>2 DEF Goes, AsksSound, AskHeld
  <2>2. y # "done"
    BY DEF Accepting
  <2> QED
    BY <1>1, <1>2, <1>3, <2>1, <2>2 DEF Goes, BooksStay, AskHeld, Accepting
<1> QED
  BY <1>1, <1>2, <1>4, <1>5, AsksHeldOn DEF Goes

LEMMA InsertBondsAsks ==
  ASSUME ContactsShape, AsksSound, NEW s \in Slot, InsertBonds(s)
  PROVE  AsksSound'
<1> DEFINE k == mem[s].key
<1>1. /\ Goes(s, "bond rows", "unask") /\ Remembers(s)
      /\ bondRows' = [p \in Party |-> IF p \in Taken THEN bondRows[p] ELSE NewBonds(s)[p]]
      /\ grounds' = [p \in Party |-> IF p \in Taken THEN grounds[p] ELSE k]
      /\ UNCHANGED <<askRecords, askRows, asksMade, asksGranted, asksVoid, parted>>
  BY InsertBondsMoves
<1>2. /\ k \in asksMade[You(s)] /\ k \in asksGranted[Me(s)] /\ Unspent(k) /\ Paired(s)
  BY <1>1 DEF Goes, AsksSound, AskHeld, Accepting
<1> HIDE DEF k
<1>3. ContactsAreAgreed'
  <2> SUFFICES ASSUME NEW q \in Party, bondRows'[q] # 0
               PROVE  /\ \E r \in Party : grounds'[q] \in asksMade[r] /\ grounds'[q] \in asksGranted[Other(r)]
                      /\ grounds'[q] \notin asksVoid /\ grounds'[q] \notin parted[q]
    BY <1>1 DEF ContactsAreAgreed
  <2>1. CASE q \in Taken
    BY <1>1, <2>1 DEF Taken, AsksSound, AskBooks, ContactsAreAgreed
  <2>2. CASE q \notin Taken
    BY <1>1, <1>2, <2>2 DEF Unspent, Paired
  <2> QED
    BY <2>1, <2>2
<1>4. \A q \in Party : grounds'[q] \in {grounds[q], k}
  BY <1>1
<1>5. AskBooks'
  <2>1. AskBooks
    BY DEF AsksSound
  <2> SUFFICES ASSUME NEW p \in Party
               PROVE  /\ askRecords[p] \subseteq asksMade[p] \ asksVoid /\ askRows[p] \in asksMade[p] \cup {0}
                      /\ asksMade[p] \cap asksMade[Other(p)] = {}
                      /\ \A q \in Party : askRecords[p] \cap parted[q] = {} /\ grounds'[q] \notin askRecords[p]
    BY <1>1, <1>3 DEF AskBooks
  <2>2. \A q \in Party : askRecords[p] \cap parted[q] = {} /\ grounds[q] \notin askRecords[p]
    BY <2>1 DEF AskBooks
  <2>3. k \notin askRecords[p]
    BY <1>2 DEF Unspent
  <2>4. \A q \in Party : grounds'[q] \notin askRecords[p]
    BY <1>4, <2>2, <2>3
  <2> QED
    BY <2>1, <2>2, <2>4 DEF AskBooks
<1>6. BooksMove(s)
  BY <1>1, <1>4, TablesTyped DEF BooksMove, ContactsShape, Goes, k
<1>7. AskHeld(s)' /\ Now(s)' # "bond rows"
  BY <1>1, <1>2 DEF Goes, Remembers, AskHeld, Accepting, k
<1> QED
  BY <1>1, <1>5, <1>6, <1>7, AsksHeldOn DEF Goes

LEMMA AsksKept ==
  ASSUME ContactsShape, AsksSound, [ContactsNext]_contactsVars
  PROVE  AsksSound'
<1>1. ASSUME NEW s \in Slot, NEW p \in Party, SendRequest(s, p) PROVE AsksSound'
  BY <1>1, SendRequestMoves, DistantAsks DEF SendRequest, Starts, BooksStay, Distant, Barrers
<1>2. ASSUME NEW s \in Slot, NEW p \in Party, WithdrawRequest(s, p) PROVE AsksSound'
  BY <1>2, WithdrawRequestMoves, DistantAsks DEF WithdrawRequest, Starts, BooksStay, Distant, Barrers
<1>3. ASSUME NEW s \in Slot, NEW p \in Party, Accept(s, p) PROVE AsksSound'
  BY <1>3, AcceptAsks
<1>4. ASSUME NEW s \in Slot, NEW p \in Party, RejectRequest(s, p) PROVE AsksSound'
  BY <1>4, RejectAsks
<1>5. ASSUME NEW s \in Slot, NEW p \in Party, RemoveContact(s, p) PROVE AsksSound'
  BY <1>5, RemoveContactMoves, DistantAsks DEF RemoveContact, Starts, BooksStay, Distant, Barrers
<1>6. ASSUME NEW s \in Slot, NEW p \in Party, BlockContact(s, p) PROVE AsksSound'
  BY <1>6, BlockContactMoves, DistantAsks DEF Starts, Goes, BooksStay, Distant, Barrers,
     contactTables, contactPast, agreement
<1>7. ASSUME NEW s \in Slot, NEW p \in Party, UnblockContact(s, p) PROVE AsksSound'
  BY <1>7, UnblockContactMoves, DistantAsks DEF UnblockContact, Starts, BooksStay, Distant, Barrers
<1>8. ASSUME NEW s \in Slot, PutAsk(s) PROVE AsksSound'
  BY <1>8, PutAskAsks
<1>9. ASSUME NEW s \in Slot, InsertAsk(s) PROVE AsksSound'
  BY <1>9, InsertAskAsks
<1>10. ASSUME NEW s \in Slot, DropAsk(s) PROVE AsksSound'
  BY <1>10, DropAskAsks
<1>11. ASSUME NEW s \in Slot, DeleteAsk(s) PROVE AsksSound'
  <2>1. PICK x \in {"unask", "own ask row"}, q \in Party : DeletesAsk(s, x, q)
    BY <1>11, DeleteAskMoves DEF DeletesAsk, Goes, Paired
  <2>2. \A r \in Party : askRows'[r] \in {askRows[r], 0}
    BY <2>1, TablesTyped DEF DeletesAsk, ContactsShape
  <2> QED
    BY <2>1, <2>2, DeletedAsks DEF DeletesAsk, Goes, Distant
<1>12. ASSUME NEW s \in Slot, PutBond(s) PROVE AsksSound'
  BY <1>12, PutBondAsks
<1>13. ASSUME NEW s \in Slot, InsertBonds(s) PROVE AsksSound'
  BY <1>13, InsertBondsAsks
<1>14. ASSUME NEW s \in Slot, ReadTheirBond(s) PROVE AsksSound'
  BY <1>14, ReadTheirBondMoves, DistantAsks DEF Starts, Goes, BooksStay, Distant, Barrers,
     contactTables, contactPast, agreement
<1>15. ASSUME NEW s \in Slot, DropBond(s) PROVE AsksSound'
  <2>1. Waits(s) /\ Now(s)' \in Distant /\ BooksStay
    BY <1>15, DropBondMoves DEF Goes, BooksStay, Distant, contactPast, agreement
  <2> QED
    BY <2>1, DistantAsks
<1>16. ASSUME NEW s \in Slot, DropTheirBond(s) PROVE AsksSound'
  BY <1>16, DropTheirBondMoves, DistantAsks DEF Starts, Goes, BooksStay, Distant, Barrers,
     contactTables, contactPast, agreement
<1>17. ASSUME NEW s \in Slot, DeleteBond(s) PROVE AsksSound'
  <2>1. PICK x \in {"unbond theirs", "unbond"}, y \in {"unbond", "done"}, q \in Party,
            read \in {mem[s].theirs, mem[s].key} : DeletesBond(s, x, y, q, read)
    BY <1>17, DeleteBondMoves DEF DeletesBond, Goes, Paired
  <2>2. \A r \in Party :
          \/ bondRows'[r] = bondRows[r] /\ grounds'[r] = grounds[r] /\ parted'[r] = parted[r]
          \/ /\ bondRows'[r] = 0 /\ grounds'[r] = 0
             /\ parted'[r] = parted[r] \cup ({grounds[r]} \ {0})
    BY <2>1, TablesTyped DEF DeletesBond, ContactsShape
  <2> QED
    BY <2>1, <2>2, PartedAsks DEF DeletesBond, Goes, Distant
<1>18. ASSUME NEW s \in Slot, DropBonds(s) PROVE AsksSound'
  BY <1>18, DropBondsMoves, DistantAsks DEF Starts, Goes, BooksStay, Distant, Barrers,
     contactTables, contactPast, agreement
<1>19. ASSUME NEW s \in Slot, DeleteBonds(s) PROVE AsksSound'
  BY <1>19, DeleteBondsMoves, PartedAsks DEF Goes, Distant, Barrers
<1>20. ASSUME NEW s \in Slot, ReadAsks(s) PROVE AsksSound'
  BY <1>20, ReadAsksMoves, DistantAsks DEF Starts, Goes, BooksStay, Distant, Barrers, contactTables,
     contactPast, agreement
<1>21. ASSUME NEW s \in Slot, DropAsks(s) PROVE AsksSound'
  BY <1>21, DropAsksAsks
<1>22. ASSUME NEW s \in Slot, DeleteAsks(s) PROVE AsksSound'
  BY <1>22, DeleteAsksMoves, DeletedAsks DEF Goes, Distant, Barrers
<1>23. ASSUME NEW s \in Slot, PutBar(s) PROVE AsksSound'
  BY <1>23, PutBarMoves, DistantAsks DEF Starts, Goes, BooksStay, Distant, Barrers, contactTables,
     contactPast, agreement
<1>24. ASSUME NEW s \in Slot, InsertBar(s) PROVE AsksSound'
  BY <1>24, InsertBarMoves, DistantAsks DEF Starts, Goes, BooksStay, Distant, Barrers,
     contactTables, contactPast, agreement
<1>25. ASSUME NEW s \in Slot, DropBar(s) PROVE AsksSound'
  <2>1. Waits(s) /\ Now(s)' \in Distant /\ BooksStay
    BY <1>25, DropBarMoves DEF Goes, BooksStay, Distant, contactPast, agreement
  <2> QED
    BY <2>1, DistantAsks
<1>26. ASSUME NEW s \in Slot, DeleteBar(s) PROVE AsksSound'
  BY <1>26, DeleteBarMoves, DistantAsks DEF Starts, Goes, BooksStay, Distant, Barrers,
     contactTables, contactPast, agreement
<1>27. ASSUME NEW s \in Slot, ContactFails(s) PROVE AsksSound'
  BY <1>27, ContactFailsMoves, DistantAsks DEF Starts, Goes, BooksStay, Distant, Barrers,
     contactTables, contactPast, agreement
<1>28. CASE UNCHANGED contactsVars
  <2>1. /\ BooksStay /\ mem' = mem
        /\ \A s \in Slot : Now(s)' = Now(s) /\ Me(s)' = Me(s) /\ You(s)' = You(s)
    BY <1>28 DEF contactsVars, requests, contactTables, contactPast, agreement, BooksStay, Now, Me, You
  <2>2. AskBooks'
    BY <2>1 DEF AsksSound, AskBooks, BooksStay, ContactsAreAgreed
  <2>3. ASSUME NEW s \in Slot PROVE AskHeld(s)'
    <3>1. Unspent(mem[s].key)' = Unspent(mem[s].key)
      BY <2>1 DEF Unspent, BooksStay
    <3> QED
      BY <2>1, <3>1 DEF AsksSound, AskHeld, BooksStay
  <2> QED
    BY <2>1, <2>2, <2>3 DEF AsksSound
<1> QED
  BY <1>1, <1>2, <1>3, <1>4, <1>5, <1>6, <1>7, <1>8, <1>9, <1>10, <1>11, <1>12, <1>13, <1>14,
     <1>15, <1>16, <1>17, <1>18, <1>19, <1>20, <1>21, <1>22, <1>23, <1>24, <1>25, <1>26, <1>27,
     <1>28 DEF ContactsNext

-----------------------------------------------------------------------------
(* Keys drawn and on their way into a row. *)

Drafts(s) ==
  (IF Now(s) \in {"ask row", "bar row"} THEN {mem[s].key} ELSE {})
  \cup (IF Now(s) \in {"put their bond", "drop ask", "bond rows"} THEN {mem[s].mine} ELSE {})
  \cup (IF Now(s) \in {"drop ask", "bond rows"} THEN {mem[s].theirs} ELSE {})

\* A request that does not know a key; a key in no row.
Unknown(key, s) ==
  Now(s) = "done" \/ (key # mem[s].key /\ key # mem[s].mine /\ key # mem[s].theirs)

Rowless(key) == \A p \in Party : key # askRows[p] /\ key # bondRows[p] /\ key # barRows[p]

\* A draft is in no row, nobody else's, and in the repository it was put in.
Draft(s) ==
  /\ \A d \in Drafts(s) : d # 0 /\ Rowless(d) /\ \A t \in Slot \ {s} : Unknown(d, t)
  /\ Now(s) = "ask row" => mem[s].key \in askRecords[Me(s)]
  /\ Now(s) = "bar row" => mem[s].key \in barRecords[Me(s)]
  /\ Now(s) \in {"put their bond", "drop ask", "bond rows"} => mem[s].mine \in bondRecords[Me(s)]
  /\ Now(s) \in {"drop ask", "bond rows"} => mem[s].theirs \in bondRecords[You(s)]

DraftsSound == \A s \in Slot : Draft(s)

\* What a statement leaves of a key that is neither known to it nor in a row.
DraftMove(s) ==
  \A d \in 1 .. drawn : Unknown(d, s) /\ Rowless(d) =>
    /\ Unknown(d, s)' /\ Rowless(d)'
    /\ \A p \in Party : /\ d \in askRecords[p] => d \in askRecords'[p]
                        /\ d \in bondRecords[p] => d \in bondRecords'[p]
                        /\ d \in barRecords[p] => d \in barRecords'[p]

LEMMA DraftTyped ==
  ASSUME ContactsShape, NEW t \in Slot, Draft(t), NEW d \in Drafts(t)
  PROVE  /\ d \in 1 .. drawn /\ Rowless(d) /\ Paired(t)
         /\ \A s \in Slot \ {t} : Unknown(d, s)
<1>1. Now(t) # "done"
  BY DEF Drafts
<1>2. Paired(t)
  BY <1>1, NowAt, PairOf
<1>3. d \in 0 .. drawn
  BY <1>2 DEF Drafts, Paired
<1> QED
  BY <1>2, <1>3, Zeros DEF Draft, ContactsShape

LEMMA OtherDrafts ==
  ASSUME ContactsShape, DraftsSound, NEW s \in Slot, Waits(s), DraftMove(s),
         NEW t \in Slot, t # s
  PROVE  Draft(t)'
<1>1. /\ mem'[t] = mem[t] /\ Now(t)' = Now(t) /\ Me(t)' = Me(t) /\ You(t)' = You(t)
  BY DEF Waits
<1>2. Drafts(t)' = Drafts(t)
  BY <1>1 DEF Drafts
<1>3. Draft(t)
  BY DEF DraftsSound
<1>4. ASSUME NEW d \in Drafts(t)
      PROVE  /\ d # 0 /\ Rowless(d)' /\ \A u \in Slot \ {t} : Unknown(d, u)'
             /\ \A p \in Party : /\ d \in askRecords[p] => d \in askRecords'[p]
                                 /\ d \in bondRecords[p] => d \in bondRecords'[p]
                                 /\ d \in barRecords[p] => d \in barRecords'[p]
  <2>1. d \in 1 .. drawn /\ Rowless(d) /\ \A u \in Slot \ {t} : Unknown(d, u)
    BY <1>3, DraftTyped
  <2>2. \A u \in Slot \ {t, s} : Unknown(d, u)'
    BY <2>1 DEF Unknown, Waits
  <2>3. d # 0
    BY <1>3 DEF Draft
  <2> QED
    BY <2>1, <2>2, <2>3 DEF DraftMove
<1>5. Now(t) # "done" => Me(t) \in Party /\ You(t) \in Party
  BY NowAt, PairOf DEF Paired
<1>6. /\ Now(t) = "ask row" => mem[t].key \in askRecords'[Me(t)]
      /\ Now(t) = "bar row" => mem[t].key \in barRecords'[Me(t)]
      /\ Now(t) \in {"put their bond", "drop ask", "bond rows"} => mem[t].mine \in bondRecords'[Me(t)]
      /\ Now(t) \in {"drop ask", "bond rows"} => mem[t].theirs \in bondRecords'[You(t)]
  <2>1. /\ Now(t) \in {"ask row", "bar row"} => mem[t].key \in Drafts(t)
        /\ Now(t) \in {"put their bond", "drop ask", "bond rows"} => mem[t].mine \in Drafts(t)
        /\ Now(t) \in {"drop ask", "bond rows"} => mem[t].theirs \in Drafts(t)
    BY DEF Drafts
  <2>2. /\ Now(t) = "ask row" => mem[t].key \in askRecords[Me(t)]
        /\ Now(t) = "bar row" => mem[t].key \in barRecords[Me(t)]
        /\ Now(t) \in {"put their bond", "drop ask", "bond rows"} => mem[t].mine \in bondRecords[Me(t)]
        /\ Now(t) \in {"drop ask", "bond rows"} => mem[t].theirs \in bondRecords[You(t)]
    BY <1>3 DEF Draft
  <2> QED
    BY <1>4, <1>5, <2>1, <2>2
<1> QED
  BY <1>1, <1>2, <1>4, <1>6 DEF Draft

Plain == {"done", "put ask", "drop own ask", "own ask row", "put bond", "reject ask", "unask", "their bond",
          "drop bond", "drop their bond", "unbond theirs", "unbond", "drop bonds", "unbond both", "read asks",
          "drop asks", "unask both", "put bar", "drop bar", "unbar"}

LEMMA PlainDrafts ==
  ASSUME ContactsShape, DraftsSound, NEW s \in Slot, Waits(s), DraftMove(s), Now(s)' \in Plain
  PROVE  DraftsSound'
<1>1. Draft(s)'
  BY DEF Draft, Drafts, Plain
<1> QED
  BY <1>1, OtherDrafts DEF DraftsSound

\* A key just drawn is known to nobody.
LEMMA FreshKey ==
  ASSUME ContactsShape, NEW s \in Slot
  PROVE  /\ drawn + 1 # 0 /\ Rowless(drawn + 1)
         /\ \A t \in Slot : Unknown(drawn + 1, t)
         /\ \A d \in 1 .. drawn : d # drawn + 1 /\ d # 0
<1>1. \A k \in 0 .. drawn : k # drawn + 1
  BY TablesTyped, Further DEF ContactsShape
<1>2. Rowless(drawn + 1)
  BY <1>1, TablesTyped DEF ContactsShape, Rowless
<1>3. ASSUME NEW t \in Slot PROVE Unknown(drawn + 1, t)
  BY <1>1, NowAt, PairOf DEF Unknown, Paired
<1>4. \A d \in 1 .. drawn : d # 0 /\ d \in 0 .. drawn
  BY TablesTyped DEF ContactsShape
<1> QED
  BY <1>1, <1>2, <1>3, <1>4, TablesTyped, Further DEF ContactsShape

LEMMA PutAskDrafts ==
  ASSUME ContactsShape, DraftsSound, NEW s \in Slot, PutAsk(s)
  PROVE  DraftsSound'
<1> SUFFICES ASSUME NEW k, k = drawn + 1 PROVE DraftsSound'
  OBVIOUS
<1>1. /\ Goes(s, "put ask", "ask row") /\ mem'[s] = [mem[s] EXCEPT !.key = k]
      /\ askRecords' = [askRecords EXCEPT ![Me(s)] = @ \cup {k}]
      /\ UNCHANGED <<askRows, bondRecords, bondRows, barRecords, barRows>>
  BY PutAskMoves
<1>2. mem'[s].key = k /\ mem'[s].mine = mem[s].mine /\ mem'[s].theirs = mem[s].theirs
  <2>1. mem[s] \in LetterRecord
    BY <1>1, NowAt, PairOf DEF Goes
  <2> QED
    BY <1>1, <2>1 DEF LetterRecord
<1>3. k # 0 /\ Rowless(k) /\ (\A t \in Slot : Unknown(k, t)) /\ \A d \in 1 .. drawn : d # k
  BY FreshKey
<1>4. Paired(s) /\ Me(s)' = Me(s) /\ Now(s) = "put ask" /\ Now(s)' = "ask row" /\ Waits(s)
  BY <1>1 DEF Goes
<1>5. askRecords'[Me(s)] = askRecords[Me(s)] \cup {k} /\ \A q \in Party : askRecords[q] \subseteq askRecords'[q]
  BY <1>1, <1>4, TablesTyped DEF ContactsShape, Paired
<1>6. DraftMove(s)
  BY <1>1, <1>2, <1>3, <1>4, <1>5 DEF DraftMove, Unknown, Rowless
<1>7. Draft(s)'
  <2>1. Drafts(s)' = {k}
    BY <1>2, <1>4 DEF Drafts
  <2>2. Rowless(k)' /\ \A t \in Slot \ {s} : Unknown(k, t)'
    BY <1>1, <1>3, <1>4 DEF Rowless, Unknown, Waits
  <2> QED
    BY <1>2, <1>3, <1>4, <1>5, <2>1, <2>2 DEF Draft
<1> QED
  BY <1>4, <1>6, <1>7, OtherDrafts DEF DraftsSound

LEMMA PutBarDrafts ==
  ASSUME ContactsShape, DraftsSound, NEW s \in Slot, PutBar(s)
  PROVE  DraftsSound'
<1> SUFFICES ASSUME NEW k, k = drawn + 1 PROVE DraftsSound'
  OBVIOUS
<1>1. /\ Goes(s, "put bar", "bar row") /\ mem'[s] = [mem[s] EXCEPT !.key = k]
      /\ barRecords' = [barRecords EXCEPT ![Me(s)] = @ \cup {k}]
      /\ UNCHANGED <<askRecords, askRows, bondRecords, bondRows, barRows>>
  BY PutBarMoves
<1>2. mem'[s].key = k /\ mem'[s].mine = mem[s].mine /\ mem'[s].theirs = mem[s].theirs
  <2>1. mem[s] \in LetterRecord
    BY <1>1, NowAt, PairOf DEF Goes
  <2> QED
    BY <1>1, <2>1 DEF LetterRecord
<1>3. k # 0 /\ Rowless(k) /\ (\A t \in Slot : Unknown(k, t)) /\ \A d \in 1 .. drawn : d # k
  BY FreshKey
<1>4. Paired(s) /\ Me(s)' = Me(s) /\ Now(s) = "put bar" /\ Now(s)' = "bar row" /\ Waits(s)
  BY <1>1 DEF Goes
<1>5. barRecords'[Me(s)] = barRecords[Me(s)] \cup {k} /\ \A q \in Party : barRecords[q] \subseteq barRecords'[q]
  BY <1>1, <1>4, TablesTyped DEF ContactsShape, Paired
<1>6. DraftMove(s)
  BY <1>1, <1>2, <1>3, <1>4, <1>5 DEF DraftMove, Unknown, Rowless
<1>7. Draft(s)'
  <2>1. Drafts(s)' = {k}
    BY <1>2, <1>4 DEF Drafts
  <2>2. Rowless(k)' /\ \A t \in Slot \ {s} : Unknown(k, t)'
    BY <1>1, <1>3, <1>4 DEF Rowless, Unknown, Waits
  <2> QED
    BY <1>2, <1>3, <1>4, <1>5, <2>1, <2>2 DEF Draft
<1> QED
  BY <1>4, <1>6, <1>7, OtherDrafts DEF DraftsSound

LEMMA PutBondDrafts ==
  ASSUME ContactsShape, DraftsSound, NEW s \in Slot, PutBond(s)
  PROVE  DraftsSound'
<1> SUFFICES ASSUME NEW k, k = drawn + 1 PROVE DraftsSound'
  OBVIOUS
<1>1. ASSUME NEW x, NEW y, NEW p, PutsBond(s, x, y, p),
             \/ x = "put bond" /\ y = "put their bond" /\ p = Me(s)
             \/ x = "put their bond" /\ y = "drop ask" /\ p = You(s)
      PROVE  DraftsSound'
  <2>1. /\ Waits(s) /\ Paired(s) /\ Now(s) = x /\ Now(s)' = y /\ Me(s)' = Me(s) /\ You(s)' = You(s)
        /\ bondRecords' = [bondRecords EXCEPT ![p] = @ \cup {k}]
        /\ UNCHANGED <<askRecords, askRows, bondRows, barRecords, barRows>>
    BY <1>1 DEF PutsBond, Goes
  <2>2. Me(s) # You(s) /\ p \in Party
    BY <1>1, <2>1 DEF Paired
  <2>3. /\ mem'[s].key = mem[s].key
        /\ IF x = "put bond" THEN mem'[s].mine = k /\ mem'[s].theirs = mem[s].theirs
                             ELSE mem'[s].theirs = k /\ mem'[s].mine = mem[s].mine
    <3>1. mem[s] \in LetterRecord
      BY <1>1, <2>1, NowAt, PairOf
    <3> QED
      BY <1>1, <2>1, <2>2, <3>1 DEF PutsBond, LetterRecord
  <2>4. k # 0 /\ Rowless(k) /\ (\A t \in Slot : Unknown(k, t)) /\ \A d \in 1 .. drawn : d # k
    BY FreshKey
  <2>5. bondRecords'[p] = bondRecords[p] \cup {k} /\ \A q \in Party : bondRecords[q] \subseteq bondRecords'[q]
    BY <2>1, <2>2, TablesTyped DEF ContactsShape
  <2>6. DraftMove(s)
    BY <1>1, <2>1, <2>3, <2>4, <2>5 DEF DraftMove, Unknown, Rowless
  <2>7. Drafts(s)' = Drafts(s) \cup {k}
    BY <1>1, <2>1, <2>3 DEF Drafts
  <2>8. ASSUME NEW d \in Drafts(s) \cup {k}
        PROVE  d # 0 /\ Rowless(d)' /\ \A t \in Slot \ {s} : Unknown(d, t)'
    <3>1. d # 0 /\ Rowless(d) /\ \A t \in Slot \ {s} : Unknown(d, t)
      <4>1. CASE d = k
        BY <2>4, <4>1
      <4>2. CASE d \in Drafts(s)
        <5>1. Draft(s)
          BY DEF DraftsSound
        <5> QED
          BY <4>2, <5>1 DEF Draft
      <4> QED
        BY <2>8, <4>1, <4>2
    <3>2. Rowless(d)'
      BY <2>1, <3>1 DEF Rowless
    <3>3. ASSUME NEW t \in Slot \ {s} PROVE Unknown(d, t)'
      BY <2>1, <3>1, <3>3 DEF Unknown, Waits
    <3> QED
      BY <3>1, <3>2, <3>3
  <2>9. x = "put their bond" => mem[s].mine \in bondRecords[Me(s)]
    BY <2>1 DEF DraftsSound, Draft
  <2>10. Me(s) \in Party
    BY <2>1 DEF Paired
  <2>11. Draft(s)'
    BY <1>1, <2>1, <2>3, <2>5, <2>7, <2>8, <2>9, <2>10 DEF Draft
  <2> QED
    BY <2>1, <2>6, <2>11, OtherDrafts DEF DraftsSound
<1> QED
  BY <1>1, PutBondMoves

LEMMA DropAskDrafts ==
  ASSUME ContactsShape, DraftsSound, NEW s \in Slot, DropAsk(s)
  PROVE  DraftsSound'
<1>1. ASSUME NEW x, NEW y, NEW p, DropsAsk(s, x, y, p), p \in Party,
             (x = "drop ask" /\ y = "bond rows") \/ (x # "drop ask" /\ x # "done" /\ y \in Plain)
      PROVE  DraftsSound'
  <2>1. /\ Waits(s) /\ Paired(s) /\ Now(s) = x /\ Now(s) # "done"
        /\ \/ Now(s)' = "done"
           \/ Now(s)' = y /\ mem'[s] = mem[s] /\ (y # "done" => Me(s)' = Me(s) /\ You(s)' = You(s))
        /\ askRecords' = [askRecords EXCEPT ![p] = @ \ {mem[s].key}]
        /\ UNCHANGED <<askRows, bondRecords, bondRows, barRecords, barRows>>
    BY <1>1 DEF DropsAsk, Goes, Remembers
  <2>2. DraftMove(s)
    BY <1>1, <2>1, TablesTyped DEF DraftMove, Unknown, Rowless, ContactsShape
  <2>3. CASE Now(s)' = "done" \/ y \in Plain
    BY <2>1, <2>2, <2>3, PlainDrafts DEF Plain
  <2>4. CASE Now(s)' = "bond rows" /\ x = "drop ask" /\ y = "bond rows"
    <3>1. mem'[s] = mem[s] /\ Me(s)' = Me(s) /\ You(s)' = You(s)
      BY <2>1, <2>4
    <3>2. Drafts(s)' = Drafts(s)
      BY <2>1, <2>4, <3>1 DEF Drafts
    <3>3. Draft(s)
      BY DEF DraftsSound
    <3>4. ASSUME NEW d \in Drafts(s) PROVE d # 0 /\ Rowless(d)' /\ \A t \in Slot \ {s} : Unknown(d, t)'
      <4>1. d # 0 /\ Rowless(d) /\ \A t \in Slot \ {s} : Unknown(d, t)
        BY <3>3, <3>4 DEF Draft
      <4>2. Rowless(d)'
        BY <2>1, <4>1 DEF Rowless
      <4>3. ASSUME NEW t \in Slot \ {s} PROVE Unknown(d, t)'
        BY <2>1, <4>1, <4>3 DEF Unknown, Waits
      <4> QED
        BY <4>1, <4>2, <4>3
    <3>5. Draft(s)'
      BY <1>1, <2>1, <2>4, <3>1, <3>2, <3>3, <3>4 DEF Draft
    <3> QED
      BY <2>1, <2>2, <3>5, OtherDrafts DEF DraftsSound
  <2> QED
    BY <1>1, <2>1, <2>3, <2>4
<1>2. Me(s) \in Party /\ You(s) \in Party
  BY DropAskMoves DEF DropsAsk, Paired
<1>3. {"unask", "own ask row"} \subseteq Plain
  BY DEF Plain
<1> QED
  BY <1>1, <1>2, <1>3, DropAskMoves

LEMMA DraftsKept ==
  ASSUME ContactsShape, DraftsSound, [ContactsNext]_contactsVars
  PROVE  DraftsSound'
<1>1. ASSUME NEW s \in Slot, NEW p \in Party, SendRequest(s, p) PROVE DraftsSound'
  <2>1. /\ Starts(s, p, "put ask") /\ UNCHANGED <<askRecords, askRows, bondRecords, bondRows, barRecords, barRows, drawn>>
        /\ mem'[s].key \in {0, askRows[p], askRows[Other(p)], bondRows[p], barRows[p]}
        /\ mem'[s].mine \in {0, bondRows[p]} /\ mem'[s].theirs \in {0, bondRows[Other(p)]}
    BY <1>1, SendRequestMoves DEF Blank
  <2>2. DraftMove(s)
    BY <2>1, TwoParties, FreshKey DEF DraftMove, Unknown, Rowless, Starts
  <2> QED
    BY <2>1, <2>2, PlainDrafts DEF Starts, Plain
<1>2. ASSUME NEW s \in Slot, NEW p \in Party, WithdrawRequest(s, p) PROVE DraftsSound'
  <2>1. /\ Starts(s, p, "drop own ask") /\ UNCHANGED <<askRecords, askRows, bondRecords, bondRows, barRecords, barRows, drawn>>
        /\ mem'[s].key \in {0, askRows[p], askRows[Other(p)], bondRows[p], barRows[p]}
        /\ mem'[s].mine \in {0, bondRows[p]} /\ mem'[s].theirs \in {0, bondRows[Other(p)]}
    BY <1>2, WithdrawRequestMoves DEF Blank
  <2>2. DraftMove(s)
    BY <2>1, TwoParties, FreshKey DEF DraftMove, Unknown, Rowless, Starts
  <2> QED
    BY <2>1, <2>2, PlainDrafts DEF Starts, Plain
<1>3. ASSUME NEW s \in Slot, NEW p \in Party, Accept(s, p) PROVE DraftsSound'
  <2>1. /\ Starts(s, p, "put bond") /\ UNCHANGED <<askRecords, askRows, bondRecords, bondRows, barRecords, barRows, drawn>>
        /\ mem'[s].key \in {0, askRows[p], askRows[Other(p)], bondRows[p], barRows[p]}
        /\ mem'[s].mine \in {0, bondRows[p]} /\ mem'[s].theirs \in {0, bondRows[Other(p)]}
    BY <1>3, AcceptMoves DEF Blank
  <2>2. DraftMove(s)
    BY <2>1, TwoParties, FreshKey DEF DraftMove, Unknown, Rowless, Starts
  <2> QED
    BY <2>1, <2>2, PlainDrafts DEF Starts, Plain
<1>4. ASSUME NEW s \in Slot, NEW p \in Party, RejectRequest(s, p) PROVE DraftsSound'
  <2>1. /\ Starts(s, p, "reject ask") /\ UNCHANGED <<askRecords, askRows, bondRecords, bondRows, barRecords, barRows, drawn>>
        /\ mem'[s].key \in {0, askRows[p], askRows[Other(p)], bondRows[p], barRows[p]}
        /\ mem'[s].mine \in {0, bondRows[p]} /\ mem'[s].theirs \in {0, bondRows[Other(p)]}
    BY <1>4, RejectRequestMoves DEF Blank
  <2>2. DraftMove(s)
    BY <2>1, TwoParties, FreshKey DEF DraftMove, Unknown, Rowless, Starts
  <2> QED
    BY <2>1, <2>2, PlainDrafts DEF Starts, Plain
<1>5. ASSUME NEW s \in Slot, NEW p \in Party, RemoveContact(s, p) PROVE DraftsSound'
  <2>1. /\ Starts(s, p, "their bond") /\ UNCHANGED <<askRecords, askRows, bondRecords, bondRows, barRecords, barRows, drawn>>
        /\ mem'[s].key \in {0, askRows[p], askRows[Other(p)], bondRows[p], barRows[p]}
        /\ mem'[s].mine \in {0, bondRows[p]} /\ mem'[s].theirs \in {0, bondRows[Other(p)]}
    BY <1>5, RemoveContactMoves DEF Blank
  <2>2. DraftMove(s)
    BY <2>1, TwoParties, FreshKey DEF DraftMove, Unknown, Rowless, Starts
  <2> QED
    BY <2>1, <2>2, PlainDrafts DEF Starts, Plain
<1>6. ASSUME NEW s \in Slot, NEW p \in Party, BlockContact(s, p) PROVE DraftsSound'
  <2>1. /\ Starts(s, p, "drop bonds") /\ UNCHANGED <<askRecords, askRows, bondRecords, bondRows, barRecords, barRows, drawn>>
        /\ mem'[s].key \in {0, askRows[p], askRows[Other(p)], bondRows[p], barRows[p]}
        /\ mem'[s].mine \in {0, bondRows[p]} /\ mem'[s].theirs \in {0, bondRows[Other(p)]}
    BY <1>6, BlockContactMoves DEF Blank
  <2>2. DraftMove(s)
    BY <2>1, TwoParties, FreshKey DEF DraftMove, Unknown, Rowless, Starts
  <2> QED
    BY <2>1, <2>2, PlainDrafts DEF Starts, Plain
<1>7. ASSUME NEW s \in Slot, NEW p \in Party, UnblockContact(s, p) PROVE DraftsSound'
  <2>1. /\ Starts(s, p, "drop bar") /\ UNCHANGED <<askRecords, askRows, bondRecords, bondRows, barRecords, barRows, drawn>>
        /\ mem'[s].key \in {0, askRows[p], askRows[Other(p)], bondRows[p], barRows[p]}
        /\ mem'[s].mine \in {0, bondRows[p]} /\ mem'[s].theirs \in {0, bondRows[Other(p)]}
    BY <1>7, UnblockContactMoves DEF Blank
  <2>2. DraftMove(s)
    BY <2>1, TwoParties, FreshKey DEF DraftMove, Unknown, Rowless, Starts
  <2> QED
    BY <2>1, <2>2, PlainDrafts DEF Starts, Plain
<1>8. ASSUME NEW s \in Slot, PutAsk(s) PROVE DraftsSound'
  BY <1>8, PutAskDrafts
<1>9. ASSUME NEW s \in Slot, InsertAsk(s) PROVE DraftsSound'
  <2>1. /\ Waits(s) /\ Now(s) # "done" /\ Now(s)' \in Plain /\ drawn' = drawn
        /\ Now(s)' = "done" \/ mem'[s] = mem[s]
        /\ askRows' = [askRows EXCEPT ![Me(s)] = IF @ = 0 THEN mem[s].key ELSE @]
        /\ UNCHANGED <<askRecords, bondRecords, bondRows, barRecords, barRows>>
    BY <1>9, InsertAskMoves DEF Plain, Goes, Remembers, contactTables
  <2>2. DraftMove(s)
    BY <2>1, TablesTyped DEF DraftMove, Unknown, Rowless, ContactsShape
  <2> QED
    BY <2>1, <2>2, PlainDrafts
<1>10. ASSUME NEW s \in Slot, DropAsk(s) PROVE DraftsSound'
  BY <1>10, DropAskDrafts
<1>11. ASSUME NEW s \in Slot, DeleteAsk(s) PROVE DraftsSound'
  <2>1. PICK x \in {"unask", "own ask row"}, q \in Party : DeletesAsk(s, x, q)
    BY <1>11, DeleteAskMoves DEF DeletesAsk, Goes, Paired
  <2>2. \A r \in Party : askRows'[r] \in {askRows[r], 0}
    BY <2>1, TablesTyped DEF DeletesAsk, ContactsShape
  <2>3. DraftMove(s)
    BY <2>1, <2>2, FreshKey DEF DeletesAsk, DraftMove, Unknown, Rowless, Goes
  <2> QED
    BY <2>1, <2>3, PlainDrafts DEF DeletesAsk, Goes, Plain
<1>12. ASSUME NEW s \in Slot, PutBond(s) PROVE DraftsSound'
  BY <1>12, PutBondDrafts
<1>13. ASSUME NEW s \in Slot, InsertBonds(s) PROVE DraftsSound'
  <2>1. /\ Waits(s) /\ Now(s) # "done" /\ Now(s)' \in Plain /\ drawn' = drawn
        /\ Now(s)' = "done" \/ mem'[s] = mem[s]
        /\ bondRows' = [p \in Party |-> IF p \in Taken THEN bondRows[p] ELSE NewBonds(s)[p]]
        /\ UNCHANGED <<askRecords, askRows, bondRecords, barRecords, barRows>>
    BY <1>13, InsertBondsMoves DEF Plain, Goes, Remembers, contactTables
  <2>2. DraftMove(s)
    BY <2>1, TablesTyped DEF DraftMove, Unknown, Rowless, ContactsShape, NewBonds
  <2> QED
    BY <2>1, <2>2, PlainDrafts
<1>14. ASSUME NEW s \in Slot, ReadTheirBond(s) PROVE DraftsSound'
  <2>1. /\ Waits(s) /\ Now(s) # "done" /\ Now(s)' \in Plain /\ mem'[s].key = mem[s].key
        /\ mem'[s].mine \in {mem[s].mine, askRows[Me(s)]}
        /\ mem'[s].theirs \in {bondRows[You(s)], askRows[You(s)]}
        /\ UNCHANGED <<askRecords, askRows, bondRecords, bondRows, barRecords, barRows>>
    <3>1. Now(s) # "done" /\ Goes(s, Now(s), Now(s)')
      BY <1>14, ReadTheirBondMoves DEF Goes
    <3>2. mem[s] \in LetterRecord
      BY <3>1, NowAt, PairOf
    <3> QED
      BY <1>14, <3>1, <3>2, ReadTheirBondMoves DEF Goes, Plain, contactTables, LetterRecord
  <2>2. Me(s) \in Party /\ You(s) \in Party
    BY <2>1, NowAt, PairOf DEF Paired
  <2>3. DraftMove(s)
    BY <2>1, <2>2 DEF DraftMove, Unknown, Rowless
  <2> QED
    BY <2>1, <2>3, PlainDrafts
<1>15. ASSUME NEW s \in Slot, DropBond(s) PROVE DraftsSound'
  <2>1. /\ Waits(s) /\ Now(s) # "done" /\ Now(s)' \in Plain /\ drawn' = drawn
        /\ Now(s)' = "done" \/ mem'[s] = mem[s]
        /\ bondRecords' = [bondRecords EXCEPT ![Me(s)] = @ \ {mem[s].key}]
        /\ UNCHANGED <<askRecords, askRows, bondRows, barRecords, barRows>>
    BY <1>15, DropBondMoves DEF Plain, Goes, Remembers, contactTables
  <2>2. DraftMove(s)
    BY <2>1, TablesTyped DEF DraftMove, Unknown, Rowless, ContactsShape
  <2> QED
    BY <2>1, <2>2, PlainDrafts
<1>16. ASSUME NEW s \in Slot, DropTheirBond(s) PROVE DraftsSound'
  <2>1. /\ Waits(s) /\ Now(s) # "done" /\ Now(s)' \in Plain /\ drawn' = drawn
        /\ Now(s)' = "done" \/ mem'[s] = mem[s]
        /\ bondRecords' = [bondRecords EXCEPT ![You(s)] = @ \ {mem[s].theirs}]
        /\ UNCHANGED <<askRecords, askRows, bondRows, barRecords, barRows>>
    BY <1>16, DropTheirBondMoves DEF Plain, Goes, Remembers, contactTables
  <2>2. DraftMove(s)
    BY <2>1, TablesTyped DEF DraftMove, Unknown, Rowless, ContactsShape
  <2> QED
    BY <2>1, <2>2, PlainDrafts
<1>17. ASSUME NEW s \in Slot, DeleteBond(s) PROVE DraftsSound'
  <2>1. PICK x \in {"unbond theirs", "unbond"}, y \in {"unbond", "done"}, q \in Party,
            read \in {mem[s].theirs, mem[s].key} : DeletesBond(s, x, y, q, read)
    BY <1>17, DeleteBondMoves DEF DeletesBond, Goes, Paired
  <2>2. \A r \in Party : bondRows'[r] \in {bondRows[r], 0}
    BY <2>1, TablesTyped DEF DeletesBond, ContactsShape
  <2>3. DraftMove(s)
    BY <2>1, <2>2, FreshKey DEF DeletesBond, DraftMove, Unknown, Rowless, Goes, Remembers
  <2> QED
    BY <2>1, <2>3, PlainDrafts DEF DeletesBond, Goes, Plain
<1>18. ASSUME NEW s \in Slot, DropBonds(s) PROVE DraftsSound'
  <2>1. /\ Waits(s) /\ Now(s) # "done" /\ Now(s)' \in Plain /\ drawn' = drawn
        /\ Now(s)' = "done" \/ mem'[s] = mem[s]
        /\ bondRecords' = [p \in Party |-> bondRecords[p] \ {Pair(s)[p]}]
        /\ UNCHANGED <<askRecords, askRows, bondRows, barRecords, barRows>>
    BY <1>18, DropBondsMoves DEF Plain, Goes, Remembers, contactTables
  <2>2. DraftMove(s)
    BY <2>1, TablesTyped DEF DraftMove, Unknown, Rowless, ContactsShape, Pair
  <2> QED
    BY <2>1, <2>2, PlainDrafts
<1>19. ASSUME NEW s \in Slot, DeleteBonds(s) PROVE DraftsSound'
  <2>1. /\ Waits(s) /\ Now(s) # "done" /\ Now(s)' \in Plain /\ drawn' = drawn
        /\ Now(s)' = "done" \/ mem'[s] = mem[s]
        /\ bondRows' = [p \in Party |-> 0]
        /\ UNCHANGED <<askRecords, askRows, bondRecords, barRecords, barRows>>
    BY <1>19, DeleteBondsMoves DEF Plain, Goes, Remembers, contactTables
  <2>2. DraftMove(s)
    BY <2>1, TablesTyped DEF DraftMove, Unknown, Rowless, ContactsShape
  <2> QED
    BY <2>1, <2>2, PlainDrafts
<1>20. ASSUME NEW s \in Slot, ReadAsks(s) PROVE DraftsSound'
  <2>1. /\ Waits(s) /\ Now(s) # "done" /\ Now(s)' \in Plain /\ mem'[s].key = mem[s].key
        /\ mem'[s].mine \in {mem[s].mine, askRows[Me(s)]}
        /\ mem'[s].theirs \in {bondRows[You(s)], askRows[You(s)]}
        /\ UNCHANGED <<askRecords, askRows, bondRecords, bondRows, barRecords, barRows>>
    <3>1. Now(s) # "done" /\ Goes(s, Now(s), Now(s)')
      BY <1>20, ReadAsksMoves DEF Goes
    <3>2. mem[s] \in LetterRecord
      BY <3>1, NowAt, PairOf
    <3>3. /\ mem'[s].key = mem[s].key /\ mem'[s].mine = askRows[Me(s)] /\ mem'[s].theirs = askRows[You(s)]
      <4>1. mem'[s] = [mem[s] EXCEPT !.mine = askRows[Me(s)], !.theirs = askRows[You(s)]]
        BY <1>20, ReadAsksMoves
      <4> QED
        BY <3>2, <4>1 DEF LetterRecord
    <3>4. /\ Goes(s, "read asks", "drop asks")
          /\ UNCHANGED <<askRecords, askRows, bondRecords, bondRows, barRecords, barRows>>
      BY <1>20, ReadAsksMoves DEF contactTables
    <3> QED
      BY <3>1, <3>3, <3>4 DEF Goes, Plain
  <2>2. Me(s) \in Party /\ You(s) \in Party
    BY <2>1, NowAt, PairOf DEF Paired
  <2>3. DraftMove(s)
    BY <2>1, <2>2 DEF DraftMove, Unknown, Rowless
  <2> QED
    BY <2>1, <2>3, PlainDrafts
<1>21. ASSUME NEW s \in Slot, DropAsks(s) PROVE DraftsSound'
  <2>1. /\ Waits(s) /\ Now(s) # "done" /\ Now(s)' \in Plain /\ drawn' = drawn
        /\ Now(s)' = "done" \/ mem'[s] = mem[s]
        /\ askRecords' = [p \in Party |-> askRecords[p] \ {Pair(s)[p]}]
        /\ UNCHANGED <<askRows, bondRecords, bondRows, barRecords, barRows>>
    BY <1>21, DropAsksMoves DEF Plain, Goes, Remembers, contactTables
  <2>2. DraftMove(s)
    BY <2>1, TablesTyped DEF DraftMove, Unknown, Rowless, ContactsShape, Pair
  <2> QED
    BY <2>1, <2>2, PlainDrafts
<1>22. ASSUME NEW s \in Slot, DeleteAsks(s) PROVE DraftsSound'
  <2>1. /\ Waits(s) /\ Now(s) # "done" /\ Now(s)' \in Plain /\ drawn' = drawn
        /\ Now(s)' = "done" \/ mem'[s] = mem[s]
        /\ askRows' = [p \in Party |-> 0]
        /\ UNCHANGED <<askRecords, bondRecords, bondRows, barRecords, barRows>>
    BY <1>22, DeleteAsksMoves DEF Plain, Goes, Remembers, contactTables
  <2>2. DraftMove(s)
    BY <2>1, TablesTyped DEF DraftMove, Unknown, Rowless, ContactsShape
  <2> QED
    BY <2>1, <2>2, PlainDrafts
<1>23. ASSUME NEW s \in Slot, PutBar(s) PROVE DraftsSound'
  BY <1>23, PutBarDrafts
<1>24. ASSUME NEW s \in Slot, InsertBar(s) PROVE DraftsSound'
  <2>1. /\ Waits(s) /\ Now(s) # "done" /\ Now(s)' \in Plain /\ drawn' = drawn
        /\ Now(s)' = "done" \/ mem'[s] = mem[s]
        /\ barRows' = [barRows EXCEPT ![Me(s)] = IF @ = 0 THEN mem[s].key ELSE @]
        /\ UNCHANGED <<askRecords, askRows, bondRecords, bondRows, barRecords>>
    BY <1>24, InsertBarMoves DEF Plain, Goes, Remembers, contactTables
  <2>2. DraftMove(s)
    BY <2>1, TablesTyped DEF DraftMove, Unknown, Rowless, ContactsShape
  <2> QED
    BY <2>1, <2>2, PlainDrafts
<1>25. ASSUME NEW s \in Slot, DropBar(s) PROVE DraftsSound'
  <2>1. /\ Waits(s) /\ Now(s) # "done" /\ Now(s)' \in Plain /\ drawn' = drawn
        /\ Now(s)' = "done" \/ mem'[s] = mem[s]
        /\ barRecords' = [barRecords EXCEPT ![Me(s)] = @ \ {mem[s].key}]
        /\ UNCHANGED <<askRecords, askRows, bondRecords, bondRows, barRows>>
    BY <1>25, DropBarMoves DEF Plain, Goes, Remembers, contactTables
  <2>2. DraftMove(s)
    BY <2>1, TablesTyped DEF DraftMove, Unknown, Rowless, ContactsShape
  <2> QED
    BY <2>1, <2>2, PlainDrafts
<1>26. ASSUME NEW s \in Slot, DeleteBar(s) PROVE DraftsSound'
  <2>1. /\ Waits(s) /\ Now(s) # "done" /\ Now(s)' \in Plain /\ drawn' = drawn
        /\ Now(s)' = "done" \/ mem'[s] = mem[s]
        /\ barRows' = [barRows EXCEPT ![Me(s)] = 0]
        /\ UNCHANGED <<askRecords, askRows, bondRecords, bondRows, barRecords>>
    BY <1>26, DeleteBarMoves DEF Plain, Goes, Remembers, contactTables
  <2>2. DraftMove(s)
    BY <2>1, TablesTyped DEF DraftMove, Unknown, Rowless, ContactsShape
  <2> QED
    BY <2>1, <2>2, PlainDrafts
<1>27. ASSUME NEW s \in Slot, ContactFails(s) PROVE DraftsSound'
  <2>1. Waits(s) /\ Now(s)' = "done" /\ UNCHANGED <<askRecords, askRows, bondRecords, bondRows, barRecords, barRows>>
    BY <1>27, ContactFailsMoves
  <2>2. DraftMove(s)
    BY <2>1 DEF DraftMove, Unknown, Rowless
  <2> QED
    BY <2>1, <2>2, PlainDrafts DEF Plain
<1>28. CASE UNCHANGED contactsVars
  <2>1. /\ mem' = mem /\ UNCHANGED <<askRecords, askRows, bondRecords, bondRows, barRecords, barRows>>
        /\ \A s \in Slot : Now(s)' = Now(s) /\ Me(s)' = Me(s) /\ You(s)' = You(s)
    BY <1>28 DEF contactsVars, requests, contactTables, Now, Me, You
  <2>2. ASSUME NEW s \in Slot PROVE Draft(s)'
    <3>1. Drafts(s)' = Drafts(s) /\ Draft(s)
      BY <2>1 DEF Drafts, DraftsSound
    <3>2. \A d \in Drafts(s) : d # 0 /\ Rowless(d)' /\ \A t \in Slot \ {s} : Unknown(d, t)'
      BY <2>1, <3>1 DEF Draft, Rowless, Unknown
    <3> QED
      BY <2>1, <3>1, <3>2 DEF Draft
  <2> QED
    BY <2>2 DEF DraftsSound
<1> QED
  BY <1>1, <1>2, <1>3, <1>4, <1>5, <1>6, <1>7, <1>8, <1>9, <1>10, <1>11, <1>12, <1>13, <1>14,
     <1>15, <1>16, <1>17, <1>18, <1>19, <1>20, <1>21, <1>22, <1>23, <1>24, <1>25, <1>26, <1>27,
     <1>28 DEF ContactsNext

-----------------------------------------------------------------------------
(* Both are contacts, or neither is. *)

Removing == {"their bond", "drop bond", "drop their bond", "unbond theirs", "unbond"}

\* A removal with the other's row gone leaves no contact, unless it was made anew.
Parting(s) ==
  /\ Now(s) \in Removing => mem[s].key # 0
  /\ Now(s) = "unbond" \/ (Now(s) = "drop bond" /\ todo[s] = Brief) =>
       halved \/ bondRows[You(s)] = 0 \/ bondRows[Me(s)] # mem[s].key

PartingSound == BothAreContacts /\ \A s \in Slot : Parting(s)

\* Where a row stands alone a removal is about to delete it.
Unpaired(p) == bondRows[p] # 0 /\ bondRows[Other(p)] = 0
Removes(p)   == \E s \in Slot : Now(s) = "unbond" /\ Me(s) = p

LEMMA BothAre ==
  /\ BothAreContacts <=> \A p \in Party : Unpaired(p) => halved \/ Removes(p)
  /\ BothAreContacts' <=> \A p \in Party : Unpaired(p)' => halved' \/ Removes(p)'
<1>1. \A s : At(s, "unbond") <=> Now(s) = "unbond"
  BY DEF At, Now
<1>2. \A s : At(s, "unbond")' <=> Now(s)' = "unbond"
  BY DEF At, Now
<1> QED
  BY <1>1, <1>2 DEF BothAreContacts, Unpaired, Removes

LEMMA RemovesWaits ==
  ASSUME NEW s \in Slot, Waits(s), NEW p, Removes(p), Now(s) # "unbond" \/ Me(s) # p
  PROVE  Removes(p)'
<1>1. PICK t \in Slot : Now(t) = "unbond" /\ Me(t) = p
  BY DEF Removes
<1>2. Now(t)' = "unbond" /\ Me(t)' = p
  BY <1>1 DEF Waits
<1> QED
  BY <1>2 DEF Removes

\* Whoever else removes a contact is where they were, though rows go or come.
LEMMA OtherPartings ==
  ASSUME ContactsShape, PartingSound, NEW s \in Slot, Waits(s), halved => halved',
         \/ halved'
         \/ \A p \in Party : bondRows'[p] \in {bondRows[p], 0}
         \/ \A t \in Slot \ {s}, p \in Party : Now(t) \in Removing => bondRows'[p] # mem[t].key,
         NEW t \in Slot, t # s
  PROVE  Parting(t)'
<1>1. /\ mem'[t] = mem[t] /\ Now(t)' = Now(t) /\ Me(t)' = Me(t) /\ You(t)' = You(t) /\ todo'[t] = todo[t]
  BY DEF Waits
<1>2. Parting(t)
  BY DEF PartingSound
<1>3. Now(t) # "done" => Me(t) \in Party /\ You(t) \in Party
  BY NowAt, PairOf DEF Paired
<1>4. Now(t) \in Removing => mem[t].key # 0
  BY <1>2 DEF Parting
<1>5. ASSUME Now(t) \in Removing, halved \/ bondRows[You(t)] = 0 \/ bondRows[Me(t)] # mem[t].key
      PROVE  halved' \/ bondRows'[You(t)] = 0 \/ bondRows'[Me(t)] # mem[t].key
  <2>1. Me(t) \in Party /\ You(t) \in Party /\ mem[t].key # 0
    BY <1>3, <1>4, <1>5 DEF Removing
  <2> QED
    BY <1>5, <2>1
<1> QED
  BY <1>1, <1>2, <1>4, <1>5 DEF Parting, Removing

LEMMA RowsStandParting ==
  ASSUME ContactsShape, PartingSound, NEW s \in Slot, Waits(s), bondRows' = bondRows, halved => halved',
         Now(s) = "unbond" => halved', Parting(s)'
  PROVE  PartingSound'
<1>1. \A p \in Party : Unpaired(p)' => Unpaired(p)
  BY DEF Unpaired
<1>2. \A p \in Party : Removes(p) => halved' \/ Removes(p)'
  BY RemovesWaits
<1>3. BothAreContacts'
  BY <1>1, <1>2, BothAre DEF PartingSound
<1>4. \A p \in Party : bondRows'[p] \in {bondRows[p], 0}
  OBVIOUS
<1>5. \A t \in Slot \ {s} : Parting(t)'
  BY <1>4, OtherPartings
<1> QED
  BY <1>3, <1>5 DEF PartingSound

LEMMA ElsewhereParting ==
  ASSUME NEW s, Now(s)' \notin Removing
  PROVE  Parting(s)'
BY DEF Parting, Removing

LEMMA InsertBondsParting ==
  ASSUME ContactsShape, DraftsSound, PartingSound, NEW s \in Slot, InsertBonds(s)
  PROVE  PartingSound'
<1>1. /\ Waits(s) /\ Paired(s) /\ Now(s) = "bond rows" /\ Now(s)' = "unask"
      /\ bondRows' = [p \in Party |-> IF p \in Taken THEN bondRows[p] ELSE NewBonds(s)[p]]
      /\ halved' = (halved \/ Taken \notin {{}, Party})
  BY InsertBondsMoves DEF Goes
<1>2. \A p \in Party : /\ bondRows'[p] # 0
                       /\ p \notin Taken =>
                            \A t \in Slot \ {s} : Now(t) # "done" => bondRows'[p] # mem[t].key
  <2>1. \A d \in {mem[s].mine, mem[s].theirs} :
          d # 0 /\ \A t \in Slot \ {s} : Now(t) # "done" => d # mem[t].key
    BY <1>1 DEF DraftsSound, Draft, Drafts, Unknown
  <2>2. \A p \in Party : NewBonds(s)[p] \in {mem[s].mine, mem[s].theirs}
    BY DEF NewBonds
  <2> QED
    BY <1>1, <2>1, <2>2 DEF Taken
<1>3. BothAreContacts'
  <2>1. \A p \in Party : Other(p) \in Party
    BY TwoParties
  <2> QED
    BY <1>2, <2>1, BothAre DEF Unpaired
<1>4. \/ halved'
      \/ \A p \in Party : bondRows'[p] \in {bondRows[p], 0}
      \/ \A t \in Slot \ {s}, p \in Party : Now(t) \in Removing => bondRows'[p] # mem[t].key
  <2>1. CASE Taken = Party
    BY <1>1, <2>1
  <2>2. CASE Taken = {}
    BY <1>2, <2>2 DEF Removing
  <2> QED
    BY <1>1, <2>1, <2>2
<1>5. \A t \in Slot \ {s} : Parting(t)'
  BY <1>1, <1>4, OtherPartings
<1>6. Parting(s)'
  BY <1>1, ElsewhereParting DEF Removing
<1> QED
  BY <1>3, <1>5, <1>6 DEF PartingSound

LEMMA DeleteBondParting ==
  ASSUME ContactsShape, PartingSound, NEW s \in Slot, DeleteBond(s)
  PROVE  PartingSound'
<1>0. Paired(s)
  BY DeleteBondMoves DEF DeletesBond, Goes
<1>1. PICK p \in Party, read \in 0 .. drawn :
        /\ Waits(s) /\ bondRows' = [bondRows EXCEPT ![p] = 0]
        /\ halved' = (halved \/ bondRows[p] \notin {0, read})
        /\ \/ /\ Now(s) = "unbond theirs" /\ Now(s)' = "unbond" /\ p = You(s)
              /\ Me(s)' = Me(s) /\ You(s)' = You(s) /\ mem'[s] = mem[s]
           \/ Now(s) = "unbond" /\ Now(s)' = "done" /\ p = Me(s) /\ read = mem[s].key
  <2>1. CASE DeletesBond(s, "unbond theirs", "unbond", You(s), mem[s].theirs)
    BY <1>0, <2>1 DEF DeletesBond, Goes, Remembers, Paired
  <2>2. CASE DeletesBond(s, "unbond", "done", Me(s), mem[s].key)
    BY <1>0, <2>2 DEF DeletesBond, Goes, Paired
  <2> QED
    BY <2>1, <2>2, DeleteBondMoves
<1>2. bondRows'[p] = 0 /\ \A q \in Party : bondRows'[q] \in {bondRows[q], 0} /\ (q # p => bondRows'[q] = bondRows[q])
  BY <1>1, TablesTyped DEF ContactsShape
<1>3. \A t \in Slot \ {s} : Parting(t)'
  BY <1>1, <1>2, OtherPartings
<1>4. Parting(s)'
  BY <1>1, <1>2 DEF Parting, PartingSound, Removing
<1>5. ASSUME NEW q \in Party, Unpaired(q)' PROVE halved' \/ Removes(q)'
  <2>1. q # p /\ Other(q) = p /\ bondRows'[q] = bondRows[q] /\ bondRows[q] # 0
    BY <1>2, <1>5, TwoParties DEF Unpaired
  <2>2. CASE Now(s)' = "unbond"
    BY <1>0, <1>1, <2>1, <2>2 DEF Removes, Paired
  <2>3. CASE Now(s) = "unbond" /\ p = Me(s) /\ read = mem[s].key
    <3>1. q = You(s) /\ q # Me(s)
      BY <1>0, <2>1, <2>3 DEF Paired
    <3>2. CASE bondRows[p] = 0
      <4>1. halved \/ Removes(q)
        BY <2>1, <3>2, BothAre DEF PartingSound, Unpaired
      <4> QED
        BY <1>1, <3>1, <4>1, RemovesWaits
    <3>3. CASE bondRows[p] = read
      BY <1>1, <2>1, <2>3, <3>1, <3>3 DEF PartingSound, Parting
    <3> QED
      BY <1>1, <3>2, <3>3
  <2> QED
    BY <1>1, <2>2, <2>3
<1> QED
  BY <1>3, <1>4, <1>5, BothAre DEF PartingSound

LEMMA DeleteBondsParting ==
  ASSUME ContactsShape, PartingSound, NEW s \in Slot, DeleteBonds(s)
  PROVE  PartingSound'
<1>1. /\ Waits(s) /\ Now(s)' = "read asks" /\ bondRows' = [p \in Party |-> 0] /\ halved' = halved
  BY DeleteBondsMoves DEF Goes
<1>2. \A p \in Party : bondRows'[p] = 0
  BY <1>1
<1>3. BothAreContacts'
  BY <1>2, BothAre DEF Unpaired
<1>4. \A t \in Slot \ {s} : Parting(t)'
  BY <1>1, <1>2, OtherPartings
<1>5. Parting(s)'
  BY <1>1, ElsewhereParting DEF Removing
<1> QED
  BY <1>3, <1>4, <1>5 DEF PartingSound

LEMMA PartingKept ==
  ASSUME ContactsShape, DraftsSound, PartingSound, [ContactsNext]_contactsVars
  PROVE  PartingSound'
<1>1. ASSUME NEW s \in Slot, NEW p \in Party, SendRequest(s, p) PROVE PartingSound'
  <2>1. /\ Waits(s) /\ Now(s) # "unbond" /\ Now(s)' \notin Removing /\ bondRows' = bondRows /\ halved' = halved
    BY <1>1, SendRequestMoves DEF Starts, Removing
  <2> QED
    BY <2>1, RowsStandParting, ElsewhereParting
<1>2. ASSUME NEW s \in Slot, NEW p \in Party, WithdrawRequest(s, p) PROVE PartingSound'
  <2>1. /\ Waits(s) /\ Now(s) # "unbond" /\ Now(s)' \notin Removing /\ bondRows' = bondRows /\ halved' = halved
    BY <1>2, WithdrawRequestMoves DEF Starts, Removing
  <2> QED
    BY <2>1, RowsStandParting, ElsewhereParting
<1>3. ASSUME NEW s \in Slot, NEW p \in Party, Accept(s, p) PROVE PartingSound'
  <2>1. /\ Waits(s) /\ Now(s) # "unbond" /\ Now(s)' \notin Removing /\ bondRows' = bondRows /\ halved' = halved
    BY <1>3, AcceptMoves DEF Starts, Removing
  <2> QED
    BY <2>1, RowsStandParting, ElsewhereParting
<1>4. ASSUME NEW s \in Slot, NEW p \in Party, RejectRequest(s, p) PROVE PartingSound'
  <2>1. /\ Waits(s) /\ Now(s) # "unbond" /\ Now(s)' \notin Removing /\ bondRows' = bondRows /\ halved' = halved
    BY <1>4, RejectRequestMoves DEF Starts, Removing
  <2> QED
    BY <2>1, RowsStandParting, ElsewhereParting
<1>5. ASSUME NEW s \in Slot, NEW p \in Party, RemoveContact(s, p) PROVE PartingSound'
  <2>1. Now(s)' = "their bond" /\ mem'[s].key # 0 /\ Waits(s) /\ Now(s) = "done"
    BY <1>5, RemoveContactMoves DEF Starts, RemoveContact
  <2>2. Parting(s)'
    BY <2>1 DEF Parting
  <2>3. bondRows' = bondRows /\ halved' = halved
    BY <1>5, RemoveContactMoves
  <2> QED
    BY <2>1, <2>2, <2>3, RowsStandParting
<1>6. ASSUME NEW s \in Slot, NEW p \in Party, BlockContact(s, p) PROVE PartingSound'
  <2>1. /\ Waits(s) /\ Now(s) # "unbond" /\ Now(s)' \notin Removing /\ bondRows' = bondRows /\ halved' = halved
    BY <1>6, BlockContactMoves DEF Starts, Removing
  <2> QED
    BY <2>1, RowsStandParting, ElsewhereParting
<1>7. ASSUME NEW s \in Slot, NEW p \in Party, UnblockContact(s, p) PROVE PartingSound'
  <2>1. /\ Waits(s) /\ Now(s) # "unbond" /\ Now(s)' \notin Removing /\ bondRows' = bondRows /\ halved' = halved
    BY <1>7, UnblockContactMoves DEF Starts, Removing
  <2> QED
    BY <2>1, RowsStandParting, ElsewhereParting
<1>8. ASSUME NEW s \in Slot, PutAsk(s) PROVE PartingSound'
  <2>1. /\ Waits(s) /\ Now(s) # "unbond" /\ Now(s)' \notin Removing /\ bondRows' = bondRows /\ halved' = halved
    BY <1>8, PutAskMoves DEF Goes, Removing
  <2> QED
    BY <2>1, RowsStandParting, ElsewhereParting
<1>9. ASSUME NEW s \in Slot, InsertAsk(s) PROVE PartingSound'
  <2>1. /\ Waits(s) /\ Now(s) # "unbond" /\ Now(s)' \notin Removing /\ bondRows' = bondRows /\ halved' = halved
    BY <1>9, InsertAskMoves DEF Goes, Removing
  <2> QED
    BY <2>1, RowsStandParting, ElsewhereParting
<1>10. ASSUME NEW s \in Slot, DropAsk(s) PROVE PartingSound'
  <2>1. PICK x \in {"drop ask", "reject ask", "drop own ask"}, y \in {"bond rows", "unask", "own ask row"}, p \in Party :
          DropsAsk(s, x, y, p)
    BY <1>10, DropAskMoves
  <2>2. Waits(s) /\ Now(s) # "unbond" /\ Now(s)' \notin Removing
    BY <2>1 DEF DropsAsk, Goes, Removing
  <2> QED
    BY <2>1, <2>2, RowsStandParting, ElsewhereParting DEF DropsAsk
<1>11. ASSUME NEW s \in Slot, DeleteAsk(s) PROVE PartingSound'
  <2>1. PICK x \in {"unask", "own ask row"}, q \in Party : DeletesAsk(s, x, q)
    BY <1>11, DeleteAskMoves
  <2> QED
    BY <2>1, RowsStandParting, ElsewhereParting DEF DeletesAsk, Goes, Removing
<1>12. ASSUME NEW s \in Slot, PutBond(s) PROVE PartingSound'
  <2>1. PICK x, y \in {"put bond", "put their bond", "drop ask"}, p \in Party : PutsBond(s, x, y, p)
    BY <1>12, PutBondMoves
  <2> QED
    BY <2>1, RowsStandParting, ElsewhereParting, <1>12 DEF PutsBond, Goes, Removing
<1>13. ASSUME NEW s \in Slot, InsertBonds(s) PROVE PartingSound'
  BY <1>13, InsertBondsParting
<1>14. ASSUME NEW s \in Slot, ReadTheirBond(s) PROVE PartingSound'
  <2>1. /\ Waits(s) /\ Paired(s) /\ Now(s) = "their bond" /\ Now(s)' = "drop bond"
        /\ mem'[s] = [mem[s] EXCEPT !.theirs = bondRows[You(s)]]
        /\ You(s)' = You(s) /\ bondRows' = bondRows /\ halved' = halved
        /\ todo'[s] = Brief => bondRows[You(s)] = 0
    BY <1>14, ReadTheirBondMoves DEF Goes, contactTables, contactPast
  <2>2. mem[s] \in LetterRecord
    BY <2>1, NowAt, PairOf
  <2>3. mem'[s].key = mem[s].key
    BY <2>1, <2>2 DEF LetterRecord
  <2>4. Parting(s)'
    BY <2>1, <2>3 DEF PartingSound, Parting, Removing
  <2> QED
    BY <2>1, <2>4, RowsStandParting
<1>15. ASSUME NEW s \in Slot, DropBond(s) PROVE PartingSound'
  <2>1. /\ Waits(s) /\ Now(s) = "drop bond" /\ bondRows' = bondRows /\ halved' = halved
        /\ \/ Now(s)' = "done"
           \/ /\ mem'[s] = mem[s] /\ Me(s)' = Me(s) /\ You(s)' = You(s)
              /\ Now(s)' = IF todo[s] = Brief THEN "unbond" ELSE "drop their bond"
    BY <1>15, DropBondMoves DEF Goes, Remembers, contactPast
  <2>2. Parting(s)'
    BY <2>1 DEF PartingSound, Parting, Removing
  <2> QED
    BY <2>1, <2>2, RowsStandParting
<1>16. ASSUME NEW s \in Slot, DropTheirBond(s) PROVE PartingSound'
  <2>1. /\ Waits(s) /\ Now(s) = "drop their bond" /\ Now(s)' = "unbond theirs" /\ mem'[s] = mem[s]
        /\ bondRows' = bondRows /\ halved' = halved
    BY <1>16, DropTheirBondMoves DEF Goes, Remembers
  <2>2. Parting(s)'
    BY <2>1 DEF PartingSound, Parting, Removing
  <2> QED
    BY <2>1, <2>2, RowsStandParting
<1>17. ASSUME NEW s \in Slot, DeleteBond(s) PROVE PartingSound'
  BY <1>17, DeleteBondParting
<1>18. ASSUME NEW s \in Slot, DropBonds(s) PROVE PartingSound'
  <2>1. /\ Waits(s) /\ Now(s) # "unbond" /\ Now(s)' \notin Removing /\ bondRows' = bondRows /\ halved' = halved
    BY <1>18, DropBondsMoves DEF Goes, Removing
  <2> QED
    BY <2>1, RowsStandParting, ElsewhereParting
<1>19. ASSUME NEW s \in Slot, DeleteBonds(s) PROVE PartingSound'
  BY <1>19, DeleteBondsParting
<1>20. ASSUME NEW s \in Slot, ReadAsks(s) PROVE PartingSound'
  <2>1. /\ Waits(s) /\ Now(s) # "unbond" /\ Now(s)' \notin Removing /\ bondRows' = bondRows /\ halved' = halved
    BY <1>20, ReadAsksMoves DEF Goes, Removing, contactTables, contactPast
  <2> QED
    BY <2>1, RowsStandParting, ElsewhereParting
<1>21. ASSUME NEW s \in Slot, DropAsks(s) PROVE PartingSound'
  <2>1. /\ Waits(s) /\ Now(s) # "unbond" /\ Now(s)' \notin Removing /\ bondRows' = bondRows /\ halved' = halved
    BY <1>21, DropAsksMoves DEF Goes, Removing
  <2> QED
    BY <2>1, RowsStandParting, ElsewhereParting
<1>22. ASSUME NEW s \in Slot, DeleteAsks(s) PROVE PartingSound'
  <2>1. /\ Waits(s) /\ Now(s) # "unbond" /\ Now(s)' \notin Removing /\ bondRows' = bondRows /\ halved' = halved
    BY <1>22, DeleteAsksMoves DEF Goes, Removing
  <2> QED
    BY <2>1, RowsStandParting, ElsewhereParting
<1>23. ASSUME NEW s \in Slot, PutBar(s) PROVE PartingSound'
  <2>1. /\ Waits(s) /\ Now(s) # "unbond" /\ Now(s)' \notin Removing /\ bondRows' = bondRows /\ halved' = halved
    BY <1>23, PutBarMoves DEF Goes, Removing
  <2> QED
    BY <2>1, RowsStandParting, ElsewhereParting
<1>24. ASSUME NEW s \in Slot, InsertBar(s) PROVE PartingSound'
  <2>1. /\ Waits(s) /\ Now(s) # "unbond" /\ Now(s)' \notin Removing /\ bondRows' = bondRows /\ halved' = halved
    BY <1>24, InsertBarMoves DEF Goes, Removing
  <2> QED
    BY <2>1, RowsStandParting, ElsewhereParting
<1>25. ASSUME NEW s \in Slot, DropBar(s) PROVE PartingSound'
  <2>1. /\ Waits(s) /\ Now(s) = "drop bar" /\ Now(s)' \notin Removing /\ bondRows' = bondRows /\ halved' = halved
    BY <1>25, DropBarMoves DEF Goes, contactPast, Removing
  <2> QED
    BY <2>1, RowsStandParting, ElsewhereParting
<1>26. ASSUME NEW s \in Slot, DeleteBar(s) PROVE PartingSound'
  <2>1. /\ Waits(s) /\ Now(s) # "unbond" /\ Now(s)' \notin Removing /\ bondRows' = bondRows /\ halved' = halved
    BY <1>26, DeleteBarMoves DEF Goes, Removing
  <2> QED
    BY <2>1, RowsStandParting, ElsewhereParting
<1>27. ASSUME NEW s \in Slot, ContactFails(s) PROVE PartingSound'
  BY <1>27, ContactFailsMoves, RowsStandParting, ElsewhereParting DEF Removing
<1>28. CASE UNCHANGED contactsVars
  <2>1. /\ mem' = mem /\ todo' = todo /\ bondRows' = bondRows /\ halved' = halved
        /\ \A s \in Slot : Now(s)' = Now(s) /\ Me(s)' = Me(s) /\ You(s)' = You(s)
    BY <1>28 DEF contactsVars, requests, contactTables, contactPast, Now, Me, You
  <2>2. BothAreContacts'
    BY <2>1, BothAre DEF PartingSound, Unpaired, Removes
  <2> QED
    BY <2>1, <2>2 DEF PartingSound, Parting
<1> QED
  BY <1>1, <1>2, <1>3, <1>4, <1>5, <1>6, <1>7, <1>8, <1>9, <1>10, <1>11, <1>12, <1>13, <1>14,
     <1>15, <1>16, <1>17, <1>18, <1>19, <1>20, <1>21, <1>22, <1>23, <1>24, <1>25, <1>26, <1>27,
     <1>28 DEF ContactsNext

-----------------------------------------------------------------------------
(* One request at a time, and none between contacts. *)

\* Who asks, as nobody else asks or accepts, asks where there is nothing.
Asking(s) ==
  /\ Now(s) \in {"put ask", "ask row"} =>
       /\ \A p \in Party : askRows[p] = 0 /\ bondRows[p] = 0
       /\ \A t \in Slot \ {s} : Now(t) \notin Adders
  /\ Now(s) \in Accepting => \A p \in Party : askRows[p] \in {0, mem[s].key}

\* A row of a request that stands alone, or is about to go, or was left.
Closing(p) == \E s \in Slot : Now(s) = "unask" /\ mem[s].key = askRows[p]
Single(p) ==
  askRows[p] # 0 =>
    /\ askRows[Other(p)] = 0
    /\ (\A q \in Party : bondRows[q] = 0) \/ <<"ask", p, askRows[p]>> \in loose \/ Closing(p)

AskingSound ==
  asksCrossed \/ ((\A p \in Party : Single(p)) /\ \A s \in Slot : Asking(s))

LEMMA OneIs ==
  (asksCrossed \/ \A p \in Party : Single(p)) => OneAtATime
<1>1. \A s : At(s, "unask") <=> Now(s) = "unask"
  BY DEF At, Now
<1> QED
  BY <1>1 DEF OneAtATime, Single, Closing

LEMMA AddersPend ==
  ASSUME ContactsShape, NEW s \in Slot
  PROVE  /\ Now(s) \in Adders => SomeAdding
         /\ Now(s) \in Barrers => SomeBarring
BY ContactCourses DEF ContactsShape, Lettered, Leading, SomeAdding, SomeBarring

\* The row of a request is the one of who made it.
LEMMA OwnRow ==
  ASSUME ContactsShape, AsksSound, NEW s \in Slot, Now(s) = "unask", NEW p \in Party,
         askRows[p] # 0, askRows[p] = mem[s].key
  PROVE  p = You(s)
<1>1. Paired(s) /\ mem[s].key \in asksMade[You(s)]
  BY NowAt, PairOf DEF AsksSound, AskHeld, Accepting
<1>2. /\ askRows[p] \in asksMade[p] \cup {0}
      /\ asksMade[p] \cap asksMade[Other(p)] = {}
  BY DEF AsksSound, AskBooks
<1> QED
  BY <1>1, <1>2 DEF Paired

Gives(s) ==
  Now(s) = "unask" =>
    \A p \in Party : askRows'[p] # 0 /\ askRows[p] = mem[s].key => <<"ask", p, askRows[p]>> \in loose'

\* Where rows only go, and nobody sets out to add one.
LEMMA AskingStays ==
  ASSUME ContactsShape, AskingSound, NEW s \in Slot, Waits(s), asksCrossed' = asksCrossed,
         \A p \in Party : askRows'[p] \in {askRows[p], 0} /\ bondRows'[p] \in {bondRows[p], 0},
         loose \subseteq loose', Gives(s),
         Now(s)' \in Adders => Now(s) \in Adders,
         Now(s)' \notin {"put ask", "ask row"} \cup Accepting \/ (~asksCrossed => Asking(s)')
  PROVE  AskingSound'
<1> SUFFICES ASSUME ~asksCrossed PROVE (\A p \in Party : Single(p)') /\ (\A t \in Slot : Asking(t)')
  BY DEF AskingSound
<1>1. \A p \in Party, t \in Slot : Single(p) /\ Asking(t)
  BY DEF AskingSound
<1>2. ASSUME NEW p \in Party PROVE Single(p)'
  <2> SUFFICES ASSUME askRows'[p] # 0
               PROVE  /\ askRows'[Other(p)] = 0
                      /\ \/ \A q \in Party : bondRows'[q] = 0
                         \/ <<"ask", p, askRows'[p]>> \in loose'
                         \/ \E t \in Slot : Now(t)' = "unask" /\ mem'[t].key = askRows'[p]
    BY DEF Single, Closing
  <2>1. askRows'[p] = askRows[p] /\ askRows[p] # 0
    OBVIOUS
  <2>2. /\ askRows[Other(p)] = 0
        /\ (\A q \in Party : bondRows[q] = 0) \/ <<"ask", p, askRows[p]>> \in loose \/ Closing(p)
    BY <1>1, <2>1 DEF Single
  <2>3. askRows'[Other(p)] = 0
    BY <2>2, TwoParties
  <2>4. CASE Closing(p)
    <3>1. PICK t \in Slot : Now(t) = "unask" /\ mem[t].key = askRows[p]
      BY <2>4 DEF Closing
    <3>2. CASE t = s
      BY <2>1, <2>3, <3>1, <3>2 DEF Gives
    <3>3. CASE t # s
      BY <2>1, <2>3, <3>1, <3>3 DEF Waits
    <3> QED
      BY <3>2, <3>3
  <2> QED
    BY <2>1, <2>2, <2>3, <2>4
<1>3. ASSUME NEW t \in Slot, t # s PROVE Asking(t)'
  <2>1. Asking(t) /\ Now(t)' = Now(t) /\ mem'[t] = mem[t]
    BY <1>1, <1>3, PartyAssumption DEF Waits
  <2>2. \A u \in Slot \ {t} : Now(u) \notin Adders => Now(u)' \notin Adders
    BY DEF Waits
  <2> QED
    BY <2>1, <2>2 DEF Asking
<1>4. Now(s)' \notin {"put ask", "ask row"} \cup Accepting => Asking(s)'
  BY DEF Asking
<1> QED
  BY <1>2, <1>3, <1>4

LEMMA SendRequestAsking ==
  ASSUME ContactsShape, AskingSound, NEW s \in Slot, NEW p \in Party, SendRequest(s, p)
  PROVE  AskingSound'
<1>1. /\ Waits(s) /\ Now(s)' = "put ask" /\ Now(s) = "done" /\ UNCHANGED <<askRows, bondRows, loose>>
      /\ \A q \in Party : askRows[q] = 0 /\ bondRows[q] = 0
      /\ asksCrossed' = (asksCrossed \/ SomeAdding)
  BY SendRequestMoves DEF SendRequest, Starts
<1> SUFFICES ASSUME ~asksCrossed, ~SomeAdding PROVE (\A q \in Party : Single(q)') /\ (\A t \in Slot : Asking(t)')
  BY <1>1 DEF AskingSound
<1>2. \A t \in Slot \ {s} : Now(t)' \notin Adders
  BY <1>1, AddersPend DEF Waits
<1>3. \A q \in Party : askRows'[q] = 0 /\ bondRows'[q] = 0
  BY <1>1
<1>4. \A q \in Party : Single(q)'
  BY <1>3 DEF Single
<1>5. \A t \in Slot : Asking(t)'
  BY <1>1, <1>2, <1>3 DEF Asking, Accepting, Adders
<1> QED
  BY <1>4, <1>5

LEMMA AcceptAsking ==
  ASSUME ContactsShape, AskingSound, NEW s \in Slot, NEW p \in Party, Accept(s, p)
  PROVE  AskingSound'
<1>1. /\ Waits(s) /\ Now(s)' = "put bond" /\ Now(s) = "done" /\ UNCHANGED <<askRows, bondRows, loose, asksCrossed>>
      /\ askRows[Other(p)] # 0 /\ mem'[s].key = askRows[Other(p)]
  BY AcceptMoves DEF Accept, Starts
<1> SUFFICES ASSUME ~asksCrossed PROVE (\A q \in Party : Single(q)') /\ (\A t \in Slot : Asking(t)')
  BY <1>1 DEF AskingSound
<1>2. \A q \in Party, t \in Slot : Single(q) /\ Asking(t)
  BY DEF AskingSound
<1>3. Other(p) \in Party /\ Other(Other(p)) = p /\ \A q \in Party : q = p \/ q = Other(p)
  BY TwoParties
<1>4. askRows[p] = 0
  BY <1>1, <1>2, <1>3 DEF Single
<1>5. \A q \in Party : Single(q)'
  <2>1. \A q : Closing(q) => Closing(q)'
    BY <1>1 DEF Closing, Waits
  <2> QED
    BY <1>1, <1>2, <2>1 DEF Single
<1>6. Asking(s)'
  BY <1>1, <1>3, <1>4 DEF Asking, Accepting
<1>7. ASSUME NEW t \in Slot, t # s PROVE Asking(t)'
  <2>1. Asking(t) /\ Now(t)' = Now(t) /\ mem'[t] = mem[t] /\ Now(t) \notin {"put ask", "ask row"}
    BY <1>1, <1>2, <1>3, <1>7 DEF Asking, Waits
  <2> QED
    BY <1>1, <2>1 DEF Asking
<1> QED
  BY <1>5, <1>6, <1>7

LEMMA InsertAskAsking ==
  ASSUME ContactsShape, AskingSound, NEW s \in Slot, InsertAsk(s)
  PROVE  AskingSound'
<1>1. /\ Waits(s) /\ Paired(s) /\ Now(s) = "ask row" /\ Now(s)' = "done" /\ UNCHANGED <<bondRows, asksCrossed>>
      /\ askRows' = [askRows EXCEPT ![Me(s)] = IF @ = 0 THEN mem[s].key ELSE @]
  BY InsertAskMoves DEF Goes
<1> SUFFICES ASSUME ~asksCrossed PROVE (\A q \in Party : Single(q)') /\ (\A t \in Slot : Asking(t)')
  BY <1>1 DEF AskingSound
<1>2. /\ \A p \in Party : askRows[p] = 0 /\ bondRows[p] = 0
      /\ \A t \in Slot \ {s} : Now(t) \notin Adders
  BY <1>1, PartyAssumption DEF AskingSound, Asking
<1>3. \A p \in Party : p # Me(s) => askRows'[p] = 0
  BY <1>1, <1>2, TablesTyped DEF ContactsShape
<1>4. \A p \in Party : Single(p)'
  BY <1>1, <1>2, <1>3, TwoParties DEF Single, Paired
<1>5. \A t \in Slot : Now(t)' \notin Adders
  BY <1>1, <1>2 DEF Waits, Adders
<1>6. \A t \in Slot : Asking(t)'
  BY <1>5 DEF Asking, Adders, Accepting
<1> QED
  BY <1>4, <1>6

LEMMA InsertBondsAsking ==
  ASSUME ContactsShape, AskingSound, NEW s \in Slot, InsertBonds(s)
  PROVE  AskingSound'
<1>1. /\ Waits(s) /\ Now(s) = "bond rows" /\ Now(s)' = "unask" /\ UNCHANGED <<askRows, asksCrossed>>
      /\ mem'[s] = mem[s]
  BY InsertBondsMoves DEF Goes, Remembers
<1> SUFFICES ASSUME ~asksCrossed PROVE (\A q \in Party : Single(q)') /\ (\A t \in Slot : Asking(t)')
  BY <1>1 DEF AskingSound
<1>2. \A q \in Party, t \in Slot : Single(q) /\ Asking(t)
  BY DEF AskingSound
<1>3. \A p \in Party : askRows[p] \in {0, mem[s].key}
  BY <1>1, <1>2, PartyAssumption DEF Asking, Accepting
<1>4. \A p \in Party : Single(p)'
  BY <1>1, <1>2, <1>3 DEF Single, Closing
<1>5. ASSUME NEW t \in Slot, t # s PROVE Asking(t)'
  <2>1. Asking(t) /\ Now(t)' = Now(t) /\ mem'[t] = mem[t]
    BY <1>1, <1>2, <1>5, PartyAssumption DEF Waits
  <2>2. Now(s) \in Adders
    BY <1>1 DEF Adders
  <2> QED
    BY <1>1, <1>5, <2>1, <2>2 DEF Asking
<1>6. Asking(s)'
  BY <1>1 DEF Asking, Accepting
<1> QED
  BY <1>4, <1>5, <1>6

LEMMA AskingKept ==
  ASSUME ContactsShape, AsksSound, AskingSound, [ContactsNext]_contactsVars
  PROVE  AskingSound'
<1>1. ASSUME NEW s \in Slot, NEW p \in Party, SendRequest(s, p) PROVE AskingSound'
  BY <1>1, SendRequestAsking
<1>2. ASSUME NEW s \in Slot, NEW p \in Party, WithdrawRequest(s, p) PROVE AskingSound'
  <2>1. /\ Waits(s) /\ UNCHANGED <<asksCrossed, askRows, bondRows>> /\ loose \subseteq loose'
        /\ Now(s) # "unask" /\ Now(s)' \notin Adders
    BY <1>2, WithdrawRequestMoves DEF WithdrawRequest, meetings, Starts, Adders
  <2> QED
    BY <2>1, AskingStays DEF Gives, Adders, Accepting
<1>3. ASSUME NEW s \in Slot, NEW p \in Party, Accept(s, p) PROVE AskingSound'
  BY <1>3, AcceptAsking
<1>4. ASSUME NEW s \in Slot, NEW p \in Party, RejectRequest(s, p) PROVE AskingSound'
  <2>1. /\ Waits(s) /\ UNCHANGED <<asksCrossed, askRows, bondRows>> /\ loose \subseteq loose'
        /\ Now(s) # "unask" /\ Now(s)' \notin Adders
    BY <1>4, RejectRequestMoves DEF RejectRequest, meetings, Starts, Adders
  <2> QED
    BY <2>1, AskingStays DEF Gives, Adders, Accepting
<1>5. ASSUME NEW s \in Slot, NEW p \in Party, RemoveContact(s, p) PROVE AskingSound'
  <2>1. /\ Waits(s) /\ UNCHANGED <<asksCrossed, askRows, bondRows>> /\ loose \subseteq loose'
        /\ Now(s) # "unask" /\ Now(s)' \notin Adders
    BY <1>5, RemoveContactMoves DEF RemoveContact, meetings, Starts, Adders
  <2> QED
    BY <2>1, AskingStays DEF Gives, Adders, Accepting
<1>6. ASSUME NEW s \in Slot, NEW p \in Party, BlockContact(s, p) PROVE AskingSound'
  <2>1. /\ Waits(s) /\ UNCHANGED <<asksCrossed, askRows, bondRows>> /\ loose \subseteq loose'
        /\ Now(s) # "unask" /\ Now(s)' \notin Adders
    BY <1>6, BlockContactMoves DEF Starts, Adders
  <2> QED
    BY <2>1, AskingStays DEF Gives, Adders, Accepting
<1>7. ASSUME NEW s \in Slot, NEW p \in Party, UnblockContact(s, p) PROVE AskingSound'
  <2>1. /\ Waits(s) /\ UNCHANGED <<asksCrossed, askRows, bondRows>> /\ loose \subseteq loose'
        /\ Now(s) # "unask" /\ Now(s)' \notin Adders
    BY <1>7, UnblockContactMoves DEF UnblockContact, meetings, Starts, Adders
  <2> QED
    BY <2>1, AskingStays DEF Gives, Adders, Accepting
<1>8. ASSUME NEW s \in Slot, PutAsk(s) PROVE AskingSound'
  <2>1. /\ Waits(s) /\ UNCHANGED <<asksCrossed, askRows, bondRows, loose>>
        /\ Now(s) = "put ask" /\ Now(s)' = "ask row"
    BY <1>8, PutAskMoves DEF Goes
  <2>2. ~asksCrossed => Asking(s)'
    BY <2>1, PartyAssumption DEF AskingSound, Asking, Accepting, Waits
  <2> QED
    BY <2>1, <2>2, AskingStays DEF Gives, Adders
<1>9. ASSUME NEW s \in Slot, InsertAsk(s) PROVE AskingSound'
  BY <1>9, InsertAskAsking
<1>10. ASSUME NEW s \in Slot, DropAsk(s) PROVE AskingSound'
  <2>1. PICK x \in {"drop ask", "reject ask", "drop own ask"}, y \in {"bond rows", "unask", "own ask row"}, p \in Party :
          DropsAsk(s, x, y, p) /\ (x = "drop ask" <=> y = "bond rows")
    BY <1>10, DropAskMoves
  <2>2. /\ Waits(s) /\ UNCHANGED <<asksCrossed, askRows, bondRows>> /\ loose \subseteq loose' /\ Now(s) = x
        /\ Now(s)' = "done" \/ (Now(s)' = y /\ mem'[s] = mem[s])
    BY <2>1 DEF DropsAsk, Goes, Remembers
  <2>3. ~asksCrossed => Asking(s)'
    BY <2>1, <2>2, PartyAssumption DEF AskingSound, Asking, Accepting
  <2> QED
    BY <2>1, <2>2, <2>3, AskingStays DEF Gives, Adders
<1>11. ASSUME NEW s \in Slot, DeleteAsk(s) PROVE AskingSound'
  <2>1. PICK x \in {"unask", "own ask row"}, q \in Party :
          DeletesAsk(s, x, q) /\ (x = "unask" => q = You(s))
    BY <1>11, DeleteAskMoves DEF DeletesAsk, Goes, Paired
  <2>2. /\ Waits(s) /\ UNCHANGED <<asksCrossed, bondRows, loose>> /\ Now(s) = x /\ Now(s)' = "done"
    BY <2>1 DEF DeletesAsk, Goes
  <2>3. \A r \in Party : /\ askRows'[r] \in {askRows[r], 0}
                         /\ r = q /\ askRows[r] = mem[s].key => askRows'[r] = 0
    BY <2>1, TablesTyped DEF DeletesAsk, ContactsShape
  <2>4. Gives(s)
    BY <2>1, <2>2, <2>3, OwnRow DEF Gives
  <2> QED
    BY <2>2, <2>3, <2>4, AskingStays DEF Adders, Accepting
<1>12. ASSUME NEW s \in Slot, PutBond(s) PROVE AskingSound'
  <2>1. PICK x, y \in {"put bond", "put their bond", "drop ask"}, p \in Party : PutsBond(s, x, y, p)
    BY <1>12, PutBondMoves
  <2>2. /\ Waits(s) /\ UNCHANGED <<asksCrossed, askRows, bondRows, loose>> /\ Now(s) = x /\ Now(s)' = y
    BY <2>1 DEF PutsBond, Goes
  <2>3. mem'[s].key = mem[s].key
    <3>1. mem[s] \in LetterRecord
      BY <2>2, NowAt, PairOf
    <3> QED
      BY <2>1, <3>1 DEF PutsBond, LetterRecord
  <2>4. ~asksCrossed => Asking(s)'
    BY <2>2, <2>3, PartyAssumption DEF AskingSound, Asking, Accepting
  <2> QED
    BY <2>2, <2>4, AskingStays DEF Gives, Adders
<1>13. ASSUME NEW s \in Slot, InsertBonds(s) PROVE AskingSound'
  BY <1>13, InsertBondsAsking
<1>14. ASSUME NEW s \in Slot, ReadTheirBond(s) PROVE AskingSound'
  <2>1. /\ Waits(s) /\ UNCHANGED <<asksCrossed, askRows, bondRows>> /\ loose \subseteq loose'
        /\ Now(s) # "unask" /\ Now(s)' \notin Adders
    BY <1>14, ReadTheirBondMoves DEF Goes, contactTables, contactPast, meetings, Adders
  <2> QED
    BY <2>1, AskingStays DEF Gives, Adders, Accepting
<1>15. ASSUME NEW s \in Slot, DropBond(s) PROVE AskingSound'
  <2>1. /\ Waits(s) /\ UNCHANGED <<asksCrossed, askRows, bondRows>> /\ loose \subseteq loose'
        /\ Now(s) # "unask" /\ Now(s)' \notin Adders
    BY <1>15, DropBondMoves DEF Goes, contactPast, meetings, Adders
  <2> QED
    BY <2>1, AskingStays DEF Gives, Adders, Accepting
<1>16. ASSUME NEW s \in Slot, DropTheirBond(s) PROVE AskingSound'
  <2>1. /\ Waits(s) /\ UNCHANGED <<asksCrossed, askRows, bondRows>> /\ loose \subseteq loose'
        /\ Now(s) # "unask" /\ Now(s)' \notin Adders
    BY <1>16, DropTheirBondMoves DEF Goes, Adders
  <2> QED
    BY <2>1, AskingStays DEF Gives, Adders, Accepting
<1>17. ASSUME NEW s \in Slot, DeleteBond(s) PROVE AskingSound'
  <2>1. PICK x \in {"unbond theirs", "unbond"}, y \in {"unbond", "done"}, q \in Party,
            read \in {mem[s].theirs, mem[s].key} : DeletesBond(s, x, y, q, read)
    BY <1>17, DeleteBondMoves DEF DeletesBond, Goes, Paired
  <2>2. /\ Waits(s) /\ UNCHANGED <<asksCrossed, askRows>> /\ loose \subseteq loose' /\ Now(s) = x /\ Now(s)' = y
    BY <2>1 DEF DeletesBond, Goes
  <2>3. \A r \in Party : bondRows'[r] \in {bondRows[r], 0}
    BY <2>1, TablesTyped DEF DeletesBond, ContactsShape
  <2> QED
    BY <2>2, <2>3, AskingStays DEF Gives, Adders, Accepting
<1>18. ASSUME NEW s \in Slot, DropBonds(s) PROVE AskingSound'
  <2>1. /\ Waits(s) /\ UNCHANGED <<asksCrossed, askRows, bondRows>> /\ loose \subseteq loose'
        /\ Now(s) # "unask" /\ Now(s)' \notin Adders
    BY <1>18, DropBondsMoves DEF Goes, Adders
  <2> QED
    BY <2>1, AskingStays DEF Gives, Adders, Accepting
<1>19. ASSUME NEW s \in Slot, DeleteBonds(s) PROVE AskingSound'
  <2>1. /\ Waits(s) /\ UNCHANGED <<asksCrossed, askRows>> /\ loose \subseteq loose'
        /\ Now(s) # "unask" /\ Now(s)' \notin Adders /\ \A q \in Party : bondRows'[q] = 0
    BY <1>19, DeleteBondsMoves DEF Goes, Adders
  <2> QED
    BY <2>1, AskingStays DEF Gives, Adders, Accepting
<1>20. ASSUME NEW s \in Slot, ReadAsks(s) PROVE AskingSound'
  <2>1. /\ Waits(s) /\ UNCHANGED <<asksCrossed, askRows, bondRows>> /\ loose \subseteq loose'
        /\ Now(s) # "unask" /\ Now(s)' \notin Adders
    BY <1>20, ReadAsksMoves DEF Goes, contactTables, contactPast, meetings, Adders
  <2> QED
    BY <2>1, AskingStays DEF Gives, Adders, Accepting
<1>21. ASSUME NEW s \in Slot, DropAsks(s) PROVE AskingSound'
  <2>1. /\ Waits(s) /\ UNCHANGED <<asksCrossed, askRows, bondRows>> /\ loose \subseteq loose'
        /\ Now(s) # "unask" /\ Now(s)' \notin Adders
    BY <1>21, DropAsksMoves DEF Goes, Adders
  <2> QED
    BY <2>1, AskingStays DEF Gives, Adders, Accepting
<1>22. ASSUME NEW s \in Slot, DeleteAsks(s) PROVE AskingSound'
  <2>1. /\ Waits(s) /\ UNCHANGED <<asksCrossed, bondRows>> /\ loose \subseteq loose'
        /\ Now(s) # "unask" /\ Now(s)' \notin Adders /\ \A q \in Party : askRows'[q] = 0
    BY <1>22, DeleteAsksMoves DEF Goes, Adders
  <2> QED
    BY <2>1, AskingStays DEF Gives, Adders, Accepting
<1>23. ASSUME NEW s \in Slot, PutBar(s) PROVE AskingSound'
  <2>1. /\ Waits(s) /\ UNCHANGED <<asksCrossed, askRows, bondRows>> /\ loose \subseteq loose'
        /\ Now(s) # "unask" /\ Now(s)' \notin Adders
    BY <1>23, PutBarMoves DEF Goes, Adders
  <2> QED
    BY <2>1, AskingStays DEF Gives, Adders, Accepting
<1>24. ASSUME NEW s \in Slot, InsertBar(s) PROVE AskingSound'
  <2>1. /\ Waits(s) /\ UNCHANGED <<asksCrossed, askRows, bondRows>> /\ loose \subseteq loose'
        /\ Now(s) # "unask" /\ Now(s)' \notin Adders
    BY <1>24, InsertBarMoves DEF Goes, Adders
  <2> QED
    BY <2>1, AskingStays DEF Gives, Adders, Accepting
<1>25. ASSUME NEW s \in Slot, DropBar(s) PROVE AskingSound'
  <2>1. /\ Waits(s) /\ UNCHANGED <<asksCrossed, askRows, bondRows>> /\ loose \subseteq loose'
        /\ Now(s) # "unask" /\ Now(s)' \notin Adders
    BY <1>25, DropBarMoves DEF Goes, contactPast, meetings, Adders
  <2> QED
    BY <2>1, AskingStays DEF Gives, Adders, Accepting
<1>26. ASSUME NEW s \in Slot, DeleteBar(s) PROVE AskingSound'
  <2>1. /\ Waits(s) /\ UNCHANGED <<asksCrossed, askRows, bondRows>> /\ loose \subseteq loose'
        /\ Now(s) # "unask" /\ Now(s)' \notin Adders
    BY <1>26, DeleteBarMoves DEF Goes, Adders
  <2> QED
    BY <2>1, AskingStays DEF Gives, Adders, Accepting
<1>27. ASSUME NEW s \in Slot, ContactFails(s) PROVE AskingSound'
  <2>1. /\ Waits(s) /\ UNCHANGED <<asksCrossed, askRows, bondRows>> /\ loose' = loose \cup HalfDone(s)
        /\ Now(s)' = "done"
    BY <1>27, ContactFailsMoves
  <2>2. Gives(s)
    BY <2>1, OwnRow, HalvesOwed DEF Gives, Owing, AskOwed
  <2> QED
    BY <2>1, <2>2, AskingStays DEF Adders, Accepting
<1>28. CASE UNCHANGED contactsVars
  <2>1. /\ mem' = mem /\ UNCHANGED <<askRows, bondRows, loose, asksCrossed>>
        /\ \A s \in Slot : Now(s)' = Now(s)
    BY <1>28 DEF contactsVars, requests, contactTables, contactPast, meetings, Now
  <2>2. \A p \in Party : Closing(p)' <=> Closing(p)
    BY <2>1 DEF Closing
  <2> QED
    BY <2>1, <2>2 DEF AskingSound, Single, Asking
<1> QED
  BY <1>1, <1>2, <1>3, <1>4, <1>5, <1>6, <1>7, <1>8, <1>9, <1>10, <1>11, <1>12, <1>13, <1>14,
     <1>15, <1>16, <1>17, <1>18, <1>19, <1>20, <1>21, <1>22, <1>23, <1>24, <1>25, <1>26, <1>27,
     <1>28 DEF ContactsNext

-----------------------------------------------------------------------------
(* Where one has blocked the other. *)

\* Who blocks, as nobody asks or accepts, leaves nothing.
Barring(s) ==
  /\ Now(s) \in Barrers => \A t \in Slot : Now(t) \notin Adders
  /\ Now(s) \in Barrers \ {"drop bonds", "unbond both"} => \A p \in Party : bondRows[p] = 0
  /\ Now(s) \in {"put bar", "bar row"} => \A p \in Party : askRows[p] = 0

Parted == \A p \in Party : askRows[p] = 0 /\ bondRows[p] = 0

BarringSound ==
  \/ overtaken
  \/ /\ Blocked => Parted /\ \A t \in Slot : Now(t) \notin Adders
     /\ \A s \in Slot : Barring(s)

\* Where rows only go, and nobody sets out to add one or to block.
LEMMA BarringStays ==
  ASSUME ContactsShape, BarringSound, NEW s \in Slot, Waits(s), overtaken' = overtaken, Blocked' => Blocked,
         \A p \in Party : askRows'[p] \in {askRows[p], 0} /\ bondRows'[p] \in {bondRows[p], 0},
         Now(s)' \in Adders => Now(s) \in Adders, Now(s)' \in Barrers => Now(s) \in Barrers,
         ~overtaken /\ Now(s)' \in Barrers \ {"drop bonds", "unbond both"} => \A p \in Party : bondRows'[p] = 0,
         ~overtaken /\ Now(s)' \in {"put bar", "bar row"} => \A p \in Party : askRows'[p] = 0
  PROVE  BarringSound'
<1> SUFFICES ASSUME ~overtaken
             PROVE  /\ Blocked' => Parted' /\ \A t \in Slot : Now(t)' \notin Adders
                    /\ \A t \in Slot : Barring(t)'
  BY DEF BarringSound
<1>1. /\ Blocked => Parted /\ \A t \in Slot : Now(t) \notin Adders
      /\ \A t \in Slot : Barring(t)
  BY DEF BarringSound
<1>2. (\A t \in Slot : Now(t) \notin Adders) => \A t \in Slot : Now(t)' \notin Adders
  BY DEF Waits
<1>3. Parted => Parted'
  BY DEF Parted
<1>4. Barring(s)'
  BY <1>1, <1>2 DEF Barring
<1>5. ASSUME NEW t \in Slot, t # s PROVE Barring(t)'
  <2>1. Barring(t) /\ Now(t)' = Now(t)
    BY <1>1, <1>5 DEF Waits
  <2> QED
    BY <1>2, <2>1 DEF Barring
<1> QED
  BY <1>1, <1>2, <1>3, <1>4, <1>5

\* Whoever sets out to add a row, as nobody blocks.
LEMMA AdderBarring ==
  ASSUME ContactsShape, BarringSound, NEW s \in Slot, Waits(s), overtaken' = (overtaken \/ SomeBarring),
         Now(s)' \in Adders, ~overtaken => ~Blocked, UNCHANGED <<askRows, bondRows, barRows>>
  PROVE  BarringSound'
<1> SUFFICES ASSUME ~overtaken, ~SomeBarring PROVE ~Blocked' /\ \A t \in Slot : Barring(t)'
  BY DEF BarringSound
<1>1. \A t \in Slot : Now(t)' \notin Barrers
  BY AddersPend DEF Waits, Adders, Barrers
<1>2. ~Blocked'
  BY DEF Blocked
<1>3. {"put bar", "bar row"} \subseteq Barrers
  BY DEF Barrers
<1> QED
  BY <1>1, <1>2, <1>3 DEF Barring

\* A row is added while nobody blocks.
LEMMA AddedBarring ==
  ASSUME ContactsShape, BarringSound, NEW s \in Slot, Waits(s), overtaken' = overtaken,
         Now(s) \in Adders, Now(s)' \notin Barrers, UNCHANGED barRows
  PROVE  BarringSound'
<1> SUFFICES ASSUME ~overtaken PROVE ~Blocked' /\ \A t \in Slot : Barring(t)'
  BY DEF BarringSound
<1>1. ~Blocked /\ \A t \in Slot : Now(t) \notin Barrers
  BY DEF BarringSound, Barring
<1>2. ~Blocked' /\ \A t \in Slot : Now(t)' \notin Barrers
  BY <1>1 DEF Blocked, Waits
<1>3. {"put bar", "bar row"} \subseteq Barrers
  BY DEF Barrers
<1> QED
  BY <1>2, <1>3 DEF Barring

LEMMA BlockContactBarring ==
  ASSUME ContactsShape, BarringSound, NEW s \in Slot, NEW p \in Party, BlockContact(s, p)
  PROVE  BarringSound'
<1>1. /\ Waits(s) /\ Now(s)' = "drop bonds" /\ UNCHANGED <<askRows, bondRows, barRows>>
      /\ overtaken' = (overtaken \/ SomeAdding)
  BY BlockContactMoves DEF BlockContact, Starts
<1> SUFFICES ASSUME ~overtaken, ~SomeAdding
             PROVE  /\ Blocked' => Parted' /\ \A t \in Slot : Now(t)' \notin Adders
                    /\ \A t \in Slot : Barring(t)'
  BY <1>1 DEF BarringSound
<1>2. \A t \in Slot : Now(t)' \notin Adders
  BY <1>1, AddersPend DEF Waits, Adders
<1>3. Blocked' => Parted'
  BY <1>1 DEF BarringSound, Blocked, Parted
<1>4. \A t \in Slot \ {s} : Barring(t)'
  BY <1>1, <1>2 DEF BarringSound, Barring, Waits
<1>5. Barring(s)'
  BY <1>1, <1>2 DEF Barring
<1> QED
  BY <1>2, <1>3, <1>4, <1>5

LEMMA InsertBarBarring ==
  ASSUME ContactsShape, BarringSound, NEW s \in Slot, InsertBar(s)
  PROVE  BarringSound'
<1>1. /\ Waits(s) /\ Now(s) = "bar row" /\ Now(s)' = "done" /\ UNCHANGED <<askRows, bondRows, overtaken>>
  BY InsertBarMoves DEF Goes
<1> SUFFICES ASSUME ~overtaken
             PROVE  /\ Parted' /\ \A t \in Slot : Now(t)' \notin Adders
                    /\ \A t \in Slot : Barring(t)'
  BY <1>1 DEF BarringSound
<1>2. Barring(s) /\ \A t \in Slot : Barring(t)
  BY DEF BarringSound
<1>3. Parted /\ \A t \in Slot : Now(t) \notin Adders
  BY <1>1, <1>2 DEF Barring, Barrers, Parted
<1>4. Parted' /\ \A t \in Slot : Now(t)' \notin Adders
  BY <1>1, <1>3 DEF Parted, Waits, Adders
<1>5. \A t \in Slot : Barring(t)'
  BY <1>4 DEF Barring, Parted
<1> QED
  BY <1>4, <1>5

LEMMA BarringKept ==
  ASSUME ContactsShape, BarringSound, [ContactsNext]_contactsVars
  PROVE  BarringSound'
<1>1. ASSUME NEW s \in Slot, NEW p \in Party, SendRequest(s, p) PROVE BarringSound'
  <2>1. /\ Waits(s) /\ Now(s)' \in Adders /\ overtaken' = (overtaken \/ SomeBarring) /\ ~Blocked
        /\ UNCHANGED <<askRows, bondRows, barRows>>
    BY <1>1, SendRequestMoves DEF SendRequest, Starts, Adders
  <2> QED
    BY <2>1, AdderBarring
<1>2. ASSUME NEW s \in Slot, NEW p \in Party, WithdrawRequest(s, p) PROVE BarringSound'
  <2>1. /\ Waits(s) /\ UNCHANGED <<overtaken, askRows, bondRows, barRows>>
        /\ Now(s)' \notin Adders /\ Now(s)' \notin Barrers
    BY <1>2, WithdrawRequestMoves DEF WithdrawRequest, meetings, Starts, Adders, Barrers
  <2>2. {"put bar", "bar row"} \subseteq Barrers
    BY DEF Barrers
  <2> QED
    BY <2>1, <2>2, BarringStays DEF Blocked
<1>3. ASSUME NEW s \in Slot, NEW p \in Party, Accept(s, p) PROVE BarringSound'
  <2>1. /\ Waits(s) /\ Now(s)' \in Adders /\ overtaken' = (overtaken \/ SomeBarring) /\ askRows[Other(p)] # 0
        /\ UNCHANGED <<askRows, bondRows, barRows>>
    BY <1>3, AcceptMoves DEF Accept, Starts, Adders
  <2>2. ~overtaken => ~Blocked
    BY <2>1, <1>3, TwoParties DEF BarringSound, Parted
  <2> QED
    BY <2>1, <2>2, AdderBarring
<1>4. ASSUME NEW s \in Slot, NEW p \in Party, RejectRequest(s, p) PROVE BarringSound'
  <2>1. /\ Waits(s) /\ UNCHANGED <<overtaken, askRows, bondRows, barRows>>
        /\ Now(s)' \notin Adders /\ Now(s)' \notin Barrers
    BY <1>4, RejectRequestMoves DEF RejectRequest, meetings, Starts, Adders, Barrers
  <2>2. {"put bar", "bar row"} \subseteq Barrers
    BY DEF Barrers
  <2> QED
    BY <2>1, <2>2, BarringStays DEF Blocked
<1>5. ASSUME NEW s \in Slot, NEW p \in Party, RemoveContact(s, p) PROVE BarringSound'
  <2>1. /\ Waits(s) /\ UNCHANGED <<overtaken, askRows, bondRows, barRows>>
        /\ Now(s)' \notin Adders /\ Now(s)' \notin Barrers
    BY <1>5, RemoveContactMoves DEF RemoveContact, meetings, Starts, Adders, Barrers
  <2>2. {"put bar", "bar row"} \subseteq Barrers
    BY DEF Barrers
  <2> QED
    BY <2>1, <2>2, BarringStays DEF Blocked
<1>6. ASSUME NEW s \in Slot, NEW p \in Party, BlockContact(s, p) PROVE BarringSound'
  BY <1>6, BlockContactBarring
<1>7. ASSUME NEW s \in Slot, NEW p \in Party, UnblockContact(s, p) PROVE BarringSound'
  <2>1. /\ Waits(s) /\ UNCHANGED <<overtaken, askRows, bondRows, barRows>>
        /\ Now(s)' \notin Adders /\ Now(s)' \notin Barrers
    BY <1>7, UnblockContactMoves DEF UnblockContact, meetings, Starts, Adders, Barrers
  <2>2. {"put bar", "bar row"} \subseteq Barrers
    BY DEF Barrers
  <2> QED
    BY <2>1, <2>2, BarringStays DEF Blocked
<1>8. ASSUME NEW s \in Slot, PutAsk(s) PROVE BarringSound'
  <2>1. /\ Waits(s) /\ overtaken' = overtaken /\ Now(s) \in Adders /\ Now(s)' \notin Barrers /\ barRows' = barRows
    BY <1>8, PutAskMoves DEF Goes, Adders, Barrers
  <2> QED
    BY <2>1, AddedBarring
<1>9. ASSUME NEW s \in Slot, InsertAsk(s) PROVE BarringSound'
  <2>1. /\ Waits(s) /\ overtaken' = overtaken /\ Now(s) \in Adders /\ Now(s)' \notin Barrers /\ barRows' = barRows
    BY <1>9, InsertAskMoves DEF Goes, Adders, Barrers
  <2> QED
    BY <2>1, AddedBarring
<1>10. ASSUME NEW s \in Slot, DropAsk(s) PROVE BarringSound'
  <2>1. PICK x \in {"drop ask", "reject ask", "drop own ask"}, y \in {"bond rows", "unask", "own ask row"}, p \in Party :
          DropsAsk(s, x, y, p) /\ (x = "drop ask" <=> y = "bond rows")
    BY <1>10, DropAskMoves
  <2>2. /\ Waits(s) /\ UNCHANGED <<overtaken, askRows, bondRows, barRows>> /\ Now(s) = x
        /\ Now(s)' \in {"done", y}
    BY <2>1 DEF DropsAsk, Goes
  <2> QED
    BY <2>1, <2>2, BarringStays DEF Blocked, Adders, Barrers
<1>11. ASSUME NEW s \in Slot, DeleteAsk(s) PROVE BarringSound'
  <2>1. PICK x \in {"unask", "own ask row"}, q \in Party : DeletesAsk(s, x, q)
    BY <1>11, DeleteAskMoves DEF DeletesAsk, Goes, Paired
  <2>2. /\ Waits(s) /\ UNCHANGED <<overtaken, bondRows, barRows>> /\ Now(s)' = "done"
    BY <2>1 DEF DeletesAsk, Goes
  <2>3. \A r \in Party : askRows'[r] \in {askRows[r], 0}
    BY <2>1, TablesTyped DEF DeletesAsk, ContactsShape
  <2> QED
    BY <2>2, <2>3, BarringStays DEF Blocked, Adders, Barrers
<1>12. ASSUME NEW s \in Slot, PutBond(s) PROVE BarringSound'
  <2>1. PICK x, y \in {"put bond", "put their bond", "drop ask"}, p \in Party : PutsBond(s, x, y, p)
    BY <1>12, PutBondMoves
  <2> QED
    BY <2>1, <1>12, AddedBarring DEF PutsBond, Goes, Adders, Barrers
<1>13. ASSUME NEW s \in Slot, InsertBonds(s) PROVE BarringSound'
  <2>1. /\ Waits(s) /\ overtaken' = overtaken /\ Now(s) \in Adders /\ Now(s)' \notin Barrers /\ barRows' = barRows
    BY <1>13, InsertBondsMoves DEF Goes, Adders, Barrers
  <2> QED
    BY <2>1, AddedBarring
<1>14. ASSUME NEW s \in Slot, ReadTheirBond(s) PROVE BarringSound'
  <2>1. /\ Waits(s) /\ UNCHANGED <<overtaken, askRows, bondRows, barRows>>
        /\ Now(s)' \notin Adders /\ Now(s)' \notin Barrers
    BY <1>14, ReadTheirBondMoves DEF Goes, contactTables, contactPast, meetings, Adders, Barrers
  <2>2. {"put bar", "bar row"} \subseteq Barrers
    BY DEF Barrers
  <2> QED
    BY <2>1, <2>2, BarringStays DEF Blocked
<1>15. ASSUME NEW s \in Slot, DropBond(s) PROVE BarringSound'
  <2>1. /\ Waits(s) /\ UNCHANGED <<overtaken, askRows, bondRows, barRows>>
        /\ Now(s)' \notin Adders /\ Now(s)' \notin Barrers
    BY <1>15, DropBondMoves DEF Goes, contactPast, meetings, Adders, Barrers
  <2>2. {"put bar", "bar row"} \subseteq Barrers
    BY DEF Barrers
  <2> QED
    BY <2>1, <2>2, BarringStays DEF Blocked
<1>16. ASSUME NEW s \in Slot, DropTheirBond(s) PROVE BarringSound'
  <2>1. /\ Waits(s) /\ UNCHANGED <<overtaken, askRows, bondRows, barRows>>
        /\ Now(s)' \notin Adders /\ Now(s)' \notin Barrers
    BY <1>16, DropTheirBondMoves DEF Goes, Adders, Barrers
  <2>2. {"put bar", "bar row"} \subseteq Barrers
    BY DEF Barrers
  <2> QED
    BY <2>1, <2>2, BarringStays DEF Blocked
<1>17. ASSUME NEW s \in Slot, DeleteBond(s) PROVE BarringSound'
  <2>1. PICK x \in {"unbond theirs", "unbond"}, y \in {"unbond", "done"}, q \in Party,
            read \in {mem[s].theirs, mem[s].key} : DeletesBond(s, x, y, q, read)
    BY <1>17, DeleteBondMoves DEF DeletesBond, Goes, Paired
  <2>2. /\ Waits(s) /\ UNCHANGED <<overtaken, askRows, barRows>> /\ Now(s)' = y
    BY <2>1 DEF DeletesBond, Goes
  <2>3. \A r \in Party : bondRows'[r] \in {bondRows[r], 0}
    BY <2>1, TablesTyped DEF DeletesBond, ContactsShape
  <2> QED
    BY <2>2, <2>3, BarringStays DEF Blocked, Adders, Barrers
<1>18. ASSUME NEW s \in Slot, DropBonds(s) PROVE BarringSound'
  <2>1. /\ Waits(s) /\ overtaken' = overtaken /\ barRows' = barRows
        /\ Now(s) = "drop bonds" /\ Now(s)' = "unbond both"
        /\ UNCHANGED <<askRows, bondRows>>
    BY <1>18, DropBondsMoves DEF Goes
  <2>2. \A p \in Party : askRows'[p] \in {askRows[p], 0} /\ bondRows'[p] \in {bondRows[p], 0}
    BY <2>1
  <2>3. /\ ~overtaken /\ Now(s)' \in Barrers \ {"drop bonds", "unbond both"} => \A p \in Party : bondRows'[p] = 0
        /\ ~overtaken /\ Now(s)' \in {"put bar", "bar row"} => \A p \in Party : askRows'[p] = 0
    BY <2>1 DEF BarringSound, Barring, Barrers
  <2> QED
    BY <2>1, <2>2, <2>3, BarringStays DEF Blocked, Adders, Barrers
<1>19. ASSUME NEW s \in Slot, DeleteBonds(s) PROVE BarringSound'
  <2>1. /\ Waits(s) /\ overtaken' = overtaken /\ barRows' = barRows
        /\ Now(s) = "unbond both" /\ Now(s)' = "read asks"
        /\ askRows' = askRows /\ \A q \in Party : bondRows'[q] = 0
    BY <1>19, DeleteBondsMoves DEF Goes
  <2>2. \A p \in Party : askRows'[p] \in {askRows[p], 0} /\ bondRows'[p] \in {bondRows[p], 0}
    BY <2>1
  <2>3. /\ ~overtaken /\ Now(s)' \in Barrers \ {"drop bonds", "unbond both"} => \A p \in Party : bondRows'[p] = 0
        /\ ~overtaken /\ Now(s)' \in {"put bar", "bar row"} => \A p \in Party : askRows'[p] = 0
    BY <2>1 DEF BarringSound, Barring, Barrers
  <2> QED
    BY <2>1, <2>2, <2>3, BarringStays DEF Blocked, Adders, Barrers
<1>20. ASSUME NEW s \in Slot, ReadAsks(s) PROVE BarringSound'
  <2>1. /\ Waits(s) /\ overtaken' = overtaken /\ barRows' = barRows
        /\ Now(s) = "read asks" /\ Now(s)' = "drop asks"
        /\ UNCHANGED <<askRows, bondRows>>
    BY <1>20, ReadAsksMoves DEF Goes, contactTables, contactPast, meetings
  <2>2. \A p \in Party : askRows'[p] \in {askRows[p], 0} /\ bondRows'[p] \in {bondRows[p], 0}
    BY <2>1
  <2>3. /\ ~overtaken /\ Now(s)' \in Barrers \ {"drop bonds", "unbond both"} => \A p \in Party : bondRows'[p] = 0
        /\ ~overtaken /\ Now(s)' \in {"put bar", "bar row"} => \A p \in Party : askRows'[p] = 0
    BY <2>1 DEF BarringSound, Barring, Barrers
  <2> QED
    BY <2>1, <2>2, <2>3, BarringStays DEF Blocked, Adders, Barrers
<1>21. ASSUME NEW s \in Slot, DropAsks(s) PROVE BarringSound'
  <2>1. /\ Waits(s) /\ overtaken' = overtaken /\ barRows' = barRows
        /\ Now(s) = "drop asks" /\ Now(s)' = "unask both"
        /\ UNCHANGED <<askRows, bondRows>>
    BY <1>21, DropAsksMoves DEF Goes
  <2>2. \A p \in Party : askRows'[p] \in {askRows[p], 0} /\ bondRows'[p] \in {bondRows[p], 0}
    BY <2>1
  <2>3. /\ ~overtaken /\ Now(s)' \in Barrers \ {"drop bonds", "unbond both"} => \A p \in Party : bondRows'[p] = 0
        /\ ~overtaken /\ Now(s)' \in {"put bar", "bar row"} => \A p \in Party : askRows'[p] = 0
    BY <2>1 DEF BarringSound, Barring, Barrers
  <2> QED
    BY <2>1, <2>2, <2>3, BarringStays DEF Blocked, Adders, Barrers
<1>22. ASSUME NEW s \in Slot, DeleteAsks(s) PROVE BarringSound'
  <2>1. /\ Waits(s) /\ overtaken' = overtaken /\ barRows' = barRows
        /\ Now(s) = "unask both" /\ Now(s)' = "put bar"
        /\ bondRows' = bondRows /\ \A q \in Party : askRows'[q] = 0
    BY <1>22, DeleteAsksMoves DEF Goes
  <2>2. \A p \in Party : askRows'[p] \in {askRows[p], 0} /\ bondRows'[p] \in {bondRows[p], 0}
    BY <2>1
  <2>3. /\ ~overtaken /\ Now(s)' \in Barrers \ {"drop bonds", "unbond both"} => \A p \in Party : bondRows'[p] = 0
        /\ ~overtaken /\ Now(s)' \in {"put bar", "bar row"} => \A p \in Party : askRows'[p] = 0
    BY <2>1 DEF BarringSound, Barring, Barrers
  <2> QED
    BY <2>1, <2>2, <2>3, BarringStays DEF Blocked, Adders, Barrers
<1>23. ASSUME NEW s \in Slot, PutBar(s) PROVE BarringSound'
  <2>1. /\ Waits(s) /\ overtaken' = overtaken /\ barRows' = barRows
        /\ Now(s) = "put bar" /\ Now(s)' = "bar row"
        /\ UNCHANGED <<askRows, bondRows>>
    BY <1>23, PutBarMoves DEF Goes
  <2>2. \A p \in Party : askRows'[p] \in {askRows[p], 0} /\ bondRows'[p] \in {bondRows[p], 0}
    BY <2>1
  <2>3. /\ ~overtaken /\ Now(s)' \in Barrers \ {"drop bonds", "unbond both"} => \A p \in Party : bondRows'[p] = 0
        /\ ~overtaken /\ Now(s)' \in {"put bar", "bar row"} => \A p \in Party : askRows'[p] = 0
    BY <2>1 DEF BarringSound, Barring, Barrers
  <2> QED
    BY <2>1, <2>2, <2>3, BarringStays DEF Blocked, Adders, Barrers
<1>24. ASSUME NEW s \in Slot, InsertBar(s) PROVE BarringSound'
  BY <1>24, InsertBarBarring
<1>25. ASSUME NEW s \in Slot, DropBar(s) PROVE BarringSound'
  <2>1. /\ Waits(s) /\ UNCHANGED <<overtaken, askRows, bondRows, barRows>>
        /\ Now(s)' \notin Adders /\ Now(s)' \notin Barrers
    BY <1>25, DropBarMoves DEF Goes, contactPast, meetings, Adders, Barrers
  <2>2. {"put bar", "bar row"} \subseteq Barrers
    BY DEF Barrers
  <2> QED
    BY <2>1, <2>2, BarringStays DEF Blocked
<1>26. ASSUME NEW s \in Slot, DeleteBar(s) PROVE BarringSound'
  <2>1. /\ Waits(s) /\ UNCHANGED <<overtaken, askRows, bondRows>> /\ Now(s)' = "done"
        /\ barRows' = [barRows EXCEPT ![Me(s)] = 0]
    BY <1>26, DeleteBarMoves DEF Goes
  <2>2. Blocked' => Blocked
    <3>1. \A q \in Party : barRows'[q] \in {barRows[q], 0}
      BY <2>1, TablesTyped DEF ContactsShape
    <3> QED
      BY <3>1 DEF Blocked
  <2> QED
    BY <2>1, <2>2, BarringStays DEF Adders, Barrers
<1>27. ASSUME NEW s \in Slot, ContactFails(s) PROVE BarringSound'
  <2>1. /\ Waits(s) /\ UNCHANGED <<overtaken, askRows, bondRows, barRows>>
        /\ Now(s)' \notin Adders /\ Now(s)' \notin Barrers
    BY <1>27, ContactFailsMoves DEF Goes, Adders, Barrers
  <2>2. {"put bar", "bar row"} \subseteq Barrers
    BY DEF Barrers
  <2> QED
    BY <2>1, <2>2, BarringStays DEF Blocked
<1>28. CASE UNCHANGED contactsVars
  <2>1. /\ UNCHANGED <<askRows, bondRows, barRows, overtaken>> /\ \A s \in Slot : Now(s)' = Now(s)
    BY <1>28 DEF contactsVars, requests, contactTables, contactPast, meetings, Now
  <2> QED
    BY <2>1 DEF BarringSound, Barring, Blocked, Parted
<1> QED
  BY <1>1, <1>2, <1>3, <1>4, <1>5, <1>6, <1>7, <1>8, <1>9, <1>10, <1>11, <1>12, <1>13, <1>14,
     <1>15, <1>16, <1>17, <1>18, <1>19, <1>20, <1>21, <1>22, <1>23, <1>24, <1>25, <1>26, <1>27,
     <1>28 DEF ContactsNext

-----------------------------------------------------------------------------
(* What the network sees and what the index holds. *)

AskOwing(s, p, key)  == AskOwed(Now(s), Me(s), You(s), mem[s], p, key)
BondOwing(s, p, key) == BondOwed(Now(s), Me(s), You(s), mem[s], p, key)
BarOwing(s, p, key)  == BarOwed(Now(s), Me(s), mem[s], p, key)

\* A record and a row that agree, or were left to differ.
AskEven(p, key)  == (key \in askRecords[p] <=> askRows[p] = key) \/ <<"ask", p, key>> \in loose
BondEven(p, key) == (key \in bondRecords[p] <=> bondRows[p] = key) \/ <<"bond", p, key>> \in loose
BarEven(p, key)  == (key \in barRecords[p] <=> barRows[p] = key) \/ <<"bar", p, key>> \in loose

Evens ==
  \A p \in Party, key \in 1 .. drawn :
    /\ AskEven(p, key) \/ \E s \in Slot : AskOwing(s, p, key)
    /\ BondEven(p, key) \/ \E s \in Slot : BondOwing(s, p, key)
    /\ BarEven(p, key) \/ \E s \in Slot : BarOwing(s, p, key)

LEMMA EvensAre == Evens => IndexAgrees
<1>1. \A s, p, key :
        /\ <<"ask", p, key>> \in HalfDone(s) <=> AskOwing(s, p, key)
        /\ <<"bond", p, key>> \in HalfDone(s) <=> BondOwing(s, p, key)
        /\ <<"bar", p, key>> \in HalfDone(s) <=> BarOwing(s, p, key)
  BY HalvesOwed DEF Owing, AskOwing, BondOwing, BarOwing
<1> QED
  BY <1>1 DEF Evens, IndexAgrees, Matched, AskEven, BondEven, BarEven

\* The record of a row about to go is gone; an acceptance has yet to put theirs.
Dropped(s) ==
  /\ Now(s) \in {"put bond", "put their bond"} => mem[s].theirs = 0
  /\ Now(s) \in {"bond rows", "unask"} => mem[s].key \notin askRecords[You(s)]
  /\ Now(s) = "own ask row" => mem[s].key \notin askRecords[Me(s)]
  /\ Now(s) \in {"drop their bond", "unbond theirs", "unbond"} => mem[s].key \notin bondRecords[Me(s)]
  /\ Now(s) = "unbond theirs" => mem[s].theirs \notin bondRecords[You(s)]
  /\ Now(s) = "unbond both" =>
       mem[s].mine \notin bondRecords[Me(s)] /\ mem[s].theirs \notin bondRecords[You(s)]
  /\ Now(s) = "unask both" =>
       mem[s].mine \notin askRecords[Me(s)] /\ mem[s].theirs \notin askRecords[You(s)]
  /\ Now(s) = "unbar" => mem[s].key \notin barRecords[Me(s)]

IndexSound == Evens /\ \A s \in Slot : Dropped(s)

\* What was even, or owed by this request, is even or owed by it.
AskMove(s) ==
  \A p \in Party, key \in 1 .. drawn' :
    (key \in 1 .. drawn => AskEven(p, key) \/ AskOwing(s, p, key)) => AskEven(p, key)' \/ AskOwing(s, p, key)'
BondMove(s) ==
  \A p \in Party, key \in 1 .. drawn' :
    (key \in 1 .. drawn => BondEven(p, key) \/ BondOwing(s, p, key)) => BondEven(p, key)' \/ BondOwing(s, p, key)'
BarMove(s) ==
  \A p \in Party, key \in 1 .. drawn' :
    (key \in 1 .. drawn => BarEven(p, key) \/ BarOwing(s, p, key)) => BarEven(p, key)' \/ BarOwing(s, p, key)'

Grows ==
  /\ loose \subseteq loose' /\ drawn' \in {drawn, drawn + 1}
  /\ \A p \in Party : /\ askRecords'[p] \subseteq askRecords[p] \cup {drawn + 1}
                      /\ bondRecords'[p] \subseteq bondRecords[p] \cup {drawn + 1}
                      /\ barRecords'[p] \subseteq barRecords[p] \cup {drawn + 1}

LEMMA OwingWaits ==
  ASSUME NEW s \in Slot, Waits(s), NEW t \in Slot, t # s
  PROVE  \A p, key : /\ AskOwing(t, p, key) => AskOwing(t, p, key)'
                     /\ BondOwing(t, p, key) => BondOwing(t, p, key)'
                     /\ BarOwing(t, p, key) => BarOwing(t, p, key)'
<1>1. /\ Now(t)' = Now(t) /\ Me(t)' = Me(t) /\ You(t)' = You(t) /\ mem'[t] = mem[t]
  BY DEF Waits
<1> QED
  BY <1>1 DEF AskOwing, BondOwing, BarOwing, AskOwed, BondOwed, BarOwed

LEMMA OtherDropped ==
  ASSUME ContactsShape, NEW s \in Slot, Waits(s), Grows, NEW t \in Slot, t # s, Dropped(t)
  PROVE  Dropped(t)'
<1>1. /\ Now(t)' = Now(t) /\ Me(t)' = Me(t) /\ You(t)' = You(t) /\ mem'[t] = mem[t]
  BY DEF Waits
<1>2. Now(t) # "done" =>
        /\ Me(t) \in Party /\ You(t) \in Party
        /\ mem[t].key # drawn + 1 /\ mem[t].mine # drawn + 1 /\ mem[t].theirs # drawn + 1
  BY NowAt, PairOf, FreshKey DEF Paired, Unknown
<1> QED
  BY <1>1, <1>2 DEF Dropped, Grows

LEMMA IndexMoves ==
  ASSUME ContactsShape, IndexSound, NEW s \in Slot, Waits(s), Grows,
         AskMove(s), BondMove(s), BarMove(s), Dropped(s)'
  PROVE  IndexSound'
<1>1. \A t \in Slot : Dropped(t)'
  BY OtherDropped DEF IndexSound
<1>2. ASSUME NEW p \in Party, NEW key \in 1 .. drawn'
      PROVE  AskEven(p, key)' \/ \E t \in Slot : AskOwing(t, p, key)'
  <2>1. CASE \E t \in Slot \ {s} : key \in 1 .. drawn /\ AskOwing(t, p, key)
    BY <2>1, OwingWaits
  <2>2. CASE key \in 1 .. drawn => AskEven(p, key) \/ AskOwing(s, p, key)
    BY <2>2 DEF AskMove
  <2> QED
    BY <2>1, <2>2 DEF IndexSound, Evens
<1>3. ASSUME NEW p \in Party, NEW key \in 1 .. drawn'
      PROVE  BondEven(p, key)' \/ \E t \in Slot : BondOwing(t, p, key)'
  <2>1. CASE \E t \in Slot \ {s} : key \in 1 .. drawn /\ BondOwing(t, p, key)
    BY <2>1, OwingWaits
  <2>2. CASE key \in 1 .. drawn => BondEven(p, key) \/ BondOwing(s, p, key)
    BY <2>2 DEF BondMove
  <2> QED
    BY <2>1, <2>2 DEF IndexSound, Evens
<1>4. ASSUME NEW p \in Party, NEW key \in 1 .. drawn'
      PROVE  BarEven(p, key)' \/ \E t \in Slot : BarOwing(t, p, key)'
  <2>1. CASE \E t \in Slot \ {s} : key \in 1 .. drawn /\ BarOwing(t, p, key)
    BY <2>1, OwingWaits
  <2>2. CASE key \in 1 .. drawn => BarEven(p, key) \/ BarOwing(s, p, key)
    BY <2>2 DEF BarMove
  <2> QED
    BY <2>1, <2>2 DEF IndexSound, Evens
<1> QED
  BY <1>1, <1>2, <1>3, <1>4 DEF IndexSound, Evens

\* A kind whose tables are left alone, and what is owed still is, or is left.
LEMMA KeysDrawn ==
  ASSUME ContactsShape, drawn' \in {drawn, drawn + 1}
  PROVE  /\ \A key \in 1 .. drawn' : key # 0 /\ (key \in 1 .. drawn \/ key = drawn + 1)
         /\ \A p \in Party :
              /\ drawn + 1 \notin askRecords[p] /\ askRows[p] # drawn + 1
              /\ drawn + 1 \notin bondRecords[p] /\ bondRows[p] # drawn + 1
              /\ drawn + 1 \notin barRecords[p] /\ barRows[p] # drawn + 1
<1>1. drawn \in Nat /\ \A k \in 0 .. drawn : k # drawn + 1
  BY TablesTyped, Further DEF ContactsShape
<1>2. \A key \in 1 .. drawn' : key # 0 /\ (key \in 1 .. drawn \/ key = drawn + 1)
  BY <1>1
<1>3. 1 .. drawn \subseteq 0 .. drawn
  BY <1>1
<1> QED
  BY <1>1, <1>2, <1>3, TablesTyped DEF ContactsShape

LEMMA AskQuiet ==
  ASSUME ContactsShape, NEW s \in Slot, Grows, UNCHANGED <<askRecords, askRows>>,
         \A p \in Party : \A key : AskOwing(s, p, key) => AskOwing(s, p, key)' \/ <<"ask", p, key>> \in loose'
  PROVE  AskMove(s)
BY KeysDrawn DEF AskMove, AskEven, Grows

LEMMA BondQuiet ==
  ASSUME ContactsShape, NEW s \in Slot, Grows, UNCHANGED <<bondRecords, bondRows>>,
         \A p \in Party : \A key : BondOwing(s, p, key) => BondOwing(s, p, key)' \/ <<"bond", p, key>> \in loose' \/ key = 0
  PROVE  BondMove(s)
BY KeysDrawn DEF BondMove, BondEven, Grows

LEMMA BarQuiet ==
  ASSUME ContactsShape, NEW s \in Slot, Grows, UNCHANGED <<barRecords, barRows>>,
         \A p \in Party : \A key : BarOwing(s, p, key) => BarOwing(s, p, key)' \/ <<"bar", p, key>> \in loose'
  PROVE  BarMove(s)
BY KeysDrawn DEF BarMove, BarEven, Grows

AskOwers  == {"ask row", "own ask row", "bond rows", "unask", "unask both"}
BondOwers == {"put their bond", "drop ask", "bond rows", "unbond both", "drop their bond", "unbond theirs", "unbond"}
BarOwers  == {"bar row", "unbar"}
Settled   == {"done", "put ask", "drop own ask", "reject ask", "their bond", "drop bond", "drop bonds", "read asks",
              "drop asks", "put bar", "drop bar", "ask row", "bar row"}

LEMMA OwersAre ==
  \A s : /\ Now(s) \notin AskOwers => \A p, key : ~AskOwing(s, p, key)
         /\ Now(s) \notin BondOwers => \A p, key : ~BondOwing(s, p, key)
         /\ Now(s) \notin BarOwers => \A p, key : ~BarOwing(s, p, key)
BY DEF AskOwing, BondOwing, BarOwing, AskOwed, BondOwed, BarOwed, AskOwers, BondOwers, BarOwers

LEMMA SettledDropped ==
  ASSUME NEW s, Now(s)' \in Settled
  PROVE  Dropped(s)'
BY DEF Settled, Dropped

\* A statement that touches neither records nor rows, with nothing owed.
LEMMA QuietIndex ==
  ASSUME ContactsShape, IndexSound, NEW s \in Slot, Waits(s),
         UNCHANGED <<askRecords, askRows, bondRecords, bondRows, barRecords, barRows, drawn, loose>>,
         Now(s) \notin AskOwers \cup BondOwers \cup BarOwers, Dropped(s)'
  PROVE  IndexSound'
<1>1. Grows
  BY DEF Grows
<1> QED
  BY <1>1, OwersAre, AskQuiet, BondQuiet, BarQuiet, IndexMoves

LEMMA PutAskIndex ==
  ASSUME ContactsShape, IndexSound, NEW s \in Slot, PutAsk(s)
  PROVE  IndexSound'
<1> SUFFICES ASSUME NEW k, k = drawn + 1 PROVE IndexSound'
  OBVIOUS
<1>1. /\ Waits(s) /\ Paired(s) /\ Now(s) = "put ask" /\ Now(s)' = "ask row" /\ Me(s)' = Me(s) /\ drawn' = drawn + 1
      /\ mem'[s] = [mem[s] EXCEPT !.key = k]
      /\ askRecords' = [askRecords EXCEPT ![Me(s)] = @ \cup {k}]
      /\ UNCHANGED <<askRows, bondRecords, bondRows, barRecords, barRows, loose>>
  BY PutAskMoves DEF Goes
<1>2. mem'[s].key = k
  BY <1>1, NowAt, PairOf DEF LetterRecord
<1>3. \A q \in Party : askRecords'[q] = IF q = Me(s) THEN askRecords[q] \cup {k} ELSE askRecords[q]
  BY <1>1, TablesTyped DEF ContactsShape, Paired
<1>4. Grows
  BY <1>1, <1>3 DEF Grows
<1>5. ASSUME NEW q \in Party, NEW key \in 1 .. drawn', key \in 1 .. drawn => AskEven(q, key) \/ AskOwing(s, q, key)
      PROVE  AskEven(q, key)' \/ AskOwing(s, q, key)'
  <2>1. ~AskOwing(s, q, key) /\ (key = k \/ key \in 1 .. drawn)
    BY <1>1, KeysDrawn, OwersAre DEF AskOwers
  <2>2. CASE key = k /\ q = Me(s)
    BY <1>1, <1>2, <2>2 DEF AskOwing, AskOwed
  <2>3. CASE key = k /\ q # Me(s)
    BY <1>1, <1>3, <2>3, KeysDrawn DEF AskEven
  <2>4. CASE key # k
    <3>1. key \in askRecords[q] <=> key \in askRecords'[q]
      BY <1>3, <2>4
    <3>2. AskEven(q, key)
      BY <1>5, <2>1, <2>4
    <3> QED
      BY <1>1, <3>1, <3>2 DEF AskEven
  <2> QED
    BY <2>2, <2>3, <2>4
<1>6. AskMove(s)
  BY <1>5 DEF AskMove
<1>7. BondMove(s) /\ BarMove(s)
  BY <1>1, <1>4, BondQuiet, BarQuiet, OwersAre DEF BondOwers, BarOwers
<1>8. Dropped(s)'
  <2>1. Now(s)' \in Settled
    BY <1>1 DEF Settled
  <2> QED
    BY <2>1, SettledDropped
<1> QED
  BY <1>1, <1>4, <1>6, <1>7, <1>8, IndexMoves

LEMMA PutBarIndex ==
  ASSUME ContactsShape, IndexSound, NEW s \in Slot, PutBar(s)
  PROVE  IndexSound'
<1> SUFFICES ASSUME NEW k, k = drawn + 1 PROVE IndexSound'
  OBVIOUS
<1>1. /\ Waits(s) /\ Paired(s) /\ Now(s) = "put bar" /\ Now(s)' = "bar row" /\ Me(s)' = Me(s) /\ drawn' = drawn + 1
      /\ mem'[s] = [mem[s] EXCEPT !.key = k]
      /\ barRecords' = [barRecords EXCEPT ![Me(s)] = @ \cup {k}]
      /\ UNCHANGED <<askRecords, askRows, bondRecords, bondRows, barRows, loose>>
  BY PutBarMoves DEF Goes
<1>2. mem'[s].key = k
  BY <1>1, NowAt, PairOf DEF LetterRecord
<1>3. \A q \in Party : barRecords'[q] = IF q = Me(s) THEN barRecords[q] \cup {k} ELSE barRecords[q]
  BY <1>1, TablesTyped DEF ContactsShape, Paired
<1>4. Grows
  BY <1>1, <1>3 DEF Grows
<1>5. ASSUME NEW q \in Party, NEW key \in 1 .. drawn', key \in 1 .. drawn => BarEven(q, key) \/ BarOwing(s, q, key)
      PROVE  BarEven(q, key)' \/ BarOwing(s, q, key)'
  <2>1. ~BarOwing(s, q, key) /\ (key = k \/ key \in 1 .. drawn)
    BY <1>1, KeysDrawn, OwersAre DEF BarOwers
  <2>2. CASE key = k /\ q = Me(s)
    BY <1>1, <1>2, <2>2 DEF BarOwing, BarOwed
  <2>3. CASE key = k /\ q # Me(s)
    BY <1>1, <1>3, <2>3, KeysDrawn DEF BarEven
  <2>4. CASE key # k
    <3>1. key \in barRecords[q] <=> key \in barRecords'[q]
      BY <1>3, <2>4
    <3>2. BarEven(q, key)
      BY <1>5, <2>1, <2>4
    <3> QED
      BY <1>1, <3>1, <3>2 DEF BarEven
  <2> QED
    BY <2>2, <2>3, <2>4
<1>6. BarMove(s)
  BY <1>5 DEF BarMove
<1>7. AskMove(s) /\ BondMove(s)
  BY <1>1, <1>4, AskQuiet, BondQuiet, OwersAre DEF AskOwers, BondOwers
<1>8. Dropped(s)'
  <2>1. Now(s)' \in Settled
    BY <1>1 DEF Settled
  <2> QED
    BY <2>1, SettledDropped
<1> QED
  BY <1>1, <1>4, <1>6, <1>7, <1>8, IndexMoves

LEMMA PutBondIndex ==
  ASSUME ContactsShape, IndexSound, NEW s \in Slot, PutBond(s)
  PROVE  IndexSound'
<1> SUFFICES ASSUME NEW k, k = drawn + 1 PROVE IndexSound'
  OBVIOUS
<1>1. ASSUME NEW x, NEW y, NEW p, PutsBond(s, x, y, p),
             \/ x = "put bond" /\ y = "put their bond" /\ p = Me(s)
             \/ x = "put their bond" /\ y = "drop ask" /\ p = You(s)
      PROVE  IndexSound'
  <2>1. /\ Waits(s) /\ Paired(s) /\ Now(s) = x /\ Now(s)' = y /\ Me(s)' = Me(s) /\ You(s)' = You(s)
        /\ drawn' = drawn + 1
        /\ bondRecords' = [bondRecords EXCEPT ![p] = @ \cup {k}]
        /\ UNCHANGED <<askRecords, askRows, bondRows, barRecords, barRows, loose>>
    BY <1>1 DEF PutsBond, Goes
  <2>2. Me(s) # You(s) /\ p \in Party
    BY <1>1, <2>1 DEF Paired
  <2>3. IF x = "put bond" THEN mem'[s].mine = k /\ mem'[s].theirs = mem[s].theirs
                          ELSE mem'[s].theirs = k /\ mem'[s].mine = mem[s].mine
    <3>1. mem[s] \in LetterRecord
      BY <1>1, <2>1, NowAt, PairOf
    <3> QED
      BY <1>1, <2>1, <2>2, <3>1 DEF PutsBond, LetterRecord
  <2>4. mem[s].theirs = 0
    BY <1>1, <2>1 DEF IndexSound, Dropped
  <2>5. \A q \in Party : bondRecords'[q] = IF q = p THEN bondRecords[q] \cup {k} ELSE bondRecords[q]
    BY <2>1, <2>2, TablesTyped DEF ContactsShape
  <2>6. Grows
    BY <2>1, <2>5 DEF Grows
  <2>7. BondMove(s)
    <3>1. \A q \in Party : \A key : key # 0 /\ BondOwing(s, q, key) => BondOwing(s, q, key)'
      BY <1>1, <2>1, <2>3, <2>4 DEF BondOwing, BondOwed
    <3>2. BondOwing(s, p, k)'
      BY <1>1, <2>1, <2>3 DEF BondOwing, BondOwed
    <3>3. \A q \in Party, key \in 1 .. drawn' : key # 0 /\ (key # k => key \in 1 .. drawn)
      BY <2>1, KeysDrawn
    <3>4. ASSUME NEW q \in Party, NEW key \in 1 .. drawn',
                 key \in 1 .. drawn => BondEven(q, key) \/ BondOwing(s, q, key)
          PROVE  BondEven(q, key)' \/ BondOwing(s, q, key)'
      <4>1. CASE key = k /\ q = p
        BY <3>2, <4>1
      <4>2. CASE key = k /\ q # p
        BY <2>1, <2>5, <4>2, KeysDrawn DEF BondEven
      <4>3. CASE key # k
        BY <2>1, <2>5, <3>1, <3>3, <3>4, <4>3 DEF BondEven
      <4> QED
        BY <4>1, <4>2, <4>3
    <3> QED
      BY <3>4 DEF BondMove
  <2>8. AskMove(s) /\ BarMove(s)
    BY <1>1, <2>1, <2>6, AskQuiet, BarQuiet, OwersAre DEF AskOwers, BarOwers
  <2>9. Dropped(s)'
    BY <1>1, <2>1, <2>3, <2>4 DEF Dropped
  <2> QED
    BY <2>1, <2>6, <2>7, <2>8, <2>9, IndexMoves
<1> QED
  BY <1>1, PutBondMoves

LEMMA InsertAskIndex ==
  ASSUME ContactsShape, DraftsSound, IndexSound, NEW s \in Slot, InsertAsk(s)
  PROVE  IndexSound'
<1> SUFFICES ASSUME NEW k, k = mem[s].key PROVE IndexSound'
  OBVIOUS
<1>1. /\ Waits(s) /\ Paired(s) /\ Now(s) = "ask row" /\ Now(s)' = "done"
      /\ askRows' = [askRows EXCEPT ![Me(s)] = IF @ = 0 THEN k ELSE @]
      /\ loose' = loose \cup (IF askRows[Me(s)] = 0 THEN {} ELSE {<<"ask", Me(s), k>>})
      /\ UNCHANGED <<askRecords, bondRecords, bondRows, barRecords, barRows, drawn>>
  BY InsertAskMoves DEF Goes
<1>2. k \in askRecords[Me(s)]
  BY <1>1 DEF DraftsSound, Draft
<1>3. \A q \in Party : askRows'[q] = IF q = Me(s) /\ askRows[q] = 0 THEN k ELSE askRows[q]
  BY <1>1, TablesTyped DEF ContactsShape, Paired
<1>4. Grows
  BY <1>1 DEF Grows
<1>5. ASSUME NEW q \in Party, NEW key \in 1 .. drawn', AskEven(q, key) \/ AskOwing(s, q, key)
      PROVE  AskEven(q, key)'
  <2>1. key # 0
    BY <1>1, KeysDrawn
  <2>2. AskOwing(s, q, key) => q = Me(s) /\ key = k
    BY <1>1 DEF AskOwing, AskOwed
  <2>3. CASE q = Me(s) /\ key = k
    BY <1>1, <1>2, <1>3, <2>3 DEF AskEven
  <2>4. CASE ~(q = Me(s) /\ key = k)
    BY <1>1, <1>3, <1>5, <2>1, <2>2, <2>4 DEF AskEven
  <2> QED
    BY <2>3, <2>4
<1>6. AskMove(s)
  BY <1>1, <1>5 DEF AskMove
<1>7. BondMove(s) /\ BarMove(s)
  BY <1>1, <1>4, BondQuiet, BarQuiet, OwersAre DEF BondOwers, BarOwers
<1>8. Dropped(s)'
  <2>1. Now(s)' \in Settled
    BY <1>1 DEF Settled
  <2> QED
    BY <2>1, SettledDropped
<1> QED
  BY <1>1, <1>4, <1>6, <1>7, <1>8, IndexMoves

LEMMA InsertBarIndex ==
  ASSUME ContactsShape, DraftsSound, IndexSound, NEW s \in Slot, InsertBar(s)
  PROVE  IndexSound'
<1> SUFFICES ASSUME NEW k, k = mem[s].key PROVE IndexSound'
  OBVIOUS
<1>1. /\ Waits(s) /\ Paired(s) /\ Now(s) = "bar row" /\ Now(s)' = "done"
      /\ barRows' = [barRows EXCEPT ![Me(s)] = IF @ = 0 THEN k ELSE @]
      /\ loose' = loose \cup (IF barRows[Me(s)] = 0 THEN {} ELSE {<<"bar", Me(s), k>>})
      /\ UNCHANGED <<askRecords, askRows, bondRecords, bondRows, barRecords, drawn>>
  BY InsertBarMoves DEF Goes
<1>2. k \in barRecords[Me(s)]
  BY <1>1 DEF DraftsSound, Draft
<1>3. \A q \in Party : barRows'[q] = IF q = Me(s) /\ barRows[q] = 0 THEN k ELSE barRows[q]
  BY <1>1, TablesTyped DEF ContactsShape, Paired
<1>4. Grows
  BY <1>1 DEF Grows
<1>5. ASSUME NEW q \in Party, NEW key \in 1 .. drawn', BarEven(q, key) \/ BarOwing(s, q, key)
      PROVE  BarEven(q, key)'
  <2>1. key # 0
    BY <1>1, KeysDrawn
  <2>2. BarOwing(s, q, key) => q = Me(s) /\ key = k
    BY <1>1 DEF BarOwing, BarOwed
  <2>3. CASE q = Me(s) /\ key = k
    BY <1>1, <1>2, <1>3, <2>3 DEF BarEven
  <2>4. CASE ~(q = Me(s) /\ key = k)
    BY <1>1, <1>3, <1>5, <2>1, <2>2, <2>4 DEF BarEven
  <2> QED
    BY <2>3, <2>4
<1>6. BarMove(s)
  BY <1>1, <1>5 DEF BarMove
<1>7. AskMove(s) /\ BondMove(s)
  BY <1>1, <1>4, AskQuiet, BondQuiet, OwersAre DEF AskOwers, BondOwers
<1>8. Dropped(s)'
  <2>1. Now(s)' \in Settled
    BY <1>1 DEF Settled
  <2> QED
    BY <2>1, SettledDropped
<1> QED
  BY <1>1, <1>4, <1>6, <1>7, <1>8, IndexMoves

LEMMA InsertBondsIndex ==
  ASSUME ContactsShape, DraftsSound, IndexSound, NEW s \in Slot, InsertBonds(s)
  PROVE  IndexSound'
<1> SUFFICES ASSUME NEW new, new = NewBonds(s) PROVE IndexSound'
  OBVIOUS
<1>1. /\ Waits(s) /\ Paired(s) /\ Now(s) = "bond rows" /\ Now(s)' = "unask"
      /\ Me(s)' = Me(s) /\ You(s)' = You(s) /\ mem'[s] = mem[s]
      /\ bondRows' = [p \in Party |-> IF p \in Taken THEN bondRows[p] ELSE new[p]]
      /\ loose' = loose \cup {<<"bond", p, new[p]>> : p \in Taken}
      /\ UNCHANGED <<askRecords, askRows, bondRecords, barRecords, barRows, drawn>>
  BY InsertBondsMoves DEF Goes, Remembers
<1>2. new[Me(s)] = mem[s].mine /\ new[You(s)] = mem[s].theirs
  BY <1>1 DEF NewBonds, Paired
<1>3. \A q \in Party : new[q] \in bondRecords[q]
  BY <1>1, <1>2 DEF DraftsSound, Draft, Paired
<1>4. Grows
  BY <1>1 DEF Grows
<1>5. ASSUME NEW q \in Party, NEW key \in 1 .. drawn', BondEven(q, key) \/ BondOwing(s, q, key)
      PROVE  BondEven(q, key)'
  <2>1. key # 0
    BY <1>1, KeysDrawn
  <2>2. BondOwing(s, q, key) => key = new[q]
    BY <1>1, <1>2 DEF BondOwing, BondOwed
  <2>3. bondRows'[q] = IF bondRows[q] # 0 THEN bondRows[q] ELSE new[q]
    BY <1>1 DEF Taken
  <2>4. CASE key = new[q]
    BY <1>1, <1>3, <2>3, <2>4 DEF BondEven, Taken
  <2>5. CASE key # new[q]
    BY <1>1, <1>5, <2>1, <2>2, <2>3, <2>5 DEF BondEven
  <2> QED
    BY <2>4, <2>5
<1>6. BondMove(s)
  BY <1>1, <1>5 DEF BondMove
<1>7. AskMove(s)
  <2>1. \A p \in Party : \A key : AskOwing(s, p, key) => AskOwing(s, p, key)'
    BY <1>1 DEF AskOwing, AskOwed
  <2> QED
    BY <1>1, <1>4, <2>1, AskQuiet
<1>8. BarMove(s)
  BY <1>1, <1>4, BarQuiet, OwersAre DEF BarOwers
<1>9. Dropped(s)'
  BY <1>1 DEF IndexSound, Dropped
<1> QED
  BY <1>1, <1>4, <1>6, <1>7, <1>8, <1>9, IndexMoves

LEMMA DropAskIndex ==
  ASSUME ContactsShape, IndexSound, NEW s \in Slot, DropAsk(s)
  PROVE  IndexSound'
<1> SUFFICES ASSUME NEW k, k = mem[s].key PROVE IndexSound'
  OBVIOUS
<1>1. ASSUME NEW x, NEW y, NEW p, DropsAsk(s, x, y, p),
             \/ x = "drop ask" /\ y = "bond rows" /\ p = You(s)
             \/ x = "reject ask" /\ y = "unask" /\ p = You(s)
             \/ x = "drop own ask" /\ y = "own ask row" /\ p = Me(s)
      PROVE  IndexSound'
  <2>1. /\ Waits(s) /\ Paired(s) /\ Now(s) = x
        /\ \/ /\ Now(s)' = y /\ mem'[s] = mem[s] /\ Me(s)' = Me(s) /\ You(s)' = You(s) /\ loose' = loose
           \/ Now(s)' = "done" /\ k \notin askRecords[p] /\ loose' = loose \cup HalfDone(s)
        /\ askRecords' = [askRecords EXCEPT ![p] = @ \ {k}]
        /\ UNCHANGED <<askRows, bondRecords, bondRows, barRecords, barRows, drawn>>
    BY <1>1 DEF DropsAsk, Goes, Remembers
  <2>2. p \in Party
    BY <1>1, <2>1 DEF Paired
  <2>3. \A q \in Party : askRecords'[q] = IF q = p THEN askRecords[q] \ {k} ELSE askRecords[q]
    BY <2>1, TablesTyped DEF ContactsShape
  <2>4. Grows
    BY <2>1, <2>3 DEF Grows
  <2>5. ASSUME NEW q \in Party, NEW key, AskEven(q, key)
        PROVE  AskEven(q, key)' \/ AskOwing(s, q, key)'
    <3>1. CASE q = p /\ key = k /\ Now(s)' = y
      BY <1>1, <2>1, <3>1 DEF AskOwing, AskOwed
    <3>2. CASE ~(q = p /\ key = k) \/ k \notin askRecords[p]
      BY <2>1, <2>3, <2>5, <3>2 DEF AskEven
    <3> QED
      BY <1>1, <2>1, <3>1, <3>2
  <2>6. AskMove(s)
    BY <1>1, <2>1, <2>5, OwersAre DEF AskMove, AskOwers
  <2>7. BondMove(s)
    <3>1. \A q \in Party : \A key : BondOwing(s, q, key) => BondOwing(s, q, key)' \/ <<"bond", q, key>> \in loose'
      <4>1. \A q, key : <<"bond", q, key>> \in HalfDone(s) <=> BondOwing(s, q, key)
        BY HalvesOwed DEF Owing, BondOwing
      <4>2. Now(s)' = y => \A q \in Party : \A key : BondOwing(s, q, key) => BondOwing(s, q, key)'
        BY <1>1, <2>1 DEF BondOwing, BondOwed
      <4> QED
        BY <2>1, <4>1, <4>2
    <3> QED
      BY <2>1, <2>4, <3>1, BondQuiet
  <2>8. BarMove(s)
    BY <1>1, <2>1, <2>4, BarQuiet, OwersAre DEF BarOwers
  <2>9. CASE Now(s)' = "done"
    <3>1. Dropped(s)'
      <4>1. Now(s)' \in Settled
        BY <2>9 DEF Settled
      <4> QED
        BY <4>1, SettledDropped
    <3> QED
      BY <2>1, <2>4, <2>6, <2>7, <2>8, <3>1, IndexMoves
  <2>10. CASE Now(s)' = y
    <3>1. /\ (y \in {"bond rows", "unask"} /\ p = You(s)) \/ (y = "own ask row" /\ p = Me(s))
          /\ k \notin askRecords'[p]
      BY <1>1, <2>2, <2>3
    <3>2. mem'[s].key = k /\ Me(s)' = Me(s) /\ You(s)' = You(s)
      BY <1>1, <2>1, <2>10
    <3>3. Dropped(s)'
      BY <2>10, <3>1, <3>2 DEF Dropped
    <3> QED
      BY <2>1, <2>4, <2>6, <2>7, <2>8, <3>3, IndexMoves
  <2> QED
    BY <2>1, <2>9, <2>10
<1> QED
  BY <1>1, DropAskMoves

LEMMA DeleteAskIndex ==
  ASSUME ContactsShape, IndexSound, NEW s \in Slot, DeleteAsk(s)
  PROVE  IndexSound'
<1> SUFFICES ASSUME NEW k, k = mem[s].key PROVE IndexSound'
  OBVIOUS
<1>1. ASSUME NEW x, NEW p, DeletesAsk(s, x, p),
             (x = "unask" /\ p = You(s)) \/ (x = "own ask row" /\ p = Me(s))
      PROVE  IndexSound'
  <2>1. /\ Waits(s) /\ Paired(s) /\ Now(s) = x /\ Now(s)' = "done"
        /\ askRows' = [askRows EXCEPT ![p] = IF @ = k THEN 0 ELSE @]
        /\ UNCHANGED <<askRecords, bondRecords, bondRows, barRecords, barRows, drawn, loose>>
    BY <1>1 DEF DeletesAsk, Goes
  <2>2. \A q \in Party : askRows'[q] = IF q = p /\ askRows[q] = k THEN 0 ELSE askRows[q]
    BY <2>1, TablesTyped DEF ContactsShape
  <2>3. k \notin askRecords[p]
    BY <1>1, <2>1 DEF IndexSound, Dropped
  <2>4. Grows
    BY <2>1 DEF Grows
  <2>5. ASSUME NEW q \in Party, NEW key \in 1 .. drawn', AskEven(q, key) \/ AskOwing(s, q, key)
        PROVE  AskEven(q, key)'
    <3>1. key # 0
      BY <2>1, KeysDrawn
    <3>2. AskOwing(s, q, key) => q = p /\ key = k
      BY <1>1, <2>1 DEF AskOwing, AskOwed
    <3> QED
      BY <2>1, <2>2, <2>3, <2>5, <3>1, <3>2 DEF AskEven
  <2>6. AskMove(s)
    BY <2>1, <2>5 DEF AskMove
  <2>7. BondMove(s) /\ BarMove(s)
    BY <1>1, <2>1, <2>4, BondQuiet, BarQuiet, OwersAre DEF BondOwers, BarOwers
  <2>8. Dropped(s)'
    <3>1. Now(s)' \in Settled
      BY <2>1 DEF Settled
    <3> QED
      BY <3>1, SettledDropped
  <2> QED
    BY <2>1, <2>4, <2>6, <2>7, <2>8, IndexMoves
<1> QED
  BY <1>1, DeleteAskMoves

LEMMA DropBondIndex ==
  ASSUME ContactsShape, IndexSound, NEW s \in Slot, DropBond(s)
  PROVE  IndexSound'
<1> SUFFICES ASSUME NEW k, k = mem[s].key PROVE IndexSound'
  OBVIOUS
<1>1. /\ Waits(s) /\ Paired(s) /\ Now(s) = "drop bond"
      /\ \/ Now(s)' \in {"unbond", "drop their bond"} /\ mem'[s] = mem[s] /\ Me(s)' = Me(s)
         \/ Now(s)' = "done" /\ k \notin bondRecords[Me(s)]
      /\ UNCHANGED <<askRecords, askRows, bondRows, barRecords, barRows, drawn, loose>>
  BY DropBondMoves DEF Goes, Remembers, contactPast
<1>2. \A q \in Party : bondRecords'[q] = IF q = Me(s) THEN bondRecords[q] \ {k} ELSE bondRecords[q]
  <2>1. bondRecords' = [bondRecords EXCEPT ![Me(s)] = @ \ {k}]
    BY DropBondMoves
  <2>2. DOMAIN bondRecords = Party
    BY TablesTyped DEF ContactsShape
  <2> QED
    BY <2>1, <2>2
<1>3. Grows
  BY <1>1, <1>2 DEF Grows
<1>4. ASSUME NEW q \in Party, NEW key, BondEven(q, key) PROVE BondEven(q, key)' \/ BondOwing(s, q, key)'
  <2>1. CASE q = Me(s) /\ key = k /\ Now(s)' # "done"
    BY <1>1, <2>1 DEF BondOwing, BondOwed
  <2>2. CASE ~(q = Me(s) /\ key = k) \/ k \notin bondRecords[Me(s)]
    BY <1>1, <1>2, <1>4, <2>2 DEF BondEven
  <2> QED
    BY <1>1, <2>1, <2>2
<1>5. BondMove(s)
  BY <1>1, <1>4, OwersAre DEF BondMove, BondOwers
<1>6. AskMove(s) /\ BarMove(s)
  BY <1>1, <1>3, AskQuiet, BarQuiet, OwersAre DEF AskOwers, BarOwers
<1>7. Dropped(s)'
  BY <1>1, <1>2 DEF Dropped, Paired
<1> QED
  BY <1>1, <1>3, <1>5, <1>6, <1>7, IndexMoves

LEMMA DropBarIndex ==
  ASSUME ContactsShape, IndexSound, NEW s \in Slot, DropBar(s)
  PROVE  IndexSound'
<1> SUFFICES ASSUME NEW k, k = mem[s].key PROVE IndexSound'
  OBVIOUS
<1>1. /\ Waits(s) /\ Paired(s) /\ Now(s) = "drop bar"
      /\ \/ Now(s)' = "unbar" /\ mem'[s] = mem[s] /\ Me(s)' = Me(s)
         \/ Now(s)' = "done" /\ k \notin barRecords[Me(s)]
      /\ UNCHANGED <<askRecords, askRows, bondRecords, bondRows, barRows, drawn, loose>>
  BY DropBarMoves DEF Goes, Remembers, contactPast
<1>2. \A q \in Party : barRecords'[q] = IF q = Me(s) THEN barRecords[q] \ {k} ELSE barRecords[q]
  <2>1. barRecords' = [barRecords EXCEPT ![Me(s)] = @ \ {k}]
    BY DropBarMoves
  <2>2. DOMAIN barRecords = Party
    BY TablesTyped DEF ContactsShape
  <2> QED
    BY <2>1, <2>2
<1>3. Grows
  BY <1>1, <1>2 DEF Grows
<1>4. ASSUME NEW q \in Party, NEW key, BarEven(q, key) PROVE BarEven(q, key)' \/ BarOwing(s, q, key)'
  <2>1. CASE q = Me(s) /\ key = k /\ Now(s)' # "done"
    BY <1>1, <2>1 DEF BarOwing, BarOwed
  <2>2. CASE ~(q = Me(s) /\ key = k) \/ k \notin barRecords[Me(s)]
    BY <1>1, <1>2, <1>4, <2>2 DEF BarEven
  <2> QED
    BY <1>1, <2>1, <2>2
<1>5. BarMove(s)
  BY <1>1, <1>4, OwersAre DEF BarMove, BarOwers
<1>6. AskMove(s) /\ BondMove(s)
  BY <1>1, <1>3, AskQuiet, BondQuiet, OwersAre DEF AskOwers, BondOwers
<1>7. Dropped(s)'
  BY <1>1, <1>2 DEF Dropped, Paired
<1> QED
  BY <1>1, <1>3, <1>5, <1>6, <1>7, IndexMoves

LEMMA DropTheirBondIndex ==
  ASSUME ContactsShape, IndexSound, NEW s \in Slot, DropTheirBond(s)
  PROVE  IndexSound'
<1> SUFFICES ASSUME NEW k, k = mem[s].theirs PROVE IndexSound'
  OBVIOUS
<1>1. /\ Waits(s) /\ Paired(s) /\ Now(s) = "drop their bond"
      /\ Now(s)' = "unbond theirs" /\ mem'[s] = mem[s] /\ Me(s)' = Me(s) /\ You(s)' = You(s)
      /\ UNCHANGED <<askRecords, askRows, bondRows, barRecords, barRows, drawn, loose>>
  BY DropTheirBondMoves DEF Goes, Remembers
<1>2. \A q \in Party : bondRecords'[q] = IF q = You(s) THEN bondRecords[q] \ {k} ELSE bondRecords[q]
  <2>1. bondRecords' = [bondRecords EXCEPT ![You(s)] = @ \ {k}]
    BY DropTheirBondMoves
  <2>2. DOMAIN bondRecords = Party
    BY TablesTyped DEF ContactsShape
  <2> QED
    BY <2>1, <2>2
<1>3. Grows
  BY <1>1, <1>2 DEF Grows
<1>4. ASSUME NEW q \in Party, NEW key, BondEven(q, key) \/ BondOwing(s, q, key)
      PROVE  BondEven(q, key)' \/ BondOwing(s, q, key)'
  <2>1. CASE q = You(s) /\ key = k
    BY <1>1, <2>1 DEF BondOwing, BondOwed
  <2>2. CASE BondOwing(s, q, key)
    BY <1>1, <2>2 DEF BondOwing, BondOwed
  <2>3. CASE BondEven(q, key) /\ ~(q = You(s) /\ key = k)
    BY <1>1, <1>2, <2>3 DEF BondEven
  <2> QED
    BY <1>4, <2>1, <2>2, <2>3
<1>5. BondMove(s)
  BY <1>1, <1>4 DEF BondMove
<1>6. AskMove(s) /\ BarMove(s)
  BY <1>1, <1>3, AskQuiet, BarQuiet, OwersAre DEF AskOwers, BarOwers
<1>7. Dropped(s)'
  BY <1>1, <1>2 DEF IndexSound, Dropped, Paired
<1> QED
  BY <1>1, <1>3, <1>5, <1>6, <1>7, IndexMoves

LEMMA DeleteBarIndex ==
  ASSUME ContactsShape, IndexSound, NEW s \in Slot, DeleteBar(s)
  PROVE  IndexSound'
<1> SUFFICES ASSUME NEW k, k = mem[s].key PROVE IndexSound'
  OBVIOUS
<1>1. /\ Waits(s) /\ Paired(s) /\ Now(s) = "unbar" /\ Now(s)' = "done"
      /\ barRows' = [barRows EXCEPT ![Me(s)] = 0]
      /\ loose' = loose \cup Stray("bar", Me(s), barRows[Me(s)], k)
      /\ UNCHANGED <<askRecords, askRows, bondRecords, bondRows, barRecords, drawn>>
  BY DeleteBarMoves DEF Goes
<1>2. \A q \in Party : barRows'[q] = IF q = Me(s) THEN 0 ELSE barRows[q]
  BY <1>1, TablesTyped DEF ContactsShape
<1>3. k \notin barRecords[Me(s)]
  BY <1>1 DEF IndexSound, Dropped
<1>4. Grows
  BY <1>1 DEF Grows
<1>5. ASSUME NEW q \in Party, NEW key \in 1 .. drawn', BarEven(q, key) \/ BarOwing(s, q, key)
      PROVE  BarEven(q, key)'
  <2>1. key # 0
    BY <1>1, KeysDrawn
  <2>2. BarOwing(s, q, key) => q = Me(s) /\ key = k
    BY <1>1 DEF BarOwing, BarOwed
  <2>3. CASE q = Me(s) /\ barRows[q] = key /\ key # k
    BY <1>1, <2>1, <2>3 DEF BarEven, Stray
  <2>4. CASE ~(q = Me(s) /\ barRows[q] = key /\ key # k)
    BY <1>1, <1>2, <1>3, <1>5, <2>1, <2>2, <2>4 DEF BarEven
  <2> QED
    BY <2>3, <2>4
<1>6. BarMove(s)
  BY <1>1, <1>5 DEF BarMove
<1>7. AskMove(s) /\ BondMove(s)
  BY <1>1, <1>4, AskQuiet, BondQuiet, OwersAre DEF AskOwers, BondOwers
<1>8. Dropped(s)'
  <2>1. Now(s)' \in Settled
    BY <1>1 DEF Settled
  <2> QED
    BY <2>1, SettledDropped
<1> QED
  BY <1>1, <1>4, <1>6, <1>7, <1>8, IndexMoves

LEMMA DeleteBondIndex ==
  ASSUME ContactsShape, IndexSound, NEW s \in Slot, DeleteBond(s)
  PROVE  IndexSound'
<1>1. ASSUME NEW x, NEW y, NEW p, NEW k, DeletesBond(s, x, y, p, k),
             \/ x = "unbond theirs" /\ y = "unbond" /\ p = You(s) /\ k = mem[s].theirs
             \/ x = "unbond" /\ y = "done" /\ p = Me(s) /\ k = mem[s].key
      PROVE  IndexSound'
  <2>1. /\ Waits(s) /\ Paired(s) /\ Now(s) = x /\ Now(s)' = y
        /\ y # "done" => mem'[s] = mem[s] /\ Me(s)' = Me(s) /\ You(s)' = You(s)
        /\ bondRows' = [bondRows EXCEPT ![p] = 0]
        /\ loose' = loose \cup Stray("bond", p, bondRows[p], k)
        /\ UNCHANGED <<askRecords, askRows, bondRecords, barRecords, barRows, drawn>>
    BY <1>1 DEF DeletesBond, Goes, Remembers
  <2>2. \A q \in Party : bondRows'[q] = IF q = p THEN 0 ELSE bondRows[q]
    BY <2>1, TablesTyped DEF ContactsShape
  <2>3. k \notin bondRecords[p]
    BY <1>1, <2>1 DEF IndexSound, Dropped
  <2>4. Grows
    BY <2>1 DEF Grows
  <2>5. ASSUME NEW q \in Party, NEW key \in 1 .. drawn', BondEven(q, key) \/ BondOwing(s, q, key)
        PROVE  BondEven(q, key)' \/ BondOwing(s, q, key)'
    <3>1. key # 0
      BY <2>1, KeysDrawn
    <3>2. BondOwing(s, q, key) => (q = p /\ key = k) \/ BondOwing(s, q, key)'
      BY <1>1, <2>1 DEF BondOwing, BondOwed
    <3>3. CASE q = p /\ bondRows[q] = key /\ key # k
      BY <2>1, <3>1, <3>3 DEF BondEven, Stray
    <3>4. CASE ~(q = p /\ bondRows[q] = key /\ key # k)
      BY <2>1, <2>2, <2>3, <2>5, <3>1, <3>2, <3>4 DEF BondEven
    <3> QED
      BY <3>3, <3>4
  <2>6. BondMove(s)
    BY <2>1, <2>5 DEF BondMove
  <2>7. AskMove(s) /\ BarMove(s)
    BY <1>1, <2>1, <2>4, AskQuiet, BarQuiet, OwersAre DEF AskOwers, BarOwers
  <2>8. Dropped(s)'
    BY <1>1, <2>1 DEF IndexSound, Dropped
  <2> QED
    BY <2>1, <2>4, <2>6, <2>7, <2>8, IndexMoves
<1> QED
  BY <1>1, DeleteBondMoves

LEMMA DropAsksIndex ==
  ASSUME ContactsShape, IndexSound, NEW s \in Slot, DropAsks(s)
  PROVE  IndexSound'
<1> SUFFICES ASSUME NEW pair, pair = Pair(s) PROVE IndexSound'
  OBVIOUS
<1>1. /\ Waits(s) /\ Paired(s) /\ Now(s) = "drop asks" /\ Now(s)' = "unask both"
      /\ mem'[s] = mem[s] /\ Me(s)' = Me(s) /\ You(s)' = You(s)
      /\ askRecords' = [p \in Party |-> askRecords[p] \ {pair[p]}]
      /\ UNCHANGED <<askRows, bondRecords, bondRows, barRecords, barRows, drawn, loose>>
  BY DropAsksMoves DEF Goes, Remembers
<1>2. pair[Me(s)] = mem[s].mine /\ pair[You(s)] = mem[s].theirs /\ \A q \in Party : q = Me(s) \/ q = You(s)
  BY <1>1 DEF Pair, Paired
<1>3. \A q \in Party : askRecords'[q] = askRecords[q] \ {pair[q]}
  BY <1>1
<1>4. Grows
  BY <1>1, <1>3 DEF Grows
<1>5. ASSUME NEW q \in Party, NEW key, AskEven(q, key) PROVE AskEven(q, key)' \/ AskOwing(s, q, key)'
  <2>1. CASE key = pair[q]
    BY <1>1, <1>2, <2>1 DEF AskOwing, AskOwed
  <2>2. CASE key # pair[q]
    BY <1>1, <1>3, <1>5, <2>2 DEF AskEven
  <2> QED
    BY <2>1, <2>2
<1>6. AskMove(s)
  BY <1>1, <1>5, OwersAre DEF AskMove, AskOwers
<1>7. BondMove(s) /\ BarMove(s)
  BY <1>1, <1>4, BondQuiet, BarQuiet, OwersAre DEF BondOwers, BarOwers
<1>8. Dropped(s)'
  BY <1>1, <1>2, <1>3 DEF Dropped, Paired
<1> QED
  BY <1>1, <1>4, <1>6, <1>7, <1>8, IndexMoves

LEMMA DeleteAsksIndex ==
  ASSUME ContactsShape, IndexSound, NEW s \in Slot, DeleteAsks(s)
  PROVE  IndexSound'
<1> SUFFICES ASSUME NEW pair, pair = Pair(s) PROVE IndexSound'
  OBVIOUS
<1>1. /\ Waits(s) /\ Paired(s) /\ Now(s) = "unask both" /\ Now(s)' \in Settled
      /\ askRows' = [p \in Party |-> 0]
      /\ loose' = loose \cup UNION {Stray("ask", p, askRows[p], pair[p]) : p \in Party}
      /\ UNCHANGED <<askRecords, bondRecords, bondRows, barRecords, barRows, drawn>>
  BY DeleteAsksMoves DEF Goes, Settled
<1>2. pair[Me(s)] = mem[s].mine /\ pair[You(s)] = mem[s].theirs /\ \A q \in Party : q = Me(s) \/ q = You(s)
  BY <1>1 DEF Pair, Paired
<1>3. \A q \in Party : askRows'[q] = 0 /\ pair[q] \notin askRecords[q]
  BY <1>1, <1>2 DEF IndexSound, Dropped
<1>4. Grows
  BY <1>1 DEF Grows
<1>5. ASSUME NEW q \in Party, NEW key \in 1 .. drawn', AskEven(q, key) \/ AskOwing(s, q, key)
      PROVE  AskEven(q, key)'
  <2>1. key # 0
    BY <1>1, KeysDrawn
  <2>2. AskOwing(s, q, key) => key = pair[q]
    BY <1>1, <1>2 DEF AskOwing, AskOwed
  <2>3. CASE askRows[q] = key /\ key # pair[q]
    <3>1. <<"ask", q, key>> \in Stray("ask", q, askRows[q], pair[q])
      BY <2>1, <2>3 DEF Stray
    <3> QED
      BY <1>1, <3>1 DEF AskEven
  <2>4. CASE ~(askRows[q] = key /\ key # pair[q])
    BY <1>1, <1>3, <1>5, <2>1, <2>2, <2>4 DEF AskEven
  <2> QED
    BY <2>3, <2>4
<1>6. AskMove(s)
  BY <1>1, <1>5 DEF AskMove
<1>7. BondMove(s) /\ BarMove(s)
  BY <1>1, <1>4, BondQuiet, BarQuiet, OwersAre DEF BondOwers, BarOwers
<1>8. Dropped(s)'
  BY <1>1, SettledDropped
<1> QED
  BY <1>1, <1>4, <1>6, <1>7, <1>8, IndexMoves

LEMMA DropBondsIndex ==
  ASSUME ContactsShape, IndexSound, NEW s \in Slot, DropBonds(s)
  PROVE  IndexSound'
<1> SUFFICES ASSUME NEW pair, pair = Pair(s) PROVE IndexSound'
  OBVIOUS
<1>1. /\ Waits(s) /\ Paired(s) /\ Now(s) = "drop bonds" /\ Now(s)' = "unbond both"
      /\ mem'[s] = mem[s] /\ Me(s)' = Me(s) /\ You(s)' = You(s)
      /\ bondRecords' = [p \in Party |-> bondRecords[p] \ {pair[p]}]
      /\ UNCHANGED <<bondRows, askRecords, askRows, barRecords, barRows, drawn, loose>>
  BY DropBondsMoves DEF Goes, Remembers
<1>2. pair[Me(s)] = mem[s].mine /\ pair[You(s)] = mem[s].theirs /\ \A q \in Party : q = Me(s) \/ q = You(s)
  BY <1>1 DEF Pair, Paired
<1>3. \A q \in Party : bondRecords'[q] = bondRecords[q] \ {pair[q]}
  BY <1>1
<1>4. Grows
  BY <1>1, <1>3 DEF Grows
<1>5. ASSUME NEW q \in Party, NEW key, BondEven(q, key) PROVE BondEven(q, key)' \/ BondOwing(s, q, key)'
  <2>1. CASE key = pair[q]
    BY <1>1, <1>2, <2>1 DEF BondOwing, BondOwed
  <2>2. CASE key # pair[q]
    BY <1>1, <1>3, <1>5, <2>2 DEF BondEven
  <2> QED
    BY <2>1, <2>2
<1>6. BondMove(s)
  BY <1>1, <1>5, OwersAre DEF BondMove, BondOwers
<1>7. AskMove(s) /\ BarMove(s)
  BY <1>1, <1>4, AskQuiet, BarQuiet, OwersAre DEF AskOwers, BarOwers
<1>8. Dropped(s)'
  BY <1>1, <1>2, <1>3 DEF Dropped, Paired
<1> QED
  BY <1>1, <1>4, <1>6, <1>7, <1>8, IndexMoves

LEMMA DeleteBondsIndex ==
  ASSUME ContactsShape, IndexSound, NEW s \in Slot, DeleteBonds(s)
  PROVE  IndexSound'
<1> SUFFICES ASSUME NEW pair, pair = Pair(s) PROVE IndexSound'
  OBVIOUS
<1>1. /\ Waits(s) /\ Paired(s) /\ Now(s) = "unbond both" /\ Now(s)' \in Settled
      /\ bondRows' = [p \in Party |-> 0]
      /\ loose' = loose \cup UNION {Stray("bond", p, bondRows[p], pair[p]) : p \in Party}
      /\ UNCHANGED <<bondRecords, askRecords, askRows, barRecords, barRows, drawn>>
  BY DeleteBondsMoves DEF Goes, Settled
<1>2. pair[Me(s)] = mem[s].mine /\ pair[You(s)] = mem[s].theirs /\ \A q \in Party : q = Me(s) \/ q = You(s)
  BY <1>1 DEF Pair, Paired
<1>3. \A q \in Party : bondRows'[q] = 0 /\ pair[q] \notin bondRecords[q]
  BY <1>1, <1>2 DEF IndexSound, Dropped
<1>4. Grows
  BY <1>1 DEF Grows
<1>5. ASSUME NEW q \in Party, NEW key \in 1 .. drawn', BondEven(q, key) \/ BondOwing(s, q, key)
      PROVE  BondEven(q, key)'
  <2>1. key # 0
    BY <1>1, KeysDrawn
  <2>2. BondOwing(s, q, key) => key = pair[q]
    BY <1>1, <1>2 DEF BondOwing, BondOwed
  <2>3. CASE bondRows[q] = key /\ key # pair[q]
    <3>1. <<"bond", q, key>> \in Stray("bond", q, bondRows[q], pair[q])
      BY <2>1, <2>3 DEF Stray
    <3> QED
      BY <1>1, <3>1 DEF BondEven
  <2>4. CASE ~(bondRows[q] = key /\ key # pair[q])
    BY <1>1, <1>3, <1>5, <2>1, <2>2, <2>4 DEF BondEven
  <2> QED
    BY <2>3, <2>4
<1>6. BondMove(s)
  BY <1>1, <1>5 DEF BondMove
<1>7. AskMove(s) /\ BarMove(s)
  BY <1>1, <1>4, AskQuiet, BarQuiet, OwersAre DEF AskOwers, BarOwers
<1>8. Dropped(s)'
  BY <1>1, SettledDropped
<1> QED
  BY <1>1, <1>4, <1>6, <1>7, <1>8, IndexMoves

LEMMA ContactFailsIndex ==
  ASSUME ContactsShape, IndexSound, NEW s \in Slot, ContactFails(s)
  PROVE  IndexSound'
<1>1. /\ Waits(s) /\ Now(s)' = "done" /\ loose' = loose \cup HalfDone(s)
      /\ UNCHANGED <<askRecords, askRows, bondRecords, bondRows, barRecords, barRows, drawn>>
  BY ContactFailsMoves
<1>2. \A p, key : /\ AskOwing(s, p, key) => <<"ask", p, key>> \in loose'
                  /\ BondOwing(s, p, key) => <<"bond", p, key>> \in loose'
                  /\ BarOwing(s, p, key) => <<"bar", p, key>> \in loose'
  BY <1>1, HalvesOwed DEF Owing, AskOwing, BondOwing, BarOwing
<1>3. Grows
  BY <1>1 DEF Grows
<1>4. AskMove(s) /\ BondMove(s) /\ BarMove(s)
  BY <1>1, <1>2, <1>3, AskQuiet, BondQuiet, BarQuiet
<1>5. Dropped(s)'
  <2>1. Now(s)' \in Settled
    BY <1>1 DEF Settled
  <2> QED
    BY <2>1, SettledDropped
<1> QED
  BY <1>1, <1>3, <1>4, <1>5, IndexMoves

LEMMA IndexKept ==
  ASSUME ContactsShape, DraftsSound, IndexSound, [ContactsNext]_contactsVars
  PROVE  IndexSound'
<1>1. ASSUME NEW s \in Slot, NEW p \in Party, SendRequest(s, p) PROVE IndexSound'
  <2>1. /\ Waits(s) /\ Now(s) \notin AskOwers \cup BondOwers \cup BarOwers /\ Now(s)' \in Settled
        /\ UNCHANGED <<askRecords, askRows, bondRecords, bondRows, barRecords, barRows, drawn, loose>>
    BY <1>1, SendRequestMoves DEF Starts, AskOwers, BondOwers, BarOwers, Settled
  <2> QED
    BY <2>1, SettledDropped, QuietIndex
<1>2. ASSUME NEW s \in Slot, NEW p \in Party, WithdrawRequest(s, p) PROVE IndexSound'
  <2>1. /\ Waits(s) /\ Now(s) \notin AskOwers \cup BondOwers \cup BarOwers /\ Now(s)' \in Settled
        /\ UNCHANGED <<askRecords, askRows, bondRecords, bondRows, barRecords, barRows, drawn, loose>>
    BY <1>2, WithdrawRequestMoves DEF Starts, AskOwers, BondOwers, BarOwers, Settled
  <2> QED
    BY <2>1, SettledDropped, QuietIndex
<1>3. ASSUME NEW s \in Slot, NEW p \in Party, Accept(s, p) PROVE IndexSound'
  <2>1. /\ Waits(s) /\ Now(s) \notin AskOwers \cup BondOwers \cup BarOwers /\ Now(s)' = "put bond"
        /\ mem'[s].theirs = 0
        /\ UNCHANGED <<askRecords, askRows, bondRecords, bondRows, barRecords, barRows, drawn, loose>>
    BY <1>3, AcceptMoves DEF Starts, Blank, AskOwers, BondOwers, BarOwers, Settled
  <2>2. Dropped(s)'
    BY <2>1 DEF Dropped
  <2> QED
    BY <2>1, <2>2, QuietIndex
<1>4. ASSUME NEW s \in Slot, NEW p \in Party, RejectRequest(s, p) PROVE IndexSound'
  <2>1. /\ Waits(s) /\ Now(s) \notin AskOwers \cup BondOwers \cup BarOwers /\ Now(s)' \in Settled
        /\ UNCHANGED <<askRecords, askRows, bondRecords, bondRows, barRecords, barRows, drawn, loose>>
    BY <1>4, RejectRequestMoves DEF Starts, AskOwers, BondOwers, BarOwers, Settled
  <2> QED
    BY <2>1, SettledDropped, QuietIndex
<1>5. ASSUME NEW s \in Slot, NEW p \in Party, RemoveContact(s, p) PROVE IndexSound'
  <2>1. /\ Waits(s) /\ Now(s) \notin AskOwers \cup BondOwers \cup BarOwers /\ Now(s)' \in Settled
        /\ UNCHANGED <<askRecords, askRows, bondRecords, bondRows, barRecords, barRows, drawn, loose>>
    BY <1>5, RemoveContactMoves DEF Starts, AskOwers, BondOwers, BarOwers, Settled
  <2> QED
    BY <2>1, SettledDropped, QuietIndex
<1>6. ASSUME NEW s \in Slot, NEW p \in Party, BlockContact(s, p) PROVE IndexSound'
  <2>1. /\ Waits(s) /\ Now(s) \notin AskOwers \cup BondOwers \cup BarOwers /\ Now(s)' \in Settled
        /\ UNCHANGED <<askRecords, askRows, bondRecords, bondRows, barRecords, barRows, drawn, loose>>
    BY <1>6, BlockContactMoves DEF Starts, AskOwers, BondOwers, BarOwers, Settled
  <2> QED
    BY <2>1, SettledDropped, QuietIndex
<1>7. ASSUME NEW s \in Slot, NEW p \in Party, UnblockContact(s, p) PROVE IndexSound'
  <2>1. /\ Waits(s) /\ Now(s) \notin AskOwers \cup BondOwers \cup BarOwers /\ Now(s)' \in Settled
        /\ UNCHANGED <<askRecords, askRows, bondRecords, bondRows, barRecords, barRows, drawn, loose>>
    BY <1>7, UnblockContactMoves DEF Starts, AskOwers, BondOwers, BarOwers, Settled
  <2> QED
    BY <2>1, SettledDropped, QuietIndex
<1>8. ASSUME NEW s \in Slot, PutAsk(s) PROVE IndexSound'
  BY <1>8, PutAskIndex
<1>9. ASSUME NEW s \in Slot, InsertAsk(s) PROVE IndexSound'
  BY <1>9, InsertAskIndex
<1>10. ASSUME NEW s \in Slot, DropAsk(s) PROVE IndexSound'
  BY <1>10, DropAskIndex
<1>11. ASSUME NEW s \in Slot, DeleteAsk(s) PROVE IndexSound'
  BY <1>11, DeleteAskIndex
<1>12. ASSUME NEW s \in Slot, PutBond(s) PROVE IndexSound'
  BY <1>12, PutBondIndex
<1>13. ASSUME NEW s \in Slot, InsertBonds(s) PROVE IndexSound'
  BY <1>13, InsertBondsIndex
<1>14. ASSUME NEW s \in Slot, ReadTheirBond(s) PROVE IndexSound'
  <2>1. /\ Waits(s) /\ Now(s) \notin AskOwers \cup BondOwers \cup BarOwers /\ Now(s)' \in Settled
        /\ UNCHANGED <<askRecords, askRows, bondRecords, bondRows, barRecords, barRows, drawn, loose>>
    BY <1>14, ReadTheirBondMoves DEF Goes, contactTables, contactPast, AskOwers, BondOwers,
       BarOwers, Settled
  <2> QED
    BY <2>1, SettledDropped, QuietIndex
<1>15. ASSUME NEW s \in Slot, DropBond(s) PROVE IndexSound'
  BY <1>15, DropBondIndex
<1>16. ASSUME NEW s \in Slot, DropTheirBond(s) PROVE IndexSound'
  BY <1>16, DropTheirBondIndex
<1>17. ASSUME NEW s \in Slot, DeleteBond(s) PROVE IndexSound'
  BY <1>17, DeleteBondIndex
<1>18. ASSUME NEW s \in Slot, DropBonds(s) PROVE IndexSound'
  BY <1>18, DropBondsIndex
<1>19. ASSUME NEW s \in Slot, DeleteBonds(s) PROVE IndexSound'
  BY <1>19, DeleteBondsIndex
<1>20. ASSUME NEW s \in Slot, ReadAsks(s) PROVE IndexSound'
  <2>1. /\ Waits(s) /\ Now(s) \notin AskOwers \cup BondOwers \cup BarOwers /\ Now(s)' \in Settled
        /\ UNCHANGED <<askRecords, askRows, bondRecords, bondRows, barRecords, barRows, drawn, loose>>
    BY <1>20, ReadAsksMoves DEF Goes, contactTables, contactPast, AskOwers, BondOwers, BarOwers, Settled
  <2> QED
    BY <2>1, SettledDropped, QuietIndex
<1>21. ASSUME NEW s \in Slot, DropAsks(s) PROVE IndexSound'
  BY <1>21, DropAsksIndex
<1>22. ASSUME NEW s \in Slot, DeleteAsks(s) PROVE IndexSound'
  BY <1>22, DeleteAsksIndex
<1>23. ASSUME NEW s \in Slot, PutBar(s) PROVE IndexSound'
  BY <1>23, PutBarIndex
<1>24. ASSUME NEW s \in Slot, InsertBar(s) PROVE IndexSound'
  BY <1>24, InsertBarIndex
<1>25. ASSUME NEW s \in Slot, DropBar(s) PROVE IndexSound'
  BY <1>25, DropBarIndex
<1>26. ASSUME NEW s \in Slot, DeleteBar(s) PROVE IndexSound'
  BY <1>26, DeleteBarIndex
<1>27. ASSUME NEW s \in Slot, ContactFails(s) PROVE IndexSound'
  BY <1>27, ContactFailsIndex
<1>28. CASE UNCHANGED contactsVars
  <2>1. /\ mem' = mem /\ UNCHANGED <<askRecords, askRows, bondRecords, bondRows, barRecords, barRows, drawn, loose>>
        /\ \A s \in Slot : Now(s)' = Now(s) /\ Me(s)' = Me(s) /\ You(s)' = You(s)
    BY <1>28 DEF contactsVars, requests, contactTables, contactPast, Now, Me, You
  <2>2. ASSUME NEW s \in Slot
        PROVE  \A p, key : /\ AskOwing(s, p, key)' <=> AskOwing(s, p, key)
                           /\ BondOwing(s, p, key)' <=> BondOwing(s, p, key)
                           /\ BarOwing(s, p, key)' <=> BarOwing(s, p, key)
    BY <2>1 DEF AskOwing, BondOwing, BarOwing
  <2>3. \A p, key : /\ AskEven(p, key)' <=> AskEven(p, key)
                    /\ BondEven(p, key)' <=> BondEven(p, key)
                    /\ BarEven(p, key)' <=> BarEven(p, key)
    BY <2>1 DEF AskEven, BondEven, BarEven
  <2>4. Evens'
    <3>1. ASSUME NEW p \in Party, NEW key \in 1 .. drawn
          PROVE  /\ AskEven(p, key)' \/ \E s \in Slot : AskOwing(s, p, key)'
                 /\ BondEven(p, key)' \/ \E s \in Slot : BondOwing(s, p, key)'
                 /\ BarEven(p, key)' \/ \E s \in Slot : BarOwing(s, p, key)'
      BY <2>2, <2>3 DEF IndexSound, Evens
    <3> QED
      BY <2>1, <3>1 DEF Evens
  <2>5. \A s \in Slot : Dropped(s)'
    BY <2>1 DEF IndexSound, Dropped
  <2> QED
    BY <2>4, <2>5 DEF IndexSound
<1> QED
  BY <1>1, <1>2, <1>3, <1>4, <1>5, <1>6, <1>7, <1>8, <1>9, <1>10, <1>11, <1>12, <1>13, <1>14,
     <1>15, <1>16, <1>17, <1>18, <1>19, <1>20, <1>21, <1>22, <1>23, <1>24, <1>25, <1>26, <1>27,
     <1>28 DEF ContactsNext

-----------------------------------------------------------------------------
(* Together. *)

ContactsSound ==
  ContactsShape /\ AsksSound /\ DraftsSound /\ PartingSound /\ AskingSound /\ BarringSound /\ IndexSound

LEMMA ContactsStart ==
  ASSUME ContactsInit
  PROVE  ContactsSound
<1>1. /\ todo = [s \in Slot |-> <<>>] /\ DOMAIN mem = Slot
      /\ \A p \in Party : /\ askRecords[p] = {} /\ askRows[p] = 0 /\ bondRecords[p] = {} /\ bondRows[p] = 0
                          /\ barRecords[p] = {} /\ barRows[p] = 0 /\ asksMade[p] = {} /\ asksGranted[p] = {}
                          /\ grounds[p] = 0 /\ parted[p] = {}
      /\ drawn = 0 /\ asksVoid = {} /\ loose = {}
      /\ halved = FALSE /\ asksCrossed = FALSE /\ overtaken = FALSE
  BY DEF ContactsInit, RequestsInit
<1>2. \A s \in Slot : todo[s] = <<>> /\ Now(s) = "done"
  BY <1>1 DEF Now
<1>3. ContactsShape
  <2>1. \A T : {} \in SUBSET T
    OBVIOUS
  <2>2. \A table \in {askRecords, bondRecords, barRecords, asksMade, asksGranted, parted} :
          table \in [Party -> SUBSET (1 .. drawn)]
    BY <2>1 DEF ContactsInit
  <2>3. \A table \in {askRows, bondRows, barRows, grounds} : table \in [Party -> 0 .. drawn]
    BY DEF ContactsInit
  <2>4. ContactsTypeOK
    BY <1>1, <2>2, <2>3 DEF ContactsTypeOK
  <2>5. \A s \in Slot : Lettered(s)
    BY <1>2 DEF Lettered, ContactCourse
  <2> QED
    BY <1>1, <2>4, <2>5 DEF ContactsShape
<1>4. AsksSound
  <2>1. AskBooks
    BY <1>1 DEF AskBooks, ContactsAreAgreed
  <2> QED
    BY <1>2, <2>1 DEF AsksSound, AskHeld, Accepting
<1>5. DraftsSound
  BY <1>2 DEF DraftsSound, Draft, Drafts
<1>6. PartingSound
  <2>1. BothAreContacts
    BY <1>1 DEF BothAreContacts
  <2> QED
    BY <1>2, <2>1 DEF PartingSound, Parting, Removing
<1>7. AskingSound
  BY <1>1, <1>2 DEF AskingSound, Asking, Single, Accepting
<1>8. BarringSound
  BY <1>1, <1>2 DEF BarringSound, Barring, Barrers, Adders, Blocked, Parted
<1>9. IndexSound
  <2>1. Evens
    BY <1>1 DEF Evens
  <2> QED
    BY <1>2, <2>1 DEF IndexSound, Dropped
<1> QED
  BY <1>3, <1>4, <1>5, <1>6, <1>7, <1>8, <1>9 DEF ContactsSound

LEMMA ContactsShapeKept ==
  ASSUME ContactsShape, [ContactsNext]_contactsVars
  PROVE  ContactsShape'
<1>1. ASSUME NEW s \in Slot, NEW p \in Party, SendRequest(s, p) PROVE ContactsShape'
  BY <1>1, SendRequestMoves
<1>2. ASSUME NEW s \in Slot, NEW p \in Party, WithdrawRequest(s, p) PROVE ContactsShape'
  BY <1>2, WithdrawRequestMoves
<1>3. ASSUME NEW s \in Slot, NEW p \in Party, Accept(s, p) PROVE ContactsShape'
  BY <1>3, AcceptMoves
<1>4. ASSUME NEW s \in Slot, NEW p \in Party, RejectRequest(s, p) PROVE ContactsShape'
  BY <1>4, RejectRequestMoves
<1>5. ASSUME NEW s \in Slot, NEW p \in Party, RemoveContact(s, p) PROVE ContactsShape'
  BY <1>5, RemoveContactMoves
<1>6. ASSUME NEW s \in Slot, NEW p \in Party, BlockContact(s, p) PROVE ContactsShape'
  BY <1>6, BlockContactMoves
<1>7. ASSUME NEW s \in Slot, NEW p \in Party, UnblockContact(s, p) PROVE ContactsShape'
  BY <1>7, UnblockContactMoves
<1>8. ASSUME NEW s \in Slot, PutAsk(s) PROVE ContactsShape'
  BY <1>8, PutAskMoves
<1>9. ASSUME NEW s \in Slot, InsertAsk(s) PROVE ContactsShape'
  BY <1>9, InsertAskMoves
<1>10. ASSUME NEW s \in Slot, DropAsk(s) PROVE ContactsShape'
  BY <1>10, DropAskMoves
<1>11. ASSUME NEW s \in Slot, DeleteAsk(s) PROVE ContactsShape'
  BY <1>11, DeleteAskMoves
<1>12. ASSUME NEW s \in Slot, PutBond(s) PROVE ContactsShape'
  BY <1>12, PutBondMoves
<1>13. ASSUME NEW s \in Slot, InsertBonds(s) PROVE ContactsShape'
  BY <1>13, InsertBondsMoves
<1>14. ASSUME NEW s \in Slot, ReadTheirBond(s) PROVE ContactsShape'
  BY <1>14, ReadTheirBondMoves
<1>15. ASSUME NEW s \in Slot, DropBond(s) PROVE ContactsShape'
  BY <1>15, DropBondMoves
<1>16. ASSUME NEW s \in Slot, DropTheirBond(s) PROVE ContactsShape'
  BY <1>16, DropTheirBondMoves
<1>17. ASSUME NEW s \in Slot, DeleteBond(s) PROVE ContactsShape'
  BY <1>17, DeleteBondMoves
<1>18. ASSUME NEW s \in Slot, DropBonds(s) PROVE ContactsShape'
  BY <1>18, DropBondsMoves
<1>19. ASSUME NEW s \in Slot, DeleteBonds(s) PROVE ContactsShape'
  BY <1>19, DeleteBondsMoves
<1>20. ASSUME NEW s \in Slot, ReadAsks(s) PROVE ContactsShape'
  BY <1>20, ReadAsksMoves
<1>21. ASSUME NEW s \in Slot, DropAsks(s) PROVE ContactsShape'
  BY <1>21, DropAsksMoves
<1>22. ASSUME NEW s \in Slot, DeleteAsks(s) PROVE ContactsShape'
  BY <1>22, DeleteAsksMoves
<1>23. ASSUME NEW s \in Slot, PutBar(s) PROVE ContactsShape'
  BY <1>23, PutBarMoves
<1>24. ASSUME NEW s \in Slot, InsertBar(s) PROVE ContactsShape'
  BY <1>24, InsertBarMoves
<1>25. ASSUME NEW s \in Slot, DropBar(s) PROVE ContactsShape'
  BY <1>25, DropBarMoves
<1>26. ASSUME NEW s \in Slot, DeleteBar(s) PROVE ContactsShape'
  BY <1>26, DeleteBarMoves
<1>27. ASSUME NEW s \in Slot, ContactFails(s) PROVE ContactsShape'
  BY <1>27, ContactFailsMoves
<1>28. CASE UNCHANGED contactsVars
  <2>1. ContactsTypeOK'
    BY <1>28 DEF contactsVars, contactTables, contactPast, agreement, meetings, ContactsShape,
       ContactsTypeOK
  <2>2. todo' = todo /\ mem' = mem /\ drawn' = drawn
    BY <1>28 DEF contactsVars, requests, contactTables
  <2>3. LetterRecord' = LetterRecord
    BY <2>2 DEF LetterRecord
  <2>4. \A s \in Slot : Lettered(s)'
    BY <2>2, <2>3 DEF ContactsShape, Lettered
  <2> QED
    BY <2>1, <2>2, <2>4 DEF ContactsShape
<1> QED
  BY <1>1, <1>2, <1>3, <1>4, <1>5, <1>6, <1>7, <1>8, <1>9, <1>10, <1>11, <1>12, <1>13, <1>14,
     <1>15, <1>16, <1>17, <1>18, <1>19, <1>20, <1>21, <1>22, <1>23, <1>24, <1>25, <1>26,
     <1>27, <1>28 DEF ContactsNext

LEMMA ContactsSoundKept ==
  ASSUME ContactsSound, [ContactsNext]_contactsVars
  PROVE  ContactsSound'
<1>1. ContactsShape /\ AsksSound /\ DraftsSound /\ PartingSound /\ AskingSound /\ BarringSound /\ IndexSound
  BY DEF ContactsSound
<1>2. ContactsShape'
  BY <1>1, ContactsShapeKept
<1>3. AsksSound'
  BY <1>1, AsksKept
<1>4. DraftsSound'
  BY <1>1, DraftsKept
<1>5. PartingSound'
  BY <1>1, PartingKept
<1>6. AskingSound'
  BY <1>1, AskingKept
<1>7. BarringSound'
  BY <1>1, BarringKept
<1>8. IndexSound'
  BY <1>1, IndexKept
<1> QED
  BY <1>2, <1>3, <1>4, <1>5, <1>6, <1>7, <1>8 DEF ContactsSound

LEMMA ContactsSoundSees == ContactsSound => ContactsAreMutual
<1> SUFFICES ASSUME ContactsSound PROVE ContactsAreMutual
  OBVIOUS
<1>1. ContactsAreAgreed
  BY DEF ContactsSound, AsksSound, AskBooks
<1>2. BothAreContacts
  BY DEF ContactsSound, PartingSound
<1>3. IndexAgrees
  BY EvensAre DEF ContactsSound, IndexSound
<1>4. OneAtATime
  <2>1. asksCrossed \/ \A p \in Party : Single(p)
    BY DEF ContactsSound, AskingSound
  <2> QED
    BY <2>1, OneIs
<1>5. BlocksHold
  BY DEF ContactsSound, BarringSound, BlocksHold, Parted
<1> QED
  BY <1>1, <1>2, <1>3, <1>4, <1>5 DEF ContactsAreMutual

LEMMA ContactsSoundAlways == ContactsSpec => []ContactsSound
<1>1. ContactsInit => ContactsSound
  BY ContactsStart
<1>2. ContactsSound /\ [ContactsNext]_contactsVars => ContactsSound'
  BY ContactsSoundKept
<1> QED
  BY <1>1, <1>2, PTL DEF ContactsSpec

\* For any number of requests at once, and whatever keys they draw, the
\* records, the rows and what was agreed about them stay of their types.
THEOREM ContactsTyped == ContactsSpec => []ContactsTypeOK
<1>1. ContactsSound => ContactsTypeOK
  BY DEF ContactsSound, ContactsShape
<1> QED
  BY <1>1, ContactsSoundAlways, PTL

\* For any number of requests about the pair, overlapping and dying at any of
\* their statements: nobody has a contact but by a request that one recorded
\* and the other accepted, that was not taken back, rejected or blocked away
\* first, and each request once; the contact is both people's or neither's
\* but within a removal's last statement and where such a one stopped or met a
\* contact made anew; every record and row that differ are a key some request
\* is between, or was left at by a death, a refusal or a delete by the pair;
\* and a request next to another, to a contact or to a block is one that
\* crossed it.
THEOREM ContactsMutual == ContactsSpec => []ContactsAreMutual
<1>1. ContactsSound => ContactsAreMutual
  BY ContactsSoundSees
<1> QED
  BY <1>1, ContactsSoundAlways, PTL
=============================================================================

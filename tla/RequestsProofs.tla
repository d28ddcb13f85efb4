--------------------------- MODULE RequestsProofs ---------------------------
(***************************************************************************)
(* What a statement of one request does to that request, and that it       *)
(* leaves the others alone: the facts every component's proofs rest on.    *)
(***************************************************************************)
EXTENDS Requests, SequenceTheorems, TLAPS

\* Every request has a slot, and what it has yet to do are statements.
Requested(Statement) == todo \in [Slot -> Seq(Statement)] /\ DOMAIN mem = Slot

\* The statements after the next one.
Later(s) == {todo[s][i] : i \in 2 .. Len(todo[s])}

\* The statement a request ends with.
Ending(s) == todo[s][Len(todo[s])]

\* The request at x carries it out and goes on to what came later.
Follows(s, x) ==
  /\ At(s, x) /\ todo'[s] = Tail(todo[s])
  /\ Steps(s) = {x} \cup Later(s) /\ Steps(s)' = Later(s) /\ Later(s)' \subseteq Later(s)
  /\ Steps(s)' # {} => Ending(s)' = Ending(s)
  /\ \A y : At(s, y)' => y \in Steps(s)'

OthersWait(s) == \A t \in Slot \ {s} : todo'[t] = todo[t] /\ mem'[t] = mem[t]

-----------------------------------------------------------------------------
LEMMA InitRequested ==
  ASSUME NEW Statement, RequestsInit
  PROVE  Requested(Statement) /\ \A s \in Slot : todo[s] = <<>>
BY DEF RequestsInit, Requested

LEMMA TurnMoves ==
  ASSUME NEW Statement, Requested(Statement),
         NEW s \in Slot, NEW steps \in Seq(Statement), NEW m, Turn(s, steps, m)
  PROVE  /\ Requested(Statement)' /\ OthersWait(s)
         /\ todo'[s] = steps
         /\ steps # <<>> => mem'[s] = m
BY DEF Turn, Requested, OthersWait

LEMMA BeginMoves ==
  ASSUME NEW Statement, Requested(Statement),
         NEW s \in Slot, NEW steps \in Seq(Statement), NEW m, Begin(s, steps, m)
  PROVE  /\ Requested(Statement)' /\ OthersWait(s)
         /\ todo[s] = <<>> /\ todo'[s] = steps
         /\ steps # <<>> => mem'[s] = m
BY DEF Begin, Requested, OthersWait

LEMMA AtOnceMoves ==
  ASSUME NEW Statement, Requested(Statement), NEW s \in Slot, AtOnce(s)
  PROVE  /\ Requested(Statement)' /\ OthersWait(s)
         /\ todo[s] = <<>> /\ todo'[s] = <<>>
<1>1. <<>> \in Seq(Statement)
  OBVIOUS
<1> QED
  BY <1>1, BeginMoves DEF AtOnce

LEMMA AnswerMoves ==
  ASSUME NEW Statement, Requested(Statement), NEW s \in Slot, Answer(s)
  PROVE  Requested(Statement)' /\ OthersWait(s) /\ todo'[s] = <<>>
<1>1. <<>> \in Seq(Statement)
  OBVIOUS
<1> QED
  BY <1>1, TurnMoves DEF Answer

LEMMA NoSteps ==
  ASSUME NEW s, todo[s] = <<>>
  PROVE  Steps(s) = {} /\ Later(s) = {} /\ \A x : ~At(s, x)
<1>1. DOMAIN todo[s] = {} /\ Len(todo[s]) = 0 /\ 2 .. 0 = {}
  OBVIOUS
<1> QED
  BY <1>1 DEF Steps, Later, At

\* What is left is what came later, in the same order.
LEMMA NoteMoves ==
  ASSUME NEW Statement, Requested(Statement),
         NEW s \in Slot, NEW x, NEW m, At(s, x), Note(s, m)
  PROVE  /\ Requested(Statement)' /\ OthersWait(s) /\ Follows(s, x)
         /\ Steps(s)' # {} => mem'[s] = m
<1>1. todo[s] \in Seq(Statement) /\ todo[s] # <<>>
  BY DEF Requested, At
<1>2. /\ Tail(todo[s]) \in Seq(Statement)
      /\ Len(todo[s]) \in Nat \ {0} /\ Len(Tail(todo[s])) = Len(todo[s]) - 1
      /\ \A i \in 1 .. Len(Tail(todo[s])) : Tail(todo[s])[i] = todo[s][i + 1]
  BY <1>1
<1>3. /\ Requested(Statement)' /\ OthersWait(s)
      /\ todo'[s] = Tail(todo[s])
      /\ todo'[s] # <<>> => mem'[s] = m
  <2> DEFINE rest == Tail(todo[s])
  <2>1. Turn(s, rest, m)
    BY DEF Note
  <2>2. rest \in Seq(Statement)
    BY <1>2
  <2> HIDE DEF rest
  <2>3. /\ Requested(Statement)' /\ OthersWait(s)
        /\ todo'[s] = rest
        /\ rest # <<>> => mem'[s] = m
    BY <2>1, <2>2, TurnMoves
  <2> QED
    BY <2>3 DEF rest
<1>4. Steps(s) = {x} \cup Later(s)
  <2>1. x = todo[s][1] /\ DOMAIN todo[s] = 1 .. Len(todo[s])
    BY <1>1 DEF At
  <2>2. \A i \in 1 .. Len(todo[s]) : i = 1 \/ i \in 2 .. Len(todo[s])
    BY <1>2
  <2>3. 1 \in 1 .. Len(todo[s]) /\ 2 .. Len(todo[s]) \subseteq 1 .. Len(todo[s])
    BY <1>2
  <2> QED
    BY <2>1, <2>2, <2>3 DEF Steps, Later
<1>5. Steps(s)' = Later(s)
  <2>1. DOMAIN todo'[s] = 1 .. Len(todo[s]) - 1
    BY <1>2, <1>3
  <2>2. ASSUME NEW y \in Steps(s)' PROVE y \in Later(s)
    <3>1. PICK i \in 1 .. Len(todo[s]) - 1 : y = todo'[s][i]
      BY <2>1, <2>2 DEF Steps
    <3>2. y = todo[s][i + 1] /\ i + 1 \in 2 .. Len(todo[s])
      BY <1>2, <1>3, <3>1
    <3> QED
      BY <3>2 DEF Later
  <2>3. ASSUME NEW y \in Later(s) PROVE y \in Steps(s)'
    <3>1. PICK i \in 2 .. Len(todo[s]) : y = todo[s][i]
      BY <2>3 DEF Later
    <3>2. y = todo'[s][i - 1] /\ i - 1 \in 1 .. Len(todo[s]) - 1
      BY <1>2, <1>3, <3>1
    <3> QED
      BY <2>1, <3>2 DEF Steps
  <2> QED
    BY <2>2, <2>3
<1>6. Later(s)' \subseteq Later(s)
  <2>1. Len(todo'[s]) = Len(todo[s]) - 1
    BY <1>2, <1>3
  <2>2. \A i \in 2 .. Len(todo'[s]) : todo'[s][i] = todo[s][i + 1] /\ i + 1 \in 2 .. Len(todo[s])
    BY <1>2, <1>3, <2>1
  <2> QED
    BY <2>2 DEF Later
<1>7. todo'[s] # <<>> => Ending(s)' = Ending(s)
  BY <1>2, <1>3 DEF Ending
<1>8. todo'[s] = <<>> => Steps(s)' = {}
  BY DEF Steps
<1>9. ASSUME NEW y, At(s, y)' PROVE y \in Steps(s)'
  <2>1. todo'[s] \in Seq(Statement) /\ todo'[s] # <<>> /\ y = Head(todo'[s])
    BY <1>2, <1>3, <1>9 DEF At
  <2>2. 1 \in DOMAIN todo'[s] /\ y = todo'[s][1]
    BY <2>1
  <2> QED
    BY <2>2 DEF Steps
<1> QED
  BY <1>3, <1>4, <1>5, <1>6, <1>7, <1>8, <1>9 DEF Follows

LEMMA PassMoves ==
  ASSUME NEW Statement, Requested(Statement),
         NEW s \in Slot, NEW x, At(s, x), Pass(s)
  PROVE  /\ Requested(Statement)' /\ OthersWait(s) /\ Follows(s, x)
         /\ Steps(s)' # {} => mem'[s] = mem[s]
<1>1. Note(s, mem[s])
  BY DEF Pass, Note
<1> QED
  BY <1>1, NoteMoves

\* A statement that comes next is one there is to do.
LEMMA NextIsPending ==
  ASSUME NEW Statement, Requested(Statement), NEW s \in Slot, NEW x, At(s, x)
  PROVE  x \in Statement /\ Steps(s) = {x} \cup Later(s)
<1>1. todo[s] \in Seq(Statement) /\ todo[s] # <<>>
  BY DEF Requested, At
<1>2. Len(todo[s]) \in Nat \ {0} /\ DOMAIN todo[s] = 1 .. Len(todo[s])
  BY <1>1
<1>3. x = todo[s][1] /\ x \in Statement
  BY <1>1 DEF At
<1>4. \A i \in 1 .. Len(todo[s]) : i = 1 \/ i \in 2 .. Len(todo[s])
  BY <1>2
<1>5. 1 \in 1 .. Len(todo[s]) /\ 2 .. Len(todo[s]) \subseteq 1 .. Len(todo[s])
  BY <1>2
<1> QED
  BY <1>2, <1>3, <1>4, <1>5 DEF Steps, Later

\* If it is not the last, the last is yet to come.
LEMMA LastIsLater ==
  ASSUME NEW Statement, Requested(Statement), NEW s \in Slot, NEW x, At(s, x),
         Ending(s) # x
  PROVE  Ending(s) \in Later(s)
<1>1. Len(todo[s]) \in Nat \ {0} /\ x = todo[s][1]
  BY DEF Requested, At
<1>2. Len(todo[s]) # 1
  BY <1>1 DEF Ending
<1>3. Len(todo[s]) \in 2 .. Len(todo[s])
  <2>1. \A n \in Nat \ {0} : n # 1 => n \in 2 .. n
    OBVIOUS
  <2> QED
    BY <1>1, <1>2, <2>1
<1>4. \E i \in 2 .. Len(todo[s]) : todo[s][Len(todo[s])] = todo[s][i]
  BY <1>3
<1> QED
  BY <1>4 DEF Later, Ending

-----------------------------------------------------------------------------
\* Requests of a few statements.

LEMMA NoneLeft ==
  ASSUME NEW s, todo'[s] = <<>>
  PROVE  Steps(s)' = {} /\ Later(s)' = {} /\ \A x : ~At(s, x)'
<1>1. DOMAIN todo'[s] = {} /\ Len(todo'[s]) = 0 /\ 2 .. 0 = {}
  OBVIOUS
<1> QED
  BY <1>1 DEF Steps, Later, At

LEMMA OneLeft ==
  ASSUME NEW s, NEW a, todo'[s] = <<a>>
  PROVE  /\ Steps(s)' = {a} /\ Later(s)' = {} /\ Ending(s)' = a
         /\ \A x : At(s, x)' => x = a
<1>1. DOMAIN todo'[s] = {1} /\ Len(todo'[s]) = 1 /\ 2 .. 1 = {} /\ todo'[s][1] = a
  OBVIOUS
<1> QED
  BY <1>1 DEF Steps, Later, Ending, At

LEMMA TwoLeft ==
  ASSUME NEW s, NEW a, NEW b, todo'[s] = <<a, b>>
  PROVE  /\ Steps(s)' = {a, b} /\ Later(s)' = {b} /\ Ending(s)' = b
         /\ \A x : At(s, x)' => x = a
<1>1. /\ DOMAIN todo'[s] = {1, 2} /\ Len(todo'[s]) = 2 /\ 2 .. 2 = {2}
      /\ todo'[s][1] = a /\ todo'[s][2] = b
  OBVIOUS
<1> QED
  BY <1>1 DEF Steps, Later, Ending, At

LEMMA ThreeLeft ==
  ASSUME NEW s, NEW a, NEW b, NEW c, todo'[s] = <<a, b, c>>
  PROVE  /\ Steps(s)' = {a, b, c} /\ Later(s)' = {b, c} /\ Ending(s)' = c
         /\ \A x : At(s, x)' => x = a
<1>1. /\ DOMAIN todo'[s] = {1, 2, 3} /\ Len(todo'[s]) = 3 /\ 2 .. 3 = {2, 3}
      /\ todo'[s][1] = a /\ todo'[s][2] = b /\ todo'[s][3] = c
  OBVIOUS
<1> QED
  BY <1>1 DEF Steps, Later, Ending, At

LEMMA FourLeft ==
  ASSUME NEW s, NEW a, NEW b, NEW c, NEW d, todo'[s] = <<a, b, c, d>>
  PROVE  /\ Steps(s)' = {a, b, c, d} /\ Later(s)' = {b, c, d} /\ Ending(s)' = d
         /\ \A x : At(s, x)' => x = a
<1>1. /\ DOMAIN todo'[s] = {1, 2, 3, 4} /\ Len(todo'[s]) = 4 /\ 2 .. 4 = {2, 3, 4}
      /\ todo'[s][1] = a /\ todo'[s][2] = b /\ todo'[s][3] = c /\ todo'[s][4] = d
  OBVIOUS
<1> QED
  BY <1>1 DEF Steps, Later, Ending, At

LEMMA ShortSeqs ==
  \A T : /\ <<>> \in Seq(T)
         /\ \A a \in T : <<a>> \in Seq(T)
         /\ \A a, b \in T : <<a, b>> \in Seq(T)
         /\ \A a, b, c \in T : <<a, b, c>> \in Seq(T)
         /\ \A a, b, c, d \in T : <<a, b, c, d>> \in Seq(T)
OBVIOUS

LEMMA ShortHeads ==
  /\ \A a : Tail(<<a>>) = <<>> /\ Head(<<a>>) = a /\ <<a>> # <<>>
  /\ \A a, b : Tail(<<a, b>>) = <<b>> /\ Head(<<a, b>>) = a /\ <<a, b>> # <<>>
OBVIOUS

LEMMA JoinOneTwo == \A a, b, c : <<a>> \o <<b, c>> = <<a, b, c>>
<1> TAKE a, b, c
<1> DEFINE T == {a, b, c}
<1>1. <<a>> \in Seq(T) /\ <<b, c>> \in Seq(T) /\ <<a, b, c>> \in Seq(T)
  OBVIOUS
<1>2. /\ <<a>> \o <<b, c>> \in Seq(T) /\ Len(<<a>> \o <<b, c>>) = 3
      /\ \A i \in 1 .. 3 : (<<a>> \o <<b, c>>)[i] = <<a, b, c>>[i]
  BY <1>1
<1> QED
  BY <1>1, <1>2, SeqEqual

\* A first and a last statement around others.
Frame(x, mid, y) == <<x>> \o mid \o <<y>>

LEMMA Framed ==
  ASSUME NEW x, NEW y, NEW Mid, NEW mid \in Seq(Mid), NEW steps, steps = Frame(x, mid, y)
  PROVE  /\ steps \in Seq(Mid \cup {x, y}) /\ Len(steps) = Len(mid) + 2 /\ Len(mid) \in Nat
         /\ steps[1] = x /\ steps[Len(steps)] = y
         /\ \A i \in 2 .. Len(steps) : steps[i] \in Mid \cup {y}
<1> DEFINE T == Mid \cup {x, y}
           u == <<x>> \o mid
<1>1. /\ <<x>> \in Seq(T) /\ Len(<<x>>) = 1 /\ <<x>>[1] = x
      /\ <<y>> \in Seq(T) /\ Len(<<y>>) = 1 /\ <<y>>[1] = y
  OBVIOUS
<1>2. mid \in Seq(T) /\ Len(mid) \in Nat /\ \A i \in 1 .. Len(mid) : mid[i] \in Mid
  OBVIOUS
<1>3. /\ u \in Seq(T) /\ Len(u) = Len(mid) + 1
      /\ \A i \in 1 .. Len(mid) + 1 : u[i] = IF i <= 1 THEN x ELSE mid[i - 1]
  <2> DEFINE w == <<x>>
  <2>1. w \in Seq(T) /\ Len(w) = 1 /\ w[1] = x
    BY <1>1
  <2>2. u = w \o mid
    OBVIOUS
  <2> HIDE DEF u, w
  <2>3. /\ w \o mid \in Seq(T) /\ Len(w \o mid) = Len(w) + Len(mid)
        /\ \A i \in 1 .. Len(w) + Len(mid) :
             (w \o mid)[i] = IF i <= Len(w) THEN w[i] ELSE mid[i - Len(w)]
    BY <1>2, <2>1, ConcatProperties
  <2>4. \A i \in 1 .. Len(mid) + 1 : u[i] = IF i <= 1 THEN x ELSE mid[i - 1]
    BY <1>2, <2>1, <2>2, <2>3
  <2> QED
    BY <1>2, <2>1, <2>2, <2>3, <2>4
<1>4. /\ u \o <<y>> \in Seq(T) /\ Len(u \o <<y>>) = Len(mid) + 2
      /\ \A i \in 1 .. Len(mid) + 2 : (u \o <<y>>)[i] = IF i <= Len(mid) + 1 THEN u[i] ELSE y
  <2> HIDE DEF u
  <2>1. /\ u \o <<y>> \in Seq(T) /\ Len(u \o <<y>>) = Len(u) + Len(<<y>>)
        /\ \A i \in 1 .. Len(u) + Len(<<y>>) :
             (u \o <<y>>)[i] = IF i <= Len(u) THEN u[i] ELSE <<y>>[i - Len(u)]
    BY <1>1, <1>3, ConcatProperties
  <2> QED
    BY <1>1, <1>2, <1>3, <2>1
<1>5. steps = u \o <<y>>
  BY DEF Frame
<1> HIDE DEF u
<1>6. \A i \in 1 .. Len(mid) + 2 :
        steps[i] = IF i = 1 THEN x ELSE IF i <= Len(mid) + 1 THEN mid[i - 1] ELSE y
  BY <1>2, <1>3, <1>4, <1>5
<1>7. steps \in Seq(T) /\ Len(steps) = Len(mid) + 2
  BY <1>4, <1>5
<1>8. \A i \in 2 .. Len(mid) + 2 : steps[i] \in Mid \cup {y}
  <2> TAKE i \in 2 .. Len(mid) + 2
  <2>1. CASE i <= Len(mid) + 1
    <3>1. i - 1 \in 1 .. Len(mid) /\ steps[i] = mid[i - 1]
      BY <1>2, <1>6, <2>1
    <3> QED
      BY <1>2, <3>1
  <2>2. CASE ~(i <= Len(mid) + 1)
    BY <1>2, <1>6, <2>2
  <2> QED
    BY <2>1, <2>2
<1> QED
  BY <1>2, <1>6, <1>7, <1>8
=============================================================================

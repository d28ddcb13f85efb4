----------------------------- MODULE Requests -----------------------------
(***************************************************************************)
(* How the server carries out requests.  A handler is an asynchronous      *)
(* function: between two statements it awaits, every other request may run *)
(* a statement of its own.  A request is what it has yet to do and what it *)
(* has read so far; both are the process's memory and are gone when it     *)
(* dies, while the tables stay as they are.  The component modules extend  *)
(* this one with the tables and the handlers that use them.                *)
(***************************************************************************)
EXTENDS Naturals, Sequences, FiniteSets

CONSTANTS
  Slot,         \* requests in flight at one time
  MaxRequests   \* bound: requests ever made

ASSUME SlotAssumption == IsFiniteSet(Slot)

VARIABLES
  todo,   \* slot -> the statements its request has yet to run
  mem,    \* slot -> what its request was asked and has read
  spent   \* requests made so far

requests == <<todo, mem, spent>>

Nothing == [what |-> "nothing"]

RequestsInit ==
  /\ todo = [s \in Slot |-> <<>>]
  /\ mem = [s \in Slot |-> Nothing]
  /\ spent = 0

Steps(s) == {todo[s][i] : i \in DOMAIN todo[s]}
Pending(s, statement) == statement \in Steps(s)
At(s, statement) == todo[s] # <<>> /\ Head(todo[s]) = statement
Quiet == \A s \in Slot : todo[s] = <<>>

\* What is left to do from here, and what to remember meanwhile.
Turn(s, steps, m) ==
  /\ todo' = [todo EXCEPT ![s] = steps]
  /\ mem' = [mem EXCEPT ![s] = IF steps = <<>> THEN Nothing ELSE m]
  /\ spent' = spent

Begin(s, steps, m) ==
  /\ todo[s] = <<>> /\ spent < MaxRequests
  /\ todo' = [todo EXCEPT ![s] = steps]
  /\ mem' = [mem EXCEPT ![s] = IF steps = <<>> THEN Nothing ELSE m]
  /\ spent' = spent + 1

\* A request that is one statement.
AtOnce(s) == Begin(s, <<>>, Nothing)

Pass(s)     == Turn(s, Tail(todo[s]), mem[s])
Note(s, m)  == Turn(s, Tail(todo[s]), m)
Answer(s)   == Turn(s, <<>>, Nothing)
=============================================================================

------------------------- MODULE ProposalLifecycle -------------------------
(***************************************************************************)
(* What a community is promised about one proposal, whatever the requests  *)
(* that serve it do: its text moves only while it is open, it is contested *)
(* at most once, it closes once and for good, and its change is carried    *)
(* out at most once, in the very step that closes it and with the text     *)
(* that was decided.                                                       *)
(***************************************************************************)
EXTENDS Sequences

CONSTANTS Text, NoText

VARIABLES
  stage,    \* "none", "open", "waiting", "review" or "closed"
  text,     \* what it proposes
  done      \* the changes carried out

vars == <<stage, text, done>>

Init ==
  /\ done = <<>>
  /\ \/ stage = "none" /\ text = NoText
     \/ stage = "open" /\ text \in Text

Propose ==
  /\ stage = "none" /\ stage' = "open"
  /\ text' \in Text /\ UNCHANGED done

Reword ==
  /\ stage = "open" /\ text' \in Text
  /\ UNCHANGED <<stage, done>>

\* The votes decide for it, and a window opens in which it can be contested.
Schedule ==
  /\ stage = "open" /\ stage' = "waiting"
  /\ UNCHANGED <<text, done>>

\* It is contested in time, and the electorate is asked again.
Review ==
  /\ stage = "waiting" /\ stage' = "review"
  /\ UNCHANGED <<text, done>>

\* Rejected, expired, held for good, or found to be inapplicable.
Drop ==
  /\ stage \in {"open", "waiting", "review"} /\ stage' = "closed"
  /\ UNCHANGED <<text, done>>

CarryOut ==
  /\ stage \in {"open", "waiting", "review"} /\ stage' = "closed"
  /\ done' = <<text>> /\ UNCHANGED text

Next == Propose \/ Reword \/ Schedule \/ Review \/ Drop \/ CarryOut

Spec == Init /\ [][Next]_vars
=============================================================================

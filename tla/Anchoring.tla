----------------------------- MODULE Anchoring -----------------------------
(***************************************************************************)
(* A community that anchors publishes the CID of each decision with a      *)
(* notary, after the decision is written, applied and out of the lock.     *)
(* What came of it is a row of the audit log: a receipt, or a failure,     *)
(* which is also the queue of what to try again.  The next resolution      *)
(* whose own decision was anchored tries the newest failures that have no  *)
(* receipt, oldest first, until one fails or its time is up.               *)
(*                                                                         *)
(* The notary is outside: it may publish and answer, refuse, or publish    *)
(* and answer after the attempt has been given up.                         *)
(***************************************************************************)
EXTENDS Requests

CONSTANTS
  Decisions,    \* bound: decisions made
  RETRY_BATCH,  \* how many failures one resolution tries again
  RETRY_SCAN    \* how many rows of failures it looks at

VARIABLES
  decided,     \* decisions made with anchoring on, numbered in the order made
  registered,  \* the process knows an attestor for the chain
  notary,      \* what the notary holds
  log,         \* audit_log: rows of anchored and anchorFailed, oldest first
  anchorPast   \* history: attempts that left no row, and drains that crossed

anchoringTables == <<decided, registered, notary, log>>

LogRow(action, d) == [action |-> action, decision |-> d]
Rows(action) == SelectSeq(log, LAMBDA r : r.action = action)
Anchored == {log[i].decision : i \in {j \in DOMAIN log : log[j].action = "anchored"}}

AnchoringInit ==
  /\ RequestsInit
  /\ decided = 0 /\ registered \in BOOLEAN /\ notary = {} /\ log = <<>>
  /\ anchorPast = [unrecorded |-> {}, crossed |-> FALSE]

-----------------------------------------------------------------------------
\* A vote that decides: what is anchored is committed before this begins.
DecideAndAnchor(s) ==
  /\ decided < Decisions
  /\ Begin(s, <<"askNotary">>, [what |-> "anchor", own |-> decided + 1, target |-> decided + 1, pending |-> <<>>])
  /\ decided' = decided + 1
  /\ UNCHANGED <<registered, notary, log, anchorPast>>

\* attempt: without an attestor there is nothing to record and nothing to retry.
NoAttestor(s) ==
  /\ At(s, "askNotary") /\ ~registered /\ Answer(s)
  /\ anchorPast' = [anchorPast EXCEPT !.unrecorded = @ \cup {mem[s].target}]
  /\ UNCHANGED anchoringTables

\* The notary may have done its work although the attempt is given up, or
\* although what it answered is no receipt.
AskNotary(s, published, receipt) ==
  /\ At(s, "askNotary") /\ registered /\ (receipt => published)
  /\ notary' = IF published THEN notary \cup {mem[s].target} ELSE notary
  /\ Turn(s, <<"log">>, [what |-> "anchor", own |-> mem[s].own, target |-> mem[s].target,
                         pending |-> mem[s].pending, receipt |-> receipt])
  /\ UNCHANGED <<decided, registered, log, anchorPast>>

\* What a resolution does after an attempt: its own decision is followed by a
\* look at what else is waiting, and each of those by the next, until one fails.
Following(m) ==
  IF ~m.receipt THEN <<>>
  ELSE IF m.target = m.own THEN <<"listFailures", "listAnchored">>
  ELSE IF m.pending = <<>> THEN <<>> ELSE <<"nextTarget">>

\* auditLog never fails its caller: the row may be missing.
LogAttempt(s, kept) ==
  /\ At(s, "log")
  /\ log' = IF kept THEN Append(log, LogRow(IF mem[s].receipt THEN "anchored" ELSE "failed", mem[s].target)) ELSE log
  /\ anchorPast' = [anchorPast EXCEPT
       !.unrecorded = IF kept THEN @ ELSE @ \cup {mem[s].target}]
  /\ Turn(s, Following(mem[s]), mem[s])
  /\ UNCHANGED <<decided, registered, notary>>

-----------------------------------------------------------------------------
(* anchorPendingDecisions *)

Last(q, n) == SubSeq(q, IF Len(q) > n THEN Len(q) - n + 1 ELSE 1, Len(q))

\* Of several rows of one decision the newest counts.
Distinct(q) ==
  SelectSeq([i \in DOMAIN q |-> [at |-> i, d |-> q[i].decision]],
            LAMBDA x : \A j \in DOMAIN q : j > x.at => q[j].decision # x.d)

ListFailures(s) ==
  /\ At(s, "listFailures")
  /\ LET scanned == Last(Rows("failed"), RETRY_SCAN) IN
     IF scanned = <<>> THEN Answer(s)
     ELSE Note(s, [mem[s] EXCEPT !.pending = [i \in DOMAIN Distinct(scanned) |-> Distinct(scanned)[i].d]])
  /\ UNCHANGED <<anchoringTables, anchorPast>>

\* What a request is trying or will try.
Holds(t) ==
  IF todo[t] = <<>> THEN {} ELSE {mem[t].target} \cup {mem[t].pending[i] : i \in DOMAIN mem[t].pending}

\* The failures first and the receipts after them, so none is overlooked.
ListAnchored(s) ==
  /\ At(s, "listAnchored")
  /\ LET waiting == Last(SelectSeq(mem[s].pending, LAMBDA d : d \notin Anchored), RETRY_BATCH) IN
     /\ IF waiting = <<>> THEN Answer(s)
        ELSE Turn(s, <<"nextTarget">>, [mem[s] EXCEPT !.pending = waiting])
     /\ anchorPast' = [anchorPast EXCEPT
          !.crossed = @ \/ \E t \in Slot \ {s}, i \in DOMAIN waiting : waiting[i] \in Holds(t)]
  /\ UNCHANGED anchoringTables

NextTarget(s) ==
  /\ At(s, "nextTarget")
  /\ Turn(s, <<"askNotary">>,
          [mem[s] EXCEPT !.target = Head(mem[s].pending), !.pending = Tail(@)])
  /\ UNCHANGED <<anchoringTables, anchorPast>>

\* The time is up before the next of those that wait, or the process dies
\* anywhere; the decisions stay decided, and a new process may know an attestor.
TimeIsUp(s) == At(s, "nextTarget") /\ Answer(s) /\ UNCHANGED <<anchoringTables, anchorPast>>

AnchoringDies ==
  /\ \E s \in Slot : todo[s] # <<>>
  /\ todo' = [s \in Slot |-> <<>>] /\ mem' = [s \in Slot |-> Nothing] /\ spent' = spent
  /\ registered' \in BOOLEAN
  /\ anchorPast' = [anchorPast EXCEPT
       !.unrecorded = @ \cup {mem[s].target : s \in {t \in Slot : Steps(t) \cap {"askNotary", "log"} # {}}}]
  /\ UNCHANGED <<decided, notary, log>>

AnchoringNext ==
  \/ \E s \in Slot :
       \/ DecideAndAnchor(s) \/ NoAttestor(s)
       \/ \E published, receipt \in BOOLEAN : AskNotary(s, published, receipt)
       \/ \E kept \in BOOLEAN : LogAttempt(s, kept)
       \/ ListFailures(s) \/ ListAnchored(s) \/ NextTarget(s) \/ TimeIsUp(s)
  \/ AnchoringDies

-----------------------------------------------------------------------------
AnchoringTypeOK ==
  /\ decided \in 0..Decisions /\ notary \subseteq 1..decided
  /\ \A i \in DOMAIN log : log[i].action \in {"anchored", "failed"} /\ log[i].decision \in 1..decided

\* A receipt on the log is of a decision the notary holds.  A decision whose
\* attempt has ended has its row, so that none is forgotten, unless the row
\* could not be written, the process died or there was nobody to ask.  What
\* has its receipt is not published again but by resolutions that overlap.
AnchorsHold ==
  /\ Anchored \subseteq notary
  /\ \A d \in 1..decided :
       \/ d \in anchorPast.unrecorded
       \/ \E i \in DOMAIN log : log[i].decision = d
       \/ \E s \in Slot : Steps(s) \cap {"askNotary", "log"} # {} /\ mem[s].target = d
  /\ \/ anchorPast.crossed
     \/ \A i, j \in DOMAIN log :
          /\ log[i].decision = log[j].decision /\ log[i].decision \notin anchorPast.unrecorded
          /\ log[i].action = "anchored"
          => j <= i

anchoringVars == <<requests, anchoringTables, anchorPast>>
AnchoringSpec == AnchoringInit /\ [][AnchoringNext]_anchoringVars
=============================================================================

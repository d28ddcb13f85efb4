------------------------------ MODULE Settings ------------------------------
(***************************************************************************)
(* The settings record of a community, which says how it is governed, and  *)
(* the two ways it changes: by a request of somebody with the permission   *)
(* while one person decides, and by a proposal the community has carried.  *)
(* Each is checked by one predicate, before it is asked and, for a         *)
(* proposal, again when it is carried out.                                 *)
(*                                                                         *)
(* Two fields of the configuration stand for all that are optional: quorum *)
(* (with the voters' role) and chain.  protects is the list of protected   *)
(* collections, told apart by whether it names the mandatory ones, and     *)
(* visibility every field outside governance.  How a proposal is carried   *)
(* is Proposal's subject; here it is one that may be carried out.          *)
(***************************************************************************)
EXTENDS Requests

VARIABLES
  rules,      \* the settings record
  carried,    \* patches of proposals that were carried and wait to be applied
  ought,      \* history: the record, had each change touched what it names and no more
  unvoted,    \* history: a direct write was let through which needed a vote
  crossing    \* history: the record moved between a writer's look and its write

settingsPast == <<ought, unvoted, crossing>>

Models == {"dictator", "majority", "on-chain"}
Votes(r) == r.model \in {"majority", "on-chain"}

\* "-" is a field that is not there; in a patch, one that is not named.
\* "null" takes a field away.
Patch(model, quorum, chain, protects) ==
  [model |-> model, quorum |-> quorum, chain |-> chain, protects |-> protects]
Config == {"quorum", "chain", "protects"}
Names(p) == {f \in Config : p[f] # "-"}
Removes(p) == \E f \in Config : p[f] = "null"
WithoutNulls(p) == [f \in DOMAIN p |-> IF p[f] = "null" THEN "-" ELSE p[f]]

\* Bound: what is asked for.
Patches ==
  {Patch("dictator", "-", "-", "-"), Patch("majority", "1", "-", "-"),
   Patch("majority", "2", "null", "others"), Patch("on-chain", "-", "yes", "-"),
   Patch("-", "2", "-", "-"), Patch("-", "null", "-", "others")}

\* checkGovernanceSettings; without a model it judges as if one person decided.
Sound(p, normalize) ==
  LET q == WithoutNulls(p) IN
  /\ q.model = "majority" => q.quorum # "-"
  /\ q.model = "on-chain" => q.chain # "-"
  /\ Votes(q) => (normalize \/ q.protects # "others")

\* The mandatory collections are added in place, to a copy if a null was dropped.
Normalized(p) ==
  IF Votes(p) /\ p.protects = "others" /\ ~Removes(p) THEN [p EXCEPT !.protects = "all"] ELSE p

SettingsInit ==
  /\ RequestsInit
  /\ rules = [model |-> "dictator", quorum |-> "-", chain |-> "-", protects |-> "-",
              visibility |-> "public"]
  /\ carried = {} /\ ought = rules /\ unvoted = FALSE /\ crossing = FALSE

-----------------------------------------------------------------------------
(* enforceGovernance. *)

\* A list that leaves the mandatory ones out protects them all the same.
Protected(collection) ==
  CASE collection = "settings" -> TRUE
    [] collection = "profile"  -> rules.protects = "-"
    [] collection = "calendar" -> rules.protects \in {"others", "all"}

\* A service that acts for the community may do so under its rules, not to them.
Lets(collection, delegated) ==
  \/ ~Protected(collection)
  \/ rules.model = "dictator"
  \/ rules.model = "on-chain" /\ delegated /\ collection # "settings"

Looked(s) == mem[s].seen = rules

\* What a change leaves: the fields it names changed, the others as they were.
Touched(r, p) ==
  [f \in DOMAIN r |-> IF f \in DOMAIN p /\ p[f] # "-" THEN WithoutNulls(p)[f] ELSE r[f]]

-----------------------------------------------------------------------------
(* setGovernanceModel: checked, read, then allowed, then written. *)

SetGovernanceModel(s, p) ==
  /\ p.model # "-" /\ Sound(p, TRUE)
  /\ Begin(s, <<"enforce", "put model">>,
           [what |-> "model", patch |-> Normalized(p), seen |-> rules])
  /\ UNCHANGED <<rules, carried, settingsPast>>

EnforceModel(s) ==
  /\ At(s, "enforce")
  /\ IF Lets("settings", FALSE) THEN Pass(s) ELSE Answer(s)
  /\ unvoted' = (unvoted \/ (Votes(rules) /\ Lets("settings", FALSE)))
  /\ UNCHANGED <<rules, carried, ought, crossing>>

\* A configuration given replaces the one there was, and one with nothing in
\* it, here, is one not given.
WithModel(r, p) ==
  IF Names(p) = {} THEN [r EXCEPT !.model = p.model]
  ELSE [f \in DOMAIN r |-> IF f = "model" THEN p.model
                           ELSE IF f \in Config THEN WithoutNulls(p)[f] ELSE r[f]]

PutModel(s) ==
  /\ At(s, "put model") /\ Pass(s)
  /\ rules' = WithModel(mem[s].seen, mem[s].patch)
  /\ ought' = IF Names(mem[s].patch) = {} THEN [ought EXCEPT !.model = mem[s].patch.model]
              ELSE [f \in DOMAIN ought |-> IF f = "visibility" THEN ought[f]
                                           ELSE WithoutNulls(mem[s].patch)[f]]
  /\ crossing' = (crossing \/ ~Looked(s))
  /\ UNCHANGED <<carried, unvoted>>

(* community.update: allowed, then read again and written. *)
UpdateSettings(s) ==
  /\ Lets("settings", FALSE)
  /\ Begin(s, <<"get", "put">>, [what |-> "update", seen |-> rules])
  /\ unvoted' = (unvoted \/ Votes(rules))
  /\ UNCHANGED <<rules, carried, ought, crossing>>

GetSettings(s) ==
  /\ At(s, "get")
  /\ Note(s, [mem[s] EXCEPT !.seen = rules])
  /\ crossing' = (crossing \/ ~Looked(s))
  /\ UNCHANGED <<rules, carried, ought, unvoted>>

PutSettings(s) ==
  /\ At(s, "put") /\ Pass(s)
  /\ rules' = [mem[s].seen EXCEPT !.visibility = "private"]
  /\ ought' = [ought EXCEPT !.visibility = "private"]
  /\ crossing' = (crossing \/ ~Looked(s))
  /\ UNCHANGED <<carried, unvoted>>

\* Any other record, by the repository's endpoints or for a delegated service.
WriteRecord(s, collection, delegated) ==
  /\ Lets(collection, delegated) /\ AtOnce(s)
  /\ unvoted' = (unvoted \/ (Votes(rules) /\ collection = "profile" /\ rules.protects = "-"
                             /\ ~(delegated /\ rules.model = "on-chain")))
  /\ UNCHANGED <<rules, carried, ought, crossing>>

-----------------------------------------------------------------------------
(* Proposals to change the record. *)

\* Checked where the proposer can still mend it, and carried by the community.
ProposeSettings(s, p) ==
  /\ Votes(rules) /\ Sound(p, TRUE) /\ AtOnce(s)
  /\ carried' = carried \cup {Normalized(p)}
  /\ UNCHANGED <<rules, settingsPast>>

\* A slip the runs must notice: a configuration replaces the one there was.
RecordReplaced(r, p) ==
  [f \in DOMAIN r |-> IF f \in Config /\ Names(p) # {} THEN WithoutNulls(p)[f]
                      ELSE IF f = "model" /\ p.model # "-" THEN p.model ELSE r[f]]

\* recordToWrite: merged over the record as it stands, the configuration one
\* level deeper than the rest.
RecordToWrite(r, p) == Touched(r, p)

\* proposalApplicationProblem: what would be written must be sound as it is.
ApplyProposal(s, p) ==
  /\ p \in carried /\ Sound(RecordToWrite(rules, p), FALSE)
  /\ Begin(s, <<"merge", "put merged">>, [what |-> "apply", patch |-> p, seen |-> rules, merged |-> rules])
  /\ UNCHANGED <<rules, carried, settingsPast>>

\* The record is read a second time for what is written.
MergeProposal(s) ==
  /\ At(s, "merge")
  /\ Note(s, [mem[s] EXCEPT !.seen = rules, !.merged = RecordToWrite(rules, mem[s].patch)])
  /\ crossing' = (crossing \/ ~Looked(s))
  /\ UNCHANGED <<rules, carried, ought, unvoted>>

PutMerged(s) ==
  /\ At(s, "put merged") /\ Pass(s)
  /\ rules' = mem[s].merged
  /\ carried' = carried \ {mem[s].patch}
  /\ ought' = Touched(ought, mem[s].patch)
  /\ crossing' = (crossing \/ ~Looked(s))
  /\ UNCHANGED unvoted

SettingsFails(s) ==
  /\ todo[s] # <<>> /\ Answer(s)
  /\ UNCHANGED <<rules, carried, settingsPast>>

SettingsNext ==
  \E s \in Slot :
    \/ \E p \in Patches : SetGovernanceModel(s, p) \/ ProposeSettings(s, p)
    \/ \E p \in carried : ApplyProposal(s, p)
    \/ \E delegated \in BOOLEAN : WriteRecord(s, "profile", delegated) \/ WriteRecord(s, "calendar", delegated)
    \/ UpdateSettings(s) \/ EnforceModel(s) \/ PutModel(s) \/ GetSettings(s) \/ PutSettings(s)
    \/ MergeProposal(s) \/ PutMerged(s) \/ SettingsFails(s)

-----------------------------------------------------------------------------
SettingsTypeOK ==
  /\ rules.model \in Models /\ rules.quorum \in {"-", "1", "2"} /\ rules.chain \in {"-", "yes"}
  /\ rules.protects \in {"-", "others", "all"} /\ rules.visibility \in {"public", "private"}
  /\ DOMAIN ought = DOMAIN rules /\ unvoted \in BOOLEAN /\ crossing \in BOOLEAN

\* A community that votes has the rules its votes need, whatever a removal in
\* a decision or a model change took away, and leaves that by a vote only.  A
\* change, voted or not, changes what it names and no more.  Only writers of
\* the record that cross each other can undo this: nothing keeps them apart.
RulesHold ==
  /\ ~unvoted
  /\ crossing \/ (/\ rules = ought
                  /\ rules.model = "majority" => rules.quorum # "-"
                  /\ rules.model = "on-chain" => rules.chain # "-")

settingsVars == <<requests, rules, carried, settingsPast>>
SettingsSpec == SettingsInit /\ [][SettingsNext]_settingsVars
=============================================================================

---------------------------- MODULE RepoEngine ----------------------------
(***************************************************************************)
(* One repository as RepoEngine keeps it: a tree of records whose root is  *)
(* in repo_roots and whose blocks are in repo_blocks, and records_index,   *)
(* the cache every reader uses.  A write loads the root, asks the index    *)
(* which records exist, works out the new tree, commits blocks and root in *)
(* one transaction, and brings the index up to date afterwards.  Nothing   *)
(* locks the repository while it does, and it can die between any two.     *)
(*                                                                         *)
(* Blocks are content-addressed: a node of the tree is the records below   *)
(* it, a record block is a record at its key (records carry their time, so *)
(* no two keys hold equal ones).  The commit block, which no other commit  *)
(* reads, and the block cache, which drops what a commit removes, are left *)
(* out.  How the tree is walked and what a commit adds and removes is the  *)
(* library's (@atproto/repo).                                              *)
(***************************************************************************)
EXTENDS Integers, FiniteSets

CONSTANTS
  Key,          \* collection and record key
  Content,      \* what a record can say
  Nodes,        \* the nodes of the tree, each the set of keys below it
  Gone,         \* marks a key that a batch deletes
  Writer,       \* concurrent requests to this repository
  MaxCommits,   \* bound: requests ever started, retries aside
  MaxCrashes    \* bound: requests that die

ASSUME RepoAssumption ==
  /\ Nodes \subseteq SUBSET Key /\ Key \in Nodes
  /\ Gone \notin Content

VARIABLES
  hasRoot, tree,    \* repo_roots, and the records its root names
  nodes, records,   \* repo_blocks
  index,            \* records_index
  pc, batch,        \* per request: where it is, what it writes
  base, creates,    \* per request: the tree it loaded, what it found missing
  todo,             \* per request: what it has yet to index, by transaction
  torn,             \* what requests that died left out of the index
  truth,            \* every committed batch, one after the other
  commits, crashes

store   == <<hasRoot, tree, nodes, records>>
request == <<batch, base, creates>>
spent   == <<commits, crashes>>
vars    == <<store, index, pc, request, todo, torn, truth, spent>>

Partial(S, T) == UNION {[D -> T] : D \in SUBSET S}
Tree  == Partial(Key, Content)
Batch == Partial(Key, Content \cup {Gone})
Nothing == [k \in {} |-> Gone]

Below(t, n) == [k \in n \cap DOMAIN t |-> t[k]]

\* The blocks of a tree.  A node without records below it does not exist,
\* but for the root.
NodesOf(t)   == {t} \cup {Below(t, n) : n \in {m \in Nodes : m \cap DOMAIN t # {}}}
RecordsOf(t) == {<<k, t[k]>> : k \in DOMAIN t}

\* A tree with a batch carried out.
Written(b) == {k \in DOMAIN b : b[k] # Gone}

\* A slip the runs must notice: a deletion is kept as a record of its own.
ApplyMarking(t, b) ==
  [k \in DOMAIN t \cup DOMAIN b |-> IF k \in DOMAIN b THEN b[k] ELSE t[k]]

Apply(t, b) ==
  [k \in (DOMAIN t \ DOMAIN b) \cup Written(b) |-> IF k \in DOMAIN b THEN b[k] ELSE t[k]]

-----------------------------------------------------------------------------
Init ==
  /\ hasRoot = FALSE /\ tree = Nothing /\ nodes = {} /\ records = {}
  /\ index = Nothing /\ torn = Nothing /\ truth = Nothing
  /\ pc = [w \in Writer |-> "idle"]
  /\ batch = [w \in Writer |-> Nothing]
  /\ base = [w \in Writer |-> Nothing]
  /\ creates = [w \in Writer |-> {}]
  /\ todo = [w \in Writer |-> {}]
  /\ commits = 0 /\ crashes = 0

End(w) ==
  /\ pc' = [pc EXCEPT ![w] = "idle"]
  /\ batch' = [batch EXCEPT ![w] = Nothing]
  /\ base' = [base EXCEPT ![w] = Nothing]
  /\ creates' = [creates EXCEPT ![w] = {}]
  /\ todo' = [todo EXCEPT ![w] = {}]

Unindexed(w) == UNION todo[w]

Goto(w, place) == pc' = [pc EXCEPT ![w] = place]

\* The transaction of applyCommit: new blocks in, unlinked ones out, new root.
\* A slip the runs must notice: what the old tree had goes, shared or not.
CommitTreeSweeping(old, new) ==
  /\ hasRoot' = TRUE /\ tree' = new
  /\ nodes' = (nodes \cup (NodesOf(new) \ NodesOf(old))) \ NodesOf(old)
  /\ records' = (records \cup (RecordsOf(new) \ RecordsOf(old))) \ RecordsOf(old)

\* A slip the runs must notice: nothing is ever removed.
CommitTreeKeeping(old, new) ==
  /\ hasRoot' = TRUE /\ tree' = new
  /\ nodes' = nodes \cup NodesOf(new) /\ records' = records \cup RecordsOf(new)

CommitTree(old, new) ==
  /\ hasRoot' = TRUE /\ tree' = new
  /\ nodes' = (nodes \cup (NodesOf(new) \ NodesOf(old))) \ (NodesOf(old) \ NodesOf(new))
  /\ records' = (records \cup (RecordsOf(new) \ RecordsOf(old)))
                  \ (RecordsOf(old) \ RecordsOf(new))

-----------------------------------------------------------------------------
\* createRepo, for a DID nobody else knows yet: no tree to load.
CreateRepo(w, b) ==
  /\ pc[w] = "idle" /\ ~hasRoot /\ commits < MaxCommits
  /\ hasRoot' = TRUE /\ tree' = b /\ truth' = b
  /\ nodes' = nodes \cup NodesOf(b) /\ records' = records \cup RecordsOf(b)
  /\ batch' = [batch EXCEPT ![w] = b]
  /\ todo' = [todo EXCEPT ![w] = {DOMAIN b} \ {{}}]
  /\ Goto(w, "index") /\ commits' = commits + 1
  /\ UNCHANGED <<index, base, creates, torn, crashes>>

\* A slip the runs must notice: the cache is taken for the repository.
LoadIndex(w, b) ==
  /\ pc[w] = "idle" /\ hasRoot /\ b # Nothing
  /\ batch' = [batch EXCEPT ![w] = b] /\ base' = [base EXCEPT ![w] = index]
  /\ Goto(w, "classify")
  /\ UNCHANGED <<store, index, creates, todo, torn, truth, crashes>>

\* putRecord, deleteRecord and applyWrites: Repo.load.
Load(w, b) ==
  /\ pc[w] = "idle" /\ hasRoot /\ b # Nothing
  /\ batch' = [batch EXCEPT ![w] = b] /\ base' = [base EXCEPT ![w] = tree]
  /\ Goto(w, "classify")
  /\ UNCHANGED <<store, index, creates, todo, torn, truth, crashes>>

Begin(w, b) == commits < MaxCommits /\ commits' = commits + 1 /\ Load(w, b)

\* Which writes are creates and which are updates is asked of the index.
Classify(w) ==
  /\ pc[w] = "classify"
  /\ creates' = [creates EXCEPT ![w] = Written(batch[w]) \ DOMAIN index]
  /\ Goto(w, "format")
  /\ UNCHANGED <<store, index, batch, base, todo, torn, truth, spent>>

\* The library refuses to create what there is, and to update or delete what
\* there is not; and it has to read the nodes it changes.
Fits(w) ==
  /\ creates[w] \cap DOMAIN base[w] = {}
  /\ (DOMAIN batch[w] \ creates[w]) \subseteq DOMAIN base[w]

Walkable(w) ==
  \A n \in Nodes : n \cap DOMAIN batch[w] # {} /\ n \cap DOMAIN base[w] # {}
                     => Below(base[w], n) \in nodes

Format(w) ==
  /\ pc[w] = "format" /\ Fits(w) /\ Walkable(w)
  /\ Goto(w, "commit")
  /\ UNCHANGED <<store, index, request, todo, torn, truth, spent>>

Refuse(w) ==
  /\ pc[w] = "format" /\ ~(Fits(w) /\ Walkable(w))
  /\ End(w)
  /\ UNCHANGED <<store, index, torn, truth, spent>>

\* The root it loaded is not compared with the one there is.
Commit(w) ==
  /\ pc[w] = "commit"
  /\ CommitTree(base[w], Apply(base[w], batch[w]))
  /\ truth' = Apply(truth, batch[w])
  /\ todo' = [todo EXCEPT ![w] = {{k} : k \in DOMAIN batch[w]}]
  /\ Goto(w, "index")
  /\ UNCHANGED <<index, request, torn, spent>>

\* A slip the runs must notice: a deletion is not carried over to the index.
IndexedWrites(b, done) == Apply(index, [k \in done \cap Written(b) |-> b[k]])

Indexed(b, done) == Apply(index, [k \in done |-> b[k]])

\* syncRecordsIndex and removeFromRecordsIndex: createRepo's records in one
\* transaction, applyWrites' one by one, in the order its caller gave them.
Sync(w, done) ==
  /\ pc[w] = "index" /\ done \in todo[w]
  /\ index' = Indexed(batch[w], done)
  /\ todo' = [todo EXCEPT ![w] = @ \ {done}]
  /\ torn' = [k \in DOMAIN torn \ done |-> torn[k]]
  /\ UNCHANGED <<store, pc, request, truth, spent>>

Answer(w) ==
  /\ pc[w] = "index" /\ todo[w] = {}
  /\ End(w)
  /\ UNCHANGED <<store, index, torn, truth, spent>>

\* The server goes down, or a query throws: what was not indexed stays so.
Die(w) ==
  /\ pc[w] # "idle" /\ crashes < MaxCrashes /\ crashes' = crashes + 1
  /\ torn' = [k \in DOMAIN torn \cup Unindexed(w) |->
                IF k \in Unindexed(w) THEN batch[w][k] ELSE torn[k]]
  /\ End(w)
  /\ UNCHANGED <<store, index, truth, commits>>

\* storeRepoImport: a verified repository takes the place of what there is,
\* index included, in one transaction.  Only the administrator's import removes
\* nothing first, having found no root (a check made before: a repository
\* created in between is left out).
Import(t, replace) ==
  /\ commits < MaxCommits /\ commits' = commits + 1
  /\ replace \/ ~hasRoot
  /\ hasRoot' = TRUE /\ tree' = t
  /\ nodes' = (IF replace THEN {} ELSE nodes) \cup NodesOf(t)
  /\ records' = (IF replace THEN {} ELSE records) \cup RecordsOf(t)
  /\ index' = IF replace THEN t ELSE Apply(index, t)
  /\ truth' = t /\ torn' = Nothing
  /\ UNCHANGED <<pc, request, todo, crashes>>

\* What died is asked for again: "writing the same records again".
Retry(w) ==
  /\ torn # Nothing /\ Load(w, torn)
  /\ UNCHANGED commits

Step(w) ==
  \/ Classify(w) \/ Format(w) \/ Refuse(w) \/ Commit(w) \/ Answer(w)
  \/ \E done \in todo[w] : Sync(w, done)

Write ==
  \E w \in Writer :
    \/ \E b \in Batch : Begin(w, b)
    \/ \E b \in Tree : CreateRepo(w, b)
    \/ Step(w) \/ Retry(w) \/ Die(w)

Next == Write \/ \E t \in Tree, replace \in BOOLEAN : Import(t, replace)

Spec == Init /\ [][Next]_vars

\* No import.
WriteSpec == Init /\ [][Write]_vars

-----------------------------------------------------------------------------
\* One request at a time, and no import meanwhile: what most properties rest on
\* and nothing in the engine ensures.
Alone == \A w \in Writer : pc[w] = "idle"

SerialNext ==
  \/ \E w \in Writer :
       \/ \E b \in Batch : Alone /\ Begin(w, b)
       \/ \E b \in Tree : Alone /\ CreateRepo(w, b)
       \/ Step(w) \/ Die(w)
       \/ Alone /\ Retry(w)
  \/ \E t \in Tree, replace \in BOOLEAN : Alone /\ Import(t, replace)

SerialSpec == Init /\ [][SerialNext]_vars

\* Requests go on, what died is tried again for ever, and the repository was
\* created empty, without an accident.
Fairness ==
  /\ \A w \in Writer : WF_vars(Step(w))
  /\ WF_vars(\E w \in Writer : Alone /\ Retry(w))

RetrySpec ==
  Init /\ [][SerialNext /\ (~hasRoot => tree' = Nothing)]_vars /\ Fairness

-----------------------------------------------------------------------------
\* Properties.

\* Every variable keeps its shape.
TypeOK ==
  /\ hasRoot \in BOOLEAN /\ tree \in Tree /\ index \in Tree /\ truth \in Tree
  /\ nodes \subseteq Tree /\ records \subseteq Key \X Content
  /\ pc \in [Writer -> {"idle", "classify", "format", "commit", "index"}]
  /\ batch \in [Writer -> Batch] /\ base \in [Writer -> Tree]
  /\ creates \in [Writer -> SUBSET Key] /\ todo \in [Writer -> SUBSET SUBSET Key]
  /\ torn \in Batch /\ commits \in Nat /\ crashes \in Nat

\* "Removed blocks aren't referenced by the current MST" (block-cache.ts): the
\* repository can be walked from its root to every record, as exportAsCAR does.
RepoReadable ==
  hasRoot => NodesOf(tree) \subseteq nodes /\ RecordsOf(tree) \subseteq records

\* ...and a commit leaves nothing behind in repo_blocks that no root reaches,
\* which checkAccountStatus would count and nothing would ever remove.
NothingLeaks == nodes \subseteq NodesOf(tree) /\ records \subseteq RecordsOf(tree)

\* A batch that was committed stays until another one overwrites it: no request
\* takes back what another was told is in the repository.
NoCommitLost == tree = truth

\* The index is a cache of the repository: where the two differ, a request has
\* yet to bring it up to date or died before it could.
Differ(k) ==
  \/ k \in (DOMAIN tree \ DOMAIN index) \cup (DOMAIN index \ DOMAIN tree)
  \/ k \in DOMAIN tree \cap DOMAIN index /\ tree[k] # index[k]

IndexFollows ==
  \A k \in Key : Differ(k) => k \in DOMAIN torn \/ \E w \in Writer : k \in Unindexed(w)

\* "A crash in between leaves it stale rather than wrong [...] and converges,
\* because writing the same records again produces the same CIDs" (applyWrites).
IndexConverges == (torn # Nothing) ~> (torn = Nothing)
=============================================================================

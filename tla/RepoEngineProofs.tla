------------------------- MODULE RepoEngineProofs -------------------------
(***************************************************************************)
(* What TLAPS proves of RepoEngine: types whatever overlaps, and, for one  *)
(* request at a time, that storage holds exactly the repository, that no   *)
(* batch is taken back and that the index differs only by what a request   *)
(* has yet to index or died before it could.                               *)
(***************************************************************************)
EXTENDS RepoEngine, TLAPS

LEMMA PartialType ==
  ASSUME NEW S, NEW T, NEW f
  PROVE  f \in Partial(S, T) <=> DOMAIN f \subseteq S /\ f \in [DOMAIN f -> T]
BY DEF Partial

LEMMA NothingType == Nothing \in Tree /\ Nothing \in Batch /\ DOMAIN Nothing = {}
BY PartialType DEF Nothing, Tree, Batch

LEMMA TreeIsBatch == Tree \subseteq Batch
<1> SUFFICES ASSUME NEW t \in Tree PROVE t \in Batch
  OBVIOUS
<1>1. DOMAIN t \subseteq Key /\ t \in [DOMAIN t -> Content]
  BY PartialType DEF Tree
<1>2. t \in [DOMAIN t -> Content \cup {Gone}]
  BY <1>1
<1> QED
  BY <1>1, <1>2, PartialType DEF Batch

\* What a batch does to a tree, key by key.
LEMMA ApplyMeans ==
  ASSUME NEW t \in Tree, NEW b \in Batch
  PROVE  /\ Apply(t, b) \in Tree
         /\ DOMAIN Apply(t, b) = (DOMAIN t \ DOMAIN b) \cup Written(b)
         /\ \A k \in DOMAIN Apply(t, b) :
              Apply(t, b)[k] = IF k \in DOMAIN b THEN b[k] ELSE t[k]
<1>1. DOMAIN t \subseteq Key /\ t \in [DOMAIN t -> Content]
  BY PartialType DEF Tree
<1>2. DOMAIN b \subseteq Key /\ b \in [DOMAIN b -> Content \cup {Gone}]
  BY PartialType DEF Batch
<1> DEFINE D == (DOMAIN t \ DOMAIN b) \cup Written(b)
<1>3. D \subseteq Key
  BY <1>1, <1>2 DEF Written
<1>4. Apply(t, b) \in [D -> Content]
  BY <1>1, <1>2 DEF Apply, Written
<1>5. Apply(t, b) \in Tree
  BY <1>3, <1>4, PartialType DEF Tree
<1> QED
  BY <1>5 DEF Apply

LEMMA BlocksType ==
  ASSUME NEW t \in Tree
  PROVE  NodesOf(t) \subseteq Tree /\ RecordsOf(t) \subseteq Key \X Content
<1>1. DOMAIN t \subseteq Key /\ t \in [DOMAIN t -> Content]
  BY PartialType DEF Tree
<1>2. ASSUME NEW n PROVE Below(t, n) \in Tree
  <2>1. Below(t, n) \in [n \cap DOMAIN t -> Content]
    BY <1>1 DEF Below
  <2> QED
    BY <1>1, <2>1, PartialType DEF Tree
<1> QED
  BY <1>1, <1>2 DEF NodesOf, RecordsOf

-----------------------------------------------------------------------------
\* Types, whatever overlaps.

Place == {"idle", "classify", "format", "commit", "index"}

RequestsType ==
  /\ pc \in [Writer -> Place] /\ batch \in [Writer -> Batch]
  /\ base \in [Writer -> Tree] /\ creates \in [Writer -> SUBSET Key]
  /\ todo \in [Writer -> SUBSET SUBSET Key]

\* TypeOK alone is not inductive: what is left to index must be in the batch,
\* and there is nothing to index before the commit.
TodoMeans(w) ==
  /\ pc[w] # "index" => todo[w] = {}
  /\ \A done \in todo[w] : done \subseteq DOMAIN batch[w]

Typed == TypeOK /\ \A w \in Writer : TodoMeans(w)

LEMMA EndType ==
  ASSUME Typed, NEW w \in Writer, End(w)
  PROVE  RequestsType' /\ \A v \in Writer : TodoMeans(v)'
BY NothingType DEF Typed, TypeOK, TodoMeans, RequestsType, End, Place

LEMMA BatchDomain ==
  ASSUME NEW b \in Batch
  PROVE  DOMAIN b \subseteq Key /\ Written(b) \subseteq Key
BY PartialType DEF Batch, Written

LEMMA RestrictedType ==
  ASSUME NEW b \in Batch, NEW D \in SUBSET DOMAIN b
  PROVE  [k \in D |-> b[k]] \in Batch
<1>1. DOMAIN b \subseteq Key /\ b \in [DOMAIN b -> Content \cup {Gone}]
  BY PartialType DEF Batch
<1>2. [k \in D |-> b[k]] \in [D -> Content \cup {Gone}] /\ D \subseteq Key
  BY <1>1
<1> QED
  BY <1>2, PartialType DEF Batch

LEMMA UnindexedType ==
  ASSUME Typed, NEW w \in Writer
  PROVE  Unindexed(w) \subseteq DOMAIN batch[w] /\ batch[w] \in Batch
BY DEF Typed, TypeOK, TodoMeans, Unindexed

LEMMA CommitTreeType ==
  ASSUME TypeOK, NEW old \in Tree, NEW new \in Tree, CommitTree(old, new)
  PROVE  hasRoot' \in BOOLEAN /\ tree' \in Tree /\ nodes' \subseteq Tree
         /\ records' \subseteq Key \X Content
BY BlocksType DEF TypeOK, CommitTree

LEMMA LoadType ==
  ASSUME Typed, NEW w \in Writer, NEW b \in Batch, Load(w, b), commits' \in Nat
  PROVE  Typed'
<1>1. TypeOK'
  BY DEF Load, Typed, TypeOK, store, Goto
<1>2. pc[w] = "idle" /\ todo' = todo
  BY DEF Load
<1> QED
  BY <1>1, <1>2 DEF Load, Typed, TypeOK, TodoMeans, Goto

LEMMA CreateRepoType ==
  ASSUME Typed, NEW w \in Writer, NEW b \in Tree, CreateRepo(w, b)
  PROVE  Typed'
<1>1. b \in Batch /\ DOMAIN b \subseteq Key
  BY TreeIsBatch, BatchDomain
<1>2. NodesOf(b) \subseteq Tree /\ RecordsOf(b) \subseteq Key \X Content
  BY BlocksType
<1>3. TypeOK'
  BY <1>1, <1>2 DEF CreateRepo, Typed, TypeOK, Goto
<1> QED
  BY <1>3 DEF CreateRepo, Typed, TypeOK, TodoMeans, Goto

LEMMA IndexedMeans ==
  ASSUME Typed, NEW w \in Writer, NEW done \in todo[w]
  PROVE  /\ [k \in done |-> batch[w][k]] \in Batch
         /\ Indexed(batch[w], done) \in Tree
<1>1. done \in SUBSET DOMAIN batch[w] /\ batch[w] \in Batch /\ index \in Tree
  BY DEF Typed, TypeOK, TodoMeans
<1>2. [k \in done |-> batch[w][k]] \in Batch
  BY <1>1, RestrictedType
<1> QED
  BY <1>1, <1>2, ApplyMeans DEF Indexed

LEMMA SyncType ==
  ASSUME Typed, NEW w \in Writer, NEW done \in todo[w], Sync(w, done)
  PROVE  Typed'
<1>1. torn \in Batch
  BY DEF Typed, TypeOK
<1>2. torn' \in Batch
  BY <1>1, RestrictedType DEF Sync
<1>3. index' \in Tree
  BY IndexedMeans DEF Sync
<1> QED
  BY <1>2, <1>3 DEF Sync, Typed, TypeOK, TodoMeans, store, request, spent

LEMMA CommitType ==
  ASSUME Typed, NEW w \in Writer, Commit(w)
  PROVE  Typed'
<1>1. base[w] \in Tree /\ batch[w] \in Batch /\ truth \in Tree
  BY DEF Typed, TypeOK
<1>2. Apply(base[w], batch[w]) \in Tree /\ truth' \in Tree
  BY <1>1, ApplyMeans DEF Commit
<1>3. hasRoot' \in BOOLEAN /\ tree' \in Tree /\ nodes' \subseteq Tree
      /\ records' \subseteq Key \X Content
  BY <1>1, <1>2, CommitTreeType DEF Commit, Typed
<1>4. todo'[w] \in SUBSET SUBSET Key /\ todo' \in [Writer -> SUBSET SUBSET Key]
  BY <1>1, BatchDomain DEF Commit, Typed, TypeOK
<1>5. pc' \in [Writer -> Place]
  BY DEF Commit, Goto, Typed, TypeOK, Place
<1> QED
  BY <1>2, <1>3, <1>4, <1>5 DEF Commit, Typed, TypeOK, TodoMeans, Goto, request, spent, Place

LEMMA DieType ==
  ASSUME Typed, NEW w \in Writer, Die(w)
  PROVE  Typed'
<1>1. Unindexed(w) \subseteq DOMAIN batch[w] /\ batch[w] \in Batch /\ torn \in Batch
  BY UnindexedType DEF Typed, TypeOK
<1> DEFINE D == DOMAIN torn \cup Unindexed(w)
<1>2. DOMAIN batch[w] \subseteq Key /\ batch[w] \in [DOMAIN batch[w] -> Content \cup {Gone}]
  BY <1>1, PartialType DEF Batch
<1>3. DOMAIN torn \subseteq Key /\ torn \in [DOMAIN torn -> Content \cup {Gone}]
  BY <1>1, PartialType DEF Batch
<1>4. torn' \in [D -> Content \cup {Gone}] /\ D \subseteq Key
  BY <1>1, <1>2, <1>3 DEF Die
<1>5. torn' \in Batch
  BY <1>4, PartialType DEF Batch
<1> QED
  BY <1>5, EndType DEF Die, Typed, TypeOK, RequestsType, Place, store

LEMMA ImportType ==
  ASSUME Typed, NEW t \in Tree, NEW replace \in BOOLEAN, Import(t, replace)
  PROVE  Typed'
<1>1. NodesOf(t) \subseteq Tree /\ RecordsOf(t) \subseteq Key \X Content
  BY BlocksType
<1>2. index' \in Tree
  BY TreeIsBatch, ApplyMeans DEF Import, Typed, TypeOK
<1>3. nodes' \subseteq Tree /\ records' \subseteq Key \X Content
  BY <1>1 DEF Import, Typed, TypeOK
<1> QED
  BY <1>2, <1>3, NothingType DEF Import, Typed, TypeOK, TodoMeans, request

LEMMA NextTyped == Typed /\ [Next]_vars => Typed'
<1> SUFFICES ASSUME Typed, [Next]_vars PROVE Typed'
  OBVIOUS
<1>1. ASSUME NEW w \in Writer, NEW b \in Batch, Begin(w, b) PROVE Typed'
  BY <1>1, LoadType DEF Begin, Typed, TypeOK
<1>2. ASSUME NEW w \in Writer, Retry(w) PROVE Typed'
  BY <1>2, LoadType DEF Retry, Typed, TypeOK
<1>3. ASSUME NEW w \in Writer, Classify(w) PROVE Typed'
  <2>1. Written(batch[w]) \subseteq Key
    BY BatchDomain DEF Typed, TypeOK
  <2> QED
    BY <1>3, <2>1 DEF Classify, Goto, Typed, TypeOK, TodoMeans, store, spent
<1>4. ASSUME NEW w \in Writer, Format(w) PROVE Typed'
  BY <1>4 DEF Format, Goto, Typed, TypeOK, TodoMeans, store, spent, request
<1>5. ASSUME NEW w \in Writer, Refuse(w) \/ Answer(w) PROVE Typed'
  BY <1>5, EndType DEF Refuse, Answer, Typed, TypeOK, RequestsType, Place, store, spent
<1>6. CASE UNCHANGED vars
  BY <1>6 DEF Typed, TypeOK, TodoMeans, vars, store, request, spent
<1> QED
  BY <1>1, <1>2, <1>3, <1>4, <1>5, <1>6, CreateRepoType, SyncType, CommitType, DieType,
     ImportType DEF Next, Write, Step

LEMMA InitTyped == Init => Typed
<1> SUFFICES ASSUME Init PROVE Typed
  OBVIOUS
<1>1. tree \in Tree /\ index \in Tree /\ truth \in Tree /\ torn \in Batch
  BY NothingType DEF Init
<1>2. /\ pc \in [Writer -> Place] /\ batch \in [Writer -> Batch] /\ base \in [Writer -> Tree]
      /\ creates \in [Writer -> SUBSET Key] /\ todo \in [Writer -> SUBSET SUBSET Key]
  BY NothingType DEF Init, Place
<1>3. \A w \in Writer : todo[w] = {}
  BY DEF Init
<1> QED
  BY <1>1, <1>2, <1>3 DEF Init, Typed, TypeOK, TodoMeans, Place

\* Every variable keeps its shape, however writes, imports and deaths overlap:
\* what putRecord, applyWrites and storeRepoImport may do to the tables.
THEOREM RepoTypeCorrect == Spec => []TypeOK
<1>1. Spec => []Typed
  BY InitTyped, NextTyped, PTL DEF Spec
<1> QED
  BY <1>1, PTL DEF Typed

-----------------------------------------------------------------------------
\* One request at a time.  Nothing in the engine ensures it (repo_race shows
\* what two of them do), so it is a condition of what follows.

OneAtWork == \A v, w \in Writer : v # w => pc[v] = "idle" \/ pc[w] = "idle"

\* Storage holds the blocks of the tree and no other.
Stored ==
  /\ hasRoot => nodes = NodesOf(tree) /\ records = RecordsOf(tree)
  /\ ~hasRoot => /\ nodes = {} /\ records = {}
                 /\ tree = Nothing /\ index = Nothing /\ truth = Nothing

\* The tree says of a key what a batch said of it.
Agrees(b, k) ==
  IF b[k] = Gone THEN k \notin DOMAIN tree ELSE k \in DOMAIN tree /\ tree[k] = b[k]

\* Between load and commit the tree a request loaded is the tree there is, and
\* what it has yet to index is what the tree says.
Current(w) ==
  /\ pc[w] # "idle" => hasRoot
  /\ pc[w] \in {"classify", "format", "commit"} => base[w] = tree
  /\ \A k \in Unindexed(w) : Agrees(batch[w], k)

Serially ==
  /\ Typed /\ OneAtWork /\ Stored /\ NoCommitLost
  /\ \A w \in Writer : Current(w)
  /\ IndexFollows

\* A request that moves keeps the others where they are: idle.
LEMMA OneMoves ==
  ASSUME Typed, OneAtWork, NEW w \in Writer, NEW x, pc' = [pc EXCEPT ![w] = x],
         pc[w] # "idle" \/ Alone
  PROVE  OneAtWork' /\ \A v \in Writer : v # w => pc[v] = "idle" /\ pc'[v] = "idle"
BY DEF Typed, TypeOK, OneAtWork, Alone

LEMMA IdleHasNothing ==
  ASSUME Typed, NEW v \in Writer, pc[v] # "index"
  PROVE  Unindexed(v) = {}
BY DEF Typed, TodoMeans, Unindexed

LEMMA LoadSerially ==
  ASSUME Serially, Alone, NEW w \in Writer, NEW b \in Batch, Load(w, b), commits' \in Nat
  PROVE  Serially'
<1>1. Typed'
  BY LoadType DEF Serially
<1>2. OneAtWork' /\ \A v \in Writer : v # w => pc'[v] = "idle"
  BY OneMoves DEF Serially, Load, Goto
<1>3. Stored' /\ NoCommitLost' /\ IndexFollows'
  BY DEF Serially, Load, store, Stored, NoCommitLost, IndexFollows, Differ, Unindexed
<1>4. ASSUME NEW v \in Writer PROVE Current(v)'
  <2>1. Unindexed(v)' = {}
    BY IdleHasNothing DEF Serially, Alone, Load, Unindexed
  <2>2. hasRoot' /\ base'[w] = tree'
    BY DEF Load, store, Serially, Typed, TypeOK
  <2> QED
    BY <1>2, <2>1, <2>2 DEF Current
<1> QED
  BY <1>1, <1>2, <1>3, <1>4 DEF Serially

LEMMA CreateRepoSerially ==
  ASSUME Serially, Alone, NEW w \in Writer, NEW b \in Tree, CreateRepo(w, b)
  PROVE  Serially'
<1>1. Typed'
  BY CreateRepoType DEF Serially
<1>2. OneAtWork' /\ \A v \in Writer : v # w => pc'[v] = "idle"
  BY OneMoves DEF Serially, CreateRepo, Goto
<1>3. Stored' /\ NoCommitLost'
  BY DEF Serially, CreateRepo, Stored, NoCommitLost
<1>4. DOMAIN index' = {}
  BY NothingType DEF Serially, CreateRepo, Stored
<1>5. Unindexed(w)' = DOMAIN b /\ batch'[w] = b
  <2>1. todo'[w] = {DOMAIN b} \ {{}} /\ batch'[w] = b
    BY DEF CreateRepo, Serially, Typed, TypeOK
  <2> QED
    BY <2>1 DEF Unindexed
<1>6. IndexFollows'
  BY <1>4, <1>5 DEF IndexFollows, Differ, CreateRepo
<1>7. ASSUME NEW v \in Writer PROVE Current(v)'
  <2>1. CASE v = w
    <3>1. \A k \in DOMAIN b : b[k] # Gone
      BY RepoAssumption, PartialType DEF RepoAssumption, Tree
    <3>2. \A k \in Unindexed(w)' : Agrees(batch[w], k)'
      BY <1>5, <3>1 DEF Agrees, CreateRepo
    <3>3. pc'[w] = "index" /\ hasRoot'
      BY DEF CreateRepo, Goto, Serially, Typed, TypeOK
    <3> QED
      BY <2>1, <3>2, <3>3 DEF Current
  <2>2. CASE v # w
    <3>1. pc'[v] = "idle"
      BY <1>2, <2>2
    <3>2. Unindexed(v)' = {}
      BY <1>1, <3>1 DEF Typed, TodoMeans, Unindexed
    <3> QED
      BY <3>1, <3>2 DEF Current
  <2> QED
    BY <2>1, <2>2
<1> QED
  BY <1>1, <1>2, <1>3, <1>6, <1>7 DEF Serially

\* Steps that leave the tables alone and lose nothing that is to be indexed.
LEMMA QuietSerially ==
  ASSUME Serially, Typed', NEW w \in Writer, NEW x \in {"idle", "format", "commit"},
         pc[w] # "idle", pc' = [pc EXCEPT ![w] = x], UNCHANGED <<store, index, torn, truth>>,
         Unindexed(w) = {}, Unindexed(w)' = {}, x # "idle" => base'[w] = base[w],
         x # "idle" => pc[w] \in {"classify", "format"},
         \A v \in Writer : v # w => UNCHANGED <<base[v], batch[v], todo[v]>>
  PROVE  Serially'
<1>1. OneAtWork' /\ \A v \in Writer : v # w => pc[v] = "idle" /\ pc'[v] = "idle"
  BY OneMoves DEF Serially
<1>2. Stored' /\ NoCommitLost'
  BY DEF Serially, store, Stored, NoCommitLost
<1>3. \A v \in Writer : Unindexed(v)' = Unindexed(v)
  BY DEF Unindexed
<1>4. IndexFollows'
  BY <1>3 DEF Serially, store, IndexFollows, Differ
<1>5. ASSUME NEW v \in Writer PROVE Current(v)'
  <2>1. Unindexed(v)' = {}
    BY <1>1, <1>3, IdleHasNothing DEF Serially
  <2>2. CASE v # w
    BY <1>1, <2>1, <2>2 DEF Current
  <2>3. CASE v = w
    BY <2>1, <2>3 DEF Current, Serially, store, Typed, TypeOK
  <2> QED
    BY <2>2, <2>3
<1> QED
  BY <1>1, <1>2, <1>4, <1>5 DEF Serially

LEMMA CommitSerially ==
  ASSUME Serially, NEW w \in Writer, Commit(w)
  PROVE  Serially'
<1> DEFINE b == batch[w]
<1>1. Typed'
  BY CommitType DEF Serially
<1>2. OneAtWork' /\ \A v \in Writer : v # w => pc[v] = "idle" /\ pc'[v] = "idle"
  BY OneMoves DEF Serially, Commit, Goto
<1>3. tree \in Tree /\ b \in Batch /\ base[w] = tree /\ hasRoot
  BY DEF Serially, Typed, TypeOK, Current, Commit
<1>4. tree' = Apply(tree, b) /\ truth' = Apply(truth, b) /\ hasRoot'
  BY <1>3 DEF Commit, CommitTree
<1>5. /\ DOMAIN tree' = (DOMAIN tree \ DOMAIN b) \cup Written(b)
       /\ \A k \in DOMAIN tree' : tree'[k] = IF k \in DOMAIN b THEN b[k] ELSE tree[k]
  <2> DEFINE new == Apply(tree, b)
  <2>1. /\ DOMAIN new = (DOMAIN tree \ DOMAIN b) \cup Written(b)
        /\ \A k \in DOMAIN new : new[k] = IF k \in DOMAIN b THEN b[k] ELSE tree[k]
    BY <1>3, ApplyMeans
  <2>2. tree' = new
    BY <1>4
  <2> HIDE DEF new, b
  <2> QED
    BY <2>1, <2>2
<1>6. Stored'
  BY <1>3, <1>4 DEF Serially, Commit, CommitTree, Stored
<1>7. NoCommitLost'
  BY <1>4 DEF Serially, NoCommitLost
<1>8. Unindexed(w)' = DOMAIN b /\ batch' = batch /\ index' = index /\ torn' = torn
  <2>1. todo'[w] = {{k} : k \in DOMAIN b}
    BY DEF Commit, Serially, Typed, TypeOK
  <2> QED
    BY <2>1 DEF Unindexed, Commit, request
<1>9. ASSUME NEW k, k \in DOMAIN b PROVE Agrees(b, k)'
  <2>1. k \in DOMAIN tree' <=> b[k] # Gone
    BY <1>9, <1>5 DEF Written
  <2> QED
    BY <1>8, <1>9, <1>5, <2>1 DEF Agrees
<1>10. ASSUME NEW k \in Key, Differ(k)', k \notin DOMAIN b PROVE k \in DOMAIN torn
  <2>1. Differ(k)
    BY <1>8, <1>10, <1>5 DEF Differ, Written
  <2>2. \A v \in Writer : k \notin Unindexed(v)
    BY <1>2, IdleHasNothing DEF Serially, Commit
  <2> QED
    BY <2>1, <2>2 DEF Serially, IndexFollows
<1>11. IndexFollows'
  BY <1>8, <1>10 DEF IndexFollows
<1>12. ASSUME NEW v \in Writer PROVE Current(v)'
  <2>1. CASE v = w
    <3>1. pc'[w] = "index"
      BY DEF Commit, Goto, Serially, Typed, TypeOK
    <3> QED
      BY <1>4, <1>8, <1>9, <2>1, <3>1 DEF Current, Agrees
  <2>2. CASE v # w
    <3>1. pc'[v] = "idle" /\ Unindexed(v)' = {}
      BY <1>1, <1>2, <2>2 DEF Typed, TodoMeans, Unindexed
    <3> QED
      BY <3>1 DEF Current
  <2> QED
    BY <2>1, <2>2
<1> QED
  BY <1>1, <1>2, <1>6, <1>7, <1>11, <1>12 DEF Serially

LEMMA SyncSerially ==
  ASSUME Serially, NEW w \in Writer, NEW done \in todo[w], Sync(w, done)
  PROVE  Serially'
<1> DEFINE b == batch[w]
           part == [k \in done |-> b[k]]
<1>1. Typed'
  BY SyncType DEF Serially
<1>2. pc[w] = "index" /\ UNCHANGED <<store, pc, batch, base, truth>>
  BY DEF Sync, request
<1>3. OneAtWork' /\ Stored' /\ NoCommitLost'
  BY <1>2 DEF Serially, OneAtWork, Stored, NoCommitLost, store, Current
<1>4. done \subseteq Unindexed(w) /\ part \in Batch /\ index \in Tree /\ index' = Apply(index, part)
  BY IndexedMeans DEF Serially, Typed, TypeOK, Unindexed, Sync, Indexed
<1>5. ASSUME NEW k \in done PROVE ~Differ(k)'
  <2>1. Agrees(b, k)
    BY <1>4 DEF Serially, Current
  <2>2. DOMAIN part = done /\ part[k] = b[k]
    OBVIOUS
  <2>3. /\ DOMAIN index' = (DOMAIN index \ DOMAIN part) \cup Written(part)
        /\ k \in DOMAIN index' => index'[k] = part[k]
    BY <1>4, <2>2, ApplyMeans
  <2> QED
    BY <1>2, <2>1, <2>2, <2>3 DEF Agrees, Differ, Written, store
<1>6. ASSUME NEW k \in Key, k \notin done, Differ(k)' PROVE Differ(k)
  <2>1. DOMAIN part = done
    OBVIOUS
  <2> HIDE DEF part
  <2>2. /\ DOMAIN index' = (DOMAIN index \ DOMAIN part) \cup Written(part)
        /\ \A j \in DOMAIN index' : index'[j] = IF j \in DOMAIN part THEN part[j] ELSE index[j]
    BY <1>4, ApplyMeans
  <2> QED
    BY <1>2, <1>6, <2>1, <2>2 DEF Differ, Written, store
<1>7. DOMAIN torn' = DOMAIN torn \ done
  BY DEF Sync
<1>8. \A v \in Writer : Unindexed(v) \ done \subseteq Unindexed(v)'
  BY DEF Sync, Unindexed, Serially, Typed, TypeOK
<1>9. IndexFollows'
  BY <1>5, <1>6, <1>7, <1>8 DEF Serially, IndexFollows
<1>10. \A v \in Writer : Unindexed(v)' \subseteq Unindexed(v)
  BY DEF Sync, Unindexed, Serially, Typed, TypeOK
<1>11. \A v \in Writer : Current(v)'
  BY <1>2, <1>10 DEF Serially, Current, Agrees, store
<1> QED
  BY <1>1, <1>3, <1>9, <1>11 DEF Serially

LEMMA DieSerially ==
  ASSUME Serially, NEW w \in Writer, Die(w)
  PROVE  Serially'
<1>1. Typed'
  BY DieType DEF Serially
<1>2. OneAtWork' /\ \A v \in Writer : v # w => pc[v] = "idle" /\ pc'[v] = "idle"
  BY OneMoves DEF Serially, Die, End
<1>3. UNCHANGED <<store, index, truth>> /\ DOMAIN torn' = DOMAIN torn \cup Unindexed(w)
  BY DEF Die
<1>4. Stored' /\ NoCommitLost'
  BY <1>3 DEF Serially, Stored, NoCommitLost, store
<1>5. \A v \in Writer : v # w => Unindexed(v) = {}
  BY <1>2, IdleHasNothing DEF Serially
<1>6. IndexFollows'
  BY <1>3, <1>5 DEF Serially, IndexFollows, Differ, store
<1>7. \A v \in Writer : pc'[v] = "idle"
  BY <1>2 DEF Die, End, Serially, Typed, TypeOK
<1>8. \A v \in Writer : Unindexed(v)' = {}
  BY <1>1, <1>7 DEF Typed, TodoMeans, Unindexed
<1>9. \A v \in Writer : Current(v)'
  BY <1>7, <1>8 DEF Current
<1> QED
  BY <1>1, <1>2, <1>4, <1>6, <1>9 DEF Serially

LEMMA ImportSerially ==
  ASSUME Serially, Alone, NEW t \in Tree, NEW replace \in BOOLEAN, Import(t, replace)
  PROVE  Serially'
<1>1. Typed'
  BY ImportType DEF Serially
<1>2. UNCHANGED <<pc, base, batch, todo>>
  BY DEF Import, request
<1>3. OneAtWork' /\ NoCommitLost'
  BY <1>2 DEF Serially, OneAtWork, Import, NoCommitLost
<1>4. Stored'
  BY DEF Serially, Stored, Import
<1>5. index' = t /\ tree' = t
  <2>1. CASE replace
    BY <2>1 DEF Import
  <2>2. CASE ~replace
    <3>1. index = Nothing /\ index' = Apply(index, t)
      BY <2>2 DEF Import, Serially, Stored
    <3>2. t \in [DOMAIN t -> Content] /\ \A k \in DOMAIN t : t[k] # Gone
      BY RepoAssumption, PartialType DEF RepoAssumption, Tree
    <3>3. Apply(index, t) = [k \in DOMAIN t |-> t[k]]
      BY <3>1, <3>2, NothingType DEF Apply, Written
    <3> QED
      BY <3>1, <3>2, <3>3 DEF Import
  <2> QED
    BY <2>1, <2>2
<1>6. IndexFollows'
  BY <1>5 DEF IndexFollows, Differ
<1>7. \A v \in Writer : Current(v)'
  BY <1>1, <1>2 DEF Alone, Typed, TodoMeans, Current, Unindexed
<1> QED
  BY <1>1, <1>3, <1>4, <1>6, <1>7 DEF Serially

LEMMA NextSerially == Serially /\ [SerialNext]_vars => Serially'
<1> SUFFICES ASSUME Serially, [SerialNext]_vars PROVE Serially'
  OBVIOUS
<1>1. ASSUME NEW w \in Writer, NEW b \in Batch, Alone, Begin(w, b) PROVE Serially'
  BY <1>1, LoadSerially DEF Begin, Serially, Typed, TypeOK
<1>2. ASSUME NEW w \in Writer, Alone, Retry(w) PROVE Serially'
  BY <1>2, LoadSerially DEF Retry, Serially, Typed, TypeOK
<1>3. ASSUME NEW w \in Writer, Classify(w) \/ Format(w) \/ Refuse(w) \/ Answer(w)
      PROVE  Serially'
  <2>1. Typed'
    <3>1. [Next]_vars
      BY <1>3 DEF Next, Write, Step
    <3> QED
      BY <3>1, NextTyped DEF Serially
  <2>2. pc[w] # "idle" /\ Unindexed(w) = {}
    BY <1>3, IdleHasNothing DEF Classify, Format, Refuse, Answer, Unindexed, Serially
  <2>3. CASE Classify(w) \/ Format(w)
    BY <2>1, <2>2, <2>3, QuietSerially
    DEF Classify, Format, Goto, Unindexed, request
  <2>4. CASE Refuse(w) \/ Answer(w)
    <3>1. pc' = [pc EXCEPT ![w] = "idle"] /\ UNCHANGED <<store, index, torn, truth>>
      BY <2>4 DEF Refuse, Answer, End
    <3>2. Unindexed(w)' = {} /\ \A v \in Writer : v # w => UNCHANGED <<base[v], batch[v], todo[v]>>
      BY <2>4 DEF Refuse, Answer, End, Unindexed, Serially, Typed, TypeOK
    <3> QED
      BY <2>1, <2>2, <3>1, <3>2, QuietSerially
  <2> QED
    BY <1>3, <2>3, <2>4
<1>4. CASE UNCHANGED vars
  <2>1. Typed' /\ OneAtWork' /\ Stored' /\ NoCommitLost'
    BY <1>4, NextTyped DEF Serially, OneAtWork, Stored, NoCommitLost, vars, store
  <2>2. IndexFollows' /\ \A v \in Writer : Current(v)'
    BY <1>4 DEF Serially, IndexFollows, Differ, Current, Agrees, Unindexed, vars, store, request
  <2> QED
    BY <2>1, <2>2 DEF Serially
<1> QED
  BY <1>1, <1>2, <1>3, <1>4, CreateRepoSerially, SyncSerially, CommitSerially, DieSerially,
     ImportSerially DEF SerialNext, Step

LEMMA InitSerially == Init => Serially
<1> SUFFICES ASSUME Init PROVE Serially
  OBVIOUS
<1>1. Typed
  BY InitTyped
<1>2. \A v \in Writer : pc[v] = "idle" /\ Unindexed(v) = {}
  BY DEF Init, Unindexed
<1>3. OneAtWork /\ Stored /\ NoCommitLost /\ IndexFollows
  BY <1>2 DEF Init, OneAtWork, Stored, NoCommitLost, IndexFollows, Differ
<1> QED
  BY <1>1, <1>2, <1>3 DEF Serially, Current

\* The inductive invariant: what createRepo, putRecord, deleteRecord, applyWrites
\* and storeRepoImport keep as long as they take turns.
THEOREM SeriallyAlways == SerialSpec => []Serially
BY InitSerially, NextSerially, PTL DEF SerialSpec

\* With one request at a time the repository can be walked from its root:
\* what applyCommit inserts and removes leaves every block of the tree there.
THEOREM RepoStaysReadable == SerialSpec => []RepoReadable
<1>1. Serially => RepoReadable
  BY DEF Serially, Stored, RepoReadable
<1> QED
  BY <1>1, SeriallyAlways, PTL

\* ...and nothing else, so repo_blocks does not grow with what was overwritten.
THEOREM NothingIsLeaked == SerialSpec => []NothingLeaks
<1>1. Serially => NothingLeaks
  BY DEF Serially, Stored, NothingLeaks
<1> QED
  BY <1>1, SeriallyAlways, PTL

\* Every batch applyWrites committed stays until another overwrites it.
THEOREM CommitsAreKept == SerialSpec => []NoCommitLost
<1>1. Serially => NoCommitLost
  BY DEF Serially
<1> QED
  BY <1>1, SeriallyAlways, PTL

\* records_index differs from the repository only by what a request has yet to
\* index or died before it could.
THEOREM IndexIsACache == SerialSpec => []IndexFollows
<1>1. Serially => IndexFollows
  BY DEF Serially
<1> QED
  BY <1>1, SeriallyAlways, PTL
=============================================================================

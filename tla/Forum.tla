------------------------------- MODULE Forum --------------------------------
(***************************************************************************)
(* What members write into a community: threads, posts and answers to      *)
(* events, kept in their authors' own repositories and listed from an      *)
(* index; events and linked applications, kept in the community's; and any *)
(* other record through the repositories' generic endpoints.               *)
(*                                                                         *)
(* Each is asked for on one reading of the caller's standing, written with *)
(* a commit of its own, and indexed after that.  The reading and the       *)
(* commit are one step here: a permission withdrawn between the two is one *)
(* withdrawn after the commit.                                             *)
(***************************************************************************)
EXTENDS Access

CONSTANT PostRoom   \* bound: posts of the thread

VARIABLES
  written,    \* in repositories: posts and those deleted, events, answers, linked applications, others
  thread,     \* its row in forum_threads: hidden, and how many posts it counts
  posts,      \* forum_posts: post -> hidden
  rsvp,       \* the row of event_rsvps of this attendee: the answer it shows
  writes,     \* of a new pseudonym today, in the memory of the process
  forumPast   \* history: what was shown though hidden, and what crossed or was cut short

forumTables == <<written, thread, posts, rsvp, writes>>
forumAll == <<accessTables, exposed, forumTables, forumPast>>

NoThread == [there |-> FALSE, hidden |-> FALSE, count |-> 0]
ProbationLimit == 2

ForumInit ==
  /\ AccessInit /\ RequestsInit
  /\ written = [posts |-> 0, deleted |-> {}, events |-> 0, answers |-> <<>>, linked |-> 0, others |-> {}]
  /\ thread = NoThread /\ posts = <<>> /\ rsvp = "none" /\ writes = 0
  /\ forumPast = [unveiled |-> FALSE, overtook |-> FALSE, doubled |-> FALSE, behind |-> FALSE]

\* enforcePseudonymProbation, of a pseudonym in its first days.
Probation == writes < ProbationLimit

\* Who is switched off is turned away before any of this is asked.
MayRead == Dispatched("forum") /\ RequireCommunityReadable
MayPost(permission) == Dispatched("forum") /\ RequireCommunityPermission(permission)

-----------------------------------------------------------------------------
(* Threads and posts. *)

\* Bound: one thread.
CreateThread(s) ==
  /\ MayPost("forum") /\ Probation
  /\ ~thread.there /\ \A t \in Slot : ~Pending(t, "indexThread")
  /\ Begin(s, <<"indexThread">>, [what |-> "thread"])
  /\ writes' = writes + 1
  /\ UNCHANGED <<accessTables, exposed, written, thread, posts, rsvp, forumPast>>

IndexThread(s) ==
  /\ At(s, "indexThread") /\ Pass(s)
  /\ thread' = [NoThread EXCEPT !.there = TRUE]
  /\ UNCHANGED <<accessTables, exposed, written, posts, rsvp, writes, forumPast>>

\* The thread is looked up first, hidden or not, and the caller after that.
CreatePost(s) ==
  /\ thread.there /\ MayPost("forum") /\ Probation
  /\ written.posts < PostRoom
  /\ Begin(s, <<"indexPost">>, [what |-> "post", post |-> written.posts + 1])
  /\ written' = [written EXCEPT !.posts = @ + 1]
  /\ writes' = writes + 1
  /\ UNCHANGED <<accessTables, exposed, thread, posts, rsvp, forumPast>>

\* A slip the runs must notice: every indexing is counted.
IndexPostAgain(s) ==
  /\ At(s, "indexPost") /\ Pass(s)
  /\ posts' = [p \in DOMAIN posts \cup {mem[s].post} |-> p \in DOMAIN posts /\ posts[p]]
  /\ thread' = [thread EXCEPT !.count = written.posts]
  /\ UNCHANGED <<accessTables, exposed, written, rsvp, writes, forumPast>>

\* One transaction: the row, and the count when the row is new.
IndexPost(s) ==
  /\ At(s, "indexPost") /\ Pass(s)
  /\ posts' = [p \in DOMAIN posts \cup {mem[s].post} |-> p \in DOMAIN posts /\ posts[p]]
  /\ thread' = IF mem[s].post \in DOMAIN posts THEN thread ELSE [thread EXCEPT !.count = @ + 1]
  /\ UNCHANGED <<accessTables, exposed, written, rsvp, writes, forumPast>>

\* By its author, whatever became of the membership.  What is not in the
\* repository cannot be deleted from it, and stays in the index.
DeletePost(s, p) ==
  /\ RequireAuth /\ Dispatched("forum")
  /\ p \in (1..written.posts) \ written.deleted
  /\ Begin(s, <<"deindexPost">>, [what |-> "delete", post |-> p])
  /\ written' = [written EXCEPT !.deleted = @ \cup {p}]
  /\ UNCHANGED <<accessTables, exposed, thread, posts, rsvp, writes, forumPast>>

\* One transaction as well; a deletion may overtake the indexing.
DeindexPost(s) ==
  /\ At(s, "deindexPost") /\ Pass(s)
  /\ posts' = [p \in DOMAIN posts \ {mem[s].post} |-> posts[p]]
  /\ thread' = IF mem[s].post \in DOMAIN posts THEN [thread EXCEPT !.count = @ - 1] ELSE thread
  /\ forumPast' = [forumPast EXCEPT
       !.overtook = @ \/ \E t \in Slot : Pending(t, "indexPost") /\ mem[t].post = mem[s].post]
  /\ UNCHANGED <<accessTables, exposed, written, rsvp, writes>>

HidePost(s, p, hidden) ==
  /\ p \in DOMAIN posts /\ MayPost("moderate") /\ AtOnce(s)
  /\ posts' = [posts EXCEPT ![p] = hidden]
  /\ UNCHANGED <<accessTables, exposed, written, thread, rsvp, writes, forumPast>>

HideThread(s, hidden) ==
  /\ thread.there /\ MayPost("moderate") /\ AtOnce(s)
  /\ thread' = [thread EXCEPT !.hidden = hidden]
  /\ UNCHANGED <<accessTables, exposed, written, posts, rsvp, writes, forumPast>>

(* forum.getThread: the thread, then who asks, then the posts. *)
GetThread(s) ==
  /\ thread.there /\ Dispatched("forum")
  /\ Begin(s, <<"maySee", "getPosts">>,
           [what |-> "getThread", hidden |-> thread.hidden, entitled |-> Entitled, moderates |-> FALSE])
  /\ UNCHANGED forumAll

MaySee(s) ==
  /\ At(s, "maySee")
  /\ IF /\ RequireCommunityReadable
        /\ mem[s].hidden => CallerCanModerateForum
     THEN Note(s, [mem[s] EXCEPT !.moderates = CallerCanModerateForum, !.entitled = @ \/ Entitled])
     ELSE Answer(s)
  /\ UNCHANGED forumAll

\* What a moderator hid is shown to no other, unless hiding it crossed the request.
GetThreadPosts(s) ==
  /\ At(s, "getPosts") /\ Pass(s)
  /\ exposed' = (exposed \/ ~(mem[s].entitled \/ Entitled))
  /\ forumPast' = [forumPast EXCEPT
       !.unveiled = @ \/ (mem[s].hidden /\ ~mem[s].moderates)]
  /\ UNCHANGED <<accessTables, forumTables>>

ListThreads(s) ==
  /\ MayRead
  /\ Begin(s, <<"listThreads">>,
           [what |-> "listThreads", moderates |-> CallerCanModerateForum, entitled |-> Entitled])
  /\ UNCHANGED forumAll

\* The statement leaves the hidden ones out itself.
ListThreadRows(s) ==
  /\ At(s, "listThreads") /\ Pass(s)
  /\ exposed' = (exposed \/ ~(mem[s].entitled \/ Entitled))
  /\ UNCHANGED <<accessTables, forumTables, forumPast>>

-----------------------------------------------------------------------------
(* The calendar. *)

CreateEvent(s) ==
  /\ MayPost("calendar") /\ Probation /\ written.events < 1 /\ AtOnce(s)
  /\ written' = [written EXCEPT !.events = 1]
  /\ writes' = writes + 1
  /\ UNCHANGED <<accessTables, exposed, thread, posts, rsvp, forumPast>>

\* Every answer is a record of its own; the row is one, of the last indexed.
Rsvp(s, answer) ==
  /\ MayPost("calendar") /\ Len(written.answers) < 2
  /\ Begin(s, <<"indexRsvp">>, [what |-> "rsvp", answer |-> answer, at |-> Len(written.answers) + 1])
  /\ written' = [written EXCEPT !.answers = Append(@, answer)]
  /\ UNCHANGED <<accessTables, exposed, thread, posts, rsvp, writes, forumPast>>

IndexRsvp(s) ==
  /\ At(s, "indexRsvp") /\ Pass(s)
  /\ rsvp' = mem[s].answer
  /\ forumPast' = [forumPast EXCEPT !.overtook = @ \/ mem[s].at < Len(written.answers)]
  /\ UNCHANGED <<accessTables, exposed, written, thread, posts, writes>>

(* What the calendar shows of the community is asked for as the forum is. *)
ListEvents(s) == MayRead /\ Begin(s, <<"listThreads">>, [what |-> "events", entitled |-> Entitled]) /\ UNCHANGED forumAll
ListRsvps(s)  == MayRead /\ Begin(s, <<"listThreads">>, [what |-> "rsvps", entitled |-> Entitled]) /\ UNCHANGED forumAll

-----------------------------------------------------------------------------
(* Linked applications.  The address is kept with a slash at its end, and a *)
(* second link is looked for under the address as it was given.             *)

LinkApplication(s, slash) ==
  /\ RequireApprovedUser /\ RequireActiveCommunity /\ MayPost("application")
  /\ slash => written.linked = 0
  /\ written.linked < 2
  /\ Begin(s, <<"putApplication">>, [what |-> "link", slash |-> slash, seen |-> written.linked])
  /\ UNCHANGED forumAll

PutApplication(s) ==
  /\ At(s, "putApplication") /\ Pass(s)
  /\ written' = [written EXCEPT !.linked = @ + 1]
  /\ forumPast' = [forumPast EXCEPT !.doubled = @ \/ (written.linked > 0 /\ (~mem[s].slash \/ mem[s].seen < written.linked))]
  /\ UNCHANGED <<accessTables, exposed, thread, posts, rsvp, writes>>

UnlinkApplication(s) ==
  /\ RequireApprovedUser /\ RequireActiveCommunity /\ MayPost("application")
  /\ written.linked > 0 /\ AtOnce(s)
  /\ written' = [written EXCEPT !.linked = @ - 1]
  /\ UNCHANGED <<accessTables, exposed, thread, posts, rsvp, writes, forumPast>>

-----------------------------------------------------------------------------
(* The repositories' own endpoints. *)

\* authorizeCollectionMutation: collections with rules of their own are refused
\* even to those whom the rules permit; the forum's and calendar's before that.
AuthorizeCollectionMutation(repo, collection, permission) ==
  IF repo = "community" /\ CommunityExists
  THEN permission \in Capabilities /\ collection = "other"
  ELSE repo = "own" /\ collection \notin {"vote", "forum"}

\* No status of the community keeps these from writing.
WriteOther(s, repo, collection) ==
  /\ RequireAuth /\ Dispatched("createRecord") /\ AuthorizeCollectionMutation(repo, collection, "keep")
  /\ Probation /\ AtOnce(s)
  /\ writes' = writes + 1
  /\ written' = [written EXCEPT !.others = @ \cup {<<repo, collection>>}]
  /\ UNCHANGED <<accessTables, exposed, thread, posts, rsvp, forumPast>>

\* Deleting is not counted.
DeleteOther(s, repo, collection) ==
  /\ RequireAuth /\ Dispatched("deleteRecord") /\ AuthorizeCollectionMutation(repo, collection, "remove")
  /\ <<repo, collection>> \in written.others /\ AtOnce(s)
  /\ written' = [written EXCEPT !.others = @ \ {<<repo, collection>>}]
  /\ UNCHANGED <<accessTables, exposed, thread, posts, rsvp, writes, forumPast>>

ForumFails(s) ==
  /\ todo[s] # <<>> /\ Answer(s)
  /\ forumPast' = [forumPast EXCEPT !.behind = @ \/ \E i \in {"indexThread", "indexPost", "deindexPost", "indexRsvp"} : Pending(s, i)]
  /\ UNCHANGED <<accessTables, exposed, forumTables>>

\* The counts of the day are the process's: a restart begins the day anew.
ForumDies ==
  /\ writes > 0 /\ Quiet
  /\ writes' = 0
  /\ UNCHANGED <<requests, accessTables, exposed, written, thread, posts, rsvp, forumPast>>

ForumNext ==
  \/ \E s \in Slot :
       \/ (SettingsChange(s) \/ StandingChange(s)) /\ UNCHANGED <<forumTables, forumPast>>
       \/ CreateThread(s) \/ IndexThread(s) \/ CreatePost(s) \/ IndexPost(s) \/ DeindexPost(s)
       \/ \E p \in 1..PostRoom : DeletePost(s, p)
       \/ \E hidden \in BOOLEAN : HideThread(s, hidden) \/ \E p \in DOMAIN posts : HidePost(s, p, hidden)
       \/ GetThread(s) \/ MaySee(s) \/ GetThreadPosts(s) \/ ListThreads(s) \/ ListThreadRows(s)
       \/ CreateEvent(s) \/ ListEvents(s) \/ ListRsvps(s) \/ IndexRsvp(s)
       \/ \E answer \in {"going", "notgoing"} : Rsvp(s, answer)
       \/ \E slash \in BOOLEAN : LinkApplication(s, slash)
       \/ PutApplication(s) \/ UnlinkApplication(s) \/ ForumFails(s)
       \/ \E repo \in {"community", "own", "another"}, collection \in {"other", "dedicated", "forum", "vote"} :
            WriteOther(s, repo, collection) \/ DeleteOther(s, repo, collection)
  \/ ForumDies

-----------------------------------------------------------------------------
ForumTypeOK ==
  /\ AccessTypeOK
  /\ thread.count \in 0..PostRoom /\ DOMAIN posts \subseteq 1..PostRoom
  /\ rsvp \in {"none", "going", "notgoing"} /\ writes \in 0..ProbationLimit

Indexing(what) == \E s \in Slot : Pending(s, what)

\* A thread counts the posts the index holds; those in their authors'
\* repositories and no others show once the requests have ended, and the last
\* answer to an event over those before it, unless a request died between
\* the record and its row or one of them overtook another.  What a moderator hid is
\* shown to no other.  No instance is linked twice under an address as kept,
\* but by two requests that crossed.  Collections with rules of their own are
\* never written by the generic endpoints, nor anybody else's repository.
ForumHolds ==
  /\ thread.count = Cardinality(DOMAIN posts) /\ DOMAIN posts \subseteq 1..written.posts
  /\ \/ forumPast.behind \/ forumPast.overtook \/ Indexing("indexPost") \/ Indexing("deindexPost")
     \/ DOMAIN posts = (1..written.posts) \ written.deleted
  /\ \/ forumPast.behind \/ forumPast.overtook \/ Indexing("indexRsvp") \/ written.answers = <<>>
     \/ rsvp = written.answers[Len(written.answers)]
  /\ ~forumPast.unveiled
  /\ written.linked <= 1 \/ forumPast.doubled
  /\ written.others \subseteq {<<"community", "other">>, <<"own", "other">>, <<"own", "dedicated">>}

forumVars == <<requests, forumAll>>
ForumSpec == ForumInit /\ [][ForumNext]_forumVars
=============================================================================

------------------------------- MODULE Peers -------------------------------
(***************************************************************************)
(* What the other servers of the federation last said of themselves and of *)
(* their communities.  Each of the two lists is fetched from all the peers *)
(* at once, kept for five minutes, and not fetched again while a fetch is  *)
(* under way: whoever asks then waits for it.                              *)
(*                                                                         *)
(* What a peer says is the number of its edition.  A fetch lives on in the *)
(* slot of the request that began it.                                      *)
(***************************************************************************)
EXTENDS Requests

CONSTANT Peer   \* the servers config.federation.peerUrls names

VARIABLES
  says,        \* peer -> the edition it answers with
  peerCache,   \* kind of list -> what it holds, whether fresh, whether in flight
  editions       \* history: kind of list -> peer -> the latest edition ever in it

peerTables == <<says, peerCache>>

Kinds == {"info", "communities"}
NoAnswers == [p \in Peer |-> 0]
NoList == [holds |-> NoAnswers, fresh |-> FALSE, inFlight |-> FALSE]

PeersInit ==
  /\ RequestsInit
  /\ says = [p \in Peer |-> 1]
  /\ peerCache = [k \in Kinds |-> NoList]
  /\ editions = [k \in Kinds |-> NoAnswers]

-----------------------------------------------------------------------------
Await(k) == IF k = "info" THEN "await info" ELSE "await communities"
AskFor(k)   == IF k = "info" THEN "ask info" ELSE "ask communities"
Store(k) == IF k = "info" THEN "store info" ELSE "store communities"

\* Communities are listed with what is known of their servers, so that comes
\* first, if need be by a fetch of its own.
FetchOf(k) ==
  LET info == peerCache["info"] IN
  (CASE k = "info" \/ info.fresh -> <<>>
     [] info.inFlight -> <<Await("info")>>
     [] OTHER -> <<AskFor("info"), Store("info")>>) \o <<AskFor(k), Store(k)>>

\* listPeers and listPeerCommunities: the list there is, the fetch under way,
\* or a fetch.
ListPeers(s, k) ==
  /\ \/ peerCache[k].fresh /\ AtOnce(s) /\ UNCHANGED peerCache
     \/ /\ ~peerCache[k].fresh
        /\ LET steps == IF peerCache[k].inFlight THEN <<Await(k)>> ELSE FetchOf(k) IN
           /\ Begin(s, steps, [what |-> "peers", left |-> Peer, got |-> NoAnswers])
           /\ peerCache' = [n \in Kinds |-> [peerCache[n] EXCEPT
                              !.inFlight = @ \/ \E i \in DOMAIN steps : steps[i] = Store(n)]]
  /\ UNCHANGED <<says, editions>>

AwaitList(s, k) ==
  /\ At(s, Await(k)) /\ ~peerCache[k].inFlight
  /\ Pass(s)
  /\ UNCHANGED <<peerTables, editions>>

\* All at once; the answers come in any order, or not within five seconds.
AskPeer(s, k, p, answers) ==
  /\ At(s, AskFor(k)) /\ p \in mem[s].left
  /\ LET m == [mem[s] EXCEPT !.left = @ \ {p}, !.got[p] = IF answers THEN says[p] ELSE 0] IN
     IF m.left = {} THEN Note(s, m) ELSE Turn(s, todo[s], m)
  /\ UNCHANGED <<peerTables, editions>>

\* A peer that did not answer has nothing in the list, the others have theirs.
StorePeers(s, k) ==
  /\ At(s, Store(k))
  /\ Note(s, [mem[s] EXCEPT !.left = Peer, !.got = NoAnswers])
  /\ peerCache' = [peerCache EXCEPT ![k] = [holds |-> mem[s].got, fresh |-> TRUE, inFlight |-> FALSE]]
  /\ editions' = [editions EXCEPT ![k] =
       [p \in Peer |-> IF mem[s].got[p] > @[p] THEN mem[s].got[p] ELSE @[p]]]
  /\ UNCHANGED says

\* Bound: two editions.
PeerChanges(p) ==
  /\ says[p] = 1 /\ says' = [says EXCEPT ![p] = 2]
  /\ UNCHANGED <<requests, peerCache, editions>>

CacheTtlPasses(k) ==
  /\ peerCache[k].fresh
  /\ peerCache' = [peerCache EXCEPT ![k].fresh = FALSE]
  /\ UNCHANGED <<requests, says, editions>>

PeersRestart ==
  /\ \E k \in Kinds : peerCache[k] # NoList
  /\ todo' = [s \in Slot |-> <<>>] /\ mem' = [s \in Slot |-> Nothing] /\ spent' = spent
  /\ peerCache' = [k \in Kinds |-> NoList]
  /\ UNCHANGED <<says, editions>>

PeersNext ==
  \/ \E s \in Slot, k \in Kinds :
       \/ ListPeers(s, k) \/ AwaitList(s, k) \/ StorePeers(s, k)
       \/ \E p \in Peer, answers \in BOOLEAN : AskPeer(s, k, p, answers)
  \/ \E p \in Peer : PeerChanges(p)
  \/ \E k \in Kinds : CacheTtlPasses(k)
  \/ PeersRestart

-----------------------------------------------------------------------------
PeersTypeOK ==
  /\ says \in [Peer -> 1..2]
  /\ peerCache \in [Kinds -> [holds : [Peer -> 0..2], fresh : BOOLEAN, inFlight : BOOLEAN]]

\* A list never goes back to what a peer said before, however fetches, answers
\* and ends of validity fall together; one fetch of a list at most is under way,
\* and whoever waits for a list waits for a request that will store it.
PeerListsHold ==
  \A k \in Kinds :
    /\ \A p \in Peer : peerCache[k].holds[p] \in {0, editions[k][p]}
    /\ Cardinality({s \in Slot : Pending(s, Store(k))}) = IF peerCache[k].inFlight THEN 1 ELSE 0

peersVars == <<requests, peerTables, editions>>
PeersSpec == PeersInit /\ [][PeersNext]_peersVars
=============================================================================

------------------------------- MODULE Blobs -------------------------------
(***************************************************************************)
(* One blob, named by its content, and the accounts that come to own it:   *)
(* the two files the local store keeps of it, the row of blobs with the    *)
(* account that brought it first, and the rows of blob_owners, statement   *)
(* by statement.  Deleting an account is one transaction of the database,  *)
(* from within which the files go, at once and for good.                   *)
(*                                                                         *)
(* What the database does is modelled as it does it: a row that is being   *)
(* deleted holds up whoever would insert it again or refer to it, and an   *)
(* owner's row needs the blob's.  A home that is moved from serves the     *)
(* blob that was asked for, or fails.                                      *)
(***************************************************************************)
EXTENDS Requests

CONSTANT Uploader   \* accounts

VARIABLES
  hosted,     \* accounts that are here
  bytes,      \* the file with the blob is there
  mime,       \* and the one with its type
  catalog,    \* blobs.did: who brought it first, or nobody
  holders,    \* blob_owners
  broken,     \* history: files went although somebody may own the blob
  outlived,   \* history: accounts deleted while others owned the blob
  strewn      \* history: files may be left: an upload died, or met a removal, or one failed

blobTables == <<hosted, bytes, mime, catalog, holders>>
blobPast == <<broken, outlived, strewn>>

NoUploader == "nobody"

ASSUME UploaderAssumption == NoUploader \notin Uploader

BlobsInit ==
  /\ RequestsInit
  /\ hosted = Uploader
  /\ bytes = FALSE /\ mime = FALSE /\ catalog = NoUploader /\ holders = {}
  /\ broken = FALSE /\ outlived = {} /\ strewn = FALSE

Bringing(s) == Steps(s) \cap {"bytes", "mime", "row", "own"} # {}
Erasing(s) == Pending(s, "commit")
Unlinked(s) == Erasing(s) /\ mem[s].orphaned /\ ~Pending(s, "unlink")

-----------------------------------------------------------------------------
(* uploadBlob, and pullCommunityBlobs for what is not held yet. *)

Upload(s, p) ==
  /\ p \in hosted
  /\ Begin(s, <<"bytes", "mime", "row", "own">>, [what |-> "upload", of |-> p])
  /\ UNCHANGED <<blobTables, blobPast>>

PullBlob(s, p) ==
  /\ p \in hosted \ holders
  /\ Begin(s, <<"bytes", "mime", "row", "own">>, [what |-> "pull", of |-> p])
  /\ UNCHANGED <<blobTables, blobPast>>

PutBytes(s) ==
  /\ At(s, "bytes") /\ Pass(s)
  /\ bytes' = TRUE
  /\ UNCHANGED <<hosted, mime, catalog, holders, blobPast>>

\* Whoever uploads the blob again repairs it, unless it is being removed.
PutMime(s) ==
  /\ At(s, "mime") /\ Pass(s)
  /\ mime' = TRUE
  /\ broken' = (broken /\ ~(bytes /\ \A t \in Slot : ~Erasing(t)))
  /\ UNCHANGED <<hosted, bytes, catalog, holders, outlived, strewn>>

InsertBlob(s) ==
  /\ At(s, "row") /\ Pass(s)
  /\ \A t \in Slot : ~(Erasing(t) /\ mem[t].orphaned)
  /\ catalog' = IF catalog = NoUploader THEN mem[s].of ELSE catalog
  /\ UNCHANGED <<hosted, bytes, mime, holders, blobPast>>

InsertOwner(s) ==
  /\ At(s, "own")
  /\ \A t \in Slot : ~(Erasing(t) /\ (mem[t].orphaned \/ mem[t].of = mem[s].of))
  /\ Answer(s)
  /\ holders' = IF catalog = NoUploader THEN holders ELSE holders \cup {mem[s].of}
  /\ UNCHANGED <<hosted, bytes, mime, catalog, blobPast>>

-----------------------------------------------------------------------------
(* deleteAccountData, in a transaction; the sweep of unfinished moves uses *)
(* it, too.                                                                *)

Erase(s, p) ==
  /\ p \in hosted /\ \A t \in Slot : ~(Erasing(t) /\ mem[t].of = p)
  /\ LET orphaned == catalog = p /\ holders \subseteq {p} IN
       Begin(s, IF orphaned THEN <<"unlink", "unmime", "commit">> ELSE <<"commit">>,
             [what |-> "erase", of |-> p, orphaned |-> orphaned])
  /\ UNCHANGED <<blobTables, blobPast>>

\* What a removal does to whoever brings the blob meanwhile.
Removing(failed) ==
  LET met == \E t \in Slot : Bringing(t) IN
  broken' = (broken \/ met) /\ strewn' = (strewn \/ failed \/ met)

\* The second file is not tried when the first is not there; a failure is
\* ignored.  Somebody who put the files down meanwhile has yet to be recorded.
UnlinkBytes(s, ok) ==
  /\ At(s, "unlink")
  /\ Turn(s, IF ok /\ bytes THEN <<"unmime", "commit">> ELSE <<"commit">>, mem[s])
  /\ bytes' = (bytes /\ ~ok)
  /\ Removing(~ok)
  /\ UNCHANGED <<hosted, mime, catalog, holders, outlived>>

UnlinkMime(s, ok) ==
  /\ At(s, "unmime") /\ Pass(s)
  /\ mime' = (mime /\ ~ok)
  /\ Removing(~ok)
  /\ UNCHANGED <<hosted, bytes, catalog, holders, outlived>>

\* Removing the blob's row removes what refers to it.
Commit(s) ==
  /\ At(s, "commit") /\ Answer(s)
  /\ hosted' = hosted \ {mem[s].of}
  /\ catalog' = IF mem[s].orphaned THEN NoUploader ELSE catalog
  /\ holders' = IF mem[s].orphaned THEN {} ELSE holders \ {mem[s].of}
  /\ outlived' = IF mem[s].orphaned THEN outlived ELSE outlived \cup {mem[s].of}
  /\ UNCHANGED <<bytes, mime, broken, strewn>>

\* The account moves in, or back.
Arrive(s, p) ==
  /\ p \notin hosted /\ AtOnce(s)
  /\ hosted' = hosted \cup {p}
  /\ UNCHANGED <<bytes, mime, catalog, holders, blobPast>>

\* The process dies or a statement throws.  The transaction is undone, the
\* files that are gone are not.
InterruptBlob(s) ==
  /\ todo[s] # <<>> /\ Answer(s)
  /\ broken' = (broken \/ Unlinked(s))
  /\ strewn' = (strewn \/ Unlinked(s) \/ (Bringing(s) /\ ~Pending(s, "bytes")))
  /\ UNCHANGED <<blobTables, outlived>>

BlobsStep(s) ==
  \/ \E p \in Uploader : Upload(s, p) \/ PullBlob(s, p) \/ Erase(s, p) \/ Arrive(s, p)
  \/ PutBytes(s) \/ PutMime(s) \/ InsertBlob(s) \/ InsertOwner(s)
  \/ \E ok \in BOOLEAN : UnlinkBytes(s, ok) \/ UnlinkMime(s, ok)
  \/ Commit(s) \/ InterruptBlob(s)

BlobsNext == \E s \in Slot : BlobsStep(s)

-----------------------------------------------------------------------------
BlobsTypeOK ==
  /\ hosted \subseteq Uploader /\ holders \subseteq Uploader /\ outlived \subseteq Uploader
  /\ catalog \in Uploader \cup {NoUploader}
  /\ {bytes, mime, broken, strewn} \subseteq BOOLEAN

\* getBlob serves it: whoever owns a blob finds it here, although the first
\* to bring it is deleted and others bring it again, unless they did so while
\* it was being removed, or the removal was undone after the files were gone;
\* and then until it is brought again.
OwnersAreServed ==
  \A p \in holders :
    /\ catalog # NoUploader
    /\ ~broken /\ (\A s \in Slot : ~(Erasing(s) /\ mem[s].of = p)) => bytes /\ mime

\* "A blob no repo owns any more goes too" if the last to own it was the first
\* to bring it.  It stays when that account went before the others: only the
\* blobs an account brought first are looked at when it goes.
NothingIsLeftBehind ==
  Quiet /\ holders = {} /\ ~strewn =>
    (~bytes /\ ~mime /\ catalog = NoUploader) \/ catalog \in outlived

BlobsHold == OwnersAreServed /\ NothingIsLeftBehind

blobsVars == <<requests, blobTables, blobPast>>
BlobsSpec == BlobsInit /\ [][BlobsNext]_blobsVars
=============================================================================

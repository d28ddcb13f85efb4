------------------------------- MODULE Email -------------------------------
(***************************************************************************)
(* Mail, and the one thing mail proves: that the address on an account is  *)
(* its owner's.  A link is stored as a hash, replaces the links before it  *)
(* and is burned by whoever tries it.  A send asks first whether the       *)
(* address has bounced and tries again what may recover; providers report  *)
(* bounces later, by webhook.                                              *)
(*                                                                         *)
(* Outside: the transport, which may take a mail and lose its answer;      *)
(* without one the mail is printed, which counts as sent.  Left out: the   *)
(* rows of email_deliveries, which nothing reads.  Nothing in the code     *)
(* changes an account's address.                                           *)
(***************************************************************************)
EXTENDS Requests

VARIABLES
  mailLinks,    \* email_verification_tokens, in the order they were issued
  confirmed,    \* users.email_verified_at is set
  suppressed,   \* email_suppressions has the address
  mailPast      \* history: see MailInit

mailTables == <<mailLinks, confirmed, suppressed>>

MailInit ==
  /\ RequestsInit
  /\ mailLinks = <<>> /\ confirmed = FALSE /\ suppressed = FALSE
  /\ mailPast = [posted   |-> {},       \* links whose mail was taken by the transport
                 tried    |-> {},       \* links somebody tried with whatever address
                 proof    |-> {},       \* links that confirmed the address
                 spared   |-> {},       \* links whose send overlooked a bounce
                 crossed  |-> FALSE]    \* one was issued while another was

\* A link is unused, past its date, used or deleted.
Unused == {l \in DOMAIN mailLinks : mailLinks[l] = "unused"}
RETRY_DELAYS == 2

-----------------------------------------------------------------------------
(* issueEmailVerification, for a new account or for one that asks again *)

IssueLink == <<"deleteUnused", "insertLink", "askSuppressed", "send">>

RequestEmailConfirmation(s) ==
  /\ ~confirmed
  /\ Begin(s, IssueLink, [what |-> "issue", link |-> 0, attempt |-> 0])
  /\ UNCHANGED <<mailTables, mailPast>>

DeleteUnused(s) ==
  /\ At(s, "deleteUnused") /\ Pass(s)
  /\ mailLinks' = [l \in DOMAIN mailLinks |->
                 IF l \in Unused THEN "deleted" ELSE mailLinks[l]]
  /\ mailPast' = [mailPast EXCEPT !.crossed = @ \/ \E t \in Slot : At(t, "insertLink")]
  /\ UNCHANGED <<confirmed, suppressed>>

InsertLink(s) ==
  /\ At(s, "insertLink")
  /\ Note(s, [mem[s] EXCEPT !.link = Len(mailLinks) + 1])
  /\ mailLinks' = Append(mailLinks, "unused")
  /\ UNCHANGED <<confirmed, suppressed, mailPast>>

-----------------------------------------------------------------------------
(* sendEmail *)

\* The list is a courtesy: when it cannot be read the mail goes out.
IsSuppressed(s) == suppressed /\ At(s, "askSuppressed")

RefuseSuppressed(s) ==
  /\ IsSuppressed(s) /\ Answer(s)
  /\ UNCHANGED <<mailTables, mailPast>>

GoOn(s, unread) ==
  /\ At(s, "askSuppressed") /\ (suppressed => unread)
  /\ Pass(s)
  /\ mailPast' = [mailPast EXCEPT !.spared = IF unread THEN @ \cup {mem[s].link} ELSE @]
  /\ UNCHANGED mailTables

SendMail(s) ==
  /\ At(s, "send") /\ Answer(s)
  /\ mailPast' = [mailPast EXCEPT !.posted = @ \cup {mem[s].link}]
  /\ UNCHANGED mailTables

\* No answer, or one that says to try later: the transport may have the mail.
\* What it refuses for good is not tried again (MailFailsOrDies).
MailFails(s, taken) ==
  /\ At(s, "send")
  /\ IF mem[s].attempt < RETRY_DELAYS
     THEN Turn(s, todo[s], [mem[s] EXCEPT !.attempt = @ + 1])
     ELSE Answer(s)
  /\ mailPast' = [mailPast EXCEPT !.posted = IF taken THEN @ \cup {mem[s].link} ELSE @]
  /\ UNCHANGED mailTables

-----------------------------------------------------------------------------
(* confirmEmailToken, from the page or the endpoint.  A session, when there is
   one, must be of the address given, whoever's the link is.                *)

ConfirmEmail(s, l, right) ==
  /\ l \in mailPast.posted \cap Unused
  /\ Begin(s, <<"burn">>, [what |-> "confirm", link |-> l, right |-> right])
  /\ UNCHANGED <<mailTables, mailPast>>

Burnt(l) ==
  [mailLinks EXCEPT ![l] = IF @ = "deleted" THEN @ ELSE "used"]

\* A slip the runs must notice: a wrong address leaves the link alive.
BurnIfRight(s) ==
  /\ At(s, "burn")
  /\ mailLinks' = IF mem[s].right THEN Burnt(mem[s].link) ELSE mailLinks
  /\ mailPast' = [mailPast EXCEPT !.tried = @ \cup {mem[s].link}]
  /\ IF mem[s].right THEN Turn(s, <<"markVerified">>, mem[s]) ELSE Answer(s)
  /\ UNCHANGED <<confirmed, suppressed>>

\* A try is a use: the link dies before the address is compared.
Burn(s) ==
  /\ At(s, "burn")
  /\ mailLinks' = Burnt(mem[s].link)
  /\ mailPast' = [mailPast EXCEPT !.tried = @ \cup {mem[s].link}]
  /\ IF mem[s].right THEN Turn(s, <<"markVerified">>, mem[s]) ELSE Answer(s)
  /\ UNCHANGED <<confirmed, suppressed>>

MarkVerified(s) ==
  /\ At(s, "markVerified") /\ Answer(s)
  /\ confirmed' = TRUE
  /\ mailPast' = [mailPast EXCEPT !.proof = @ \cup {mem[s].link}]
  /\ UNCHANGED <<mailLinks, suppressed>>

-----------------------------------------------------------------------------
LinkExpires(l) ==
  /\ l \in Unused
  /\ mailLinks' = [mailLinks EXCEPT ![l] = "expired"]
  /\ UNCHANGED <<requests, confirmed, suppressed, mailPast>>

\* The webhook.  A soft bounce is of a moment and changes nothing; what was
\* sent or is past the question by now is not called back.
Sending == {mem[t].link : t \in {u \in Slot : At(u, "send")}}

Bounce(s, hard) ==
  /\ mailLinks # <<>> /\ AtOnce(s)
  /\ suppressed' = (suppressed \/ hard)
  /\ mailPast' = [mailPast EXCEPT
       !.spared = IF suppressed \/ ~hard THEN @ ELSE @ \cup mailPast.posted \cup Sending]
  /\ UNCHANGED <<mailLinks, confirmed>>

MailFailsOrDies(s) == todo[s] # <<>> /\ Answer(s) /\ UNCHANGED <<mailTables, mailPast>>

MailNext ==
  \/ \E s \in Slot :
       \/ RequestEmailConfirmation(s) \/ DeleteUnused(s) \/ InsertLink(s)
       \/ RefuseSuppressed(s) \/ SendMail(s)
       \/ Burn(s) \/ MarkVerified(s) \/ MailFailsOrDies(s)
       \/ \E yes \in BOOLEAN : GoOn(s, yes) \/ MailFails(s, yes) \/ Bounce(s, yes)
       \/ \E l \in DOMAIN mailLinks, right \in BOOLEAN : ConfirmEmail(s, l, right)
  \/ \E l \in DOMAIN mailLinks : LinkExpires(l)

-----------------------------------------------------------------------------
MailTypeOK ==
  /\ \A l \in DOMAIN mailLinks : mailLinks[l] \in {"unused", "expired", "used", "deleted"}
  /\ mailPast.proof \subseteq mailPast.tried /\ mailPast.tried \subseteq mailPast.posted

\* One link is alive at a time, the newest, unless two were issued at once;
\* one somebody tried, with a wrong address too, is dead for good, and only a
\* tried one confirms.  Once the address has bounced nothing goes to it but
\* what was past the question or could not ask it.
MailHolds ==
  /\ mailPast.crossed \/ \A l \in Unused : l = Len(mailLinks)
  /\ mailPast.tried \cap Unused = {}
  /\ confirmed <=> mailPast.proof # {}
  /\ suppressed => mailPast.posted \subseteq mailPast.spared

mailVars == <<requests, mailTables, mailPast>>
MailSpec == MailInit /\ [][MailNext]_mailVars
=============================================================================

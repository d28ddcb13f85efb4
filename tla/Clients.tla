------------------------------ MODULE Clients ------------------------------
(***************************************************************************)
(* The programs that keep a session for their user: the SDK in a page, the *)
(* web interface and the command line.  Each stores a refresh token, trades *)
(* it for the next one when the access token is refused or about to lapse, *)
(* and gives it up on logout.  The server revokes every session of a user  *)
(* whose used token is presented again, so what a client must never do is  *)
(* present one.  The exchange itself is one step here: module Sessions     *)
(* shows that a token is exchanged once, however requests overlap.         *)
(*                                                                         *)
(* Two tabs (or two processes of the command line) share one storage.      *)
(* Timers are slower than a request that is answered.                      *)
(***************************************************************************)
EXTENDS Requests

CONSTANT Tab

VARIABLES
  client,   \* "sdk", "web" or "cli": which program, for the whole behaviour
  saved,    \* the refresh token in the storage; 0: none
  held,     \* tab -> the token the web interface keeps in memory
  renewing, \* tabs of the SDK with a refreshPromise
  opened,   \* the server's sessions: token, the one before it, revoked
  alarmed,  \* history: a used token was presented, all sessions were revoked
  blamed    \* history: an answer was lost, a page left, or two tabs met

clientVars == <<client, saved, held, renewing>>
clientPast == <<opened, alarmed, blamed>>

ClientsInit ==
  /\ RequestsInit
  /\ client \in {"sdk", "web", "cli"}
  /\ saved = 0 /\ held = [t \in Tab |-> 0] /\ renewing = {}
  /\ opened = <<>> /\ alarmed = FALSE /\ blamed = FALSE

Tokens == {opened[i].token : i \in DOMAIN opened}
NextToken == 1 + IF opened = <<>> THEN 0
                 ELSE CHOOSE n \in Tokens : \A m \in Tokens : m <= n
Busy(t) == {s \in Slot : todo[s] # <<>> /\ mem[s].tab = t}
Errand(t, token) == [what |-> "ask", tab |-> t, token |-> token, got |-> 0]
Stored(t) == IF client = "web" THEN held[t] ELSE saved

\* Another tab is exchanging, or has exchanged, the token this one is to present.
Met(t, token) == token # saved \/ \E s \in Slot : mem[s] # Nothing /\ mem[s].tab # t

-----------------------------------------------------------------------------
(* Signing in and out. *)

\* login, register and handleOAuthCallback store what the server answers.
SignIn(s, t) ==
  /\ client = "cli" => Busy(t) = {}
  /\ client = "web" => held[t] = 0 /\ Busy(t) = {}
  /\ Begin(s, <<"login", "keep">>, Errand(t, 0))
  /\ UNCHANGED <<clientVars, clientPast>>

OpenSession(s) ==
  /\ At(s, "login")
  /\ opened' = Append(opened, [token |-> NextToken, previous |-> 0, revoked |-> FALSE])
  /\ Note(s, [mem[s] EXCEPT !.got = NextToken])
  /\ UNCHANGED <<clientVars, alarmed, blamed>>

SignOut(s, t) ==
  /\ client # "sdk" => Stored(t) # 0
  /\ client = "cli" => Busy(t) = {}
  /\ Begin(s, IF Stored(t) = 0 THEN <<"forget">> ELSE <<"logout", "forget">>, Errand(t, Stored(t)))
  /\ UNCHANGED <<clientVars, clientPast>>

\* deleteSession reads the token from the body of the request; the SDK puts it
\* in a header, and is refused.
CloseSession(s) ==
  /\ At(s, "logout") /\ Pass(s)
  /\ opened' = IF client = "sdk" THEN opened
               ELSE [i \in DOMAIN opened |->
                       IF opened[i].token = mem[s].token THEN [opened[i] EXCEPT !.revoked = TRUE]
                       ELSE opened[i]]
  /\ UNCHANGED <<clientVars, alarmed, blamed>>

ForgetTokens(s) ==
  /\ At(s, "forget") /\ Pass(s)
  /\ saved' = 0 /\ held' = [held EXCEPT ![mem[s].tab] = 0]
  /\ UNCHANGED <<client, renewing, clientPast>>

-----------------------------------------------------------------------------
(* Calls, and the exchange they lead to when the access token is refused. *)

\* The command line reads its session file once, when a command starts.
Call(s, t) ==
  /\ client # "web" /\ saved # 0
  /\ client = "cli" => Busy(t) = {}
  /\ Begin(s, <<"call">>, Errand(t, saved))
  /\ UNCHANGED <<clientVars, clientPast>>

Present(s, t, token) ==
  /\ Turn(s, <<"exchange", "keep">>, Errand(t, token))
  /\ blamed' = (blamed \/ Met(t, token))

\* A slip the runs must notice: every refused call starts an exchange.
RenewEach(s) ==
  LET t == mem[s].tab IN
  IF saved = 0 THEN Answer(s) /\ UNCHANGED <<renewing, blamed>>
  ELSE Present(s, t, saved) /\ renewing' = renewing \cup {t}

\* doRefresh: one exchange at a time, which the other callers wait for.
Renew(s) ==
  LET t == mem[s].tab IN
  IF saved = 0 \/ t \in renewing THEN Answer(s) /\ UNCHANGED <<renewing, blamed>>
  ELSE Present(s, t, saved) /\ renewing' = renewing \cup {t}

CallAnswered(s) ==
  /\ At(s, "call")
  /\ \/ Answer(s) /\ UNCHANGED <<renewing, blamed>>
     \/ client = "sdk" /\ Renew(s)
     \/ client = "cli" /\ Present(s, mem[s].tab, mem[s].token) /\ UNCHANGED renewing
  /\ UNCHANGED <<client, saved, held, opened, alarmed>>

\* The timer of the web interface, and the load of one of its pages.
Tick(s, t) ==
  /\ client = "web" /\ held[t] # 0 /\ Busy(t) = {}
  /\ Begin(s, <<"exchange", "keep">>, Errand(t, held[t]))
  /\ blamed' = (blamed \/ Met(t, held[t]))
  /\ UNCHANGED <<clientVars, opened, alarmed>>

Hydrate(s, t) ==
  /\ client = "web" /\ held[t] = 0 /\ saved # 0 /\ Busy(t) = {}
  /\ Begin(s, <<"exchange", "keep">>, Errand(t, saved))
  /\ held' = [held EXCEPT ![t] = saved]
  /\ blamed' = (blamed \/ Met(t, saved))
  /\ UNCHANGED <<client, saved, renewing, opened, alarmed>>

Live(token) == {i \in DOMAIN opened : opened[i].token = token /\ ~opened[i].revoked}
Used(token) == \E i \in DOMAIN opened : opened[i].previous = token
RevokeEvery == [i \in DOMAIN opened |-> [opened[i] EXCEPT !.revoked = TRUE]]

\* refreshSession.
Exchange(s) ==
  /\ At(s, "exchange")
  /\ IF Live(mem[s].token) # {}
       THEN /\ opened' = [i \in DOMAIN opened |->
                 IF i \in Live(mem[s].token)
                   THEN [opened[i] EXCEPT !.token = NextToken, !.previous = mem[s].token]
                   ELSE opened[i]]
            /\ Note(s, [mem[s] EXCEPT !.got = NextToken])
            /\ UNCHANGED alarmed
       ELSE /\ opened' = IF Used(mem[s].token) THEN RevokeEvery ELSE opened
            /\ alarmed' = (alarmed \/ Used(mem[s].token))
            /\ Pass(s)
  /\ UNCHANGED <<clientVars, blamed>>

\* The answer arrives.  Refused, the web interface logs out; the others forget.
Keep(s) ==
  /\ At(s, "keep")
  /\ LET t == mem[s].tab
         refused == mem[s].got = 0
     IN /\ saved' = IF refused /\ client = "web" THEN saved ELSE mem[s].got
        /\ held' = IF refused \/ client # "web" THEN held ELSE [held EXCEPT ![t] = mem[s].got]
        /\ renewing' = IF mem[s].token = 0 THEN renewing ELSE renewing \ {t}
        /\ IF refused /\ client = "web"
             THEN Turn(s, <<"logout", "forget">>, Errand(t, held[t]))
             ELSE Pass(s)
  /\ UNCHANGED <<client, clientPast>>

-----------------------------------------------------------------------------
(* What the network and the user may do to a request. *)

\* No answer.  The SDK keeps its token and lets the next call try again, the
\* command line forgets it, the web interface logs out.
NoAnswer(s) ==
  LET t == mem[s].tab
      asking == At(s, "exchange") \/ (At(s, "keep") /\ mem[s].token # 0)
  IN /\ todo[s] # <<>> /\ ~At(s, "forget")
     /\ CASE At(s, "logout") -> Pass(s)
          [] asking /\ client = "web" -> Turn(s, <<"logout", "forget">>, Errand(t, held[t]))
          [] OTHER -> Answer(s)
     /\ saved' = IF asking /\ client = "cli" THEN 0 ELSE saved
     /\ renewing' = IF asking THEN renewing \ {t} ELSE renewing
     /\ blamed' = (blamed \/ (asking /\ mem[s].got # 0))
     /\ UNCHANGED <<client, held, opened, alarmed>>

\* The page is left or the process ends: its requests and its memory are gone.
LeavePage(t) ==
  /\ Busy(t) # {} \/ held[t] # 0
  /\ todo' = [s \in Slot |-> IF s \in Busy(t) THEN <<>> ELSE todo[s]]
  /\ mem' = [s \in Slot |-> IF s \in Busy(t) THEN Nothing ELSE mem[s]]
  /\ held' = [held EXCEPT ![t] = 0] /\ renewing' = renewing \ {t}
  /\ blamed' = (blamed \/ \E s \in Busy(t) : At(s, "exchange") \/ mem[s].got # 0)
  /\ UNCHANGED <<spent, client, saved, opened, alarmed>>

SessionEnds(i) ==
  /\ ~opened[i].revoked
  /\ opened' = [opened EXCEPT ![i].revoked = TRUE]
  /\ UNCHANGED <<requests, clientVars, alarmed, blamed>>

ClientsNext ==
  \/ \E s \in Slot, t \in Tab :
       SignIn(s, t) \/ SignOut(s, t) \/ Call(s, t) \/ Tick(s, t) \/ Hydrate(s, t)
  \/ \E s \in Slot :
       \/ OpenSession(s) \/ CloseSession(s) \/ ForgetTokens(s) \/ CallAnswered(s)
       \/ Exchange(s) \/ Keep(s) \/ NoAnswer(s)
  \/ \E t \in Tab : LeavePage(t)
  \/ \E i \in DOMAIN opened : SessionEnds(i)

-----------------------------------------------------------------------------
ClientsTypeOK ==
  /\ client \in {"sdk", "web", "cli"} /\ saved \in Nat
  /\ held \in [Tab -> Nat] /\ renewing \subseteq Tab
  /\ opened \in Seq([token: Nat, previous: Nat, revoked: BOOLEAN])
  /\ alarmed \in BOOLEAN /\ blamed \in BOOLEAN

\* A client alone with its storage, whose requests are all answered, never
\* presents a used token, however its own calls overlap with each other, with
\* its timers and with signing in and out: the server never takes its user for
\* a thief and ends every session they have.
AloneIsNeverAThief == alarmed => blamed

clientsVars == <<requests, clientVars, clientPast>>
ClientsSpec == ClientsInit /\ [][ClientsNext]_clientsVars
=============================================================================

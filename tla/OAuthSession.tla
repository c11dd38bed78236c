---------------------------- MODULE OAuthSession ----------------------------
(***************************************************************************)
(* Signing in to GitHub from the pages of the app                          *)
(* (src/routes/github/github-oauth.ts).  The session is kept nowhere but   *)
(* in the browser's cookie: a request reads the whole session when it      *)
(* comes in, and its response replaces the whole cookie if the session     *)
(* changed meanwhile (cookie-session).  Several tabs share the cookie.     *)
(*                                                                         *)
(* A pair is an access token with its refresh token.  GitHub gives one for *)
(* a code and one for a refresh token, which is spent by that.  Ids of     *)
(* pairs and of OAuth states are given again once nobody has them.         *)
(***************************************************************************)
EXTENDS Integers, FiniteSets

CONSTANTS
  Tab,       \* tabs of a browser, one request each
  Server,    \* GitHub cloud and GitHub Enterprise servers, by gitHubUuid
  Pair,      \* bound: ids of token pairs, numbers
  StateKey,  \* bound: ids of OAuth states, numbers
  Undefined, \* undefined
  MaxVisits, \* bound: pages the user opens
  MaxFaults  \* bound: calls that fail, consents refused, pairs that GitHub revokes

ASSUME SessionAssumption ==
  /\ Pair \subseteq Nat /\ StateKey \subseteq Nat
  /\ Undefined \notin Pair \cup StateKey \cup Server
  /\ MaxVisits \in Nat /\ MaxFaults \in Nat

VARIABLES
  cookie,   \* the session in the browser
  tab,      \* per tab: where it is, and the session of its request
  github,   \* per pair: the server that gave it, is the access token good, the refresh token
  budget,   \* visits and faults left
  history   \* read by properties only

sessionVars == <<cookie, tab, github, budget, history>>

NoSession == [pair |-> Undefined, uuid |-> Undefined, states |-> {}]
Still == [pc |-> "still", to |-> "nowhere", server |-> Undefined, get |-> TRUE, state |-> Undefined,
          seen |-> NoSession, session |-> NoSession]

SessionInit ==
  /\ cookie = NoSession
  /\ tab = [t \in Tab |-> Still]
  /\ github = [p \in Pair |-> [server |-> Undefined, access |-> FALSE, refresh |-> "none"]]
  /\ budget = [visits |-> MaxVisits, faults |-> MaxFaults]
  /\ history = [overlapped |-> FALSE, lost |-> FALSE, contended |-> FALSE, denied |-> {}]

Visit == budget.visits > 0 /\ budget' = [budget EXCEPT !.visits = @ - 1]
Fault == budget.faults > 0 /\ budget' = [budget EXCEPT !.faults = @ - 1]

Least(S) == CHOOSE x \in S : \A y \in S : x <= y

Sessions == {cookie} \cup {tab[t].session : t \in Tab} \cup {tab[t].seen : t \in Tab}
FreePairs == Pair \ {s.pair : s \in Sessions}
FreeStates == (StateKey \ UNION {s.states : s \in Sessions}) \ {tab[t].state : t \in Tab}

Becomes(t, s) == tab' = [tab EXCEPT ![t] = s]

\* The request is at its end: what the browser will show, and the session to be stored.
Answers(t, to, session) ==
  Becomes(t, [tab[t] EXCEPT !.pc = "answered", !.to = to, !.session = session])

-----------------------------------------------------------------------------
(* GithubAuthMiddleware, in front of every page that needs a GitHub token. *)

\* A missing token and one of another server are errors, as a bad token is.
Checks(session, server) == session.pair # Undefined /\ session.uuid = server

Begins(t, server, get) ==
  Becomes(t, [Still EXCEPT !.pc = IF Checks(cookie, server) THEN "checking" ELSE "renewing",
                           !.server = server, !.get = get, !.seen = cookie, !.session = cookie])

\* The user opens a page, or sends a form from one.
GithubAuthMiddleware(t, server, get) ==
  /\ tab[t].pc = "still" /\ Visit
  /\ Begins(t, server, get)
  /\ UNCHANGED <<cookie, github, history>>

\* With resetGithubToken in the query the tokens go, and the page is asked for again.
ResetGithubToken(t, server) ==
  /\ tab[t].pc = "still" /\ Visit
  /\ Becomes(t, [Still EXCEPT !.pc = "answered", !.to = "reload", !.server = server,
                              !.seen = cookie, !.session = [cookie EXCEPT !.pair = Undefined]])
  /\ UNCHANGED <<cookie, github, history>>

\* checkGitHubToken is one call with the token.
CheckGitHubToken(t) ==
  /\ tab[t].pc = "checking"
  /\ LET pair == github[tab[t].session.pair]
         good == pair.access /\ pair.server = tab[t].server
     IN \/ good /\ Answers(t, "served", tab[t].session) /\ UNCHANGED budget
        \/ /\ good => Fault
           /\ ~good => UNCHANGED budget
           /\ Becomes(t, [tab[t] EXCEPT !.pc = "renewing"])
  /\ UNCHANGED <<cookie, github, history>>

\* Mutant: there is room for one state only.
LastLoginOnly(t) ==
  LET key == Least(FreeStates) IN
  Becomes(t, [tab[t] EXCEPT !.pc = "answered", !.to = "consenting", !.state = key,
                            !.session = [@ EXCEPT !.states = {key}]])

AddsState(session, key) == [session EXCEPT !.states = @ \cup {key}]

\* A new state key in the session, and a redirect to GitHub.
GithubOAuthLoginGet(t) ==
  LET key == Least(FreeStates) IN
  Becomes(t, [tab[t] EXCEPT !.pc = "answered", !.to = "consenting", !.state = key,
                            !.session = AddsState(@, key)])

\* A request without a good token: a page leads to the login, a form is refused.
LoginOrRefuse(t) ==
  \/ tab[t].get /\ FreeStates # {} /\ GithubOAuthLoginGet(t)
  \/ ~tab[t].get /\ Answers(t, "error", tab[t].session)

\* Mutant: the new tokens are used and not kept.
UsesRenewed(session, p) == session

\* gitHubUuid stays as it is.
KeepsRenewed(session, p) == [session EXCEPT !.pair = p]

Taken(pair) == [pair EXCEPT !.access = FALSE, !.refresh = "spent"]

\* renewGitHubToken, if there is a refresh token: GitHub takes it back, and the access
\* token, for a new pair, whether or not its answer comes back.
RenewGitHubToken(t) ==
  /\ tab[t].pc = "renewing" /\ UNCHANGED cookie
  /\ LET old == tab[t].session.pair
         good == /\ old # Undefined /\ github[old].refresh = "good"
                 /\ github[old].server = tab[t].server
         new == Least(FreePairs)
     IN \/ /\ good /\ FreePairs # {}
           /\ github' = [github EXCEPT ![new] = github[old],
                                       ![old] = Taken(@)]
           /\ \/ /\ Answers(t, "served", KeepsRenewed(tab[t].session, new))
                 /\ UNCHANGED <<budget, history>>
              \/ Fault /\ LoginOrRefuse(t) /\ history' = [history EXCEPT !.lost = TRUE]
        \/ /\ good => Fault
           /\ ~good => UNCHANGED budget
           /\ LoginOrRefuse(t) /\ UNCHANGED <<github, history>>

-----------------------------------------------------------------------------
(* The way back from GitHub. *)

\* Mutant: the state is left in the session.
FindsState(session, key) == session

TakesState(session, key) == [session EXCEPT !.states = @ \ {key}]

\* GitHub sends the browser back with the state: with a code when the user has
\* consented, or with an error, which is shown and leaves the session as it is.
GithubOAuthCallbackGet(t) ==
  /\ tab[t].pc = "consenting"
  /\ \/ /\ Becomes(t, [tab[t] EXCEPT
            !.pc = IF tab[t].state \in cookie.states THEN "exchanging" ELSE "answered",
            !.to = "error",
            !.seen = cookie,
            !.session = TakesState(cookie, tab[t].state)])
        /\ UNCHANGED <<budget, history>>
     \/ /\ Fault
        /\ Becomes(t, [tab[t] EXCEPT !.pc = "answered", !.to = "error",
                                     !.seen = cookie, !.session = cookie])
        /\ history' = [history EXCEPT !.denied = @ \cup {tab[t].state}]
  /\ UNCHANGED <<cookie, github>>

\* Mutant: the server is not put into the session beside its token.
PopulatesTokens(session, p, server) == [session EXCEPT !.pair = p]

PopulateSession(session, p, server) == [session EXCEPT !.pair = p, !.uuid = server]

\* The code is exchanged for a pair, which may have no refresh token; or there is no
\* installation, secret or code, or GitHub gives no token.
FinishOAuthFlow(t) ==
  /\ tab[t].pc = "exchanging"
  /\ \/ /\ FreePairs # {} /\ UNCHANGED budget
        /\ LET new == Least(FreePairs) IN
             /\ \E refresh \in {"good", "none"} : github' = [github EXCEPT
                  ![new] = [server |-> tab[t].server, access |-> TRUE, refresh |-> refresh]]
             /\ Answers(t, "reload", PopulateSession(tab[t].session, new, tab[t].server))
     \/ Fault /\ Answers(t, "error", tab[t].session) /\ UNCHANGED github
  /\ UNCHANGED <<cookie, history>>

-----------------------------------------------------------------------------
(* The browser, and GitHub on its own account. *)

\* cookie-session sends the session if it changed, and the browser keeps what came last.
SetCookie(t) == IF tab[t].session = tab[t].seen THEN cookie ELSE tab[t].session

\* Others whose page is of another server find their token replaced.
Contends(t) ==
  \E u \in Tab \ {t} : tab[u].server \notin {Undefined, tab[t].server} /\ cookie' # cookie

Respond(t) ==
  /\ tab[t].pc = "answered"
  /\ cookie' = SetCookie(t)
  /\ history' = [history EXCEPT
       !.overlapped = @ \/ (tab[t].session # tab[t].seen /\ cookie # tab[t].seen),
       !.contended = @ \/ Contends(t)]
  /\ Becomes(t,
       CASE tab[t].to = "consenting" ->
              [Still EXCEPT !.pc = "consenting", !.server = tab[t].server, !.state = tab[t].state]
         [] tab[t].to = "reload" -> [Still EXCEPT !.pc = "reload", !.server = tab[t].server]
         [] OTHER -> Still)
  /\ UNCHANGED <<github, budget>>

\* After a redirect the browser asks for the page again.
Reload(t) ==
  /\ tab[t].pc = "reload"
  /\ Begins(t, tab[t].server, TRUE)
  /\ UNCHANGED <<cookie, github, budget, history>>

\* An access token expires, or the user takes a consent back.
TokenEnds(p) ==
  /\ github[p].access /\ Fault
  /\ \E refresh \in {"none", github[p].refresh} :
       github' = [github EXCEPT ![p] = [@ EXCEPT !.access = FALSE, !.refresh = refresh]]
  /\ UNCHANGED <<cookie, tab, history>>

Request(t) ==
  \/ CheckGitHubToken(t) \/ RenewGitHubToken(t) \/ GithubOAuthCallbackGet(t)
  \/ FinishOAuthFlow(t) \/ Respond(t) \/ Reload(t)

SessionNext ==
  \/ \E t \in Tab : Request(t)
  \/ \E t \in Tab, s \in Server : \E get \in BOOLEAN : GithubAuthMiddleware(t, s, get)
  \/ \E t \in Tab, s \in Server : ResetGithubToken(t, s)
  \/ \E p \in Pair : TokenEnds(p)

SessionSpec == SessionInit /\ [][SessionNext]_sessionVars

\* Requests are answered, the browser follows redirects, and the user answers GitHub.
FairSessionSpec == SessionSpec /\ \A t \in Tab : WF_sessionVars(Request(t))

-----------------------------------------------------------------------------
(* Properties. *)

Session == [pair : Pair \cup {Undefined}, uuid : Server \cup {Undefined}, states : SUBSET StateKey]

TabState ==
  [pc : {"still", "checking", "renewing", "exchanging", "answered", "consenting", "reload"},
   to : {"nowhere", "served", "error", "consenting", "reload"},
   server : Server \cup {Undefined}, get : BOOLEAN,
   state : StateKey \cup {Undefined}, seen : Session, session : Session]

PairState ==
  [server : Server \cup {Undefined}, access : BOOLEAN, refresh : {"good", "spent", "none"}]

\* The type invariant.
SessionTypeOK ==
  /\ cookie \in Session
  /\ tab \in [Tab -> TabState]
  /\ github \in [Pair -> PairState]
  /\ budget \in [visits : 0..MaxVisits, faults : 0..MaxFaults]
  /\ history \in [overlapped : BOOLEAN, lost : BOOLEAN, contended : BOOLEAN,
                  denied : SUBSET (StateKey \cup {Undefined})]

\* A state is good for one login (github-oauth.ts:160, 168).  A user who comes back from
\* GitHub is expected: no state under way is forgotten.  Once the login's request has ended
\* its state is in the cookie no more, but for a login that came back with an error instead
\* of a code, whose state is never taken out (github-oauth.ts:151).  The exception is two
\* requests of the browser that overlapped: one response replaced what the other had put
\* into the cookie.
StatesFollowLogins ==
  history.overlapped \/
    /\ \A t \in Tab : tab[t].pc = "consenting" => tab[t].state \in cookie.states
    /\ \A k \in cookie.states : k \in history.denied \/ \E t \in Tab : tab[t].state = k

\* Renewing never costs the user the session (github-oauth.ts:249): the cookie's refresh
\* token is spent only while the response that brings the next one is under way, or when
\* GitHub's answer was lost or requests overlapped.
Spent(p) == p # Undefined /\ github[p].refresh = "spent"
RenewalKeepsSession ==
  Spent(cookie.pair) =>
    \/ \E t \in Tab : tab[t].to = "served" /\ tab[t].session.pair \notin {Undefined, cookie.pair}
    \/ history.lost \/ history.overlapped

\* Every page the user asks for is shown, or an error is, whatever is renewed and
\* however often the way leads by GitHub's login; unless tabs take each other's tokens away,
\* because their requests overlapped or because they are for two servers.
EveryVisitEnds ==
  \A t \in Tab :
    tab[t].pc # "still" ~> (tab[t].pc = "still" \/ history.overlapped \/ history.contended)
=============================================================================

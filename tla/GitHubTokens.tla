---------------------------- MODULE GitHubTokens ----------------------------
(***************************************************************************)
(* The credentials a GitHub client presents: a JWT signed with the app's   *)
(* private key, and the installation token it is exchanged for.  Both are  *)
(* cached per installation, in the memory of one process, and both expire  *)
(* (src/github/client/app-token-holder.ts, installation-token-cache.ts).   *)
(* Meanwhile the key is replaced and GitHub revokes tokens.                *)
(*                                                                         *)
(* A credential has the time it has left instead of a date of expiry.  The *)
(* LRU's maxAge ends an entry at the moment isAboutToExpire turns true, so *)
(* that the two are one condition here.                                    *)
(***************************************************************************)
EXTENDS Integers

CONSTANTS
  Job,         \* calls of a client
  Org,         \* installations of the GitHub app
  None,        \* no credential
  MARGIN,      \* ONE_MINUTE: a credential with less left is about to expire
  JWT_LIFE,    \* NINE_MINUTES_MSEC
  TOKEN_LIFE,  \* life of an installation token, given by GitHub
  MaxChanges   \* bound: keys replaced, and tokens revoked

ASSUME LivesAssumption ==
  /\ {MARGIN, JWT_LIFE, TOKEN_LIFE, MaxChanges} \subseteq Nat
  /\ 0 < MARGIN /\ MARGIN < JWT_LIFE /\ MARGIN < TOKEN_LIFE

VARIABLES
  key,      \* GitHubServerApps.privateKey: the how-manieth key
  accepted, \* the key whose signature GitHub accepts
  grant,    \* GitHub: the how-manieth installation of the org, whose tokens it accepts
  age,      \* history: time since the key was replaced here, since the last revocation
  jwts,     \* appTokenCache, per installation
  tokens,   \* installationTokenCache, per installation
  job       \* per call: where it is, what it holds, and for how long

outside == <<key, accepted, grant, age>>
vars == <<key, accepted, grant, age, jwts, tokens, job>>

-----------------------------------------------------------------------------
\* Mutants: no margin; a credential that was ever good is good.
Expired(c) == c.left < 0
NeverAboutToExpire(c) == FALSE

\* isAboutToExpire, and the end of an entry of the LRU cache.
AboutToExpire(c) == c.left < MARGIN

Usable(c) == c # None /\ ~AboutToExpire(c)

\* A JWT for the key in hand; late is history: the key was replaced since it was read.
CreateAppJwt(k) == [of |-> k, left |-> JWT_LIFE, late |-> k # key]

Idle == [pc |-> "idle", org |-> None, of |-> 0, cred |-> None, held |-> 0]

Moves(j, pc, cred) ==
  job' = [job EXCEPT ![j].pc = pc, ![j].of = 0, ![j].cred = cred, ![j].held = 0]

Init ==
  /\ key = 0 /\ accepted = 0 /\ grant = 0
  /\ age = [key |-> 0, grant |-> 0]
  /\ jwts = [o \in Org |-> None] /\ tokens = [o \in Org |-> None]
  /\ job = [j \in Job |-> Idle]

-----------------------------------------------------------------------------
(* getInstallationToken and, when its cache has none to offer, getAppToken. *)

GetInstallationToken(j, o) ==
  /\ job[j].pc = "idle"
  /\ job' = [job EXCEPT ![j] =
       IF Usable(tokens[o]) THEN [Idle EXCEPT !.pc = "sending", !.org = o, !.cred = tokens[o]]
       ELSE IF Usable(jwts[o]) THEN [Idle EXCEPT !.pc = "asking", !.org = o, !.cred = jwts[o]]
       ELSE [Idle EXCEPT !.pc = "reading", !.org = o]]
  /\ UNCHANGED <<outside, jwts, tokens>>

\* createAppClient signs a JWT of its own and keeps it as long as the client lives.
CreateAppClient(j) ==
  /\ job[j].pc = "idle"
  /\ job' = [job EXCEPT ![j] = [Idle EXCEPT !.pc = "reading"]]
  /\ UNCHANGED <<outside, jwts, tokens>>

\* keyLocator: the row is read, then decrypted; there may be none, or no plain text.
KeyLocator(j) ==
  /\ job[j].pc = "reading"
  /\ \/ job' = [job EXCEPT ![j].pc = "signing", ![j].of = key]
     \/ job' = [job EXCEPT ![j] = Idle]
  /\ UNCHANGED <<outside, jwts, tokens>>

GetAppToken(j) ==
  /\ job[j].pc = "signing"
  /\ LET jwt == CreateAppJwt(job[j].of) IN
       /\ Moves(j, "asking", jwt)
       /\ jwts' = IF job[j].org = None THEN jwts ELSE [jwts EXCEPT ![job[j].org] = jwt]
  /\ UNCHANGED <<outside, tokens>>

\* GitHub gives an installation token for a JWT it accepts, and answers an app client.
CreateInstallationToken(j) ==
  /\ job[j].pc = "asking"
  /\ IF job[j].cred.left > 0 /\ job[j].cred.of = accepted
     THEN IF job[j].org = None THEN job' = [job EXCEPT ![j] = Idle]
          ELSE Moves(j, "receiving", [of |-> grant, left |-> TOKEN_LIFE, late |-> FALSE])
     ELSE job' = [job EXCEPT ![j].pc = "refused"]
  /\ UNCHANGED <<outside, jwts, tokens>>

\* The token is cached and used, without another look at the time it has left.
ReceiveInstallationToken(j) ==
  /\ job[j].pc = "receiving"
  /\ tokens' = [tokens EXCEPT ![job[j].org] = job[j].cred]
  /\ job' = [job EXCEPT ![j].pc = "sending"]
  /\ UNCHANGED <<outside, jwts>>

SendRequest(j) ==
  /\ job[j].pc = "sending"
  /\ IF job[j].cred.left > 0 /\ job[j].cred.of = grant
     THEN job' = [job EXCEPT ![j] = Idle]
     ELSE job' = [job EXCEPT ![j].pc = "refused"]
  /\ UNCHANGED <<outside, jwts, tokens>>

\* A refusal is an error of the call.  Neither cache hears of it.
GiveUp(j) ==
  /\ job[j].pc \in {"asking", "receiving", "sending", "refused"}
  /\ job' = [job EXCEPT ![j] = Idle]
  /\ UNCHANGED <<outside, jwts, tokens>>

\* The least recently used entries make room for others.
Evict(o) ==
  /\ \/ jwts' = [jwts EXCEPT ![o] = None] /\ UNCHANGED tokens
     \/ tokens' = [tokens EXCEPT ![o] = None] /\ UNCHANGED jwts
  /\ UNCHANGED <<outside, job>>

-----------------------------------------------------------------------------
(* The administrator and GitHub. *)

ReplaceKeyAtGitHub ==
  /\ accepted = key /\ accepted < MaxChanges
  /\ accepted' = accepted + 1
  /\ UNCHANGED <<key, grant, age, jwts, tokens, job>>

UpdateGitHubApp ==
  /\ key # accepted
  /\ key' = accepted /\ age' = [age EXCEPT !.key = 0]
  /\ UNCHANGED <<accepted, grant, jwts, tokens, job>>

RevokeTokens ==
  /\ grant < MaxChanges
  /\ grant' = grant + 1 /\ age' = [age EXCEPT !.grant = 0]
  /\ UNCHANGED <<key, accepted, jwts, tokens, job>>

Less(n) == IF n = 0 THEN 0 ELSE n - 1
More(n, bound) == IF n < bound THEN n + 1 ELSE n
Older(c) == IF c = None THEN None ELSE [c EXCEPT !.left = Less(@)]
Holding(s) == IF s.cred = None THEN s ELSE [s EXCEPT !.cred = Older(@), !.held = More(@, MARGIN)]

Tick ==
  /\ jwts' = [o \in Org |-> Older(jwts[o])]
  /\ tokens' = [o \in Org |-> Older(tokens[o])]
  /\ job' = [j \in Job |-> Holding(job[j])]
  /\ age' = [key |-> More(age.key, JWT_LIFE), grant |-> More(age.grant, TOKEN_LIFE)]
  /\ UNCHANGED <<key, accepted, grant>>

Call(j) ==
  \/ \E o \in Org : GetInstallationToken(j, o)
  \/ CreateAppClient(j)

Step(j) ==
  \/ KeyLocator(j) \/ GetAppToken(j) \/ CreateInstallationToken(j)
  \/ ReceiveInstallationToken(j) \/ SendRequest(j) \/ GiveUp(j)

Next ==
  \/ \E j \in Job : Call(j) \/ Step(j)
  \/ \E o \in Org : Evict(o)
  \/ ReplaceKeyAtGitHub \/ UpdateGitHubApp \/ RevokeTokens \/ Tick

Spec == Init /\ [][Next]_vars

\* Time passes, and calls go on: their requests time out.
Fairness == WF_vars(Tick) /\ \A j \in Job : WF_vars(Step(j))

FairSpec == Spec /\ Fairness

-----------------------------------------------------------------------------
(* Properties. *)

Credential(life) == [of : 0..MaxChanges, left : 0..life, late : BOOLEAN]

HoldsOK(s) ==
  /\ s.pc \in {"asking"} => s.cred \in Credential(JWT_LIFE)
  /\ s.pc \in {"receiving", "sending"} => s.cred \in Credential(TOKEN_LIFE) /\ s.org \in Org
  /\ s.pc \in {"idle", "reading", "signing"} => s.cred = None

\* The type invariant.
TypeOK ==
  /\ key \in 0..MaxChanges /\ accepted \in 0..MaxChanges /\ grant \in 0..MaxChanges
  /\ age \in [key : 0..JWT_LIFE, grant : 0..TOKEN_LIFE]
  /\ jwts \in [Org -> Credential(JWT_LIFE) \cup {None}]
  /\ tokens \in [Org -> Credential(TOKEN_LIFE) \cup {None}]
  /\ DOMAIN job = Job
  /\ \A j \in Job :
       /\ DOMAIN job[j] = {"pc", "org", "of", "cred", "held"}
       /\ job[j].pc \in {"idle", "reading", "signing", "asking", "receiving", "sending", "refused"}
       /\ job[j].org \in Org \cup {None} /\ job[j].of \in 0..MaxChanges
       /\ job[j].held \in 0..MARGIN /\ HoldsOK(job[j])

\* A credential expires in the hands of a call only if the call has held it for the
\* margin and longer (auth-token.ts:14), whoever cached it (installation-token-cache.ts:79).
ExpiredOnlyIfHeld ==
  \A j \in Job : job[j].cred # None /\ job[j].cred.left = 0 => job[j].held = MARGIN

\* What was replaced or revoked dies out although no refusal clears a cache: a client
\* goes on with a JWT of an old key for JWT_LIFE at most, unless the key was read before
\* it was replaced and used after (app-token-holder.ts:59), and with tokens of an old
\* grant for TOKEN_LIFE.
Stale(c, current) == Usable(c) /\ c.of # current
OldCredentialsDieOut ==
  \A o \in Org :
    /\ Stale(jwts[o], key) => age.key + MARGIN <= JWT_LIFE \/ jwts[o].late
    /\ Stale(tokens[o], grant) => age.grant + MARGIN <= TOKEN_LIFE

\* Once the key here is the one GitHub accepts, refusals come to an end, by time alone
\* and whatever is cached: in the end no call is refused what it did not hold too long.
RefusalsEnd ==
  <>[](key = accepted)
    => <>[](\A j \in Job : job[j].pc = "refused" => job[j].held = MARGIN)
=============================================================================

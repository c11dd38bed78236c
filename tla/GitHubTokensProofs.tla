------------------------- MODULE GitHubTokensProofs -------------------------
(***************************************************************************)
(* Proofs about the credentials the app holds: GitHubTokens, for any calls *)
(* and installations, any margin and lives of credentials, and any number  *)
(* of keys and revocations; and OAuthSession, for any tabs and servers and *)
(* any number of visits, faults, pairs and states.                         *)
(***************************************************************************)
EXTENDS GitHubTokens, OAuthSession, WellFoundedInduction, TLAPS

-----------------------------------------------------------------------------
(* Types. *)

Held == Credential(JWT_LIFE) \cup Credential(TOKEN_LIFE)

CallState ==
  [pc : {"idle", "reading", "signing", "asking", "receiving", "sending", "refused"},
   org : Org \cup {None}, of : 0..MaxChanges, cred : Held \cup {None}, held : 0..MARGIN]

CachesOK ==
  /\ key \in 0..MaxChanges /\ accepted \in 0..MaxChanges /\ grant \in 0..MaxChanges
  /\ age \in [key : 0..JWT_LIFE, grant : 0..TOKEN_LIFE]
  /\ jwts \in [Org -> Credential(JWT_LIFE) \cup {None}]
  /\ tokens \in [Org -> Credential(TOKEN_LIFE) \cup {None}]

\* A call holds its credential from the margin on: what it lost it held.
CallOK(s) ==
  /\ s \in CallState /\ HoldsOK(s)
  /\ s.cred # None => s.held = MARGIN \/ s.cred.left + s.held >= MARGIN

CallsOK == DOMAIN job = Job /\ job = [j \in Job |-> job[j]] /\ \A j \in Job : CallOK(job[j])

TypeInv == CachesOK /\ CallsOK

\* One call changes and is well afterwards: all are.
LEMMA OneCall ==
  ASSUME CallsOK, NEW j \in Job, NEW s, CallOK(s), job' = [job EXCEPT ![j] = s]
  PROVE  CallsOK'
<1>1. \A i \in Job : job'[i] = IF i = j THEN s ELSE job[i]
  BY DEF CallsOK
<1>2. DOMAIN job' = Job /\ job' = [i \in Job |-> job'[i]]
  BY DEF CallsOK
<1>3. \A i \in Job : CallOK(job'[i])
  BY <1>1 DEF CallsOK
<1>4. CallsOK' <=> DOMAIN job' = Job /\ job' = [i \in Job |-> job'[i]] /\ \A i \in Job : CallOK(job'[i])
  BY DEF CallsOK, CallOK, HoldsOK, Credential, CallState, Held
<1> QED BY <1>2, <1>3, <1>4

LEMMA IdleIsOK == CallOK(Idle) /\ Idle \in CallState /\ Idle.cred = None
BY LivesAssumption DEF CallOK, Idle, CallState, HoldsOK

\* Moves changes a call so.
LEMMA MovedCall ==
  ASSUME NEW s \in CallState, NEW pc \in {"asking", "receiving"}, NEW cred \in Held
  PROVE  LET t == [s EXCEPT !.pc = pc, !.of = 0, !.cred = cred, !.held = 0]
         IN  t \in CallState /\ t.pc = pc /\ t.org = s.org /\ t.cred = cred
<1> DEFINE zero == 0
<1>1. zero \in 0..MaxChanges /\ zero \in 0..MARGIN
  BY LivesAssumption
<1> HIDE DEF zero
<1>2. LET t == [s EXCEPT !.pc = pc, !.of = zero, !.cred = cred, !.held = zero]
      IN  t \in CallState /\ t.pc = pc /\ t.org = s.org /\ t.cred = cred
  BY <1>1 DEF CallState
<1> QED BY <1>2 DEF zero

\* A call that has just come by a credential has it with the margin and more.
LEMMA FreshCall ==
  ASSUME NEW s \in CallState, s.cred.left >= MARGIN,
         \/ s.pc = "asking" /\ s.cred \in Credential(JWT_LIFE)
         \/ s.pc \in {"receiving", "sending"} /\ s.cred \in Credential(TOKEN_LIFE) /\ s.org \in Org
  PROVE  CallOK(s)
<1>1. s.cred.left \in Nat /\ s.held \in Nat
  BY LivesAssumption DEF Credential, CallState
<1>2. HoldsOK(s)
  BY DEF HoldsOK
<1>3. s.cred.left + s.held >= MARGIN
  BY <1>1, LivesAssumption
<1> QED BY <1>2, <1>3 DEF CallOK

\* What a cache offers has the margin left.
LEMMA UsableFacts ==
  ASSUME NEW life \in Nat, NEW c \in Credential(life) \cup {None}, Usable(c)
  PROVE  c \in Credential(life) /\ c.left >= MARGIN /\ c # None
BY LivesAssumption DEF Usable, AboutToExpire, Credential

-----------------------------------------------------------------------------
(* The steps of a call. *)

LEMMA StepInv ==
  ASSUME TypeInv, NEW j \in Job, Call(j) \/ Step(j)
  PROVE  TypeInv' /\ UNCHANGED outside
<1> DEFINE s == job[j]
<1>0. s \in CallState /\ HoldsOK(s) /\ CallOK(s)
  BY DEF TypeInv, CallsOK, CallOK
<1>1. ASSUME NEW o \in Org, GetInstallationToken(j, o) PROVE TypeInv' /\ UNCHANGED outside
  <2> DEFINE a == [Idle EXCEPT !.pc = "sending", !.org = o, !.cred = tokens[o]]
             b == [Idle EXCEPT !.pc = "asking", !.org = o, !.cred = jwts[o]]
             r == [Idle EXCEPT !.pc = "reading", !.org = o]
  <2>1. Usable(tokens[o]) => CallOK(a)
    <3> SUFFICES ASSUME Usable(tokens[o]) PROVE CallOK(a)
      OBVIOUS
    <3>1. tokens[o] \in Credential(TOKEN_LIFE) /\ tokens[o].left >= MARGIN
      BY UsableFacts, LivesAssumption DEF TypeInv, CachesOK
    <3>2. tokens[o] \in Held
      BY <3>1 DEF Held
    <3>3. a \in CallState /\ a.pc = "sending" /\ a.org = o /\ a.cred = tokens[o]
      BY <3>2, IdleIsOK DEF CallState
    <3> HIDE DEF a
    <3> QED BY <3>1, <3>2, <3>3, FreshCall
  <2>2. Usable(jwts[o]) => CallOK(b)
    <3> SUFFICES ASSUME Usable(jwts[o]) PROVE CallOK(b)
      OBVIOUS
    <3>1. jwts[o] \in Credential(JWT_LIFE) /\ jwts[o].left >= MARGIN
      BY UsableFacts, LivesAssumption DEF TypeInv, CachesOK
    <3>2. jwts[o] \in Held
      BY <3>1 DEF Held
    <3>3. b \in CallState /\ b.pc = "asking" /\ b.org = o /\ b.cred = jwts[o]
      BY <3>2, IdleIsOK DEF CallState
    <3> HIDE DEF b
    <3> QED BY <3>1, <3>2, <3>3, FreshCall
  <2>3. CallOK(r)
    <3>1. r \in CallState /\ r.pc = "reading" /\ r.cred = None
      BY IdleIsOK DEF CallState
    <3> HIDE DEF r
    <3> QED BY <3>1 DEF CallOK, HoldsOK
  <2>4. \E x \in {a, b, r} : CallOK(x) /\ job' = [job EXCEPT ![j] = x]
    <3> HIDE DEF a, b, r
    <3>1. job' = [job EXCEPT ![j] = IF Usable(tokens[o]) THEN a ELSE IF Usable(jwts[o]) THEN b ELSE r]
      BY <1>1 DEF GetInstallationToken, a, b, r
    <3> QED BY <3>1, <2>1, <2>2, <2>3
  <2>5. CallsOK'
    BY <2>4, OneCall DEF TypeInv
  <2> QED BY <1>1, <2>5 DEF GetInstallationToken, TypeInv, CachesOK, outside
<1>2. ASSUME CreateAppClient(j) PROVE TypeInv' /\ UNCHANGED outside
  <2>1. CallOK([Idle EXCEPT !.pc = "reading"])
    BY LivesAssumption DEF CallOK, CallState, HoldsOK, Idle
  <2>2. CallsOK'
    BY <1>2, <2>1, OneCall DEF TypeInv, CreateAppClient
  <2> QED BY <1>2, <2>2 DEF CreateAppClient, TypeInv, CachesOK, outside
<1>3. ASSUME KeyLocator(j) PROVE TypeInv' /\ UNCHANGED outside
  <2> DEFINE x == [s EXCEPT !.pc = "signing", !.of = key]
  <2>1. CallOK(x)
    BY <1>0, <1>3 DEF CallOK, CallState, HoldsOK, KeyLocator, TypeInv, CachesOK
  <2>2. job' = [job EXCEPT ![j] = x] \/ job' = [job EXCEPT ![j] = Idle]
    BY <1>3 DEF KeyLocator
  <2>3. CallsOK'
    <3> HIDE DEF x
    <3> QED BY <2>1, <2>2, OneCall, IdleIsOK DEF TypeInv
  <2> QED BY <1>3, <2>3 DEF KeyLocator, TypeInv, CachesOK, outside
<1>4. ASSUME GetAppToken(j) PROVE TypeInv' /\ UNCHANGED outside
  <2> DEFINE jwt == CreateAppJwt(s.of)
             x == [s EXCEPT !.pc = "asking", !.of = 0, !.cred = jwt, !.held = 0]
  <2>1. jwt \in Credential(JWT_LIFE) /\ jwt.left = JWT_LIFE
    BY <1>0, LivesAssumption DEF CreateAppJwt, Credential, CallState
  <2>2. CallOK(x)
    <3> HIDE DEF jwt
    <3>1. jwt \in Held /\ jwt.left >= MARGIN
      BY <2>1, LivesAssumption DEF Held
    <3>2. x \in CallState /\ x.pc = "asking" /\ x.cred = jwt
      BY <1>0, <3>1, MovedCall
    <3> HIDE DEF x
    <3> QED BY <3>1, <3>2, <2>1, FreshCall
  <2>3. /\ job' = [job EXCEPT ![j] = x]
        /\ jwts' = IF s.org = None THEN jwts ELSE [jwts EXCEPT ![s.org] = jwt]
    BY <1>4 DEF GetAppToken, Moves
  <2>4. CallsOK'
    <3> HIDE DEF x
    <3> QED BY <2>2, <2>3, OneCall DEF TypeInv
  <2>5. jwts' \in [Org -> Credential(JWT_LIFE) \cup {None}]
    <3> HIDE DEF jwt
    <3> QED BY <2>1, <2>3 DEF TypeInv, CachesOK
  <2> QED BY <1>4, <2>4, <2>5 DEF GetAppToken, TypeInv, CachesOK, outside
<1>5. ASSUME CreateInstallationToken(j) PROVE TypeInv' /\ UNCHANGED outside
  <2> DEFINE token == [of |-> grant, left |-> TOKEN_LIFE, late |-> FALSE]
             x == [s EXCEPT !.pc = "receiving", !.of = 0, !.cred = token, !.held = 0]
             y == [s EXCEPT !.pc = "refused"]
  <2>1. token \in Credential(TOKEN_LIFE) /\ token.left = TOKEN_LIFE
    BY LivesAssumption DEF Credential, TypeInv, CachesOK
  <2>2. s.org # None => CallOK(x)
    <3>1. s.org # None => s.org \in Org
      BY <1>0 DEF CallState
    <3> HIDE DEF token
    <3>2. token \in Held /\ token.left >= MARGIN
      BY <2>1, LivesAssumption DEF Held
    <3>3. x \in CallState /\ x.pc = "receiving" /\ x.org = s.org /\ x.cred = token
      BY <1>0, <3>2, MovedCall
    <3> HIDE DEF x
    <3> QED BY <3>1, <3>2, <3>3, <2>1, FreshCall
  <2>3. CallOK(y)
    BY <1>0 DEF CallOK, CallState, HoldsOK
  <2>4. \E z \in {Idle, x, y} : CallOK(z) /\ job' = [job EXCEPT ![j] = z]
    <3>1. \/ job' = [job EXCEPT ![j] = Idle]
          \/ s.org # None /\ job' = [job EXCEPT ![j] = x]
          \/ job' = [job EXCEPT ![j] = y]
      BY <1>5 DEF CreateInstallationToken, Moves
    <3> HIDE DEF x, y
    <3> QED BY <3>1, <2>2, <2>3, IdleIsOK
  <2>5. CallsOK'
    BY <2>4, OneCall DEF TypeInv
  <2> QED BY <1>5, <2>5 DEF CreateInstallationToken, TypeInv, CachesOK, outside
<1>6. ASSUME ReceiveInstallationToken(j) PROVE TypeInv' /\ UNCHANGED outside
  <2> DEFINE x == [s EXCEPT !.pc = "sending"]
  <2>1. CallOK(x)
    BY <1>0, <1>6 DEF CallOK, CallState, HoldsOK, ReceiveInstallationToken
  <2>2. job' = [job EXCEPT ![j] = x]
    BY <1>6 DEF ReceiveInstallationToken
  <2>3. CallsOK'
    <3> HIDE DEF x
    <3> QED BY <2>1, <2>2, OneCall DEF TypeInv
  <2>4. tokens' \in [Org -> Credential(TOKEN_LIFE) \cup {None}]
    BY <1>0, <1>6 DEF ReceiveInstallationToken, HoldsOK, TypeInv, CachesOK
  <2> QED BY <1>6, <2>3, <2>4 DEF ReceiveInstallationToken, TypeInv, CachesOK, outside
<1>7. ASSUME SendRequest(j) PROVE TypeInv' /\ UNCHANGED outside
  <2> DEFINE y == [s EXCEPT !.pc = "refused"]
  <2>1. CallOK(y)
    BY <1>0 DEF CallOK, CallState, HoldsOK
  <2>2. job' = [job EXCEPT ![j] = Idle] \/ job' = [job EXCEPT ![j] = y]
    BY <1>7 DEF SendRequest
  <2>3. CallsOK'
    <3> HIDE DEF y
    <3> QED BY <2>1, <2>2, OneCall, IdleIsOK DEF TypeInv
  <2> QED BY <1>7, <2>3 DEF SendRequest, TypeInv, CachesOK, outside
<1>8. ASSUME GiveUp(j) PROVE TypeInv' /\ UNCHANGED outside
  <2>1. CallsOK'
    BY <1>8, OneCall, IdleIsOK DEF GiveUp, TypeInv
  <2> QED BY <1>8, <2>1 DEF GiveUp, TypeInv, CachesOK, outside
<1> QED BY <1>1, <1>2, <1>3, <1>4, <1>5, <1>6, <1>7, <1>8 DEF Call, Step

LEMMA EvictInv ==
  ASSUME TypeInv, NEW o \in Org, Evict(o)
  PROVE  TypeInv'
BY DEF Evict, outside, TypeInv, CachesOK, CallsOK, CallOK, HoldsOK, CallState, Held, Credential

-----------------------------------------------------------------------------
(* Time. *)

LEMMA OlderFacts ==
  ASSUME NEW life \in Nat, NEW c \in Credential(life) \cup {None}
  PROVE  /\ Older(c) \in Credential(life) \cup {None}
         /\ c = None => Older(c) = None
         /\ c # None => /\ c \in Credential(life) /\ Older(c) \in Credential(life)
                        /\ Older(c).left = Less(c.left)
                        /\ Older(c).of = c.of /\ Older(c).late = c.late
BY DEF Older, Less, Credential

LEMMA TickOnCall ==
  ASSUME NEW s, CallOK(s)
  PROVE  CallOK(Holding(s))
<1>1. CASE s.cred = None
  BY <1>1 DEF Holding
<1>2. CASE s.cred # None
  <2>1. Holding(s) = [s EXCEPT !.cred = Older(s.cred), !.held = More(s.held, MARGIN)]
    BY <1>2 DEF Holding
  <2>2. s \in CallState /\ HoldsOK(s) /\ (s.held = MARGIN \/ s.cred.left + s.held >= MARGIN)
    BY <1>2 DEF CallOK
  <2>3. PICK life \in {JWT_LIFE, TOKEN_LIFE} : s.cred \in Credential(life)
    BY <1>2, <2>2 DEF CallState, Held
  <2>4. /\ Older(s.cred) \in Credential(life) /\ Older(s.cred).left = Less(s.cred.left)
        /\ Older(s.cred).of = s.cred.of /\ Older(s.cred).late = s.cred.late
    BY <1>2, <2>3, OlderFacts, LivesAssumption
  <2>5. s.held \in 0..MARGIN /\ More(s.held, MARGIN) \in 0..MARGIN
    BY <2>2, LivesAssumption DEF CallState, More
  <2>6. s.cred.left \in Nat /\ Less(s.cred.left) \in Nat
    BY <2>3, LivesAssumption DEF Credential, Less
  <2>7. More(s.held, MARGIN) = MARGIN \/ Less(s.cred.left) + More(s.held, MARGIN) >= MARGIN
    BY <2>2, <2>5, <2>6, LivesAssumption DEF More, Less
  <2>8. /\ s.cred \in Credential(JWT_LIFE) => Older(s.cred) \in Credential(JWT_LIFE)
        /\ s.cred \in Credential(TOKEN_LIFE) => Older(s.cred) \in Credential(TOKEN_LIFE)
    BY <1>2, OlderFacts, LivesAssumption
  <2>9. s.pc \in {"idle", "reading", "signing"} => FALSE
    BY <1>2, <2>2 DEF HoldsOK
  <2> DEFINE t == Holding(s)
  <2>10. /\ t.pc = s.pc /\ t.org = s.org /\ t.of = s.of
         /\ t.cred = Older(s.cred) /\ t.held = More(s.held, MARGIN)
    BY <2>1, <2>2 DEF CallState
  <2>11. t \in CallState
    BY <2>1, <2>2, <2>3, <2>4, <2>5 DEF CallState, Held
  <2>12. HoldsOK(t)
    <3> HIDE DEF t
    <3> QED BY <2>2, <2>8, <2>9, <2>10 DEF HoldsOK
  <2>13. t.held = MARGIN \/ t.cred.left + t.held >= MARGIN
    <3> HIDE DEF t
    <3> QED BY <2>4, <2>7, <2>10
  <2> HIDE DEF t
  <2> QED BY <2>11, <2>12, <2>13 DEF CallOK, t
<1> QED BY <1>1, <1>2

LEMMA TickInv ==
  ASSUME TypeInv, Tick
  PROVE  TypeInv'
<1>1. CachesOK'
  <2>1. jwts' \in [Org -> Credential(JWT_LIFE) \cup {None}]
    <3>1. \A o \in Org : Older(jwts[o]) \in Credential(JWT_LIFE) \cup {None}
      BY OlderFacts, LivesAssumption DEF TypeInv, CachesOK
    <3> QED BY <3>1 DEF Tick
  <2>2. tokens' \in [Org -> Credential(TOKEN_LIFE) \cup {None}]
    <3>1. \A o \in Org : Older(tokens[o]) \in Credential(TOKEN_LIFE) \cup {None}
      BY OlderFacts, LivesAssumption DEF TypeInv, CachesOK
    <3> QED BY <3>1 DEF Tick
  <2>3. age' \in [key : 0..JWT_LIFE, grant : 0..TOKEN_LIFE]
    BY LivesAssumption DEF Tick, TypeInv, CachesOK, More
  <2> QED BY <2>1, <2>2, <2>3 DEF Tick, TypeInv, CachesOK, Credential
<1>2. \A j \in Job : CallOK(Holding(job[j]))
  BY TickOnCall DEF TypeInv, CallsOK
<1>3. job' = [j \in Job |-> Holding(job[j])]
  BY DEF Tick
<1>4. CallsOK' <=> DOMAIN job' = Job /\ job' = [i \in Job |-> job'[i]] /\ \A i \in Job : CallOK(job'[i])
  BY DEF CallsOK, CallOK, HoldsOK, Credential, CallState, Held
<1> QED BY <1>1, <1>2, <1>3, <1>4 DEF TypeInv

-----------------------------------------------------------------------------
(* The invariants. *)

LEMMA TypeInit == Init => TypeInv
<1> SUFFICES ASSUME Init PROVE TypeInv
  OBVIOUS
<1>1. CachesOK
  BY LivesAssumption DEF Init, CachesOK
<1>2. CallsOK
  BY IdleIsOK DEF Init, CallsOK
<1> QED BY <1>1, <1>2 DEF TypeInv

LEMMA TypeStep == TypeInv /\ [Next]_vars => TypeInv'
<1> SUFFICES ASSUME TypeInv, [Next]_vars PROVE TypeInv'
  OBVIOUS
<1>1. ASSUME NEW j \in Job, Call(j) \/ Step(j) PROVE TypeInv'
  BY <1>1, StepInv
<1>2. ASSUME NEW o \in Org, Evict(o) PROVE TypeInv'
  BY <1>2, EvictInv
<1>3. ASSUME ReplaceKeyAtGitHub PROVE TypeInv'
  BY <1>3, LivesAssumption DEF ReplaceKeyAtGitHub, TypeInv, CachesOK, CallsOK, CallOK, HoldsOK,
                               CallState, Held, Credential
<1>4. ASSUME UpdateGitHubApp PROVE TypeInv'
  BY <1>4, LivesAssumption DEF UpdateGitHubApp, TypeInv, CachesOK, CallsOK, CallOK, HoldsOK,
                               CallState, Held, Credential
<1>5. ASSUME RevokeTokens PROVE TypeInv'
  BY <1>5, LivesAssumption DEF RevokeTokens, TypeInv, CachesOK, CallsOK, CallOK, HoldsOK,
                               CallState, Held, Credential
<1>6. ASSUME Tick PROVE TypeInv'
  BY <1>6, TickInv
<1>7. ASSUME UNCHANGED vars PROVE TypeInv'
  BY <1>7 DEF vars, TypeInv, CachesOK, CallsOK, CallOK, HoldsOK, CallState, Held, Credential
<1> QED BY <1>1, <1>2, <1>3, <1>4, <1>5, <1>6, <1>7 DEF Next

LEMMA TypeAlways == Spec => []TypeInv
BY TypeInit, TypeStep, PTL DEF Spec

\* The caches hold credentials, and every call holds what its place in the code asks for.
THEOREM TypeCorrect == Spec => []TypeOK
<1>1. TypeInv => TypeOK
  BY DEF TypeInv, CachesOK, CallsOK, CallOK, CallState, TypeOK
<1> QED BY <1>1, TypeAlways, PTL

\* Whatever the lives of credentials are, the margin is all that a call has.
THEOREM ExpiredOnlyIfHeldEver == Spec => []ExpiredOnlyIfHeld
<1>1. TypeInv => ExpiredOnlyIfHeld
  <2> SUFFICES ASSUME TypeInv, NEW j \in Job, job[j].cred # None, job[j].cred.left = 0
               PROVE  job[j].held = MARGIN
    BY DEF ExpiredOnlyIfHeld
  <2>1. CallOK(job[j]) /\ job[j].held \in 0..MARGIN
    BY DEF TypeInv, CallsOK, CallOK, CallState
  <2>2. job[j].held = MARGIN \/ 0 + job[j].held >= MARGIN
    BY <2>1 DEF CallOK
  <2> QED BY <2>1, <2>2, LivesAssumption
<1> QED BY <1>1, TypeAlways, PTL

-----------------------------------------------------------------------------
(* What is of an old key or of an old grant has the less left the longer that is. *)

AgesWell(c, current, since, life) == c # None /\ c.of # current => c.left + since <= life

AgeInv ==
  /\ \A o \in Org : jwts[o] # None => jwts[o].late \/ AgesWell(jwts[o], key, age.key, JWT_LIFE)
  /\ \A o \in Org : AgesWell(tokens[o], grant, age.grant, TOKEN_LIFE)
  /\ \A j \in Job : job[j].pc = "receiving" => AgesWell(job[j].cred, grant, age.grant, TOKEN_LIFE)

LEMMA AgeInit == Init => AgeInv
BY DEF Init, AgeInv, AgesWell, Idle

LEMMA AgeOnStep ==
  ASSUME TypeInv, AgeInv, NEW j \in Job, Call(j) \/ Step(j)
  PROVE  AgeInv'
<1>0. DOMAIN job = Job /\ job[j] \in CallState
  BY DEF TypeInv, CallsOK, CallOK
<1>1. UNCHANGED outside
  BY StepInv
<1>2. ASSUME NEW i \in Job, i # j PROVE job'[i] = job[i]
  BY <1>0, <1>2 DEF Call, Step, GetInstallationToken, CreateAppClient, KeyLocator, GetAppToken,
     CreateInstallationToken, ReceiveInstallationToken, SendRequest, GiveUp, Moves
<1>3. ASSUME job'[j].pc = "receiving" PROVE job'[j].cred.of = grant
  <2>1. \A o \in Org : ~GetInstallationToken(j, o)
    BY <1>0, <1>3 DEF GetInstallationToken, Idle
  <2>2. ~CreateAppClient(j) /\ ~SendRequest(j) /\ ~GiveUp(j)
    BY <1>0, <1>3 DEF CreateAppClient, SendRequest, GiveUp, Idle, CallState
  <2>3. ~KeyLocator(j) /\ ~ReceiveInstallationToken(j)
    BY <1>0, <1>3 DEF KeyLocator, ReceiveInstallationToken, Idle, CallState
  <2>4. ~GetAppToken(j)
    BY <1>0, <1>3 DEF GetAppToken, Moves, CallState
  <2>5. CreateInstallationToken(j)
    BY <2>1, <2>2, <2>3, <2>4 DEF Call, Step
  <2> QED BY <1>0, <1>3, <2>5 DEF CreateInstallationToken, Moves, Idle, CallState
<1>4. \A i \in Job : job'[i].pc = "receiving" => AgesWell(job'[i].cred, grant, age.grant, TOKEN_LIFE)
  BY <1>2, <1>3 DEF AgeInv, AgesWell
<1>5. \A o \in Org : jwts'[o] # None => jwts'[o].late \/ AgesWell(jwts'[o], key, age.key, JWT_LIFE)
  <2>1. CASE GetAppToken(j)
    <3> DEFINE jwt == CreateAppJwt(job[j].of)
    <3>1. jwts' = IF job[j].org = None THEN jwts ELSE [jwts EXCEPT ![job[j].org] = jwt]
      BY <2>1 DEF GetAppToken
    <3>2. jwt.late \/ AgesWell(jwt, key, age.key, JWT_LIFE)
      BY DEF CreateAppJwt, AgesWell
    <3> HIDE DEF jwt
    <3>3. \A o \in Org : jwts'[o] = jwts[o] \/ jwts'[o] = jwt
      BY <3>1 DEF TypeInv, CachesOK
    <3> QED BY <3>2, <3>3 DEF AgeInv
  <2>2. CASE ~GetAppToken(j)
    <3>1. UNCHANGED jwts
      BY <2>2 DEF Call, Step, GetInstallationToken, CreateAppClient, KeyLocator,
         CreateInstallationToken, ReceiveInstallationToken, SendRequest, GiveUp
    <3> QED BY <3>1 DEF AgeInv
  <2> QED BY <2>1, <2>2
<1>6. \A o \in Org : AgesWell(tokens'[o], grant, age.grant, TOKEN_LIFE)
  <2>1. CASE ReceiveInstallationToken(j)
    <3>1. tokens' = [tokens EXCEPT ![job[j].org] = job[j].cred] /\ job[j].pc = "receiving"
      BY <2>1 DEF ReceiveInstallationToken
    <3>2. \A o \in Org : tokens'[o] = tokens[o] \/ tokens'[o] = job[j].cred
      BY <3>1 DEF TypeInv, CachesOK
    <3> QED BY <3>1, <3>2 DEF AgeInv
  <2>2. CASE ~ReceiveInstallationToken(j)
    <3>1. UNCHANGED tokens
      BY <2>2 DEF Call, Step, GetInstallationToken, CreateAppClient, KeyLocator, GetAppToken,
         CreateInstallationToken, SendRequest, GiveUp
    <3> QED BY <3>1 DEF AgeInv
  <2> QED BY <2>1, <2>2
<1>7. key' = key /\ grant' = grant /\ age' = age
  BY <1>1 DEF outside
<1> QED BY <1>4, <1>5, <1>6, <1>7 DEF AgeInv, AgesWell

LEMMA AgeOnTick ==
  ASSUME TypeInv, AgeInv, Tick
  PROVE  AgeInv'
<1>1. ASSUME NEW life \in Nat, NEW since \in 0..life, NEW current,
             NEW c \in Credential(life) \cup {None}, AgesWell(c, current, since, life)
      PROVE  AgesWell(Older(c), current, More(since, life), life)
  <2> SUFFICES ASSUME Older(c) # None, Older(c).of # current
               PROVE  Older(c).left + More(since, life) <= life
    BY DEF AgesWell
  <2>1. /\ c # None /\ c \in Credential(life)
        /\ Older(c).left = Less(c.left) /\ Older(c).of = c.of
    BY OlderFacts
  <2>2. c.left + since <= life /\ c.left \in Nat
    BY <1>1, <2>1 DEF AgesWell, Credential
  <2> QED BY <2>1, <2>2 DEF Less, More
<1>2. /\ age.key \in 0..JWT_LIFE /\ age.grant \in 0..TOKEN_LIFE
      /\ JWT_LIFE \in Nat /\ TOKEN_LIFE \in Nat
      /\ age'.key = More(age.key, JWT_LIFE) /\ age'.grant = More(age.grant, TOKEN_LIFE)
      /\ key' = key /\ grant' = grant
  BY LivesAssumption DEF Tick, TypeInv, CachesOK
<1>3. ASSUME NEW o \in Org, jwts'[o] # None, ~jwts'[o].late
      PROVE  AgesWell(jwts'[o], key', age'.key, JWT_LIFE)
  <2>1. jwts[o] \in Credential(JWT_LIFE) \cup {None} /\ jwts'[o] = Older(jwts[o])
    BY DEF TypeInv, CachesOK, Tick
  <2>2. jwts[o] # None /\ ~jwts[o].late
    BY <1>2, <1>3, <2>1, OlderFacts
  <2>3. AgesWell(jwts[o], key, age.key, JWT_LIFE)
    BY <2>2 DEF AgeInv
  <2> QED BY <1>1, <1>2, <2>1, <2>3
<1>4. ASSUME NEW o \in Org
      PROVE  AgesWell(tokens'[o], grant', age'.grant, TOKEN_LIFE)
  <2>1. tokens[o] \in Credential(TOKEN_LIFE) \cup {None} /\ tokens'[o] = Older(tokens[o])
    BY DEF TypeInv, CachesOK, Tick
  <2> QED BY <1>1, <1>2, <2>1 DEF AgeInv
<1>5. ASSUME NEW j \in Job, job'[j].pc = "receiving"
      PROVE  AgesWell(job'[j].cred, grant', age'.grant, TOKEN_LIFE)
  <2>1. job'[j] = Holding(job[j]) /\ CallOK(job[j])
    BY DEF Tick, TypeInv, CallsOK
  <2>2. /\ job[j].pc = "receiving"
        /\ job'[j].cred = Older(job[j].cred)
    BY <1>5, <2>1 DEF Holding, CallOK, CallState, Older
  <2>3. job[j].cred \in Credential(TOKEN_LIFE)
    BY <2>1, <2>2 DEF CallOK, HoldsOK
  <2> QED BY <1>1, <1>2, <2>2, <2>3 DEF AgeInv
<1> QED BY <1>3, <1>4, <1>5 DEF AgeInv, AgesWell

LEMMA AgeStep == TypeInv /\ AgeInv /\ [Next]_vars => AgeInv'
<1> SUFFICES ASSUME TypeInv, AgeInv, [Next]_vars PROVE AgeInv'
  OBVIOUS
<1>1. ASSUME NEW j \in Job, Call(j) \/ Step(j) PROVE AgeInv'
  BY <1>1, AgeOnStep
<1>2. ASSUME NEW o \in Org, Evict(o) PROVE AgeInv'
  BY <1>2 DEF Evict, outside, AgeInv, AgesWell, TypeInv, CachesOK
<1>3. ASSUME ReplaceKeyAtGitHub PROVE AgeInv'
  BY <1>3 DEF ReplaceKeyAtGitHub, AgeInv, AgesWell
<1>4. ASSUME UpdateGitHubApp PROVE AgeInv'
  <2>1. age'.key = 0 /\ age'.grant = age.grant
    BY <1>4 DEF UpdateGitHubApp, TypeInv, CachesOK
  <2>2. \A o \in Org : jwts[o] # None => jwts[o].left + 0 <= JWT_LIFE
    BY LivesAssumption DEF TypeInv, CachesOK, Credential
  <2>3. UNCHANGED <<grant, jwts, tokens, job>>
    BY <1>4 DEF UpdateGitHubApp
  <2> QED BY <2>1, <2>2, <2>3 DEF AgeInv, AgesWell
<1>5. ASSUME RevokeTokens PROVE AgeInv'
  <2>1. age'.grant = 0 /\ age'.key = age.key
    BY <1>5 DEF RevokeTokens, TypeInv, CachesOK
  <2>2. \A o \in Org : tokens[o] # None => tokens[o].left + 0 <= TOKEN_LIFE
    BY LivesAssumption DEF TypeInv, CachesOK, Credential
  <2>3. \A j \in Job : job[j].pc = "receiving" => job[j].cred.left + 0 <= TOKEN_LIFE
    BY LivesAssumption DEF TypeInv, CallsOK, CallOK, HoldsOK, Credential
  <2>4. UNCHANGED <<key, jwts, tokens, job>>
    BY <1>5 DEF RevokeTokens
  <2> QED BY <2>1, <2>2, <2>3, <2>4 DEF AgeInv, AgesWell
<1>6. ASSUME Tick PROVE AgeInv'
  BY <1>6, AgeOnTick
<1>7. ASSUME UNCHANGED vars PROVE AgeInv'
  BY <1>7 DEF vars, AgeInv, AgesWell
<1> QED BY <1>1, <1>2, <1>3, <1>4, <1>5, <1>6, <1>7 DEF Next

\* Nobody clears a cache when a key is replaced or tokens are revoked, and nobody has to:
\* what was signed or given before is no longer offered a life, less the margin, later.
THEOREM OldCredentialsDieOutEver == Spec => []OldCredentialsDieOut
<1>1. TypeInv /\ AgeInv => OldCredentialsDieOut
  <2> SUFFICES ASSUME TypeInv, AgeInv, NEW o \in Org
               PROVE  /\ Stale(jwts[o], key) => age.key + MARGIN <= JWT_LIFE \/ jwts[o].late
                      /\ Stale(tokens[o], grant) => age.grant + MARGIN <= TOKEN_LIFE
    BY DEF OldCredentialsDieOut
  <2>1. age.key \in Nat /\ age.grant \in Nat
    BY LivesAssumption DEF TypeInv, CachesOK
  <2>2. ASSUME Stale(jwts[o], key), ~jwts[o].late PROVE age.key + MARGIN <= JWT_LIFE
    <3>1. jwts[o] \in Credential(JWT_LIFE) /\ jwts[o].left >= MARGIN /\ jwts[o] # None
      BY <2>2, UsableFacts, LivesAssumption DEF Stale, TypeInv, CachesOK
    <3>2. jwts[o].left + age.key <= JWT_LIFE /\ jwts[o].left \in Nat
      BY <2>2, <3>1, LivesAssumption DEF Stale, AgeInv, AgesWell, Credential
    <3> QED BY <2>1, <3>1, <3>2, LivesAssumption
  <2>3. ASSUME Stale(tokens[o], grant) PROVE age.grant + MARGIN <= TOKEN_LIFE
    <3>1. tokens[o] \in Credential(TOKEN_LIFE) /\ tokens[o].left >= MARGIN /\ tokens[o] # None
      BY <2>3, UsableFacts, LivesAssumption DEF Stale, TypeInv, CachesOK
    <3>2. tokens[o].left + age.grant <= TOKEN_LIFE /\ tokens[o].left \in Nat
      BY <2>3, <3>1, LivesAssumption DEF Stale, AgeInv, AgesWell, Credential
    <3> QED BY <2>1, <3>1, <3>2, LivesAssumption
  <2> QED BY <2>2, <2>3
<1> QED BY <1>1, AgeInit, AgeStep, TypeAlways, PTL DEF Spec

-----------------------------------------------------------------------------
(* The session: ids that are free, and types. *)

\* A set of ids that is not empty has a least one.
LEMMA LeastId ==
  ASSUME NEW S \in SUBSET Nat, S # {}
  PROVE  Least(S) \in S
<1> DEFINE Below == OpToRel(<, Nat)
<1>1. IsWellFoundedOn(Below, Nat)
  BY NatLessThanWellFounded
<1>2. PICK x \in S : \A y \in S : ~(<<y, x>> \in Below)
  <2> HIDE DEF Below
  <2> QED BY <1>1, WFMin
<1>3. ASSUME NEW y \in S PROVE x <= y
  <2>1. ~(<<y, x>> \in Below)
    BY <1>2
  <2>2. ~(y < x)
    BY <2>1 DEF OpToRel
  <2> QED BY <2>2
<1> QED BY <1>3 DEF Least

LEMMA FreeIds ==
  /\ FreeStates # {} => Least(FreeStates) \in FreeStates /\ Least(FreeStates) \in StateKey
  /\ FreePairs # {} => Least(FreePairs) \in FreePairs /\ Least(FreePairs) \in Pair
BY LeastId, SessionAssumption DEF FreeStates, FreePairs

\* What the ids that are free are not.
LEMMA FreeFacts ==
  /\ FreeStates # {} =>
       LET k == Least(FreeStates) IN
         k \notin cookie.states /\ \A t \in Tab : k # tab[t].state /\ k \notin tab[t].seen.states
  /\ FreePairs # {} =>
       LET p == Least(FreePairs) IN
         p # cookie.pair /\ \A t \in Tab : p # tab[t].session.pair /\ p # tab[t].seen.pair
<1>1. cookie \in Sessions /\ \A t \in Tab : tab[t].session \in Sessions /\ tab[t].seen \in Sessions
  BY DEF Sessions
<1>2. ASSUME NEW s \in Sessions PROVE FreeStates \cap s.states = {} /\ s.pair \notin FreePairs
  BY DEF FreeStates, FreePairs
<1>3. ASSUME NEW t \in Tab PROVE tab[t].state \notin FreeStates
  <2>1. tab[t].state \in {tab[u].state : u \in Tab}
    OBVIOUS
  <2> QED BY <2>1 DEF FreeStates
<1> QED BY <1>1, <1>2, <1>3, FreeIds

LEMMA StillType == NoSession \in Session /\ Still \in TabState
BY DEF NoSession, Session, Still, TabState

LEMMA SessionTypeInit == SessionInit => SessionTypeOK
BY StillType, SessionAssumption DEF SessionInit, SessionTypeOK, PairState

\* The types of one tab suffice.
LEMMA TypedTab ==
  ASSUME SessionTypeOK, NEW t \in Tab, NEW s \in TabState, Becomes(t, s)
  PROVE  tab' \in [Tab -> TabState]
BY DEF SessionTypeOK, Becomes

LEMMA AnswersType ==
  ASSUME SessionTypeOK, NEW t \in Tab, NEW to \in {"served", "error", "reload", "consenting"},
         NEW session \in Session, Answers(t, to, session)
  PROVE  tab' \in [Tab -> TabState]
<1>1. tab[t] \in TabState
  BY DEF SessionTypeOK
<1>2. [tab[t] EXCEPT !.pc = "answered", !.to = to, !.session = session] \in TabState
  BY <1>1 DEF TabState
<1> QED BY <1>2, TypedTab DEF Answers

LEMMA BeginsType ==
  ASSUME SessionTypeOK, NEW t \in Tab, NEW server \in Server \cup {Undefined}, NEW get \in BOOLEAN,
         Begins(t, server, get)
  PROVE  tab' \in [Tab -> TabState]
<1>1. [Still EXCEPT !.pc = IF Checks(cookie, server) THEN "checking" ELSE "renewing",
                    !.server = server, !.get = get, !.seen = cookie, !.session = cookie] \in TabState
  BY StillType DEF TabState, SessionTypeOK
<1> QED BY <1>1, TypedTab DEF Begins

LEMMA LoginType ==
  ASSUME SessionTypeOK, NEW t \in Tab, LoginOrRefuse(t)
  PROVE  tab' \in [Tab -> TabState]
<1>0. tab[t] \in TabState /\ tab[t].session \in Session
  BY DEF SessionTypeOK, TabState
<1>1. CASE tab[t].get /\ FreeStates # {} /\ GithubOAuthLoginGet(t)
  <2> DEFINE mine == Least(FreeStates)
             session == AddsState(tab[t].session, mine)
  <2>1. mine \in StateKey
    BY <1>1, FreeIds
  <2>2. Becomes(t, [tab[t] EXCEPT !.pc = "answered", !.to = "consenting", !.state = mine,
                                  !.session = session])
    BY <1>1 DEF GithubOAuthLoginGet
  <2> HIDE DEF mine
  <2>3. session \in Session
    BY <1>0, <2>1 DEF Session, AddsState
  <2> HIDE DEF session
  <2>4. [tab[t] EXCEPT !.pc = "answered", !.to = "consenting", !.state = mine,
                       !.session = session] \in TabState
    BY <1>0, <2>1, <2>3 DEF TabState
  <2> QED BY <2>2, <2>4, TypedTab
<1>2. CASE ~tab[t].get /\ Answers(t, "error", tab[t].session)
  BY <1>0, <1>2, AnswersType
<1> QED BY <1>1, <1>2 DEF LoginOrRefuse

LEMMA SessionTypeStep == SessionTypeOK /\ [SessionNext]_sessionVars => SessionTypeOK'
<1> SUFFICES ASSUME SessionTypeOK, [SessionNext]_sessionVars PROVE SessionTypeOK'
  OBVIOUS
<1> DEFINE BudgetOK == budget' \in [visits : 0..MaxVisits, faults : 0..MaxFaults]
<1>0. /\ \A t \in Tab : /\ tab[t] \in TabState
                        /\ tab[t].session \in Session /\ tab[t].seen \in Session
      /\ (Visit \/ Fault \/ UNCHANGED budget) => BudgetOK
  BY SessionAssumption DEF SessionTypeOK, TabState, Visit, Fault
<1>1. ASSUME NEW t \in Tab, NEW s \in Server, NEW get \in BOOLEAN, GithubAuthMiddleware(t, s, get)
      PROVE  SessionTypeOK'
  BY <1>0, <1>1, BeginsType DEF SessionTypeOK, GithubAuthMiddleware
<1>2. ASSUME NEW t \in Tab, NEW s \in Server, ResetGithubToken(t, s) PROVE SessionTypeOK'
  <2>1. [cookie EXCEPT !.pair = Undefined] \in Session
    BY DEF SessionTypeOK, Session
  <2>2. tab' \in [Tab -> TabState]
    <3>1. [Still EXCEPT !.pc = "answered", !.to = "reload", !.server = s,
                        !.seen = cookie, !.session = [cookie EXCEPT !.pair = Undefined]] \in TabState
      BY <2>1, StillType DEF SessionTypeOK, TabState
    <3> QED BY <1>2, <3>1, TypedTab DEF ResetGithubToken
  <2> QED BY <1>0, <1>2, <2>2 DEF ResetGithubToken, SessionTypeOK
<1>3. ASSUME NEW t \in Tab, CheckGitHubToken(t) PROVE SessionTypeOK'
  <2>1. tab' \in [Tab -> TabState]
    <3>1. CASE Answers(t, "served", tab[t].session)
      BY <1>0, <3>1, AnswersType
    <3>2. CASE Becomes(t, [tab[t] EXCEPT !.pc = "renewing"])
      <4>1. [tab[t] EXCEPT !.pc = "renewing"] \in TabState
        BY <1>0 DEF TabState
      <4> QED BY <3>2, <4>1, TypedTab
    <3> QED BY <1>3, <3>1, <3>2 DEF CheckGitHubToken
  <2>2. BudgetOK
    BY <1>0, <1>3 DEF CheckGitHubToken
  <2> QED BY <1>3, <2>1, <2>2 DEF CheckGitHubToken, SessionTypeOK
<1>4. ASSUME NEW t \in Tab, RenewGitHubToken(t) PROVE SessionTypeOK'
  <2> DEFINE old == tab[t].session.pair
             new == Least(FreePairs)
  <2>1. /\ LoginOrRefuse(t) => tab' \in [Tab -> TabState]
        /\ history' \in {history, [history EXCEPT !.lost = TRUE]}
        /\ BudgetOK
    BY <1>0, <1>4, LoginType DEF RenewGitHubToken
  <2>2. ASSUME FreePairs # {}, Answers(t, "served", KeepsRenewed(tab[t].session, new))
        PROVE  tab' \in [Tab -> TabState]
    <3>1. KeepsRenewed(tab[t].session, new) \in Session
      BY <1>0, <2>2, FreeIds DEF KeepsRenewed, Session
    <3> QED BY <2>2, <3>1, AnswersType
  <2>3. tab' \in [Tab -> TabState]
    BY <1>4, <2>1, <2>2 DEF RenewGitHubToken
  <2>4. \/ UNCHANGED github
        \/ /\ FreePairs # {} /\ old # Undefined
           /\ github' = [github EXCEPT ![new] = github[old], ![old] = Taken(@)]
    BY <1>4 DEF RenewGitHubToken
  <2>5. github' \in [Pair -> PairState]
    <3>1. CASE UNCHANGED github
      BY <3>1 DEF SessionTypeOK
    <3>2. CASE /\ FreePairs # {} /\ old # Undefined
               /\ github' = [github EXCEPT ![new] = github[old], ![old] = Taken(@)]
      <4>1. old \in Pair /\ new \in Pair
        BY <1>0, <3>2, FreeIds DEF Session
      <4>2. github[old] \in PairState /\ Taken(github[old]) \in PairState
        <5>1. github[old] \in PairState
          BY <4>1 DEF SessionTypeOK
        <5> QED BY <5>1 DEF PairState, Taken
      <4> HIDE DEF old, new
      <4> QED BY <3>2, <4>1, <4>2 DEF SessionTypeOK
    <3> QED BY <2>4, <3>1, <3>2
  <2> QED BY <1>4, <2>1, <2>3, <2>5 DEF RenewGitHubToken, SessionTypeOK
<1>5. ASSUME NEW t \in Tab, GithubOAuthCallbackGet(t) PROVE SessionTypeOK'
  <2>1. TakesState(cookie, tab[t].state) \in Session
    BY DEF SessionTypeOK, Session, TakesState
  <2>2. CASE Becomes(t, [tab[t] EXCEPT
            !.pc = IF tab[t].state \in cookie.states THEN "exchanging" ELSE "answered",
            !.to = "error",
            !.seen = cookie,
            !.session = TakesState(cookie, tab[t].state)]) /\ UNCHANGED <<budget, history>>
    <3>1. [tab[t] EXCEPT
            !.pc = IF tab[t].state \in cookie.states THEN "exchanging" ELSE "answered",
            !.to = "error",
            !.seen = cookie,
            !.session = TakesState(cookie, tab[t].state)] \in TabState
      <4>1. (IF tab[t].state \in cookie.states THEN "exchanging" ELSE "answered")
              \in {"exchanging", "answered"} /\ cookie \in Session
        BY DEF SessionTypeOK
      <4> QED BY <1>0, <2>1, <4>1 DEF TabState
    <3>2. tab' \in [Tab -> TabState]
      BY <2>2, <3>1, TypedTab
    <3> QED BY <1>0, <1>5, <2>2, <3>2 DEF GithubOAuthCallbackGet, SessionTypeOK
  <2>3. CASE /\ Fault
             /\ Becomes(t, [tab[t] EXCEPT !.pc = "answered", !.to = "error",
                                          !.seen = cookie, !.session = cookie])
             /\ history' = [history EXCEPT !.denied = @ \cup {tab[t].state}]
    <3>1. [tab[t] EXCEPT !.pc = "answered", !.to = "error",
                         !.seen = cookie, !.session = cookie] \in TabState
      BY <1>0 DEF SessionTypeOK, TabState
    <3>2. tab' \in [Tab -> TabState]
      BY <2>3, <3>1, TypedTab
    <3>3. tab[t].state \in StateKey \cup {Undefined}
      BY <1>0 DEF TabState
    <3> QED BY <1>0, <1>5, <2>3, <3>2, <3>3 DEF GithubOAuthCallbackGet, SessionTypeOK
  <2> QED BY <1>5, <2>2, <2>3 DEF GithubOAuthCallbackGet
<1>6. ASSUME NEW t \in Tab, FinishOAuthFlow(t) PROVE SessionTypeOK'
  <2> DEFINE new == Least(FreePairs)
  <2>1. CASE Answers(t, "error", tab[t].session) /\ UNCHANGED github
    BY <1>0, <1>6, <2>1, AnswersType DEF FinishOAuthFlow, SessionTypeOK
  <2>2. CASE /\ FreePairs # {}
             /\ \E refresh \in {"good", "none"} : github' = [github EXCEPT
                  ![new] = [server |-> tab[t].server, access |-> TRUE, refresh |-> refresh]]
             /\ Answers(t, "reload", PopulateSession(tab[t].session, new, tab[t].server))
    <3>1. new \in Pair /\ tab[t].server \in Server \cup {Undefined}
      BY <1>0, <2>2, FreeIds DEF TabState
    <3> HIDE DEF new
    <3>2. PopulateSession(tab[t].session, new, tab[t].server) \in Session
      BY <1>0, <3>1 DEF PopulateSession, Session
    <3>3. github' \in [Pair -> PairState]
      BY <2>2, <3>1 DEF SessionTypeOK, PairState
    <3>4. tab' \in [Tab -> TabState]
      BY <2>2, <3>2, AnswersType
    <3> QED BY <1>0, <1>6, <3>3, <3>4 DEF FinishOAuthFlow, SessionTypeOK
  <2> QED BY <1>6, <2>1, <2>2 DEF FinishOAuthFlow
<1>7. ASSUME NEW t \in Tab, Respond(t) PROVE SessionTypeOK'
  <2>1. PICK s : /\ Becomes(t, s)
                 /\ s \in {[Still EXCEPT !.pc = "consenting", !.server = tab[t].server,
                                         !.state = tab[t].state],
                           [Still EXCEPT !.pc = "reload", !.server = tab[t].server], Still}
    BY <1>7 DEF Respond
  <2>2. s \in TabState
    BY <1>0, <2>1, StillType DEF TabState
  <2>3. tab' \in [Tab -> TabState]
    BY <2>1, <2>2, TypedTab
  <2>4. cookie' \in Session
    BY <1>0, <1>7 DEF Respond, SetCookie, SessionTypeOK
  <2> QED BY <1>7, <2>3, <2>4 DEF Respond, SessionTypeOK
<1>8. ASSUME NEW t \in Tab, Reload(t) PROVE SessionTypeOK'
  <2>1. tab[t].server \in Server \cup {Undefined}
    BY <1>0 DEF TabState
  <2> QED BY <1>8, <2>1, BeginsType DEF SessionTypeOK, Reload
<1>9. ASSUME NEW p \in Pair, TokenEnds(p) PROVE SessionTypeOK'
  <2>1. PICK refresh \in {"none", github[p].refresh} :
          github' = [github EXCEPT ![p] = [@ EXCEPT !.access = FALSE, !.refresh = refresh]]
    BY <1>9 DEF TokenEnds
  <2>2. [github[p] EXCEPT !.access = FALSE, !.refresh = refresh] \in PairState
    <3>1. github[p] \in PairState
      BY DEF SessionTypeOK
    <3> QED BY <3>1 DEF PairState
  <2>3. github' \in [Pair -> PairState]
    BY <2>1, <2>2 DEF SessionTypeOK
  <2> QED BY <1>0, <1>9, <2>3 DEF SessionTypeOK, TokenEnds
<1>10. CASE UNCHANGED sessionVars
  BY <1>10 DEF sessionVars, SessionTypeOK
<1> QED BY <1>1, <1>2, <1>3, <1>4, <1>5, <1>6, <1>7, <1>8, <1>9, <1>10 DEF SessionNext, Request

\* The types of the session, the tabs, the pairs and what is left of the bounds, for any
\* tabs, servers and ids of pairs and states (github-oauth.ts).
THEOREM SessionsAreTyped == SessionSpec => []SessionTypeOK
<1> QED BY SessionTypeInit, SessionTypeStep, PTL DEF SessionSpec
-----------------------------------------------------------------------------
(* States. *)

\* What the session of a request has to do with the one it read: its own state was taken
\* out or put in, or none was touched.
StateOf(r) ==
  CASE r.pc \in {"checking", "renewing"} -> r.state = Undefined /\ r.session.states = r.seen.states
    [] r.pc = "consenting" -> r.state \in StateKey
    [] r.pc = "exchanging" ->
         r.state \in r.seen.states /\ r.session.states = r.seen.states \ {r.state}
    [] r.pc = "answered" /\ r.to = "consenting" ->
         /\ r.state \in StateKey \ r.seen.states
         /\ r.session.states = r.seen.states \cup {r.state}
    [] r.pc = "answered" /\ r.to # "consenting" ->
         \/ r.state = Undefined /\ r.session.states = r.seen.states
         \/ r.state \in r.seen.states /\ r.session.states = r.seen.states \ {r.state}
         \/ r.state \in history.denied /\ r.session.states = r.seen.states
    [] OTHER -> r.state = Undefined

\* No two tabs have one state.
OwnStates == \A t, u \in Tab : t # u /\ tab[t].state = tab[u].state => tab[t].state = Undefined

Awaited == \A t \in Tab : tab[t].pc = "consenting" => tab[t].state \in cookie.states
Remembered == \A k \in cookie.states : k \in history.denied \/ \E t \in Tab : tab[t].state = k

StatesInv ==
  /\ OwnStates
  /\ history.overlapped \/ ((\A t \in Tab : StateOf(tab[t])) /\ Awaited /\ Remembered)

LEMMA StatesInit == SessionInit => StatesInv
BY DEF SessionInit, StatesInv, OwnStates, Awaited, Remembered, StateOf, Still, NoSession

\* A request moves within the app: its tab keeps its state, or has a new one that nobody
\* has, and the cookie stays.
LEMMA StatesKept ==
  ASSUME SessionTypeOK, StatesInv, NEW t \in Tab, NEW s, Becomes(t, s), cookie' = cookie,
         history'.overlapped = history.overlapped, history.denied \subseteq history'.denied,
         \/ s.state \in {tab[t].state, Undefined}
         \/ s.state \in FreeStates,
         history.overlapped \/
           /\ StateOf(s)'
           /\ s.pc = "consenting" => tab[t].pc = "consenting" /\ s.state = tab[t].state
           /\ tab[t].state \notin {s.state, Undefined} =>
                tab[t].state \notin cookie.states \/ tab[t].state \in history'.denied
  PROVE  StatesInv'
<1>1. tab'[t] = s /\ \A u \in Tab \ {t} : tab'[u] = tab[u]
  BY DEF SessionTypeOK, Becomes
<1>2. \A u \in Tab : tab[u].state \notin FreeStates
  BY DEF FreeStates
<1>3. OwnStates'
  BY <1>1, <1>2 DEF StatesInv, OwnStates
<1>4. ASSUME ~history.overlapped PROVE \A u \in Tab : StateOf(tab[u])'
  BY <1>1, <1>4 DEF StatesInv, StateOf
<1>5. ASSUME ~history.overlapped PROVE Awaited'
  BY <1>1, <1>5 DEF StatesInv, Awaited
<1>6. ASSUME ~history.overlapped PROVE Remembered'
  <2>1. ASSUME NEW k \in cookie.states, k \notin history'.denied PROVE \E u \in Tab : tab'[u].state = k
    <3>1. PICK u \in Tab : tab[u].state = k
      BY <1>6, <2>1 DEF StatesInv, Remembered
    <3>2. k # Undefined
      BY SessionAssumption DEF SessionTypeOK, Session
    <3> QED BY <1>1, <1>6, <2>1, <3>1, <3>2
  <2> QED BY <2>1 DEF Remembered
<1> QED BY <1>3, <1>4, <1>5, <1>6 DEF StatesInv

\* What a session's states become.
LEMMA LoginFacts ==
  ASSUME SessionTypeOK, NEW t \in Tab, LoginOrRefuse(t)
  PROVE  \E s : /\ Becomes(t, s) /\ s.pc = "answered" /\ s.seen = tab[t].seen
                /\ s.session.pair = tab[t].session.pair
                /\ \/ /\ s.to = "consenting" /\ s.state \in FreeStates
                      /\ s.session.states = tab[t].session.states \cup {s.state}
                   \/ s.to = "error" /\ s.state = tab[t].state /\ s.session = tab[t].session
<1>0. tab[t] \in TabState /\ tab[t].session \in Session
  BY DEF SessionTypeOK, TabState
<1>1. CASE tab[t].get /\ FreeStates # {} /\ GithubOAuthLoginGet(t)
  <2> DEFINE mine == Least(FreeStates)
             session == AddsState(tab[t].session, mine)
             s == [tab[t] EXCEPT !.pc = "answered", !.to = "consenting", !.state = mine,
                                 !.session = session]
  <2>1. mine \in FreeStates
    BY <1>1, FreeIds
  <2>2. Becomes(t, s)
    BY <1>1 DEF GithubOAuthLoginGet
  <2> HIDE DEF mine
  <2>3. session.states = tab[t].session.states \cup {mine} /\ session.pair = tab[t].session.pair
    BY <1>0 DEF AddsState, Session
  <2> HIDE DEF session
  <2>4. /\ s.pc = "answered" /\ s.to = "consenting" /\ s.state = mine /\ s.seen = tab[t].seen
        /\ s.session = session
    BY <1>0 DEF TabState
  <2> HIDE DEF s
  <2> QED BY <2>1, <2>2, <2>3, <2>4
<1>2. CASE ~tab[t].get /\ Answers(t, "error", tab[t].session)
  <2> DEFINE s == [tab[t] EXCEPT !.pc = "answered", !.to = "error", !.session = tab[t].session]
  <2>1. Becomes(t, s)
    BY <1>2 DEF Answers
  <2>2. /\ s.pc = "answered" /\ s.to = "error" /\ s.state = tab[t].state /\ s.seen = tab[t].seen
        /\ s.session = tab[t].session
    BY <1>0 DEF TabState
  <2> HIDE DEF s
  <2> QED BY <2>1, <2>2
<1> QED BY <1>1, <1>2 DEF LoginOrRefuse

\* An answer as the other requests give it.
LEMMA AnswersFacts ==
  ASSUME SessionTypeOK, NEW t \in Tab, NEW to, NEW session, Answers(t, to, session)
  PROVE  \E s : /\ Becomes(t, s) /\ s.pc = "answered" /\ s.to = to /\ s.session = session
                /\ s.seen = tab[t].seen /\ s.state = tab[t].state
<1> DEFINE s == [tab[t] EXCEPT !.pc = "answered", !.to = to, !.session = session]
<1>1. Becomes(t, s)
  BY DEF Answers
<1>2. /\ s.pc = "answered" /\ s.to = to /\ s.state = tab[t].state /\ s.seen = tab[t].seen
      /\ s.session = session
  BY DEF SessionTypeOK, TabState
<1> HIDE DEF s
<1> QED BY <1>1, <1>2

LEMMA BeginsFacts ==
  ASSUME SessionTypeOK, NEW t \in Tab, NEW server, NEW get, Begins(t, server, get)
  PROVE  \E s : /\ Becomes(t, s) /\ s.pc \in {"checking", "renewing"} /\ s.state = Undefined
                /\ s.to = "nowhere" /\ s.session = cookie /\ s.seen = cookie
<1> DEFINE s == [Still EXCEPT !.pc = IF Checks(cookie, server) THEN "checking" ELSE "renewing",
                              !.server = server, !.get = get, !.seen = cookie, !.session = cookie]
<1>1. Becomes(t, s)
  BY DEF Begins
<1>2. /\ s.pc \in {"checking", "renewing"} /\ s.state = Undefined
      /\ s.to = "nowhere" /\ s.session = cookie /\ s.seen = cookie
  BY DEF Still
<1> HIDE DEF s
<1> QED BY <1>1, <1>2

LEMMA StatesRespond ==
  ASSUME SessionTypeOK, StatesInv, NEW t \in Tab, Respond(t)
  PROVE  StatesInv'
<1> DEFINE r == tab[t]
<1>0. /\ r \in TabState /\ r.session \in Session /\ r.seen \in Session /\ cookie \in Session
      /\ \A k \in cookie.states : k # Undefined
  BY SessionAssumption DEF SessionTypeOK, TabState, Session
<1>1. PICK s : /\ Becomes(t, s) /\ s.pc \in {"consenting", "reload", "still"}
               /\ s.pc = "consenting" => r.to = "consenting" /\ s.state = r.state
               /\ s.pc # "consenting" => s.state = Undefined
               /\ r.to = "consenting" => s.pc = "consenting"
  <2> DEFINE waits == [Still EXCEPT !.pc = "consenting", !.server = tab[t].server, !.state = tab[t].state]
             again == [Still EXCEPT !.pc = "reload", !.server = tab[t].server]
  <2>1. /\ waits.pc = "consenting" /\ waits.state = r.state
        /\ again.pc = "reload" /\ again.state = Undefined
        /\ Still.pc = "still" /\ Still.state = Undefined
    BY DEF Still
  <2>2. Becomes(t, CASE r.to = "consenting" -> waits [] r.to = "reload" -> again [] OTHER -> Still)
    BY DEF Respond
  <2> HIDE DEF r, waits, again
  <2>3. CASE r.to = "consenting"
    BY <2>1, <2>2, <2>3
  <2>4. CASE r.to = "reload"
    BY <2>1, <2>2, <2>4
  <2>5. CASE r.to \notin {"consenting", "reload"}
    BY <2>1, <2>2, <2>5
  <2> QED BY <2>3, <2>4, <2>5
<1>2. tab'[t] = s /\ \A u \in Tab \ {t} : tab'[u] = tab[u]
  BY <1>1 DEF SessionTypeOK, Becomes
<1>3. OwnStates'
  BY <1>1, <1>2 DEF StatesInv, OwnStates
<1>4. /\ r.pc = "answered" /\ cookie' = IF r.session = r.seen THEN cookie ELSE r.session
      /\ history'.denied = history.denied
      /\ ~history'.overlapped =>
           /\ ~history.overlapped
           /\ r.session = r.seen \/ cookie = r.seen
  BY DEF Respond, SetCookie, SessionTypeOK
<1> HIDE DEF r
<1>5. ASSUME ~history'.overlapped
      PROVE  (\A u \in Tab : StateOf(tab[u])') /\ Awaited' /\ Remembered'
  <2>1. ~history.overlapped /\ StateOf(r) /\ (\A u \in Tab : StateOf(tab[u])) /\ Awaited /\ Remembered
    BY <1>4, <1>5 DEF StatesInv, r
  <2>2. StateOf(s)'
    <3>1. r.to = "consenting" => r.state \in StateKey
      BY <1>4, <2>1 DEF StateOf
    <3> QED BY <1>1, <3>1 DEF StateOf
  <2>3. \A u \in Tab : StateOf(tab[u])'
    BY <1>2, <1>4, <2>1, <2>2 DEF StateOf
  <2>4. \/ /\ r.to = "consenting" /\ r.state \in StateKey /\ r.state \notin cookie.states
           /\ cookie'.states = cookie.states \cup {r.state}
        \/ /\ r.to # "consenting" /\ r.state # Undefined /\ r.state \notin history.denied
           /\ cookie'.states = cookie.states \ {r.state}
        \/ /\ r.to # "consenting" /\ (r.state = Undefined \/ r.state \in history.denied)
           /\ cookie'.states \in {cookie.states, cookie.states \ {r.state}}
    <3>1. r.seen.states \subseteq StateKey
      BY <1>0 DEF Session
    <3>2. \/ /\ r.to = "consenting" /\ r.state \in StateKey \ r.seen.states
             /\ r.session.states = r.seen.states \cup {r.state}
          \/ /\ r.to # "consenting" /\ r.state = Undefined /\ r.session.states = r.seen.states
          \/ /\ r.to # "consenting" /\ r.state \in r.seen.states
             /\ r.session.states = r.seen.states \ {r.state}
          \/ /\ r.to # "consenting" /\ r.state \in history.denied /\ r.session.states = r.seen.states
      BY <1>4, <2>1 DEF StateOf
    <3>3. r.session = r.seen => r.session.states = r.seen.states
      OBVIOUS
    <3>4. CASE r.session = r.seen
      BY <1>4, <3>2, <3>3, <3>4
    <3>5. CASE r.session # r.seen
      <4>1. cookie = r.seen /\ cookie' = r.session
        BY <1>4, <1>5, <3>5
      <4> QED BY <3>1, <3>2, <4>1, SessionAssumption
    <3> QED BY <3>4, <3>5
  <2>5. Awaited'
    <3>1. ASSUME NEW u \in Tab, tab'[u].pc = "consenting" PROVE tab'[u].state \in cookie'.states
      <4>1. CASE u = t
        BY <1>1, <1>2, <2>4, <3>1, <4>1
      <4>2. CASE u # t
        <5>1. tab[u].state \in cookie.states /\ tab[u].state # Undefined
          BY <1>0, <1>2, <2>1, <3>1, <4>2 DEF Awaited
        <5>2. tab[u].state # r.state
          BY <4>2, <5>1 DEF StatesInv, OwnStates, r
        <5> QED BY <1>2, <2>4, <4>2, <5>1, <5>2
      <4> QED BY <4>1, <4>2
    <3> QED BY <3>1 DEF Awaited
  <2>6. Remembered'
    <3>1. ASSUME NEW k \in cookie'.states, k \notin history.denied
          PROVE  \E u \in Tab : tab'[u].state = k
      <4>1. CASE k \in cookie.states
        <5>1. PICK u \in Tab : tab[u].state = k
          BY <2>1, <3>1, <4>1 DEF Remembered
        <5>2. k # Undefined
          BY <1>0, <4>1
        <5>3. u = t => r.to = "consenting"
          BY <2>4, <3>1, <5>1, <5>2 DEF r
        <5> QED BY <1>1, <1>2, <5>1, <5>3 DEF r
      <4>2. CASE k \notin cookie.states
        BY <1>1, <1>2, <2>4, <3>1, <4>2
      <4> QED BY <4>1, <4>2
    <3> QED BY <1>4, <3>1 DEF Remembered
  <2> QED BY <2>3, <2>5, <2>6
<1> QED BY <1>3, <1>5 DEF StatesInv

LEMMA StatesStep == SessionTypeOK /\ StatesInv /\ [SessionNext]_sessionVars => StatesInv'
<1> SUFFICES ASSUME SessionTypeOK, StatesInv, [SessionNext]_sessionVars PROVE StatesInv'
  OBVIOUS
<1>0. /\ \A t \in Tab : /\ tab[t] \in TabState /\ tab[t].session \in Session
      /\ cookie \in Session /\ \A k \in cookie.states : k # Undefined
      /\ FreeStates \subseteq StateKey /\ FreeStates \cap cookie.states = {}
      /\ \A t \in Tab : FreeStates \cap tab[t].seen.states = {}
  <2>1. cookie \in Sessions /\ \A t \in Tab : tab[t].seen \in Sessions
    BY DEF Sessions
  <2>2. \A s \in Sessions : FreeStates \cap s.states = {}
    BY DEF FreeStates
  <2>3. FreeStates \subseteq StateKey
    BY DEF FreeStates
  <2>4. /\ \A t \in Tab : tab[t] \in TabState /\ tab[t].session \in Session
        /\ cookie \in Session /\ \A k \in cookie.states : k # Undefined
    BY SessionAssumption DEF SessionTypeOK, TabState, Session
  <2> QED BY <2>1, <2>2, <2>3, <2>4
<1>1. ASSUME NEW t \in Tab, NEW s \in Server, NEW get \in BOOLEAN, GithubAuthMiddleware(t, s, get)
      PROVE  StatesInv'
  <2>1. /\ tab[t].pc = "still" /\ Begins(t, s, get) /\ UNCHANGED <<cookie, history>>
    BY <1>1 DEF GithubAuthMiddleware
  <2>2. PICK r : /\ Becomes(t, r) /\ r.pc \in {"checking", "renewing"} /\ r.state = Undefined
                 /\ r.session = cookie /\ r.seen = cookie
    BY <2>1, BeginsFacts
  <2>3. history.overlapped \/ tab[t].state = Undefined
    BY <2>1 DEF StatesInv, StateOf
  <2> QED BY <2>1, <2>2, <2>3, StatesKept DEF StateOf
<1>2. ASSUME NEW t \in Tab, NEW s \in Server, ResetGithubToken(t, s) PROVE StatesInv'
  <2>1. tab[t].pc = "still" /\ UNCHANGED <<cookie, history>>
    BY <1>2 DEF ResetGithubToken
  <2>2. PICK r : /\ Becomes(t, r) /\ r.pc = "answered" /\ r.to = "reload" /\ r.state = Undefined
                 /\ r.session.states = cookie.states /\ r.seen = cookie
    <3> DEFINE r == [Still EXCEPT !.pc = "answered", !.to = "reload", !.server = s,
                                  !.seen = cookie, !.session = [cookie EXCEPT !.pair = Undefined]]
    <3>1. Becomes(t, r)
      BY <1>2 DEF ResetGithubToken
    <3>2. [cookie EXCEPT !.pair = Undefined].states = cookie.states
      BY <1>0 DEF Session
    <3>3. /\ r.pc = "answered" /\ r.to = "reload" /\ r.state = Undefined
          /\ r.session = [cookie EXCEPT !.pair = Undefined] /\ r.seen = cookie
      BY DEF Still
    <3> HIDE DEF r
    <3> QED BY <3>1, <3>2, <3>3
  <2>3. history.overlapped \/ tab[t].state = Undefined
    BY <2>1 DEF StatesInv, StateOf
  <2> QED BY <2>1, <2>2, <2>3, StatesKept DEF StateOf
<1>3. ASSUME NEW t \in Tab, CheckGitHubToken(t) PROVE StatesInv'
  <2>1. tab[t].pc = "checking" /\ UNCHANGED <<cookie, history>>
    BY <1>3 DEF CheckGitHubToken
  <2>2. PICK r : /\ Becomes(t, r) /\ r.state = tab[t].state /\ r.session = tab[t].session
                 /\ r.seen = tab[t].seen
                 /\ (r.pc = "answered" /\ r.to = "served") \/ r.pc = "renewing"
    <3>1. CASE Answers(t, "served", tab[t].session)
      BY <3>1, AnswersFacts
    <3>2. CASE Becomes(t, [tab[t] EXCEPT !.pc = "renewing"])
      BY <1>0, <3>2 DEF TabState
    <3> QED BY <1>3, <3>1, <3>2 DEF CheckGitHubToken
  <2>3. history.overlapped \/ (tab[t].state = Undefined /\ tab[t].session.states = tab[t].seen.states)
    BY <2>1 DEF StatesInv, StateOf
  <2>4. history.overlapped \/ StateOf(r)'
    BY <2>1, <2>2, <2>3 DEF StateOf
  <2>5. r.pc # "consenting"
    BY <2>2
  <2> QED BY <2>1, <2>2, <2>4, <2>5, StatesKept
<1>4. ASSUME NEW t \in Tab, RenewGitHubToken(t) PROVE StatesInv'
  <2> DEFINE new == Least(FreePairs)
  <2>1. /\ tab[t].pc = "renewing" /\ UNCHANGED cookie
        /\ history'.overlapped = history.overlapped /\ history'.denied = history.denied
    BY <1>4 DEF RenewGitHubToken, SessionTypeOK
  <2>2. PICK r : /\ Becomes(t, r) /\ r.pc = "answered" /\ r.seen = tab[t].seen
                 /\ \/ /\ r.to = "consenting" /\ r.state \in FreeStates
                       /\ r.session.states = tab[t].session.states \cup {r.state}
                    \/ /\ r.to # "consenting" /\ r.state = tab[t].state
                       /\ r.session.states = tab[t].session.states
    <3>1. CASE Answers(t, "served", KeepsRenewed(tab[t].session, new))
      <4>1. KeepsRenewed(tab[t].session, new).states = tab[t].session.states
        BY <1>0 DEF KeepsRenewed, Session
      <4> HIDE DEF new
      <4> QED BY <3>1, <4>1, AnswersFacts
    <3>2. CASE LoginOrRefuse(t)
      BY <3>2, LoginFacts
    <3> QED BY <1>4, <3>1, <3>2 DEF RenewGitHubToken
  <2>3. history.overlapped \/ (tab[t].state = Undefined /\ tab[t].session.states = tab[t].seen.states)
    BY <2>1 DEF StatesInv, StateOf
  <2>4. FreeStates \cap tab[t].seen.states = {} /\ FreeStates \subseteq StateKey
    BY <1>0
  <2>5. history.overlapped \/ StateOf(r)'
    BY <2>1, <2>2, <2>3, <2>4 DEF StateOf
  <2> QED BY <2>1, <2>2, <2>3, <2>5, StatesKept
<1>5. ASSUME NEW t \in Tab, GithubOAuthCallbackGet(t) PROVE StatesInv'
  <2> DEFINE mine == tab[t].state
  <2>1. tab[t].pc = "consenting" /\ UNCHANGED cookie
    BY <1>5 DEF GithubOAuthCallbackGet
  <2>2. history.overlapped \/ (mine \in StateKey /\ mine \in cookie.states)
    BY <2>1 DEF StatesInv, StateOf, Awaited
  <2>3. CASE /\ Becomes(t, [tab[t] EXCEPT
                !.pc = IF tab[t].state \in cookie.states THEN "exchanging" ELSE "answered",
                !.to = "error",
                !.seen = cookie,
                !.session = TakesState(cookie, tab[t].state)])
             /\ UNCHANGED history
    <3>1. PICK r : /\ Becomes(t, r) /\ r.state = mine /\ r.seen = cookie /\ r.to = "error"
                   /\ r.session = TakesState(cookie, mine)
                   /\ r.pc \in {"exchanging", "answered"}
                   /\ mine \in cookie.states => r.pc = "exchanging"
      <4> DEFINE r == [tab[t] EXCEPT
                !.pc = IF tab[t].state \in cookie.states THEN "exchanging" ELSE "answered",
                !.to = "error",
                !.seen = cookie,
                !.session = TakesState(cookie, tab[t].state)]
      <4>1. /\ r.state = mine /\ r.seen = cookie /\ r.to = "error"
            /\ r.session = TakesState(cookie, mine)
            /\ r.pc = IF mine \in cookie.states THEN "exchanging" ELSE "answered"
        BY <1>0 DEF TabState
      <4>2. Becomes(t, r)
        BY <2>3
      <4> HIDE DEF r
      <4> QED BY <4>1, <4>2
    <3>2. TakesState(cookie, mine).states = cookie.states \ {mine}
      BY <1>0 DEF TakesState, Session
    <3> HIDE DEF mine
    <3>3. history.overlapped \/ StateOf(r)'
      BY <2>2, <3>1, <3>2 DEF StateOf
    <3>4. r.pc # "consenting" /\ r.state = tab[t].state
      BY <3>1 DEF mine
    <3> QED BY <2>1, <2>3, <3>1, <3>3, <3>4, StatesKept
  <2>4. CASE /\ Becomes(t, [tab[t] EXCEPT !.pc = "answered", !.to = "error",
                                          !.seen = cookie, !.session = cookie])
             /\ history' = [history EXCEPT !.denied = @ \cup {tab[t].state}]
    <3>1. PICK r : /\ Becomes(t, r) /\ r.state = mine /\ r.seen = cookie /\ r.to = "error"
                   /\ r.session = cookie /\ r.pc = "answered"
      <4> DEFINE r == [tab[t] EXCEPT !.pc = "answered", !.to = "error",
                                     !.seen = cookie, !.session = cookie]
      <4>1. r.state = mine /\ r.seen = cookie /\ r.to = "error" /\ r.session = cookie /\ r.pc = "answered"
        BY <1>0 DEF TabState
      <4>2. Becomes(t, r)
        BY <2>4
      <4> HIDE DEF r
      <4> QED BY <4>1, <4>2
    <3>2. history'.overlapped = history.overlapped /\ history'.denied = history.denied \cup {mine}
      BY <2>4 DEF SessionTypeOK
    <3>3. r.pc # "consenting" /\ r.state = tab[t].state
      BY <3>1
    <3> HIDE DEF mine
    <3>4. StateOf(r)'
      BY <3>1, <3>2 DEF StateOf
    <3> QED BY <2>1, <3>1, <3>2, <3>3, <3>4, StatesKept
  <2> QED BY <1>5, <2>3, <2>4 DEF GithubOAuthCallbackGet
<1>6. ASSUME NEW t \in Tab, FinishOAuthFlow(t) PROVE StatesInv'
  <2>1. tab[t].pc = "exchanging" /\ UNCHANGED <<cookie, history>>
    BY <1>6 DEF FinishOAuthFlow
  <2>2. PICK to, session : /\ to \in {"reload", "error"} /\ Answers(t, to, session)
                           /\ session.states = tab[t].session.states
    <3>1. \A p, server : PopulateSession(tab[t].session, p, server).states = tab[t].session.states
      BY <1>0 DEF PopulateSession, Session
    <3> QED BY <1>6, <3>1 DEF FinishOAuthFlow
  <2>3. PICK r : /\ Becomes(t, r) /\ r.pc = "answered" /\ r.to \in {"reload", "error"}
                 /\ r.session.states = tab[t].session.states /\ r.seen = tab[t].seen
                 /\ r.state = tab[t].state
    BY <2>2, AnswersFacts
  <2>4. history.overlapped \/ StateOf(tab[t])
    BY DEF StatesInv
  <2>5. history.overlapped \/ StateOf(r)'
    BY <2>1, <2>3, <2>4 DEF StateOf
  <2> QED BY <2>1, <2>3, <2>5, StatesKept
<1>7. ASSUME NEW t \in Tab, Respond(t) PROVE StatesInv'
  BY <1>7, StatesRespond
<1>8. ASSUME NEW t \in Tab, Reload(t) PROVE StatesInv'
  <2>1. /\ tab[t].pc = "reload" /\ Begins(t, tab[t].server, TRUE) /\ UNCHANGED <<cookie, history>>
    BY <1>8 DEF Reload
  <2>2. PICK r : /\ Becomes(t, r) /\ r.pc \in {"checking", "renewing"} /\ r.state = Undefined
                 /\ r.session = cookie /\ r.seen = cookie
    BY <2>1, BeginsFacts
  <2>3. history.overlapped \/ tab[t].state = Undefined
    BY <2>1 DEF StatesInv, StateOf
  <2> QED BY <2>1, <2>2, <2>3, StatesKept DEF StateOf
<1>9. ASSUME NEW p \in Pair, TokenEnds(p) PROVE StatesInv'
  BY <1>9 DEF TokenEnds, StatesInv, OwnStates, Awaited, Remembered, StateOf
<1>10. CASE UNCHANGED sessionVars
  BY <1>10 DEF sessionVars, StatesInv, OwnStates, Awaited, Remembered, StateOf
<1> QED BY <1>1, <1>2, <1>3, <1>4, <1>5, <1>6, <1>7, <1>8, <1>9, <1>10 DEF SessionNext, Request

\* A user who comes back from GitHub is expected, and a state is good for one login, unless
\* requests overlapped (github-oauth.ts:160, 168).
THEOREM StatesFollowLoginsEver == SessionSpec => []StatesFollowLogins
<1>1. StatesInv => StatesFollowLogins
  BY DEF StatesInv, StatesFollowLogins, Awaited, Remembered
<1> QED BY <1>1, SessionTypeInit, SessionTypeStep, StatesInit, StatesStep, PTL DEF SessionSpec

-----------------------------------------------------------------------------
(* Pairs. *)

\* A request has come by a pair that it has yet to put into the cookie.
Fresh(r) == r.session.pair \notin {Undefined, r.seen.pair}

\* Who has one is about to answer; GitHub has not taken it back, and nobody else has it.
FreshOK ==
  \A t \in Tab : Fresh(tab[t]) =>
    /\ tab[t].pc = "answered" /\ ~Spent(tab[t].session.pair)
    /\ cookie.pair # tab[t].session.pair
    /\ \A u \in Tab \ {t} : tab[t].session.pair \notin {tab[u].session.pair, tab[u].seen.pair}

Replaced ==
  Spent(cookie.pair) =>
    \/ \E t \in Tab : Fresh(tab[t]) /\ tab[t].to = "served"
    \/ history.lost \/ history.overlapped

PairsInv == FreshOK /\ Replaced

LEMMA PairsInit == SessionInit => PairsInv
BY DEF SessionInit, PairsInv, FreshOK, Replaced, Fresh, Spent, Still, NoSession

\* A tab comes to no new pair: the cookie and what GitHub has stay.
LEMMA PairsKept ==
  ASSUME SessionTypeOK, PairsInv, NEW t \in Tab, NEW s, Becomes(t, s), UNCHANGED <<cookie, github>>,
         history.lost => history'.lost, history.overlapped => history'.overlapped,
         ~Fresh(tab[t]), ~Fresh(s),
         s.session.pair \in {tab[t].session.pair, cookie.pair, Undefined},
         s.seen.pair \in {tab[t].seen.pair, cookie.pair}
  PROVE  PairsInv'
<1>1. tab'[t] = s /\ \A u \in Tab \ {t} : tab'[u] = tab[u]
  BY DEF SessionTypeOK, Becomes
<1>3. ASSUME NEW u \in Tab, Fresh(tab[u])'
      PROVE  /\ tab'[u].pc = "answered" /\ ~Spent(tab[u].session.pair)'
             /\ cookie'.pair # tab'[u].session.pair
             /\ \A v \in Tab \ {u} :
                  tab'[u].session.pair \notin {tab'[v].session.pair, tab'[v].seen.pair}
  <2>1. u # t /\ tab'[u] = tab[u] /\ Fresh(tab[u])
    BY <1>1, <1>3 DEF Fresh
  <2>2. /\ tab[u].pc = "answered" /\ ~Spent(tab[u].session.pair)
        /\ cookie.pair # tab[u].session.pair /\ tab[u].session.pair # Undefined
        /\ \A v \in Tab \ {u} : tab[u].session.pair \notin {tab[v].session.pair, tab[v].seen.pair}
    BY <2>1 DEF PairsInv, FreshOK, Fresh
  <2>3. tab[u].session.pair \notin {s.session.pair, s.seen.pair}
    BY <2>1, <2>2
  <2>4. Spent(tab[u].session.pair)' => Spent(tab[u].session.pair)
    BY <2>1 DEF Spent
  <2> QED BY <1>1, <2>1, <2>2, <2>3, <2>4 DEF Spent
<1>4. Replaced'
  <2>1. ASSUME Spent(cookie.pair)'
        PROVE  \/ \E u \in Tab : Fresh(tab'[u]) /\ tab'[u].to = "served"
               \/ history'.lost \/ history'.overlapped
    <3>1. Spent(cookie.pair)
      BY <2>1 DEF Spent
    <3> QED BY <1>1, <3>1 DEF PairsInv, Replaced
  <2> QED BY <2>1 DEF Replaced, Fresh
<1> QED BY <1>3, <1>4 DEF PairsInv, FreshOK

LEMMA PairsRenew ==
  ASSUME SessionTypeOK, PairsInv, NEW t \in Tab, RenewGitHubToken(t)
  PROVE  PairsInv'
<1> DEFINE r == tab[t]
           old == r.session.pair
           new == Least(FreePairs)
<1>0. /\ r \in TabState /\ r.session \in Session /\ r.seen \in Session
      /\ r.pc = "renewing" /\ cookie' = cookie
      /\ history.lost => history'.lost
      /\ history.overlapped => history'.overlapped
  BY DEF SessionTypeOK, TabState, RenewGitHubToken
<1>1. ~Fresh(r)
  BY <1>0 DEF PairsInv, FreshOK
<1>2. ASSUME LoginOrRefuse(t)
      PROVE  \E s : /\ Becomes(t, s) /\ s.seen = r.seen /\ s.session.pair = old
                    /\ s.pc = "answered"
  BY <1>2, LoginFacts
<1>3. CASE LoginOrRefuse(t) /\ UNCHANGED github
  <2>1. PICK s : /\ Becomes(t, s) /\ s.seen = r.seen /\ s.session.pair = old /\ s.pc = "answered"
    BY <1>2, <1>3
  <2>2. ~Fresh(s)
    BY <1>1, <2>1 DEF Fresh
  <2> QED BY <1>0, <1>1, <1>3, <2>1, <2>2, PairsKept
<1>4. CASE /\ old # Undefined /\ github[old].refresh = "good" /\ FreePairs # {}
           /\ github' = [github EXCEPT ![new] = github[old], ![old] = Taken(@)]
           /\ \/ Answers(t, "served", KeepsRenewed(r.session, new)) /\ UNCHANGED history
              \/ LoginOrRefuse(t) /\ history' = [history EXCEPT !.lost = TRUE]
  <2>1. /\ old \in Pair /\ new \in Pair /\ new # Undefined
        /\ new # cookie.pair /\ \A u \in Tab : new # tab[u].session.pair /\ new # tab[u].seen.pair
    BY <1>0, <1>4, FreeIds, FreeFacts, SessionAssumption DEF Session
  <2>2. PICK s : /\ Becomes(t, s) /\ s.pc = "answered" /\ s.seen = r.seen
                 /\ \/ s.session.pair = new /\ s.to = "served"
                    \/ s.session.pair = old /\ history'.lost
    <3>1. CASE Answers(t, "served", KeepsRenewed(r.session, new))
      <4>1. KeepsRenewed(r.session, new).pair = new
        BY <1>0 DEF KeepsRenewed, Session
      <4> QED BY <3>1, <4>1, AnswersFacts
    <3>2. CASE LoginOrRefuse(t) /\ history' = [history EXCEPT !.lost = TRUE]
      <4>1. history'.lost
        BY <3>2 DEF SessionTypeOK
      <4> QED BY <1>2, <3>2, <4>1
    <3> QED BY <1>4, <3>1, <3>2
  <2>3. tab'[t] = s /\ \A u \in Tab \ {t} : tab'[u] = tab[u]
    BY <2>2 DEF SessionTypeOK, Becomes
  <2>4. /\ github'[new].refresh = "good"
        /\ \A p \in Pair \ {old, new} : github'[p] = github[p]
    BY <1>4, <2>1 DEF SessionTypeOK
  <2>5. old = r.seen.pair
    BY <1>1, <1>4 DEF Fresh
  <2> HIDE DEF new
  <2>7. ASSUME NEW u \in Tab, Fresh(tab[u])'
        PROVE  /\ tab'[u].pc = "answered" /\ ~Spent(tab[u].session.pair)'
               /\ cookie'.pair # tab'[u].session.pair
               /\ \A v \in Tab \ {u} :
                  tab'[u].session.pair \notin {tab'[v].session.pair, tab'[v].seen.pair}
    <3>1. CASE u = t
      <4>1. tab'[u] = s /\ s.session.pair = new
        BY <2>2, <2>3, <2>5, <2>7, <3>1 DEF Fresh
      <4>2. ~Spent(tab[u].session.pair)'
        BY <2>4, <4>1 DEF Spent
      <4> QED BY <1>0, <2>1, <2>2, <2>3, <3>1, <4>1, <4>2
    <3>2. CASE u # t
      <4>1. tab'[u] = tab[u] /\ Fresh(tab[u])
        BY <2>3, <2>7, <3>2 DEF Fresh
      <4>2. /\ tab[u].pc = "answered" /\ ~Spent(tab[u].session.pair)
            /\ cookie.pair # tab[u].session.pair /\ tab[u].session.pair # Undefined
            /\ \A v \in Tab \ {u} : tab[u].session.pair \notin {tab[v].session.pair, tab[v].seen.pair}
        BY <4>1 DEF PairsInv, FreshOK, Fresh
      <4>3. tab[u].session.pair \in Pair \ {old, new}
        <5>1. tab[u].session.pair \in Pair \cup {Undefined}
          BY DEF SessionTypeOK, TabState, Session
        <5> QED BY <2>1, <3>2, <4>2, <5>1
      <4>4. ~Spent(tab[u].session.pair)'
        BY <2>4, <4>1, <4>2, <4>3 DEF Spent
      <4>5. \A v \in Tab \ {u} : tab[u].session.pair \notin {tab'[v].session.pair, tab'[v].seen.pair}
        <5>1. tab[u].session.pair \notin {s.session.pair, s.seen.pair}
          BY <2>2, <2>5, <4>3
        <5> QED BY <2>3, <4>2, <5>1
      <4> QED BY <1>0, <4>1, <4>2, <4>4, <4>5
    <3> QED BY <3>1, <3>2
  <2>8. Replaced'
    <3>1. s.session.pair = new => Fresh(tab[t])' /\ tab'[t].to = "served"
      BY <2>1, <2>2, <2>3 DEF Fresh
    <3> QED BY <2>2, <3>1, <2>1, <1>0 DEF Replaced
  <2> QED BY <2>7, <2>8 DEF PairsInv, FreshOK
<1> QED BY <1>3, <1>4 DEF RenewGitHubToken

LEMMA PairsFinish ==
  ASSUME SessionTypeOK, PairsInv, NEW t \in Tab, FinishOAuthFlow(t)
  PROVE  PairsInv'
<1> DEFINE r == tab[t]
           new == Least(FreePairs)
<1>0. /\ r \in TabState /\ r.session \in Session /\ r.seen \in Session
      /\ r.pc = "exchanging" /\ UNCHANGED <<cookie, history>>
  BY DEF SessionTypeOK, TabState, FinishOAuthFlow
<1>1. ~Fresh(r)
  BY <1>0 DEF PairsInv, FreshOK
<1>2. CASE Answers(t, "error", r.session) /\ UNCHANGED github
  <2>1. PICK s : Becomes(t, s) /\ s.pc = "answered" /\ s.session = r.session /\ s.seen = r.seen
    BY <1>2, AnswersFacts
  <2>2. ~Fresh(s)
    BY <1>1, <2>1 DEF Fresh
  <2> QED BY <1>0, <1>1, <1>2, <2>1, <2>2, PairsKept
<1>3. CASE /\ FreePairs # {}
           /\ \E refresh \in {"good", "none"} : github' = [github EXCEPT
                ![new] = [server |-> r.server, access |-> TRUE, refresh |-> refresh]]
           /\ Answers(t, "reload", PopulateSession(r.session, new, r.server))
  <2>1. /\ new \in Pair /\ new # Undefined
        /\ new # cookie.pair /\ \A u \in Tab : new # tab[u].session.pair /\ new # tab[u].seen.pair
    BY <1>3, FreeIds, FreeFacts, SessionAssumption
  <2>2. PICK s : /\ Becomes(t, s) /\ s.pc = "answered" /\ s.seen = r.seen
                 /\ s.session.pair = new
    <3>1. PopulateSession(r.session, new, r.server).pair = new
      BY <1>0 DEF PopulateSession, Session
    <3> QED BY <1>3, <3>1, AnswersFacts
  <2>3. tab'[t] = s /\ \A u \in Tab \ {t} : tab'[u] = tab[u]
    BY <2>2 DEF SessionTypeOK, Becomes
  <2>4. /\ github'[new].refresh # "spent"
        /\ \A p \in Pair \ {new} : github'[p] = github[p]
    BY <1>3, <2>1 DEF SessionTypeOK
  <2> HIDE DEF new
  <2>6. ASSUME NEW u \in Tab, Fresh(tab[u])'
        PROVE  /\ tab'[u].pc = "answered" /\ ~Spent(tab[u].session.pair)'
               /\ cookie'.pair # tab'[u].session.pair
               /\ \A v \in Tab \ {u} :
                  tab'[u].session.pair \notin {tab'[v].session.pair, tab'[v].seen.pair}
    <3>1. CASE u = t
      <4>1. ~Spent(tab[u].session.pair)'
        BY <2>2, <2>3, <2>4, <3>1 DEF Spent
      <4> QED BY <1>0, <2>1, <2>2, <2>3, <3>1, <4>1
    <3>2. CASE u # t
      <4>1. tab'[u] = tab[u] /\ Fresh(tab[u])
        BY <2>3, <2>6, <3>2 DEF Fresh
      <4>2. /\ tab[u].pc = "answered" /\ ~Spent(tab[u].session.pair)
            /\ cookie.pair # tab[u].session.pair /\ tab[u].session.pair # Undefined
            /\ \A v \in Tab \ {u} : tab[u].session.pair \notin {tab[v].session.pair, tab[v].seen.pair}
        BY <4>1 DEF PairsInv, FreshOK, Fresh
      <4>3. tab[u].session.pair \in Pair \ {new}
        <5>1. tab[u].session.pair \in Pair \cup {Undefined}
          BY DEF SessionTypeOK, TabState, Session
        <5> QED BY <2>1, <4>2, <5>1
      <4>4. ~Spent(tab[u].session.pair)'
        BY <2>4, <4>1, <4>2, <4>3 DEF Spent
      <4>5. \A v \in Tab \ {u} : tab[u].session.pair \notin {tab'[v].session.pair, tab'[v].seen.pair}
        <5>1. tab[u].session.pair \notin {s.session.pair, s.seen.pair}
          BY <2>2, <3>2, <4>2, <4>3
        <5> QED BY <2>3, <4>2, <5>1
      <4> QED BY <1>0, <4>1, <4>2, <4>4, <4>5
    <3> QED BY <3>1, <3>2
  <2>7. Replaced'
    <3>1. ASSUME Spent(cookie.pair)'
          PROVE  \/ \E u \in Tab : Fresh(tab'[u]) /\ tab'[u].to = "served"
                 \/ history'.lost \/ history'.overlapped
      <4>1. cookie.pair \in Pair \cup {Undefined}
        BY DEF SessionTypeOK, Session
      <4>2. Spent(cookie.pair)
        BY <1>0, <2>1, <2>4, <3>1, <4>1 DEF Spent
      <4> QED BY <1>0, <1>1, <2>3, <4>2 DEF PairsInv, Replaced
    <3> QED BY <3>1 DEF Replaced, Fresh
  <2> QED BY <2>6, <2>7 DEF PairsInv, FreshOK
<1> QED BY <1>2, <1>3 DEF FinishOAuthFlow

LEMMA PairsRespond ==
  ASSUME SessionTypeOK, PairsInv, NEW t \in Tab, Respond(t)
  PROVE  PairsInv'
<1> DEFINE r == tab[t]
<1>0. /\ UNCHANGED github /\ history'.lost = history.lost
      /\ cookie' = IF r.session = r.seen THEN cookie ELSE r.session
      /\ ~history'.overlapped => ~history.overlapped /\ (r.session = r.seen \/ cookie = r.seen)
  BY DEF Respond, SetCookie, SessionTypeOK
<1>1. PICK s : Becomes(t, s) /\ s.session = NoSession /\ s.seen = NoSession
  <2> DEFINE waits == [Still EXCEPT !.pc = "consenting", !.server = tab[t].server, !.state = tab[t].state]
             again == [Still EXCEPT !.pc = "reload", !.server = tab[t].server]
  <2>1. \A x \in {waits, again, Still} : x.session = NoSession /\ x.seen = NoSession
    <3>1. waits.session = NoSession /\ waits.seen = NoSession
      BY DEF Still
    <3>2. again.session = NoSession /\ again.seen = NoSession
      BY DEF Still
    <3>3. Still.session = NoSession /\ Still.seen = NoSession
      BY DEF Still
    <3> HIDE DEF waits, again
    <3> QED BY <3>1, <3>2, <3>3
  <2>2. Becomes(t, CASE r.to = "consenting" -> waits [] r.to = "reload" -> again [] OTHER -> Still)
    BY DEF Respond
  <2> HIDE DEF r, waits, again
  <2>3. (CASE r.to = "consenting" -> waits [] r.to = "reload" -> again [] OTHER -> Still)
          \in {waits, again, Still}
    OBVIOUS
  <2> QED BY <2>1, <2>2, <2>3
<1>2. tab'[t] = s /\ \A u \in Tab \ {t} : tab'[u] = tab[u]
  BY <1>1 DEF SessionTypeOK, Becomes
<1>3. s.session.pair = Undefined /\ s.seen.pair = Undefined /\ ~Fresh(s)
  BY <1>1 DEF NoSession, Fresh
<1>5. ASSUME NEW u \in Tab, Fresh(tab[u])'
      PROVE  /\ tab'[u].pc = "answered" /\ ~Spent(tab[u].session.pair)'
             /\ cookie'.pair # tab'[u].session.pair
             /\ \A v \in Tab \ {u} :
                  tab'[u].session.pair \notin {tab'[v].session.pair, tab'[v].seen.pair}
  <2>1. u # t /\ tab'[u] = tab[u] /\ Fresh(tab[u])
    BY <1>2, <1>3, <1>5 DEF Fresh
  <2>2. /\ tab[u].pc = "answered" /\ ~Spent(tab[u].session.pair)
        /\ cookie.pair # tab[u].session.pair /\ tab[u].session.pair # Undefined
        /\ \A v \in Tab \ {u} : tab[u].session.pair \notin {tab[v].session.pair, tab[v].seen.pair}
    BY <2>1 DEF PairsInv, FreshOK, Fresh
  <2>3. ~Spent(tab[u].session.pair)'
    BY <1>0, <2>1, <2>2 DEF Spent
  <2>4. cookie'.pair # tab[u].session.pair
    BY <1>0, <2>1, <2>2
  <2> QED BY <1>2, <1>3, <2>1, <2>2, <2>3, <2>4
<1>6. Replaced'
  <2>1. ASSUME Spent(cookie.pair)', ~history'.lost, ~history'.overlapped
        PROVE  \E u \in Tab : Fresh(tab'[u]) /\ tab'[u].to = "served"
    <3>1. Spent(cookie'.pair)
      BY <1>0, <2>1 DEF Spent
    <3>2. ~history.lost /\ ~history.overlapped
      BY <1>0, <2>1
    <3>3. CASE r.session = r.seen
      <4>1. cookie' = cookie /\ ~Fresh(r)
        BY <1>0, <3>3 DEF Fresh
      <4> QED BY <1>2, <3>1, <3>2, <4>1 DEF PairsInv, Replaced
    <3>4. CASE r.session # r.seen
      <4>1. cookie = r.seen /\ cookie' = r.session
        BY <1>0, <2>1, <3>4
      <4>2. ~Fresh(r)
        BY <3>1, <4>1 DEF PairsInv, FreshOK
      <4>3. cookie.pair = cookie'.pair
        BY <3>1, <4>1, <4>2 DEF Fresh, Spent
      <4> QED BY <1>2, <3>1, <3>2, <4>2, <4>3 DEF PairsInv, Replaced
    <3> QED BY <3>3, <3>4
  <2> QED BY <2>1 DEF Replaced, Fresh
<1> QED BY <1>5, <1>6 DEF PairsInv, FreshOK

LEMMA PairsStep == SessionTypeOK /\ PairsInv /\ [SessionNext]_sessionVars => PairsInv'
<1> SUFFICES ASSUME SessionTypeOK, PairsInv, [SessionNext]_sessionVars PROVE PairsInv'
  OBVIOUS
<1>0. /\ \A t \in Tab : tab[t] \in TabState /\ tab[t].session \in Session
      /\ cookie \in Session
      /\ \A t \in Tab : tab[t].pc # "answered" => ~Fresh(tab[t])
  BY DEF SessionTypeOK, TabState, PairsInv, FreshOK
<1>1. ASSUME NEW t \in Tab, NEW server, NEW get, Begins(t, server, get), tab[t].pc # "answered",
             UNCHANGED <<cookie, github, history>>
      PROVE  PairsInv'
  <2>1. PICK s : /\ Becomes(t, s) /\ s.pc \in {"checking", "renewing"}
                 /\ s.session = cookie /\ s.seen = cookie
    BY <1>1, BeginsFacts
  <2>2. ~Fresh(s)
    BY <2>1 DEF Fresh
  <2> QED BY <1>0, <1>1, <2>1, <2>2, PairsKept
<1>2. ASSUME NEW t \in Tab, NEW server \in Server, ResetGithubToken(t, server) PROVE PairsInv'
  <2>1. tab[t].pc = "still" /\ UNCHANGED <<cookie, github, history>>
    BY <1>2 DEF ResetGithubToken
  <2>2. PICK s : /\ Becomes(t, s) /\ s.pc = "answered"
                 /\ s.session.pair = Undefined /\ s.seen = cookie
    <3> DEFINE s == [Still EXCEPT !.pc = "answered", !.to = "reload", !.server = server,
                                  !.seen = cookie, !.session = [cookie EXCEPT !.pair = Undefined]]
    <3>1. Becomes(t, s)
      BY <1>2 DEF ResetGithubToken
    <3>2. [cookie EXCEPT !.pair = Undefined].pair = Undefined
      BY <1>0 DEF Session
    <3>3. s.pc = "answered" /\ s.session = [cookie EXCEPT !.pair = Undefined] /\ s.seen = cookie
      BY DEF Still
    <3> HIDE DEF s
    <3> QED BY <3>1, <3>2, <3>3
  <2>3. ~Fresh(s)
    BY <2>2 DEF Fresh
  <2> QED BY <1>0, <2>1, <2>2, <2>3, PairsKept
<1>3. ASSUME NEW t \in Tab, CheckGitHubToken(t) PROVE PairsInv'
  <2>1. tab[t].pc = "checking" /\ UNCHANGED <<cookie, github, history>>
    BY <1>3 DEF CheckGitHubToken
  <2>2. PICK s : /\ Becomes(t, s) /\ s.session = tab[t].session /\ s.seen = tab[t].seen
                 /\ s.pc \in {"answered", "renewing"}
    <3>1. CASE Answers(t, "served", tab[t].session)
      BY <3>1, AnswersFacts
    <3>2. CASE Becomes(t, [tab[t] EXCEPT !.pc = "renewing"])
      BY <1>0, <3>2 DEF TabState
    <3> QED BY <1>3, <3>1, <3>2 DEF CheckGitHubToken
  <2>3. ~Fresh(tab[t]) /\ ~Fresh(s)
    BY <1>0, <2>1, <2>2 DEF Fresh
  <2> QED BY <2>1, <2>2, <2>3, PairsKept
<1>4. ASSUME NEW t \in Tab, GithubOAuthCallbackGet(t) PROVE PairsInv'
  <2>1. /\ tab[t].pc = "consenting" /\ UNCHANGED <<cookie, github>>
        /\ history'.lost = history.lost /\ history'.overlapped = history.overlapped
    BY <1>4 DEF GithubOAuthCallbackGet, SessionTypeOK
  <2>2. PICK s : /\ Becomes(t, s) /\ s.session.pair = cookie.pair /\ s.seen = cookie
                 /\ s.pc \in {"exchanging", "answered"}
    <3> DEFINE s == [tab[t] EXCEPT
                !.pc = IF tab[t].state \in cookie.states THEN "exchanging" ELSE "answered",
                !.to = "error",
                !.seen = cookie,
                !.session = TakesState(cookie, tab[t].state)]
               e == [tab[t] EXCEPT !.pc = "answered", !.to = "error",
                                   !.seen = cookie, !.session = cookie]
    <3>1. Becomes(t, s) \/ Becomes(t, e)
      BY <1>4 DEF GithubOAuthCallbackGet
    <3>2. TakesState(cookie, tab[t].state).pair = cookie.pair
      BY <1>0 DEF TakesState, Session
    <3>3. s.session = TakesState(cookie, tab[t].state) /\ s.seen = cookie /\ s.pc \in {"exchanging", "answered"}
      BY <1>0 DEF TabState
    <3>4. e.session = cookie /\ e.seen = cookie /\ e.pc \in {"exchanging", "answered"}
      BY <1>0 DEF TabState
    <3> HIDE DEF s, e
    <3> QED BY <3>1, <3>2, <3>3, <3>4
  <2>3. ~Fresh(s) /\ ~Fresh(tab[t])
    BY <1>0, <2>1, <2>2 DEF Fresh
  <2> QED BY <2>1, <2>2, <2>3, PairsKept
<1>5. ASSUME NEW p \in Pair, TokenEnds(p) PROVE PairsInv'
  <2>1. UNCHANGED <<cookie, tab, history>>
    BY <1>5 DEF TokenEnds
  <2>2. PICK refresh \in {"none", github[p].refresh} :
          github' = [github EXCEPT ![p] = [@ EXCEPT !.access = FALSE, !.refresh = refresh]]
    BY <1>5 DEF TokenEnds
  <2>3. [github[p] EXCEPT !.access = FALSE, !.refresh = refresh].refresh = refresh
    <3>1. github[p] \in PairState
      BY DEF SessionTypeOK
    <3> QED BY <3>1 DEF PairState
  <2>4. \A q \in Pair : github'[q].refresh \in {"none", github[q].refresh}
    BY <2>2, <2>3 DEF SessionTypeOK
  <2>5. /\ cookie.pair \in Pair \cup {Undefined}
        /\ \A t \in Tab : tab[t].session.pair \in Pair \cup {Undefined}
    BY DEF SessionTypeOK, TabState, Session
  <2>6. /\ Spent(cookie.pair)' => Spent(cookie.pair)
        /\ \A t \in Tab : Spent(tab[t].session.pair)' => Spent(tab[t].session.pair)
    BY <2>1, <2>4, <2>5 DEF Spent
  <2> QED BY <2>1, <2>6 DEF PairsInv, FreshOK, Replaced, Fresh
<1>6. CASE UNCHANGED sessionVars
  BY <1>6 DEF sessionVars, PairsInv, FreshOK, Replaced, Fresh, Spent
<1>7. ASSUME NEW t \in Tab, NEW s \in Server, NEW get \in BOOLEAN, GithubAuthMiddleware(t, s, get)
      PROVE  PairsInv'
  BY <1>1, <1>7 DEF GithubAuthMiddleware
<1>8. ASSUME NEW t \in Tab, Reload(t) PROVE PairsInv'
  BY <1>1, <1>8 DEF Reload
<1> QED BY <1>2, <1>3, <1>4, <1>5, <1>6, <1>7, <1>8, PairsRenew, PairsFinish, PairsRespond
        DEF SessionNext, Request

\* The refresh token in the cookie is spent only while the next one is on its way, or GitHub's
\* answer was lost or requests overlapped (github-oauth.ts:249).
THEOREM RenewalKeepsSessionEver == SessionSpec => []RenewalKeepsSession
<1>1. PairsInv => RenewalKeepsSession
  BY DEF PairsInv, FreshOK, Replaced, RenewalKeepsSession, Fresh
<1> QED BY <1>1, SessionTypeInit, SessionTypeStep, PairsInit, PairsStep, PTL DEF SessionSpec
=============================================================================

---------------------------- MODULE GitHubErrors ----------------------------
(***************************************************************************)
(* What becomes of an error of GitHub: how GitHub says what is the matter, *)
(* by REST and by GraphQL, the error the client makes of it                *)
(* (github-client-interceptors.ts, github-client.ts), and what the         *)
(* backfill does with that (backfill-error-handler.ts).                    *)
(***************************************************************************)
EXTENDS Integers

\* What may be the matter.
Passing == {"timeout", "badGateway", "network", "nodeLimit", "rateLimit"}
Gone == {"notFound", "legal", "disabled"}
Standing == {"permission", "sso", "ipAllowList"}
Situations == Passing \cup Gone \cup Standing \cup {"changedFiles"}

\* An answer: its status (0 for none), what it says, whether the limit is spent and
\* a login asked for, and the errors of a GraphQL response.
Answer(status, says) ==
  [status |-> status, says |-> says, spent |-> says = "rateLimit", sso |-> says = "sso", errors |-> {}]
Errors(type, says) == [Answer(200, "ok") EXCEPT !.errors = {[type |-> type, says |-> says]},
                                               !.sso = (says = "sso")]

\* How GitHub answers a REST request.
RestAnswer(situation) ==
  CASE situation = "timeout"    -> Answer(408, situation)
    [] situation = "network"    -> Answer(0, situation)
    [] situation = "notFound"   -> Answer(404, situation)
    [] situation = "legal"      -> Answer(451, situation)
    [] situation = "badGateway" -> Answer(502, situation)
    [] OTHER                    -> Answer(403, situation)

\* How it answers a GraphQL query.
GraphQLAnswer(situation) ==
  CASE situation \in {"timeout", "network", "badGateway", "legal"} -> RestAnswer(situation)
    [] situation = "rateLimit"    -> Errors("RATE_LIMITED", situation)
    [] situation = "notFound"     -> Errors("NOT_FOUND", situation)
    [] situation = "nodeLimit"    -> Errors("MAX_NODE_LIMIT_EXCEEDED", situation)
    [] situation = "changedFiles" -> Errors("SERVICE_UNAVAILABLE", situation)
    [] OTHER                      -> Errors("FORBIDDEN", situation)

\* Mutant: a spent limit is told from other refusals by its status only.
NoLimit(a) == IF a.status = 403 THEN "invalidPermissions" ELSE "error"

\* handleFailedRequest
HandleFailedRequest(a) ==
  CASE a.status = 408 -> "timeout"
    [] a.status = 0 -> "axios"
    [] a.status = 403 /\ a.spent -> "rateLimiting"
    [] a.status = 403 /\ a.says = "ipAllowList" -> "blockedIp"
    [] a.status = 403 /\ a.says = "permission" -> "invalidPermissions"
    [] a.status = 403 /\ a.sso -> "ssoLogin"
    [] a.status = 404 -> "notFound"
    [] OTHER -> "error"

\* isChangedFilesError
FilesAreTooMuch(a) == \E e \in a.errors : e.says = "changedFiles"

\* GitHubClient.graphql: the first of the errors it knows.
GraphQLErrorOf(a) ==
  LET some(type, says) == \E e \in a.errors : e.type = type /\ e.says \in says IN
  CASE a.errors = {} -> HandleFailedRequest(a)
    [] some("RATE_LIMITED", Situations) -> "rateLimiting"
    [] some("FORBIDDEN", {"permission"}) -> "invalidPermissions"
    [] some("FORBIDDEN", {"ipAllowList"}) -> "blockedIp"
    [] some("FORBIDDEN", Situations) /\ a.sso -> "ssoLogin"
    [] some("NOT_FOUND", Situations) -> "notFound"
    [] OTHER -> "graphQL"

\* getBranchesPage asks again for less: without the changed files, at last without commits.
BranchesAskForLess(queries, a) ==
  \/ queries = 1 /\ (FilesAreTooMuch(a) \/ a.status = 502)
  \/ queries = 2 /\ a.status = 502

\* getCommitsPage gives up the changed files only.
CommitsAskForLess(queries, a) == queries = 1 /\ (FilesAreTooMuch(a) \/ a.status = 502)

\* What the alert tasks take for an empty page: what they ask for is not there.
CodeScanningIsOff(a) == a.status \in {404, 451} \/ (a.status = 403 /\ a.says = "disabled")
DependabotIsOff(a) == a.status \in {404, 451} \/ (a.status = 403 /\ a.says = "disabled")
SecretScanningIsOff(a) == a.status \in {404, 451}

\* Mutant: a limit is an error like others.
LimitCostsAnAttempt(error, lastAttempt) ==
  CASE error = "invalidPermissions" -> "failed"
    [] error = "notFound" -> "complete"
    [] OTHER -> IF lastAttempt THEN "failed" ELSE "retried"

\* handleTaskError
HandleTaskError(error, lastAttempt) ==
  CASE error = "invalidPermissions" -> "failed"
    [] error = "rateLimiting" -> "rescheduled"
    [] error = "notFound" -> "complete"
    [] OTHER -> IF lastAttempt THEN "failed" ELSE "retried"
=============================================================================

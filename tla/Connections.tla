----------------------------- MODULE Connections -----------------------------
(***************************************************************************)
(* Connecting Jira sites with GitHub organisations: the rows of the tables *)
(* Installations and Subscriptions, what they stand for at Jira (the       *)
(* property isConfigured, dev data, security workspaces) and at GitHub     *)
(* (the permissions of the app), and the requests that change them while   *)
(* others run: connect, disconnect, Jira's install and uninstall           *)
(* callbacks, and GitHub's webhooks.  Every request reads rows, awaits     *)
(* calls and writes with what it read.                                     *)
(***************************************************************************)
EXTENDS Naturals, FiniteSets

CONSTANTS Keys,        \* client keys: one per Jira site
          Hosts,       \* the URLs of the sites
          SiteOf,      \* the site that each URL belongs to
          Orgs,        \* GitHub installations of the app
          Slots,       \* requests that may be under way together
          MaxRequests, \* bound: requests in a behaviour
          MaxFaults    \* bound: failed calls and crashes in a behaviour

\* A site may move to another URL, but no URL passes from one site to another.
ASSUME ConnectionsAssumption ==
    SiteOf \in [Hosts -> Keys] /\ MaxRequests \in Nat /\ MaxFaults \in Nat

Ids == 1..MaxRequests + 1  \* a request creates one row at most

VARIABLES
    installation,  \* Installations: id -> row
    subscription,  \* Subscriptions: id -> row
    isConfigured,  \* the app property, as Jira has it, of each site
    devInfo,       \* <<site, organisation>>: Jira holds dev data of it
    linked,        \* subscriptions Jira has a security workspace of
    permitted,     \* organisations that accepted the security permissions
    deliveries,    \* organisations whose webhook about that is under way
    accepted,      \* subscriptions with isSecurityPermissionsAccepted
    synced,        \* subscriptions whose security tasks were sent to backfill
    lastId,        \* the last id a new row got
    request,       \* what each slot is doing
    requests, faults

\* Why a row or Jira may be wrong: the named exceptions of the properties.
VARIABLES
    strays,        \* subscriptions made or left behind with an outdated installation
    doubtful,      \* sites whose property was last written too late, or not at all
    leftovers,     \* dev data that no removal took away
    orphans,       \* subscriptions whose workspace no removal took away
    missed,        \* subscriptions that a permission webhook or check passed by
    broken         \* subscriptions whose setup failed or was cut short

tables == <<installation, subscription, accepted, lastId>>
atJira == <<isConfigured, devInfo, linked>>
ghosts == <<strays, doubtful, leftovers, orphans, missed, broken>>
vars == <<tables, atJira, permitted, deliveries, synced, request, requests, faults, ghosts>>

None == [none |-> TRUE]
Idle == [op |-> "idle", at |-> "", inst |-> 0, key |-> "", host |-> "", org |-> "",
         sub |-> 0, accepted |-> FALSE, seen |-> {TRUE}, todo |-> {}]

Installed == {i \in Ids : installation[i] # None}
Subscribed == {i \in Ids : subscription[i] # None}

\* Installation.getForHost: the newest row, or 0.
GetForHost(host) ==
    LET found == {i \in Installed : installation[i].host = host}
    IN  IF found = {} THEN 0 ELSE CHOOSE i \in found : \A j \in found : j <= i

Rows(key, host, org) ==
    {i \in Subscribed : subscription[i] = [key |-> key, host |-> host, org |-> org]}
\* Subscription.getSingleInstallation looks a subscription up by host and organisation.
GetSingle(host, org) ==
    {i \in Subscribed : subscription[i].host = host /\ subscription[i].org = org}
Of(key) == {i \in Subscribed : subscription[i].key = key}

Active(op, places) == {s \in Slots : request[s].op = op /\ request[s].at \in places}

\* A removal took the workspace of i away, and is about to delete its row.
BeingRemoved(i) == \E t \in Active("remove", {"destroy"}) : request[t].sub = i
\* A removal took the dev data of the organisation away, and has not deleted the row yet.
DataRemoved(org) == \E t \in Active("remove", {"workspace", "destroy"}) : request[t].org = org

\* The installation is going, and which of its subscriptions go with it is settled.
BeingUninstalled(i) ==
    \E t \in Active("uninstall", {"drop", "property", "row"}) : request[t].inst = i

\* The installation a request took along is no longer the row.
Outdated(r) == \/ r.inst \notin Installed
               \/ installation[r.inst] # [key |-> r.key, host |-> r.host]

\* One site has the app.
Init ==
    /\ \E h \in Hosts :
          installation = [i \in Ids |-> IF i = 1 THEN [key |-> SiteOf[h], host |-> h] ELSE None]
    /\ subscription = [i \in Ids |-> None]
    /\ isConfigured = [k \in Keys |-> "none"]
    /\ devInfo = {} /\ linked = {} /\ synced = {} /\ accepted = {}
    /\ permitted = {} /\ deliveries = {}
    /\ lastId = 1
    /\ request = [s \in Slots |-> Idle]
    /\ requests = 0 /\ faults = 0
    /\ strays = {} /\ doubtful = {} /\ leftovers = {} /\ orphans = {} /\ missed = {} /\ broken = {}

Begin(s, r) ==
    /\ request[s] = Idle /\ requests < MaxRequests
    /\ request' = [request EXCEPT ![s] = r]
    /\ requests' = requests + 1
At(s, op, place) == request[s].op = op /\ request[s].at = place
Goes(s, place) == request' = [request EXCEPT ![s].at = place]
Ends(s) == request' = [request EXCEPT ![s] = Idle]

Fault == faults < MaxFaults /\ faults' = faults + 1
\* A call to Jira may fail; through an outdated URL or secret it may always fail.
CallFails(s) == Fault \/ (Outdated(request[s]) /\ UNCHANGED faults)

\* The request took the row of its JWT or of its session: res.locals.installation.
With(i) == [Idle EXCEPT !.inst = i, !.key = installation[i].key, !.host = installation[i].host]

-----------------------------------------------------------------------------
(* Connect: verifyAdminPermsAndFinishInstallation, from the configuration  *)
(* page, the REST API or a deferred request.                               *)
-----------------------------------------------------------------------------
StartConnect(s, i, o) ==
    /\ i \in Installed
    /\ Begin(s, [With(i) EXCEPT !.op = "connect", !.at = "find", !.org = o])
    /\ UNCHANGED <<tables, atJira, permitted, deliveries, synced, faults, ghosts>>

\* The user is no admin of the organisation, or asking GitHub failed.
RefuseConnect(s) ==
    /\ At(s, "connect", "find") /\ Ends(s)
    /\ UNCHANGED <<tables, atJira, permitted, deliveries, synced, requests, faults, ghosts>>

\* The first half of Subscription.install's findOrCreate: nothing locks what it saw.
FindSubscription(s) ==
    LET r == request[s]
        found == Rows(r.key, r.host, r.org)
    IN  /\ At(s, "connect", "find")
        /\ \/ \E i \in found :
                 request' = [request EXCEPT ![s] =
                               [@ EXCEPT !.at = "security", !.sub = i, !.accepted = i \in accepted]]
           \/ found = {} /\ Goes(s, "insert")
        /\ UNCHANGED <<tables, atJira, permitted, deliveries, synced, requests, faults, ghosts>>

InsertSubscription(s) ==
    LET r == request[s]
        i == lastId + 1
    IN  /\ At(s, "connect", "insert")
        /\ subscription' = [subscription EXCEPT ![i] =
                               [key |-> r.key, host |-> r.host, org |-> r.org]]
        /\ lastId' = i
        /\ request' = [request EXCEPT ![s] = [@ EXCEPT !.at = "security", !.sub = i]]
        /\ strays' = IF Outdated(r) \/ BeingUninstalled(r.inst) THEN strays \union {i} ELSE strays
        /\ UNCHANGED <<installation, accepted, atJira, permitted, deliveries, synced,
                       requests, faults, doubtful, leftovers, orphans, missed, broken>>

\* What follows the security part: Promise.all of the two, in either order.
Finishes(s) ==
    request' = [request EXCEPT ![s] = [@ EXCEPT !.at = "finish", !.todo = {"property", "sync"}]]

\* Mutant: the row is believed, and GitHub never asked.
BelievesRow(s) ==
    /\ At(s, "connect", "security")
    /\ IF request[s].accepted THEN Goes(s, "link") ELSE Finishes(s)
    /\ UNCHANGED <<tables, atJira, permitted, deliveries, synced, requests, faults, ghosts>>
\* The row it holds says whether the permissions are known; otherwise GitHub is asked.
CheckSecurity(s) ==
    LET r == request[s]
    IN  /\ At(s, "connect", "security")
        /\ \/ /\ r.accepted
              /\ Goes(s, "link") /\ UNCHANGED <<faults, missed>>
           \/ /\ ~r.accepted /\ r.org \in permitted
              /\ Goes(s, "accept") /\ UNCHANGED <<faults, missed>>
           \/ /\ ~r.accepted /\ r.org \notin permitted
              /\ Finishes(s) /\ UNCHANGED <<faults, missed>>
           \/ /\ ~r.accepted /\ Fault
              /\ Finishes(s) /\ missed' = missed \union {r.sub}
        /\ UNCHANGED <<tables, atJira, permitted, deliveries, synced, requests,
                       strays, doubtful, leftovers, orphans, broken>>

\* subscription.update of a row that is gone changes nothing.
Accepts(i) == accepted' = IF i \in Subscribed THEN accepted \union {i} ELSE accepted

\* An error of the update is rethrown, and the workspace not linked.
AcceptInConnect(s) ==
    LET i == request[s].sub
    IN  /\ At(s, "connect", "accept")
        /\ \/ Accepts(i) /\ Goes(s, "link") /\ UNCHANGED <<faults, missed>>
           \/ Fault /\ Finishes(s) /\ missed' = missed \union {i} /\ UNCHANGED accepted
        /\ UNCHANGED <<installation, subscription, lastId, atJira, permitted, deliveries, synced,
                       requests, strays, doubtful, leftovers, orphans, broken>>

\* Jira takes a workspace of any id; of a subscription that is being removed, for good.
Links(s) ==
    LET r == request[s]
    IN  /\ linked' = linked \union {r.sub}
        /\ orphans' = IF r.sub \notin Subscribed \/ BeingRemoved(r.sub)
                      THEN orphans \union {r.sub} ELSE orphans

LinkInConnect(s) ==
    /\ At(s, "connect", "link") /\ Finishes(s)
    /\ \/ Links(s) /\ UNCHANGED <<faults, broken>>
       \/ CallFails(s) /\ broken' = broken \union {request[s].sub} /\ UNCHANGED <<linked, orphans>>
    /\ UNCHANGED <<tables, isConfigured, devInfo, permitted, deliveries, synced, requests,
                   strays, doubtful, leftovers, missed>>

\* saveConfiguredAppProperties writes to the newest installation of the host, best effort.
\* Whether the site has subscriptions may have changed since the request saw it, if it did.
Writes(s, site, value) ==
    LET connected == Of(site) # {}
    IN  /\ isConfigured' = [isConfigured EXCEPT ![site] = value]
        /\ doubtful' = IF (value = "true") = connected THEN doubtful \ {site}
                       ELSE IF connected \notin request[s].seen THEN doubtful \union {site}
                       ELSE doubtful
SavesConfigured(s, value) ==
    LET i == GetForHost(request[s].host)
    IN  \/ /\ i # 0 /\ Writes(s, installation[i].key, value) /\ UNCHANGED faults
        \/ /\ (i = 0 /\ UNCHANGED faults) \/ CallFails(s)
           /\ doubtful' = doubtful \union {request[s].key}
           /\ UNCHANGED isConfigured

\* The request is answered when both parts are done, or when one has failed.
Did(s, part) ==
    LET rest == request[s].todo \ {part}
    IN  request' = [request EXCEPT ![s] = IF rest = {} THEN Idle ELSE [@ EXCEPT !.todo = rest]]

SetConfigured(s) ==
    /\ At(s, "connect", "finish") /\ "property" \in request[s].todo
    /\ SavesConfigured(s, "true") /\ Did(s, "property")
    /\ UNCHANGED <<tables, devInfo, linked, permitted, deliveries, synced, requests,
                   strays, leftovers, orphans, missed, broken>>

\* findOrStartSync: the backfill includes the security tasks of an accepted subscription.
StartSync(s) ==
    /\ At(s, "connect", "finish") /\ "sync" \in request[s].todo
    /\ Did(s, "sync")
    /\ \/ /\ synced' = IF request[s].sub \in accepted THEN synced \union {request[s].sub}
                                                       ELSE synced
          /\ UNCHANGED <<faults, broken>>
       \/ Fault /\ broken' = broken \union {request[s].sub} /\ UNCHANGED synced
    /\ UNCHANGED <<tables, atJira, permitted, deliveries, requests,
                   strays, doubtful, leftovers, orphans, missed>>

-----------------------------------------------------------------------------
(* Disconnect: removeSubscription, from either page of Jira's; and GitHub's *)
(* own page, which only deletes the row.                                    *)
-----------------------------------------------------------------------------
StartRemove(s, i, o) ==
    /\ i \in Installed
    /\ Begin(s, [With(i) EXCEPT !.op = "remove", !.at = "find", !.org = o])
    /\ UNCHANGED <<tables, atJira, permitted, deliveries, synced, faults, ghosts>>

FindToRemove(s) ==
    LET found == GetSingle(request[s].host, request[s].org)
    IN  /\ At(s, "remove", "find")
        /\ \/ \E i \in found :
                 request' = [request EXCEPT ![s] = [@ EXCEPT !.at = "data", !.sub = i]]
           \/ found = {} /\ Ends(s)
        /\ UNCHANGED <<tables, atJira, permitted, deliveries, synced, requests, faults, ghosts>>

\* Mutant: a failure is logged, as that of the workspace is.
DeletesIfItCan(s) ==
    LET r == request[s]
        i == GetForHost(r.host)
    IN  /\ At(s, "remove", "data") /\ Goes(s, "workspace")
        /\ \/ /\ i # 0
              /\ devInfo' = devInfo \ {<<installation[i].key, r.org>>}
              /\ leftovers' = leftovers \ {<<installation[i].key, r.org>>}
              /\ UNCHANGED faults
           \/ CallFails(s) /\ UNCHANGED <<devInfo, leftovers>>
        /\ UNCHANGED <<tables, isConfigured, linked, permitted, deliveries, synced,
                       requests, strays, doubtful, orphans, missed, broken>>
\* A failure here ends the request with the subscription in place.
DeleteDevInfo(s) ==
    LET r == request[s]
        i == GetForHost(r.host)
    IN  /\ At(s, "remove", "data")
        /\ \/ /\ i # 0
              /\ devInfo' = devInfo \ {<<installation[i].key, r.org>>}
              /\ leftovers' = leftovers \ {<<installation[i].key, r.org>>}
              /\ Goes(s, "workspace") /\ UNCHANGED faults
           \/ /\ (i = 0 /\ UNCHANGED faults) \/ CallFails(s)
              /\ Ends(s) /\ UNCHANGED <<devInfo, leftovers>>
        /\ UNCHANGED <<tables, isConfigured, linked, permitted, deliveries, synced,
                       requests, strays, doubtful, orphans, missed, broken>>

DeleteWorkspace(s) ==
    LET i == request[s].sub
    IN  /\ At(s, "remove", "workspace") /\ Goes(s, "destroy")
        /\ \/ /\ linked' = linked \ {i} /\ orphans' = orphans \ {i}
              /\ UNCHANGED faults
           \/ /\ CallFails(s)
              /\ orphans' = orphans \union (linked \intersect {i})
              /\ UNCHANGED linked
        /\ UNCHANGED <<tables, isConfigured, devInfo, permitted, deliveries, synced,
                       requests, strays, doubtful, leftovers, missed, broken>>

\* Rows deleted without telling Jira leave behind what Jira has of them.
Destroy(ids) ==
    /\ subscription' = [i \in Ids |-> IF i \in ids THEN None ELSE subscription[i]]
    /\ accepted' = accepted \ ids
    /\ UNCHANGED <<installation, lastId>>
Abandons(ids) ==
    /\ orphans' = orphans \union (linked \intersect ids)
    /\ leftovers' = leftovers \union {<<subscription[i].key, subscription[i].org>> :
                                         i \in Subscribed \intersect ids}

DestroySubscription(s) ==
    /\ At(s, "remove", "destroy")
    /\ Destroy({request[s].sub}) /\ Goes(s, "check")
    /\ UNCHANGED <<atJira, permitted, deliveries, synced, requests, faults, ghosts>>

\* isConnected asks by host.
Connected(host) == \E i \in Subscribed : subscription[i].host = host
Unsets(s) ==
    request' = [request EXCEPT ![s] =
                  [@ EXCEPT !.at = "unset", !.seen = {Connected(request[s].host)}]]

\* Mutant: the property is unset by whoever disconnects.
UnsetsUnchecked(s) ==
    /\ At(s, "remove", "check") /\ Unsets(s)
    /\ UNCHANGED <<tables, atJira, permitted, deliveries, synced, requests, faults, ghosts>>
CheckConnected(s) ==
    /\ At(s, "remove", "check")
    /\ IF Connected(request[s].host) THEN Ends(s) ELSE Unsets(s)
    /\ UNCHANGED <<tables, atJira, permitted, deliveries, synced, requests, faults, ghosts>>

UnsetConfigured(s) ==
    /\ request[s].op \in {"remove", "enabled"} /\ request[s].at = "unset"
    /\ SavesConfigured(s, "false") /\ Ends(s)
    /\ UNCHANGED <<tables, devInfo, linked, permitted, deliveries, synced, requests,
                   strays, leftovers, orphans, missed, broken>>

\* An app or a server of GitHub Enterprise goes; its subscriptions stay.
StartDeleteServer(s, i) ==
    /\ i \in Installed
    /\ Begin(s, [With(i) EXCEPT !.op = "remove", !.at = "check"])
    /\ UNCHANGED <<tables, atJira, permitted, deliveries, synced, faults, ghosts>>

\* GithubSubscriptionDelete.
RemoveAtGitHub(i) ==
    LET site == subscription[i].key
    IN  /\ i \in Subscribed /\ requests < MaxRequests /\ requests' = requests + 1
        /\ Destroy({i}) /\ Abandons({i})
        /\ doubtful' = IF Of(site) = {i} THEN doubtful \union {site} ELSE doubtful
        /\ UNCHANGED <<atJira, permitted, deliveries, synced, request, faults,
                       strays, missed, broken>>

-----------------------------------------------------------------------------
(* Jira's callbacks.                                                       *)
-----------------------------------------------------------------------------
\* The app is installed on a site, or the site has a new URL or secret.
StartInstall(s, h) ==
    /\ Begin(s, [Idle EXCEPT !.op = "install", !.at = "look", !.key = SiteOf[h], !.host = h])
    /\ UNCHANGED <<tables, atJira, permitted, deliveries, synced, faults, ghosts>>

LookForInstallation(s) ==
    LET found == {i \in Installed : installation[i].key = request[s].key}
    IN  /\ At(s, "install", "look")
        /\ \/ \E i \in found :
                 request' = [request EXCEPT ![s] = [@ EXCEPT !.at = "update", !.inst = i]]
           \/ found = {} /\ Goes(s, "create")
        /\ UNCHANGED <<tables, atJira, permitted, deliveries, synced, requests, faults, ghosts>>

CreateInstallation(s) ==
    /\ At(s, "install", "create") /\ Ends(s)
    /\ lastId' = lastId + 1
    /\ installation' = [installation EXCEPT ![lastId'] =
                           [key |-> request[s].key, host |-> request[s].host]]
    /\ UNCHANGED <<subscription, accepted, atJira, permitted, deliveries, synced,
                   requests, faults, ghosts>>

UpdateInstallation(s) ==
    LET r == request[s]
    IN  /\ At(s, "install", "update") /\ Goes(s, "rehost")
        /\ installation' = IF r.inst \in Installed
                           THEN [installation EXCEPT ![r.inst].host = r.host] ELSE installation
        /\ UNCHANGED <<subscription, accepted, lastId, atJira, permitted, deliveries,
                       synced, requests, faults, ghosts>>

\* Mutant: the subscriptions keep the host they had.
KeepsSubscriptions(s) ==
    /\ At(s, "install", "rehost") /\ Ends(s)
    /\ UNCHANGED <<tables, atJira, permitted, deliveries, synced, requests, faults, ghosts>>
\* The site's subscriptions follow; those of another callback's answer in between do not.
UpdateSubscriptions(s) ==
    LET r == request[s]
    IN  /\ At(s, "install", "rehost") /\ Ends(s)
        /\ subscription' = [i \in Ids |-> IF i \in Of(r.key)
                                          THEN [subscription[i] EXCEPT !.host = r.host]
                                          ELSE subscription[i]]
        /\ strays' = IF Outdated(r) \/ BeingUninstalled(r.inst)
                     THEN strays \union Of(r.key) ELSE strays
        /\ UNCHANGED <<installation, accepted, lastId, atJira, permitted, deliveries,
                       synced, requests, faults, doubtful, leftovers, orphans, missed, broken>>

\* The app is enabled: a site that has no property, or whose property cannot be read, is
\* not configured.  Subscriptions are not looked at.
StartEnabled(s, h) ==
    /\ GetForHost(h) # 0
    /\ Begin(s, [With(GetForHost(h)) EXCEPT !.op = "enabled", !.at = "get", !.seen = {}])
    /\ UNCHANGED <<tables, atJira, permitted, deliveries, synced, faults, ghosts>>

GetConfigured(s) ==
    /\ At(s, "enabled", "get")
    /\ \/ isConfigured[request[s].key] # "none" /\ Ends(s) /\ UNCHANGED faults
       \/ isConfigured[request[s].key] = "none" /\ Goes(s, "unset") /\ UNCHANGED faults
       \/ CallFails(s) /\ Goes(s, "unset")
    /\ UNCHANGED <<tables, atJira, permitted, deliveries, synced, requests, ghosts>>

\* The app is uninstalled, or an operator forces it.
StartUninstall(s, i) ==
    /\ i \in Installed
    /\ Begin(s, [With(i) EXCEPT !.op = "uninstall", !.at = "list"])
    /\ UNCHANGED <<tables, atJira, permitted, deliveries, synced, faults, ghosts>>

\* By the host the row had, whatever it has now.
ListSubscriptions(s) ==
    LET r == request[s]
    IN  /\ At(s, "uninstall", "list")
        /\ request' = [request EXCEPT ![s] =
                          [@ EXCEPT !.at = "drop",
                                    !.todo = {i \in Subscribed : subscription[i].host = r.host}]]
        /\ strays' = IF Outdated(r) THEN strays \union Of(r.key) ELSE strays
        /\ UNCHANGED <<tables, atJira, permitted, deliveries, synced, requests, faults,
                       doubtful, leftovers, orphans, missed, broken>>

DropSubscriptions(s) ==
    /\ At(s, "uninstall", "drop")
    /\ request' = [request EXCEPT ![s] = [@ EXCEPT !.at = "property", !.seen = {FALSE}]]
    /\ Destroy(request[s].todo) /\ Abandons(request[s].todo)
    /\ UNCHANGED <<atJira, permitted, deliveries, synced, requests, faults,
                   strays, doubtful, missed, broken>>

\* Jira refuses when the app is gone already; that is logged.
DeleteConfigured(s) ==
    /\ At(s, "uninstall", "property") /\ Goes(s, "row")
    /\ \/ Writes(s, request[s].key, "none")
       \/ doubtful' = doubtful \union {request[s].key} /\ UNCHANGED isConfigured
    /\ UNCHANGED <<tables, devInfo, linked, permitted, deliveries, synced, requests, faults,
                   strays, leftovers, orphans, missed, broken>>

DestroyInstallation(s) ==
    /\ At(s, "uninstall", "row") /\ Ends(s)
    /\ installation' = [installation EXCEPT ![request[s].inst] = None]
    /\ UNCHANGED <<subscription, accepted, lastId, atJira, permitted, deliveries, synced,
                   requests, faults, ghosts>>

\* verifyJiraInstallation: Jira answers 401 since the uninstall callback was lost.
VerifyInstallation(i) ==
    /\ i \in Installed /\ Fault
    /\ installation' = [installation EXCEPT ![i] = None]
    /\ strays' = strays \union Of(installation[i].key)
    /\ UNCHANGED <<subscription, accepted, lastId, atJira, permitted, deliveries, synced,
                   request, requests, doubtful, leftovers, orphans, missed, broken>>

-----------------------------------------------------------------------------
(* GitHub's webhooks: GithubWebhookMiddleware reads the subscriptions of   *)
(* the organisation once and handles one after the other.                  *)
-----------------------------------------------------------------------------
AcceptPermissions(o) ==
    /\ o \notin permitted
    /\ permitted' = permitted \union {o} /\ deliveries' = deliveries \union {o}
    /\ UNCHANGED <<tables, atJira, synced, request, requests, faults, ghosts>>

LoseDelivery(o) ==
    /\ o \in deliveries /\ Fault
    /\ deliveries' = deliveries \ {o}
    /\ missed' = missed \union {i \in Subscribed : subscription[i].org = o}
    /\ UNCHANGED <<tables, atJira, permitted, synced, request, requests,
                   strays, doubtful, leftovers, orphans, broken>>

Addressed(o) == {<<i, subscription[i].host>> : i \in {j \in Subscribed : subscription[j].org = o}}

StartPermissions(s, o) ==
    /\ o \in deliveries /\ deliveries' = deliveries \ {o}
    /\ Begin(s, [Idle EXCEPT !.op = "permissions", !.at = "next", !.org = o,
                             !.todo = Addressed(o)])
    /\ UNCHANGED <<tables, atJira, permitted, synced, faults, ghosts>>

\* installationWebhookHandler looks the subscription up again, by host and organisation.
NextSubscription(s) ==
    /\ At(s, "permissions", "next")
    /\ \E p \in request[s].todo :
         LET r == [request[s] EXCEPT !.todo = @ \ {p}]
             i == GetForHost(p[2])
             found == GetSingle(p[2], r.org)
         IN  \/ /\ i # 0
                /\ \E j \in found :
                     /\ request' = [request EXCEPT ![s] =
                          IF j \in accepted THEN r
                          ELSE [r EXCEPT !.at = "link", !.sub = j, !.inst = i,
                                         !.key = installation[i].key, !.host = p[2]]]
                     /\ missed' = missed \union ({p[1]} \ {j})
                /\ UNCHANGED faults
             \/ /\ ((i = 0 \/ found = {}) /\ UNCHANGED faults) \/ Fault
                /\ request' = [request EXCEPT ![s] = r]
                /\ missed' = missed \union {p[1]}
    /\ UNCHANGED <<tables, atJira, permitted, deliveries, synced, requests,
                   strays, doubtful, leftovers, orphans, broken>>

\* Mutant: an error is logged, and the permissions accepted all the same.
LinksIfItCan(s) ==
    /\ At(s, "permissions", "link") /\ Goes(s, "accept")
    /\ \/ Links(s) /\ UNCHANGED <<faults, missed>>
       \/ CallFails(s) /\ missed' = missed \union {request[s].sub}
                       /\ UNCHANGED <<linked, orphans>>
    /\ UNCHANGED <<tables, isConfigured, devInfo, permitted, deliveries, synced, requests,
                   strays, doubtful, leftovers, broken>>
\* An error is logged and the next subscription taken; GitHub does not send it again.
LinkInWebhook(s) ==
    /\ At(s, "permissions", "link")
    /\ \/ Links(s) /\ Goes(s, "accept") /\ UNCHANGED <<faults, missed>>
       \/ CallFails(s) /\ Goes(s, "next") /\ missed' = missed \union {request[s].sub}
                       /\ UNCHANGED <<linked, orphans>>
    /\ UNCHANGED <<tables, isConfigured, devInfo, permitted, deliveries, synced, requests,
                   strays, doubtful, leftovers, broken>>

\* An error of the update is logged, and the backfill is started all the same.
AcceptInWebhook(s) ==
    LET i == request[s].sub
    IN  /\ At(s, "permissions", "accept") /\ Goes(s, "sync")
        /\ \/ Accepts(i) /\ UNCHANGED <<faults, missed>>
           \/ Fault /\ missed' = missed \union {i} /\ UNCHANGED accepted
        /\ UNCHANGED <<installation, subscription, lastId, atJira, permitted, deliveries, synced,
                       requests, strays, doubtful, leftovers, orphans, broken>>

SyncInWebhook(s) ==
    /\ At(s, "permissions", "sync") /\ Goes(s, "next")
    /\ \/ synced' = synced \union {request[s].sub} /\ UNCHANGED <<faults, broken>>
       \/ Fault /\ broken' = broken \union {request[s].sub} /\ UNCHANGED synced
    /\ UNCHANGED <<tables, atJira, permitted, deliveries, requests,
                   strays, doubtful, leftovers, orphans, missed>>

\* Any other event whose handler sends dev data to Jira.
StartEvent(s, o) ==
    /\ Addressed(o) # {}
    /\ Begin(s, [Idle EXCEPT !.op = "event", !.at = "next", !.org = o, !.todo = Addressed(o)])
    /\ UNCHANGED <<tables, atJira, permitted, deliveries, synced, faults, ghosts>>

SubmitDevInfo(s) ==
    /\ At(s, "event", "next")
    /\ \E p \in request[s].todo :
         LET i == GetForHost(p[2])
             entry == <<installation[i].key, request[s].org>>
         IN  /\ request' = [request EXCEPT ![s].todo = @ \ {p}]
             /\ IF i = 0 THEN UNCHANGED <<devInfo, leftovers>>
                ELSE /\ devInfo' = devInfo \union {entry}
                     /\ leftovers' =
                          IF \/ DataRemoved(request[s].org)
                             \/ ~\E j \in Of(entry[1]) : subscription[j].org = entry[2]
                          THEN leftovers \union {entry} ELSE leftovers
    /\ UNCHANGED <<tables, isConfigured, linked, permitted, deliveries, synced, requests,
                   faults, strays, doubtful, orphans, missed, broken>>

EndWebhook(s) ==
    /\ At(s, "permissions", "next") \/ At(s, "event", "next")
    /\ request[s].todo = {} /\ Ends(s)
    /\ UNCHANGED <<tables, atJira, permitted, deliveries, synced, requests, faults, ghosts>>

\* The server is replaced under a request, which nobody takes up again.
Crash(s) ==
    LET r == request[s]
    IN  /\ r # Idle /\ Fault /\ Ends(s)
        /\ strays' = IF At(s, "install", "rehost") THEN strays \union Of(r.key) ELSE strays
        /\ doubtful' = IF \/ r.op = "connect" /\ r.sub # 0 /\ (r.at = "finish" => "property" \in r.todo)
                          \/ r.op = "remove" /\ r.at \in {"check", "unset"}
                          \/ At(s, "uninstall", "property")
                       THEN doubtful \union {r.key} ELSE doubtful
        /\ missed' = CASE r.op = "connect" -> missed \union {r.sub}
                       [] r.op = "permissions" -> missed \union {r.sub}
                                                         \union {p[1] : p \in r.todo}
                       [] OTHER -> missed
        /\ broken' = IF r.op \in {"connect", "permissions", "remove"}
                     THEN broken \union {r.sub} ELSE broken
        /\ UNCHANGED <<tables, atJira, permitted, deliveries, synced, requests, leftovers, orphans>>

-----------------------------------------------------------------------------
Step(s) ==
    \/ RefuseConnect(s) \/ FindSubscription(s) \/ InsertSubscription(s)
    \/ CheckSecurity(s) \/ AcceptInConnect(s) \/ LinkInConnect(s)
    \/ SetConfigured(s) \/ StartSync(s)
    \/ FindToRemove(s) \/ DeleteDevInfo(s) \/ DeleteWorkspace(s)
    \/ DestroySubscription(s) \/ CheckConnected(s) \/ UnsetConfigured(s)
    \/ GetConfigured(s)
    \/ LookForInstallation(s) \/ CreateInstallation(s) \/ UpdateInstallation(s)
    \/ UpdateSubscriptions(s) \/ ListSubscriptions(s) \/ DropSubscriptions(s)
    \/ DeleteConfigured(s) \/ DestroyInstallation(s)
    \/ NextSubscription(s) \/ LinkInWebhook(s) \/ AcceptInWebhook(s)
    \/ SyncInWebhook(s) \/ SubmitDevInfo(s) \/ EndWebhook(s)

Start(s) ==
    \/ \E i \in Ids, o \in Orgs : StartConnect(s, i, o) \/ StartRemove(s, i, o)
    \/ \E i \in Ids : StartUninstall(s, i) \/ StartDeleteServer(s, i)
    \/ \E h \in Hosts : StartInstall(s, h) \/ StartEnabled(s, h)
    \/ \E o \in Orgs : StartPermissions(s, o) \/ StartEvent(s, o)

Next ==
    \/ \E s \in Slots : Start(s) \/ Step(s) \/ Crash(s)
    \/ \E i \in Ids : RemoveAtGitHub(i) \/ VerifyInstallation(i)
    \/ \E o \in Orgs : AcceptPermissions(o) \/ LoseDelivery(o)

Spec == Init /\ [][Next]_vars

-----------------------------------------------------------------------------
Quiet == \A s \in Slots : request[s] = Idle

\* A subscription that was not made or left with an outdated installation belongs to one
\* that is there, under the host it is found by: Jira's callbacks, which come while a user
\* connects, neither leave a subscription behind nor strand it under the old URL.
SubscriptionsHaveAnInstallation ==
    Quiet => \A i \in Subscribed \ strays :
                \E j \in Installed : installation[j] = [key |-> subscription[i].key,
                                                        host |-> subscription[i].host]

\* Jira shows the development panel of a site exactly when the site has a subscription,
\* however connects and disconnects overlapped, but for a last write that failed, that was
\* out of date already when it was made, or that the enabled callback made, which looks at
\* the property only -- and but for a last subscription deleted on GitHub's page, which
\* removes the row and tells Jira nothing.
IsConfiguredTellsTheTruth ==
    Quiet => \A k \in Keys \ doubtful : (isConfigured[k] = "true") = (Of(k) # {})

\* A subscription that goes takes its dev data and its security workspace along, but for
\* those that were sent while or after it went, and for the rows that Jira's uninstall
\* callback or GitHub's page delete without a word to Jira.
NothingIsLeftAtJira ==
    /\ \A p \in devInfo \ leftovers : \E i \in Of(p[1]) : subscription[i].org = p[2]
    /\ linked \ orphans \subseteq Subscribed

\* Security permissions end in a working setup.  An organisation that accepted them is
\* known to have done so: a user who connects asks GitHub after the row is there, so that
\* either that answer or the webhook tells, whichever way they overlap.  And a subscription
\* whose permissions are accepted has its workspace at Jira and a backfill of its alerts
\* sent after it was: nothing else would ever do it.
PermittedMeansSetUp ==
    Quiet => /\ \A i \in Subscribed \ missed :
                  subscription[i].org \in permitted \ deliveries => i \in accepted
             /\ \A i \in accepted \ broken : i \in linked /\ i \in synced
=============================================================================

-------------------------- MODULE ConnectionsProofs --------------------------
(***************************************************************************)
(* Proofs about Connections: what the tables, Jira and GitHub agree on     *)
(* once all is quiet, for any sites, URLs, organisations and requests, and *)
(* any number of requests at a time, of failed calls and of crashes.       *)
(* Each invariant says why its property is true in the end: what is wrong  *)
(* now is about to be put right by a request under way.                    *)
(***************************************************************************)
EXTENDS Connections, WellFoundedInduction, TLAPS

-----------------------------------------------------------------------------
(* What rows and requests look like. *)

InstallationRow == {[key |-> SiteOf[h], host |-> h] : h \in Hosts}
SubscriptionRow == {[key |-> SiteOf[h], host |-> h, org |-> o] : h \in Hosts, o \in Orgs}

Places ==
  {"", "find", "insert", "security", "accept", "link", "finish", "data", "workspace", "destroy",
   "check", "unset", "look", "create", "update", "rehost", "get", "list", "drop", "property",
   "row", "next", "sync"}

\* What is done for a site, by a user or by Jira; the rest is GitHub's webhooks.
FromSession == {"connect", "remove", "install", "enabled", "uninstall"}
Ops == {"idle"} \cup FromSession \cup {"permissions", "event"}
SiteOrNone == Keys \cup {""}
HostOrNone == Hosts \cup {""}
OrgOrNone == Orgs \cup {""}
Answers == SUBSET BOOLEAN
Work == SUBSET ({"property", "sync"} \cup Nat \cup (Nat \X Hosts))

Request ==
  [op : Ops, at : Places, inst : Nat, key : SiteOrNone, host : HostOrNone, org : OrgOrNone,
   sub : Nat, accepted : BOOLEAN, seen : Answers, todo : Work]

\* Ids above the last one are still free.
Types ==
  /\ installation \in [Ids -> InstallationRow \cup {None}]
  /\ subscription \in [Ids -> SubscriptionRow \cup {None}]
  /\ isConfigured \in [Keys -> {"none", "true", "false"}]
  /\ request \in [Slots -> Request]
  /\ lastId \in Nat
  /\ \A i \in Ids : i > lastId => installation[i] = None /\ subscription[i] = None

(* What a request knows stays true of the rows that it read: ids are not  *)
(* used again, and neither the site nor the organisation of a row changes. *)

IsOf(i, r) == i \in Subscribed => subscription[i].key = r.key /\ subscription[i].org = r.org

RequestOK(r) ==
  /\ r.inst <= lastId /\ r.sub <= lastId
  /\ r.op \in FromSession => r.host \in Hosts /\ r.key = SiteOf[r.host]
  /\ r.op = "uninstall" \/ (r.op = "install" /\ r.at \in {"update", "rehost"}) =>
       (r.inst \in Installed => installation[r.inst].key = r.key)
  /\ r.op = "connect" =>
       /\ r.org \in Orgs /\ r.seen = {TRUE}
       /\ r.at \in {"find", "insert"} \/
            /\ r.at \in {"security", "accept", "link", "finish"}
            /\ r.sub # 0 /\ IsOf(r.sub, r)
  /\ r.op = "remove" /\ r.at \in {"data", "workspace", "destroy"} => IsOf(r.sub, r)
  /\ r.op = "remove" /\ r.at = "unset" => r.seen = {FALSE}
  /\ r.op = "enabled" => r.seen = {}
  /\ r.op = "uninstall" /\ r.at = "property" => r.seen = {FALSE}

(* SubscriptionsHaveAnInstallation: an installation that is not going, or  *)
(* goes together with the subscription, or one that is about to take the   *)
(* subscription to its new URL.                                            *)

Drops(r, j) == r.op = "uninstall" /\ r.at \in {"drop", "property", "row"} /\ r.inst = j
Spares(r, i, j) == Drops(r, j) => r.at = "drop" /\ i \in r.todo
Matches(j, i) ==
  j \in Installed /\ installation[j] = [key |-> subscription[i].key, host |-> subscription[i].host]
IsHome(j, i) == Matches(j, i) /\ \A t \in Slots : Spares(request[t], i, j)
Rehosts(r, key) == r.op = "install" /\ r.at = "rehost" /\ r.key = key

Homed ==
  \A i \in Subscribed \ strays :
    \/ \E j \in Ids : IsHome(j, i)
    \/ \E t \in Slots : Rehosts(request[t], subscription[i].key)

(* IsConfiguredTellsTheTruth: or a request under way is about to see to it. *)

WillSet(r, k) ==
  /\ r.op = "connect" /\ r.key = k
  /\ r.at \in {"security", "accept", "link"} \/ (r.at = "finish" /\ "property" \in r.todo)
WillUnset(r, k) ==
  /\ r.key = k
  /\ (r.op = "remove" /\ r.at \in {"check", "unset"}) \/ (r.op = "uninstall" /\ r.at = "property")

Told ==
  \A k \in Keys \ doubtful :
    /\ Of(k) # {} /\ isConfigured[k] # "true" => \E t \in Slots : WillSet(request[t], k)
    /\ Of(k) = {} /\ isConfigured[k] = "true" => \E t \in Slots : WillUnset(request[t], k)

(* NothingIsLeftAtJira: a removal has nothing left to take away when it deletes the row. *)

TookAway(r) ==
  r.op = "remove" =>
    /\ r.at = "destroy" => r.sub \notin linked \ orphans
    /\ r.at \in {"workspace", "destroy"} => <<r.key, r.org>> \notin devInfo \ leftovers

NothingLeft ==
  /\ NothingIsLeftAtJira
  /\ \A t \in Slots : TookAway(request[t])
  /\ \A p \in devInfo : p = <<p[1], p[2]>>

(* PermittedMeansSetUp: or a request under way is about to see to it. *)

WillAccept(r, i) ==
  \/ r.op = "connect" /\ r.at \in {"security", "accept"} /\ r.sub = i
  \/ r.op = "permissions" /\ r.at \in {"link", "accept"} /\ r.sub = i
  \/ r.op = "permissions" /\ \E p \in r.todo : p[1] = i

Known ==
  \A i \in Subscribed \ missed :
    subscription[i].org \in permitted \ deliveries =>
      i \in accepted \/ \E t \in Slots : WillAccept(request[t], i)

\* The row that a connect holds said so.
HoldsAccepted(r) ==
  r.op = "connect" /\ r.accepted =>
    r.at \in {"security", "accept", "link", "finish"} /\ (r.sub \in Subscribed => r.sub \in accepted)

IsRemoved(r, i) == r.op = "remove" /\ r.at = "destroy" /\ r.sub = i
WillLink(r, i) == (r.op = "connect" /\ r.at = "link" /\ r.sub = i) \/ IsRemoved(r, i)
WillSync(r, i) ==
  /\ r.sub = i
  /\ \/ r.op = "connect" /\ (r.at = "link" \/ (r.at = "finish" /\ "sync" \in r.todo))
     \/ r.op = "permissions" /\ r.at = "sync"

SetUp ==
  \A i \in accepted \ broken :
    /\ i \in linked \/ \E t \in Slots : WillLink(request[t], i)
    /\ i \in synced \/ \E t \in Slots : WillSync(request[t], i)

\* The webhook links first.
LinkedFirst(r) ==
  r.op = "permissions" /\ r.at = "accept" =>
    \/ r.sub \notin Subscribed \/ r.sub \in linked \cup broken
    \/ \E t \in Slots : IsRemoved(request[t], r.sub)

-----------------------------------------------------------------------------
(* Rows, and records of requests. *)

LEMMA NoneIsNoRow ==
  /\ None \notin InstallationRow
  /\ None \notin SubscriptionRow
<1>1. DOMAIN None = {"none"}
  BY DEF None
<1>2. \A r \in InstallationRow : DOMAIN r = {"key", "host"}
  BY DEF InstallationRow
<1>3. \A r \in SubscriptionRow : DOMAIN r = {"key", "host", "org"}
  BY DEF SubscriptionRow
<1>4. {"none"} # {"key", "host"} /\ {"none"} # {"key", "host", "org"}
  <2>1. "none" \in {"none"} /\ "none" \notin {"key", "host"} /\ "none" \notin {"key", "host", "org"}
    OBVIOUS
  <2> QED
    BY <2>1
<1> QED
  BY <1>1, <1>2, <1>3, <1>4

LEMMA RowParts ==
  /\ \A r \in InstallationRow : r.host \in Hosts /\ r.key = SiteOf[r.host] /\ r.key \in Keys
  /\ \A r \in SubscriptionRow :
       r.host \in Hosts /\ r.key = SiteOf[r.host] /\ r.key \in Keys /\ r.org \in Orgs
BY ConnectionsAssumption DEF InstallationRow, SubscriptionRow

LEMMA Rows_ ==
  ASSUME Types
  PROVE  /\ \A i \in Installed : i \in Ids /\ i <= lastId /\ installation[i] \in InstallationRow
         /\ \A i \in Subscribed : i \in Ids /\ i <= lastId /\ subscription[i] \in SubscriptionRow
         /\ Ids \subseteq Nat /\ 0 \notin Ids
<1>1. \A i \in Ids : i \in Nat /\ i # 0
  BY ConnectionsAssumption DEF Ids
<1> QED
  BY <1>1 DEF Types, Installed, Subscribed

\* The parts of a request that a step leaves alone.
Same(r, q) ==
  /\ r.op = q.op /\ r.inst = q.inst /\ r.key = q.key /\ r.host = q.host /\ r.org = q.org

Others(s) == \A t \in Slots \ {s} : request'[t] = request[t]

LEMMA IdleIsRequest == Idle \in Request
BY DEF Idle, Request, Places, Ops, SiteOrNone, HostOrNone, OrgOrNone, Answers, Work

LEMMA Going ==
  ASSUME Types, NEW s \in Slots, NEW place \in Places, Goes(s, place)
  PROVE  /\ request' \in [Slots -> Request] /\ Others(s)
         /\ Same(request'[s], request[s]) /\ request'[s].at = place
         /\ request'[s].sub = request[s].sub /\ request'[s].todo = request[s].todo
         /\ request'[s].accepted = request[s].accepted /\ request'[s].seen = request[s].seen
<1> DEFINE r == [request[s] EXCEPT !.at = place]
<1>1. request' = [request EXCEPT ![s] = r]
  BY DEF Goes
<1>2. request \in [Slots -> Request]
  BY DEF Types
<1>3. r \in Request
  BY <1>2 DEF Request
<1>4. /\ Same(r, request[s]) /\ r.at = place /\ r.sub = request[s].sub
      /\ r.todo = request[s].todo
  BY <1>2 DEF Request, Same
<1>5. r.accepted = request[s].accepted /\ r.seen = request[s].seen
  BY <1>2 DEF Request
<1> HIDE DEF r
<1>6. request' \in [Slots -> Request] /\ Others(s) /\ request'[s] = r
  BY <1>1, <1>2, <1>3 DEF Others
<1> QED
  BY <1>3, <1>4, <1>5, <1>6

LEMMA Ending ==
  ASSUME Types, NEW s \in Slots, Ends(s)
  PROVE  request' \in [Slots -> Request] /\ Others(s) /\ request'[s] = Idle
BY IdleIsRequest DEF Types, Ends, Others

LEMMA Finishing ==
  ASSUME Types, NEW s \in Slots, Finishes(s)
  PROVE  /\ request' \in [Slots -> Request] /\ Others(s)
         /\ Same(request'[s], request[s]) /\ request'[s].at = "finish"
         /\ request'[s].sub = request[s].sub /\ request'[s].todo = {"property", "sync"}
         /\ request'[s].accepted = request[s].accepted /\ request'[s].seen = request[s].seen
<1> DEFINE r == [request[s] EXCEPT !.at = "finish", !.todo = {"property", "sync"}]
<1>1. request' = [request EXCEPT ![s] = r]
  BY DEF Finishes
<1>2. request \in [Slots -> Request]
  BY DEF Types
<1>3. r \in Request
  <2>1. {"property", "sync"} \in Work /\ "finish" \in Places
    BY DEF Work, Places
  <2> QED
    BY <1>2, <2>1 DEF Request
<1>4. /\ Same(r, request[s]) /\ r.at = "finish" /\ r.sub = request[s].sub
      /\ r.todo = {"property", "sync"}
  BY <1>2 DEF Request, Same
<1>5. r.accepted = request[s].accepted /\ r.seen = request[s].seen
  BY <1>2 DEF Request
<1> HIDE DEF r
<1>6. request' \in [Slots -> Request] /\ Others(s) /\ request'[s] = r
  BY <1>1, <1>2, <1>3 DEF Others
<1> QED
  BY <1>4, <1>5, <1>6

LEMMA Doing ==
  ASSUME Types, NEW s \in Slots, NEW part \in {"property", "sync"}, Did(s, part)
  PROVE  /\ request' \in [Slots -> Request] /\ Others(s)
         /\ \/ request'[s] = Idle /\ request[s].todo \subseteq {part}
            \/ /\ Same(request'[s], request[s]) /\ request'[s].at = request[s].at
               /\ request'[s].sub = request[s].sub
               /\ request'[s].todo = request[s].todo \ {part}
               /\ request'[s].accepted = request[s].accepted
               /\ request'[s].seen = request[s].seen
<1> DEFINE r == [request[s] EXCEPT !.todo = request[s].todo \ {part}]
<1>1. request \in [Slots -> Request]
  BY DEF Types
<1>2. r \in Request
  <2>1. request[s].todo \ {part} \in Work
    BY <1>1 DEF Request, Work
  <2> QED
    BY <1>1, <2>1 DEF Request
<1>3. /\ Same(r, request[s]) /\ r.at = request[s].at /\ r.sub = request[s].sub
      /\ r.todo = request[s].todo \ {part}
  BY <1>1 DEF Request, Same
<1>4. r.accepted = request[s].accepted /\ r.seen = request[s].seen
  BY <1>1 DEF Request
<1> HIDE DEF r
<1>5. CASE request[s].todo \ {part} = {}
  <2>1. request' = [request EXCEPT ![s] = Idle]
    BY <1>5 DEF Did
  <2> QED
    BY <1>1, <1>5, <2>1, IdleIsRequest DEF Others
<1>6. CASE request[s].todo \ {part} # {}
  <2>1. request' = [request EXCEPT ![s] = r]
    BY <1>6 DEF Did, r
  <2>2. request' \in [Slots -> Request] /\ Others(s) /\ request'[s] = r
    BY <1>1, <1>2, <2>1 DEF Others
  <2> QED
    BY <1>3, <1>4, <2>2
<1> QED
  BY <1>5, <1>6

LEMMA Becoming ==
  ASSUME Types, NEW s \in Slots, NEW r \in Request, request' = [request EXCEPT ![s] = r]
  PROVE  request' \in [Slots -> Request] /\ Others(s) /\ request'[s] = r
BY DEF Types, Others

\* What a request begins with.
Begun(r) ==
  /\ \/ r.op \in {"connect", "remove"} /\ r.at = "find"
     \/ r.op = "remove" /\ r.at = "check"
     \/ r.op = "uninstall" /\ r.at = "list"
     \/ r.op = "install" /\ r.at = "look"
     \/ r.op = "enabled" /\ r.at = "get"
     \/ r.op \in {"permissions", "event"} /\ r.at = "next"
  /\ r.sub = 0 /\ r.accepted = FALSE
  /\ r.seen = IF r.op = "enabled" THEN {} ELSE {TRUE}
  /\ r.op \in FromSession => r.host \in Hosts /\ r.key = SiteOf[r.host]
  /\ r.op \in {"connect", "permissions", "event"} => r.org \in Orgs
  /\ r.inst = 0 \/ (r.inst \in Installed /\ installation[r.inst].key = r.key)

LEMMA TakingAlong ==
  ASSUME Types, NEW i \in Installed
  PROVE  LET r == With(i)
         IN  /\ r \in Request
             /\ r.op = "idle" /\ r.at = "" /\ r.inst = i /\ r.sub = 0 /\ r.accepted = FALSE
             /\ r.seen = {TRUE} /\ r.todo = {}
             /\ r.host \in Hosts /\ r.key = SiteOf[r.host] /\ r.key = installation[i].key
<1>1. i \in Nat /\ installation[i] \in InstallationRow
  BY Rows_
<1>2. /\ installation[i].key \in SiteOrNone /\ installation[i].host \in HostOrNone
      /\ installation[i].host \in Hosts /\ installation[i].key = SiteOf[installation[i].host]
  BY <1>1, RowParts DEF SiteOrNone, HostOrNone
<1>3. /\ Idle.op = "idle" /\ Idle.at = "" /\ Idle.sub = 0 /\ Idle.accepted = FALSE
      /\ Idle.seen = {TRUE} /\ Idle.todo = {}
  BY DEF Idle
<1>4. With(i) \in Request
  BY <1>1, <1>2, IdleIsRequest DEF With, Request
<1>5. /\ With(i).inst = i /\ With(i).key = installation[i].key
      /\ With(i).host = installation[i].host
  BY IdleIsRequest DEF With, Request
<1>6. /\ With(i).op = Idle.op /\ With(i).at = Idle.at /\ With(i).sub = Idle.sub
      /\ With(i).todo = Idle.todo
  BY IdleIsRequest DEF With, Request
<1>7. With(i).accepted = Idle.accepted /\ With(i).seen = Idle.seen
  BY IdleIsRequest DEF With, Request
<1> QED
  BY <1>2, <1>3, <1>4, <1>5, <1>6, <1>7

LEMMA BeginningWithOrg ==
  ASSUME Types, NEW i \in Installed, NEW op \in {"connect", "remove"}, NEW o \in Orgs
  PROVE  /\ [With(i) EXCEPT !.op = op, !.at = "find", !.org = o] \in Request
         /\ Begun([With(i) EXCEPT !.op = op, !.at = "find", !.org = o])
         /\ [With(i) EXCEPT !.op = op, !.at = "find", !.org = o].op = op
<1> DEFINE w == With(i)
           r == [w EXCEPT !.op = op, !.at = "find", !.org = o]
<1>1. /\ w \in Request /\ w.inst = i /\ w.sub = 0 /\ w.host \in Hosts /\ w.key = SiteOf[w.host]
      /\ w.key = installation[i].key
  BY TakingAlong
<1>2. w.accepted = FALSE /\ w.seen = {TRUE}
  BY TakingAlong
<1>3. op \in Ops /\ "find" \in Places /\ op # "enabled" /\ o \in OrgOrNone
  BY DEF Ops, FromSession, Places, OrgOrNone
<1> HIDE DEF w
<1>4. r \in Request
  BY <1>1, <1>3 DEF Request
<1>5. /\ r.op = op /\ r.at = "find" /\ r.inst = w.inst /\ r.key = w.key /\ r.host = w.host
      /\ r.sub = w.sub /\ r.org = o
  BY <1>1 DEF Request
<1>6. r.accepted = w.accepted /\ r.seen = w.seen
  BY <1>1 DEF Request
<1> HIDE DEF r
<1>7. Begun(r)
  BY <1>1, <1>2, <1>3, <1>5, <1>6 DEF Begun
<1>8. r \in Request /\ Begun(r) /\ r.op = op
  BY <1>4, <1>5, <1>7
<1> USE DEF w, r
<1> QED
  BY <1>8

LEMMA BeginningWithSite ==
  ASSUME Types, NEW i \in Installed, NEW op \in {"remove", "uninstall"},
         NEW place \in {"check", "list"}, (op = "remove") = (place = "check")
  PROVE  /\ [With(i) EXCEPT !.op = op, !.at = place] \in Request
         /\ Begun([With(i) EXCEPT !.op = op, !.at = place])
         /\ [With(i) EXCEPT !.op = op, !.at = place].op = op
<1> DEFINE w == With(i)
           r == [w EXCEPT !.op = op, !.at = place]
<1>1. /\ w \in Request /\ w.inst = i /\ w.sub = 0 /\ w.host \in Hosts /\ w.key = SiteOf[w.host]
      /\ w.key = installation[i].key
  BY TakingAlong
<1>2. w.accepted = FALSE /\ w.seen = {TRUE}
  BY TakingAlong
<1>3. op \in Ops /\ place \in Places /\ op # "enabled"
  BY DEF Ops, FromSession, Places
<1> HIDE DEF w
<1>4. r \in Request
  BY <1>1, <1>3 DEF Request
<1>5. /\ r.op = op /\ r.at = place /\ r.inst = w.inst /\ r.key = w.key /\ r.host = w.host
      /\ r.sub = w.sub
  BY <1>1 DEF Request
<1>6. r.accepted = w.accepted /\ r.seen = w.seen
  BY <1>1 DEF Request
<1> HIDE DEF r
<1>7. Begun(r)
  BY <1>1, <1>2, <1>3, <1>5, <1>6 DEF Begun
<1>8. r \in Request /\ Begun(r) /\ r.op = op
  BY <1>4, <1>5, <1>7
<1> USE DEF w, r
<1> QED
  BY <1>8

\* The newest installation of a URL is one of the site that the URL belongs to.
LEMMA NewestOfHost ==
  ASSUME Types, NEW h
  PROVE  \/ GetForHost(h) = 0
         \/ /\ GetForHost(h) \in Installed /\ installation[GetForHost(h)].host = h
            /\ installation[GetForHost(h)].key = SiteOf[h]
<1> DEFINE found == {i \in Installed : installation[i].host = h}
           n == MaxRequests + 1
           Below == {n - i : i \in found}
           Less == OpToRel(<, Nat)
<1> SUFFICES ASSUME found # {}
             PROVE  GetForHost(h) \in found
  BY Rows_, RowParts DEF GetForHost
<1>1. n \in Nat /\ \A i \in found : i \in Nat /\ i <= n
  BY ConnectionsAssumption, Rows_ DEF Ids
<1>2. Below \subseteq Nat /\ Below # {}
  BY <1>1
<1>3. IsWellFoundedOn(Less, Nat)
  BY NatLessThanWellFounded
<1>4. PICK b \in Below : \A y \in Below : ~(<<y, b>> \in Less)
  <2> HIDE DEF Below, Less
  <2> QED
    BY <1>2, <1>3, WFMin
<1>5. PICK i \in found : b = n - i
  BY <1>4
<1>6. ASSUME NEW j \in found
      PROVE  j <= i
  <2>1. n - j \in Below /\ n - j \in Nat /\ b \in Nat
    BY <1>1, <1>2, <1>4
  <2>2. ~(n - j < b)
    BY <1>4, <2>1 DEF OpToRel
  <2> QED
    BY <1>1, <1>5, <2>2
<1>7. \E k \in found : \A j \in found : j <= k
  BY <1>6
<1> QED
  BY <1>7 DEF GetForHost

LEMMA Beginning ==
  ASSUME Types, NEW s \in Slots, NEW r \in Request, Begun(r), Begin(s, r)
  PROVE  /\ request' \in [Slots -> Request] /\ Others(s) /\ request[s] = Idle
         /\ request'[s] = r /\ Begun(request'[s])
<1>1. request' = [request EXCEPT ![s] = r] /\ request[s] = Idle
  BY DEF Begin
<1>2. request' \in [Slots -> Request] /\ Others(s) /\ request'[s] = r
  BY <1>1, Becoming
<1> QED
  BY <1>1, <1>2

Unaffected == UNCHANGED <<tables, atJira, permitted, synced, faults, ghosts>>

LEMMA StartingUser ==
  ASSUME Types, NEW s \in Slots, NEW i \in Ids, NEW o \in OrgOrNone,
         \/ o \in Orgs /\ (StartConnect(s, i, o) \/ StartRemove(s, i, o))
         \/ StartUninstall(s, i) \/ StartDeleteServer(s, i)
  PROVE  /\ request' \in [Slots -> Request] /\ Others(s) /\ request[s] = Idle
         /\ Begun(request'[s]) /\ request'[s].op # "permissions"
         /\ Unaffected /\ UNCHANGED deliveries
<1>1. i \in Installed /\ Unaffected /\ UNCHANGED deliveries
  BY DEF StartConnect, StartRemove, StartUninstall, StartDeleteServer, Unaffected
<1>2. CASE o \in Orgs /\ StartConnect(s, i, o)
  <2> DEFINE r == [With(i) EXCEPT !.op = "connect", !.at = "find", !.org = o]
  <2>1. r \in Request /\ Begun(r) /\ r.op = "connect"
    BY <1>1, <1>2, BeginningWithOrg
  <2>2. Begin(s, r)
    BY <1>2 DEF StartConnect
  <2> HIDE DEF r
  <2> QED
    BY <1>1, <2>1, <2>2, Beginning
<1>3. CASE o \in Orgs /\ StartRemove(s, i, o)
  <2> DEFINE r == [With(i) EXCEPT !.op = "remove", !.at = "find", !.org = o]
  <2>1. r \in Request /\ Begun(r) /\ r.op = "remove"
    BY <1>1, <1>3, BeginningWithOrg
  <2>2. Begin(s, r)
    BY <1>3 DEF StartRemove
  <2> HIDE DEF r
  <2> QED
    BY <1>1, <2>1, <2>2, Beginning
<1>4. CASE StartUninstall(s, i)
  <2> DEFINE r == [With(i) EXCEPT !.op = "uninstall", !.at = "list"]
  <2>1. r \in Request /\ Begun(r) /\ r.op = "uninstall"
    BY <1>1, BeginningWithSite
  <2>2. Begin(s, r)
    BY <1>4 DEF StartUninstall
  <2> HIDE DEF r
  <2> QED
    BY <1>1, <2>1, <2>2, Beginning
<1>5. CASE StartDeleteServer(s, i)
  <2> DEFINE r == [With(i) EXCEPT !.op = "remove", !.at = "check"]
  <2>1. r \in Request /\ Begun(r) /\ r.op = "remove"
    BY <1>1, BeginningWithSite
  <2>2. Begin(s, r)
    BY <1>5 DEF StartDeleteServer
  <2> HIDE DEF r
  <2> QED
    BY <1>1, <2>1, <2>2, Beginning
<1> QED
  BY <1>2, <1>3, <1>4, <1>5

LEMMA IdleParts ==
  /\ Idle \in Request
  /\ Idle.op = "idle" /\ Idle.at = "" /\ Idle.inst = 0 /\ Idle.sub = 0
  /\ Idle.accepted = FALSE /\ Idle.seen = {TRUE} /\ Idle.todo = {}
BY IdleIsRequest DEF Idle

LEMMA StartingJira ==
  ASSUME Types, NEW s \in Slots, NEW h \in Hosts,
         StartInstall(s, h) \/ StartEnabled(s, h)
  PROVE  /\ request' \in [Slots -> Request] /\ Others(s) /\ request[s] = Idle
         /\ Begun(request'[s]) /\ request'[s].op # "permissions"
         /\ Unaffected /\ UNCHANGED deliveries
<1>1. Unaffected /\ UNCHANGED deliveries
  BY DEF StartInstall, StartEnabled, Unaffected
<1>2. CASE StartInstall(s, h)
  <2> DEFINE r == [Idle EXCEPT !.op = "install", !.at = "look", !.key = SiteOf[h], !.host = h]
  <2>1. "install" \in Ops /\ "look" \in Places /\ SiteOf[h] \in SiteOrNone /\ h \in HostOrNone
    BY ConnectionsAssumption DEF Ops, FromSession, Places, SiteOrNone, HostOrNone
  <2>2. r \in Request
    BY <2>1, IdleParts DEF Request
  <2>3. /\ r.op = "install" /\ r.at = "look" /\ r.inst = Idle.inst /\ r.key = SiteOf[h]
        /\ r.host = h /\ r.sub = Idle.sub
    BY IdleParts DEF Request
  <2>4. r.accepted = Idle.accepted /\ r.seen = Idle.seen
    BY IdleParts DEF Request
  <2>5. Begin(s, r)
    BY <1>2 DEF StartInstall
  <2> HIDE DEF r
  <2>6. Begun(r)
    BY <2>3, <2>4, IdleParts DEF Begun
  <2> QED
    BY <1>1, <2>2, <2>3, <2>5, <2>6, Beginning
<1>3. CASE StartEnabled(s, h)
  <2> DEFINE i == GetForHost(h)
             w == With(i)
             r == [w EXCEPT !.op = "enabled", !.at = "get", !.seen = {}]
  <2>1. i \in Installed
    BY <1>3, NewestOfHost DEF StartEnabled
  <2>2. /\ w \in Request /\ w.inst = i /\ w.sub = 0 /\ w.host \in Hosts /\ w.key = SiteOf[w.host]
        /\ w.key = installation[i].key
    BY <2>1, TakingAlong
  <2>3. w.accepted = FALSE
    BY <2>1, TakingAlong
  <2>4. Begin(s, r)
    BY <1>3 DEF StartEnabled
  <2> HIDE DEF i, w
  <2>5. "enabled" \in Ops /\ "get" \in Places /\ {} \in Answers
    BY DEF Ops, FromSession, Places, Answers
  <2>6. r \in Request
    BY <2>2, <2>5 DEF Request
  <2>7. /\ r.op = "enabled" /\ r.at = "get" /\ r.inst = w.inst /\ r.key = w.key
        /\ r.host = w.host /\ r.sub = w.sub
    BY <2>2 DEF Request
  <2>8. r.accepted = w.accepted /\ r.seen = {}
    BY <2>2 DEF Request
  <2> HIDE DEF r
  <2>9. Begun(r)
    BY <2>1, <2>2, <2>3, <2>7, <2>8 DEF Begun
  <2> QED
    BY <1>1, <2>4, <2>6, <2>7, <2>9, Beginning
<1> QED
  BY <1>2, <1>3

LEMMA StartingGitHub ==
  ASSUME Types, NEW s \in Slots, NEW o \in Orgs, NEW op \in {"permissions", "event"},
         Begin(s, [Idle EXCEPT !.op = op, !.at = "next", !.org = o, !.todo = Addressed(o)])
  PROVE  /\ request' \in [Slots -> Request] /\ Others(s) /\ request[s] = Idle
         /\ Begun(request'[s]) /\ request'[s].op = op
         /\ request'[s].todo = Addressed(o) /\ request'[s].org = o
<1> DEFINE r == [Idle EXCEPT !.op = op, !.at = "next", !.org = o, !.todo = Addressed(o)]
<1>1. op \in Ops /\ "next" \in Places /\ o \in OrgOrNone
  BY DEF Ops, Places, OrgOrNone
<1>2. Addressed(o) \in Work
  BY Rows_, RowParts DEF Addressed, Work
<1>3. r \in Request
  BY <1>1, <1>2, IdleParts DEF Request
<1>4. /\ r.op = op /\ r.at = "next" /\ r.inst = Idle.inst /\ r.sub = Idle.sub
      /\ r.todo = Addressed(o) /\ r.org = o
  BY IdleParts DEF Request
<1>5. r.accepted = Idle.accepted /\ r.seen = Idle.seen
  BY IdleParts DEF Request
<1> HIDE DEF r
<1>6. Begun(r)
  BY <1>4, <1>5, IdleParts DEF Begun, FromSession
<1>7. Begin(s, r)
  BY DEF r
<1> QED
  BY <1>3, <1>4, <1>6, <1>7, Beginning

LEMMA Starting ==
  ASSUME Types, NEW s \in Slots, Start(s)
  PROVE  /\ request' \in [Slots -> Request] /\ Others(s) /\ request[s] = Idle
         /\ Begun(request'[s]) /\ Unaffected
         /\ \/ request'[s].op # "permissions" /\ UNCHANGED deliveries
            \/ \E o \in Orgs : /\ request'[s].op = "permissions"
                               /\ request'[s].org = o /\ request'[s].todo = Addressed(o)
                               /\ o \in deliveries /\ deliveries' = deliveries \ {o}
<1>1. CASE \/ \E i \in Ids, o \in Orgs : StartConnect(s, i, o) \/ StartRemove(s, i, o)
           \/ \E i \in Ids : StartUninstall(s, i) \/ StartDeleteServer(s, i)
  <2>1. \A i \in Ids, o \in OrgOrNone :
          \/ o \in Orgs /\ (StartConnect(s, i, o) \/ StartRemove(s, i, o))
          \/ StartUninstall(s, i) \/ StartDeleteServer(s, i)
          => /\ request' \in [Slots -> Request] /\ Others(s) /\ request[s] = Idle
             /\ Begun(request'[s]) /\ request'[s].op # "permissions"
             /\ Unaffected /\ UNCHANGED deliveries
    BY StartingUser
  <2>2. Orgs \subseteq OrgOrNone /\ "" \in OrgOrNone
    BY DEF OrgOrNone
  <2> QED
    BY <1>1, <2>1, <2>2
<1>2. CASE \E h \in Hosts : StartInstall(s, h) \/ StartEnabled(s, h)
  BY <1>2, StartingJira
<1>3. CASE \E o \in Orgs : StartPermissions(s, o) \/ StartEvent(s, o)
  <2>1. ASSUME NEW o \in Orgs, StartPermissions(s, o)
        PROVE  /\ request' \in [Slots -> Request] /\ Others(s) /\ request[s] = Idle
               /\ Begun(request'[s]) /\ Unaffected
               /\ request'[s].op = "permissions"
               /\ request'[s].org = o /\ request'[s].todo = Addressed(o)
               /\ o \in deliveries /\ deliveries' = deliveries \ {o}
    BY <2>1, StartingGitHub DEF StartPermissions, Unaffected
  <2>2. ASSUME NEW o \in Orgs, StartEvent(s, o)
        PROVE  /\ request' \in [Slots -> Request] /\ Others(s) /\ request[s] = Idle
               /\ Begun(request'[s]) /\ Unaffected
               /\ request'[s].op = "event" /\ UNCHANGED deliveries
    BY <2>2, StartingGitHub DEF StartEvent, Unaffected
  <2> QED
    BY <1>3, <2>1, <2>2
<1> QED
  BY <1>1, <1>2, <1>3 DEF Start

-----------------------------------------------------------------------------
(* Steps that note what they found. *)

TakesSub(s, place, i) ==
  request' = [request EXCEPT ![s] = [@ EXCEPT !.at = place, !.sub = i]]

LEMMA TakingSubscription ==
  ASSUME Types, NEW s \in Slots, NEW place \in Places, NEW i \in Nat,
         TakesSub(s, place, i)
  PROVE  /\ request' \in [Slots -> Request] /\ Others(s)
         /\ Same(request'[s], request[s]) /\ request'[s].at = place
         /\ request'[s].sub = i /\ request'[s].todo = request[s].todo
         /\ request'[s].seen = request[s].seen
         /\ request'[s].accepted = request[s].accepted
<1> DEFINE r == [request[s] EXCEPT !.at = place, !.sub = i]
<1>1. request[s] \in Request
  BY DEF Types
<1>2. r \in Request
  BY <1>1 DEF Request
<1>3. Same(r, request[s]) /\ r.at = place /\ r.sub = i /\ r.todo = request[s].todo
  BY <1>1 DEF Request, Same
<1>4. r.accepted = request[s].accepted /\ r.seen = request[s].seen
  BY <1>1 DEF Request
<1>5. request' = [request EXCEPT ![s] = r]
  BY DEF TakesSub
<1> HIDE DEF r
<1> QED
  BY <1>2, <1>3, <1>4, <1>5, Becoming

TakesWork(s, place, todo) ==
  request' = [request EXCEPT ![s] = [@ EXCEPT !.at = place, !.todo = todo]]

LEMMA TakingWork ==
  ASSUME Types, NEW s \in Slots, NEW place \in Places, NEW todo \in Work,
         TakesWork(s, place, todo)
  PROVE  /\ request' \in [Slots -> Request] /\ Others(s)
         /\ Same(request'[s], request[s]) /\ request'[s].at = place
         /\ request'[s].sub = request[s].sub /\ request'[s].todo = todo
         /\ request'[s].seen = request[s].seen /\ request'[s].accepted = request[s].accepted
<1> DEFINE r == [request[s] EXCEPT !.at = place, !.todo = todo]
<1>1. request[s] \in Request
  BY DEF Types
<1>2. r \in Request
  BY <1>1 DEF Request
<1>3. Same(r, request[s]) /\ r.at = place /\ r.sub = request[s].sub /\ r.todo = todo
  BY <1>1 DEF Request, Same
<1>4. r.accepted = request[s].accepted /\ r.seen = request[s].seen
  BY <1>1 DEF Request
<1>5. request' = [request EXCEPT ![s] = r]
  BY DEF TakesWork
<1> HIDE DEF r
<1> QED
  BY <1>2, <1>3, <1>4, <1>5, Becoming

TakesAnswer(s, place, seen) ==
  request' = [request EXCEPT ![s] = [@ EXCEPT !.at = place, !.seen = seen]]

LEMMA TakingAnswer ==
  ASSUME Types, NEW s \in Slots, NEW place \in Places, NEW seen \in Answers,
         TakesAnswer(s, place, seen)
  PROVE  /\ request' \in [Slots -> Request] /\ Others(s)
         /\ Same(request'[s], request[s]) /\ request'[s].at = place
         /\ request'[s].sub = request[s].sub /\ request'[s].todo = request[s].todo
         /\ request'[s].seen = seen /\ request'[s].accepted = request[s].accepted
<1> DEFINE r == [request[s] EXCEPT !.at = place, !.seen = seen]
<1>1. request[s] \in Request
  BY DEF Types
<1>2. r \in Request
  BY <1>1 DEF Request
<1>3. /\ Same(r, request[s]) /\ r.at = place /\ r.sub = request[s].sub
      /\ r.todo = request[s].todo
  BY <1>1 DEF Request, Same
<1>4. r.accepted = request[s].accepted /\ r.seen = seen
  BY <1>1 DEF Request
<1>5. request' = [request EXCEPT ![s] = r]
  BY DEF TakesAnswer
<1> HIDE DEF r
<1> QED
  BY <1>2, <1>3, <1>4, <1>5, Becoming

TakesInst(s, place, i) ==
  request' = [request EXCEPT ![s] = [@ EXCEPT !.at = place, !.inst = i]]

LEMMA TakingInstallation ==
  ASSUME Types, NEW s \in Slots, NEW place \in Places, NEW i \in Nat,
         TakesInst(s, place, i)
  PROVE  /\ request' \in [Slots -> Request] /\ Others(s)
         /\ request'[s].op = request[s].op /\ request'[s].key = request[s].key
         /\ request'[s].host = request[s].host /\ request'[s].org = request[s].org
         /\ request'[s].at = place /\ request'[s].inst = i
         /\ request'[s].sub = request[s].sub /\ request'[s].todo = request[s].todo
         /\ request'[s].seen = request[s].seen /\ request'[s].accepted = request[s].accepted
<1> DEFINE r == [request[s] EXCEPT !.at = place, !.inst = i]
<1>1. request[s] \in Request
  BY DEF Types
<1>2. r \in Request
  BY <1>1 DEF Request
<1>3. /\ r.op = request[s].op /\ r.key = request[s].key /\ r.host = request[s].host
      /\ r.org = request[s].org /\ r.at = place /\ r.inst = i
  BY <1>1 DEF Request
<1>4. r.sub = request[s].sub /\ r.todo = request[s].todo
  BY <1>1 DEF Request
<1>5. r.accepted = request[s].accepted /\ r.seen = request[s].seen
  BY <1>1 DEF Request
<1>6. request' = [request EXCEPT ![s] = r]
  BY DEF TakesInst
<1> HIDE DEF r
<1> QED
  BY <1>2, <1>3, <1>4, <1>5, <1>6, Becoming

\* What a webhook does about one of the subscriptions that it read.
Passed(s, p) ==
  /\ Same(request'[s], request[s]) /\ request'[s].at = "next"
  /\ request'[s].sub = request[s].sub
  /\ \/ missed' = missed \cup {p[1]}
     \/ \E j \in accepted : missed' = missed \cup ({p[1]} \ {j})

Took(s, p) ==
  \E j \in GetSingle(p[2], request[s].org) :
    /\ request'[s].op = request[s].op /\ request'[s].org = request[s].org
    /\ request'[s].at = "link" /\ request'[s].sub = j /\ request'[s].inst \in Installed
    /\ missed' = missed \cup ({p[1]} \ {j})

LEMMA TakingNext ==
  ASSUME Types, NEW s \in Slots, NextSubscription(s)
  PROVE  /\ request' \in [Slots -> Request] /\ Others(s)
         /\ \E p \in request[s].todo :
              /\ request'[s].todo = request[s].todo \ {p} /\ (Passed(s, p) \/ Took(s, p))
<1>1. PICK p \in request[s].todo :
         LET r == [request[s] EXCEPT !.todo = @ \ {p}]
             i == GetForHost(p[2])
             found == GetSingle(p[2], r.org)
         IN  \/ /\ i # 0
                /\ \E j \in found :
                     /\ request' = [request EXCEPT ![s] =
                          IF j \in accepted THEN r
                          ELSE [r EXCEPT !.at = "link", !.sub = j, !.inst = i,
                                         !.key = installation[i].key, !.host = p[2]]]
                     /\ missed' = missed \union ({p[1]} \ {j})
             \/ /\ request' = [request EXCEPT ![s] = r]
                /\ missed' = missed \union {p[1]}
  BY DEF NextSubscription
<1> DEFINE r == [request[s] EXCEPT !.todo = @ \ {p}]
           i == GetForHost(p[2])
           q(j) == [r EXCEPT !.at = "link", !.sub = j, !.inst = i,
                             !.key = installation[i].key, !.host = p[2]]
<1>2. request[s] \in Request /\ request[s].at = "next"
  BY DEF Types, NextSubscription, At
<1>3. r \in Request
  <2>1. request[s].todo \ {p} \in Work
    BY <1>2 DEF Request, Work
  <2> QED
    BY <1>2, <2>1 DEF Request
<1>4. /\ Same(r, request[s]) /\ r.at = "next" /\ r.sub = request[s].sub
      /\ r.todo = request[s].todo \ {p}
  BY <1>2 DEF Request, Same
<1>5. \/ /\ i # 0
         /\ \E j \in GetSingle(p[2], request[s].org) :
              /\ request' = [request EXCEPT ![s] = IF j \in accepted THEN r ELSE q(j)]
              /\ missed' = missed \union ({p[1]} \ {j})
      \/ /\ request' = [request EXCEPT ![s] = r]
         /\ missed' = missed \union {p[1]}
  <2>1. r.org = request[s].org
    BY <1>4 DEF Same
  <2> QED
    BY <1>1, <2>1
<1>6. ASSUME request' = [request EXCEPT ![s] = r],
             \/ missed' = missed \cup {p[1]}
             \/ \E j \in accepted : missed' = missed \cup ({p[1]} \ {j})
      PROVE  /\ request' \in [Slots -> Request] /\ Others(s)
             /\ request'[s].todo = request[s].todo \ {p} /\ Passed(s, p)
  <2> HIDE DEF r
  <2>1. request' \in [Slots -> Request] /\ Others(s) /\ request'[s] = r
    BY <1>3, <1>6, Becoming
  <2> QED
    BY <1>4, <1>6, <2>1 DEF Passed
<1>7. ASSUME i # 0, NEW j \in GetSingle(p[2], request[s].org),
             request' = [request EXCEPT ![s] = q(j)],
             missed' = missed \union ({p[1]} \ {j})
      PROVE  /\ request' \in [Slots -> Request] /\ Others(s)
             /\ request'[s].todo = request[s].todo \ {p} /\ Took(s, p)
  <2>1. i \in Installed /\ i \in Nat /\ installation[i] \in InstallationRow
    BY <1>7, NewestOfHost, Rows_
  <2>2. j \in Nat
    BY Rows_ DEF GetSingle
  <2>3. /\ "link" \in Places /\ installation[i].key \in SiteOrNone /\ p[2] \in HostOrNone
    BY <1>7, <2>1, NewestOfHost, RowParts DEF Places, SiteOrNone, HostOrNone
  <2> HIDE DEF r, i
  <2>4. q(j) \in Request
    BY <1>3, <2>1, <2>2, <2>3 DEF Request
  <2>5. /\ q(j).op = r.op /\ q(j).org = r.org /\ q(j).at = "link" /\ q(j).sub = j /\ q(j).inst = i
        /\ q(j).todo = r.todo
    BY <1>3 DEF Request
  <2> HIDE DEF q
  <2>6. request' \in [Slots -> Request] /\ Others(s) /\ request'[s] = q(j)
    BY <1>7, <2>4, Becoming
  <2> QED
    BY <1>4, <1>7, <2>1, <2>5, <2>6 DEF Took, Same
<1> HIDE DEF r, q, i
<1>8. CASE /\ i # 0
           /\ \E j \in GetSingle(p[2], request[s].org) :
                /\ request' = [request EXCEPT ![s] = IF j \in accepted THEN r ELSE q(j)]
                /\ missed' = missed \union ({p[1]} \ {j})
  <2>1. PICK j \in GetSingle(p[2], request[s].org) :
           /\ request' = [request EXCEPT ![s] = IF j \in accepted THEN r ELSE q(j)]
           /\ missed' = missed \union ({p[1]} \ {j})
    BY <1>8
  <2>2. CASE j \in accepted
    BY <1>6, <2>1, <2>2
  <2>3. CASE j \notin accepted
    BY <1>7, <1>8, <2>1, <2>3
  <2> QED
    BY <2>2, <2>3
<1>9. CASE request' = [request EXCEPT ![s] = r] /\ missed' = missed \union {p[1]}
  BY <1>6, <1>9
<1> QED
  BY <1>5, <1>8, <1>9

LEMMA TakingEvent ==
  ASSUME Types, NEW s \in Slots, NEW p,
         request' = [request EXCEPT ![s].todo = @ \ {p}]
  PROVE  /\ request' \in [Slots -> Request] /\ Others(s)
         /\ Same(request'[s], request[s]) /\ request'[s].at = request[s].at
         /\ request'[s].sub = request[s].sub
         /\ request'[s].todo = request[s].todo \ {p}
         /\ request'[s].seen = request[s].seen /\ request'[s].accepted = request[s].accepted
<1> DEFINE todo == request[s].todo \ {p}
           r == [request[s] EXCEPT !.todo = todo]
<1>1. request[s] \in Request
  BY DEF Types
<1>2. todo \in Work
  BY <1>1 DEF Request, Work
<1> HIDE DEF todo
<1>3. r \in Request
  BY <1>1, <1>2 DEF Request
<1>4. Same(r, request[s]) /\ r.at = request[s].at /\ r.sub = request[s].sub /\ r.todo = todo
  BY <1>1 DEF Request, Same
<1>5. r.accepted = request[s].accepted /\ r.seen = request[s].seen
  BY <1>1 DEF Request
<1>6. request' = [request EXCEPT ![s] = r]
  BY DEF todo
<1> HIDE DEF r
<1> QED
  BY <1>3, <1>4, <1>5, <1>6, Becoming DEF todo

-----------------------------------------------------------------------------
(* Types, and what requests know. *)

LEMMA SameTables ==
  ASSUME Types, UNCHANGED <<installation, subscription, lastId>>,
         isConfigured' \in [Keys -> {"none", "true", "false"}], request' \in [Slots -> Request]
  PROVE  Types'
BY DEF Types

\* No step gives an id a second row, or a row to another site or organisation.
Keeps ==
  /\ lastId <= lastId'
  /\ \A i \in Installed' :
       i <= lastId => i \in Installed /\ installation'[i].key = installation[i].key
  /\ \A i \in Subscribed' :
       i <= lastId => /\ i \in Subscribed /\ subscription'[i].key = subscription[i].key
                      /\ subscription'[i].org = subscription[i].org

LEMMA SameKeeps ==
  ASSUME Types, UNCHANGED <<installation, subscription, lastId>>
  PROVE  Keeps
BY DEF Types, Keeps, Installed, Subscribed

LEMMA KeptRequest ==
  ASSUME Types, Types', Keeps, NEW r \in Request, RequestOK(r)
  PROVE  RequestOK(r)'
<1>1. lastId \in Nat /\ lastId' \in Nat /\ r.inst \in Nat /\ r.sub \in Nat
  BY DEF Types, Request
<1>2. r.inst <= lastId /\ r.sub <= lastId /\ r.inst <= lastId' /\ r.sub <= lastId'
  BY <1>1 DEF RequestOK, Keeps
<1>3. IsOf(r.sub, r) => IsOf(r.sub, r)'
  BY <1>2 DEF IsOf, Keeps
<1>4. (r.inst \in Installed => installation[r.inst].key = r.key)
      => (r.inst \in Installed => installation[r.inst].key = r.key)'
  BY <1>2 DEF Keeps
<1> QED
  BY <1>2, <1>3, <1>4 DEF RequestOK

RequestsOK == \A t \in Slots : RequestOK(request[t])

\* A step of one request leaves true what the others know.
LEMMA OneRequest ==
  ASSUME Types, Types', RequestsOK, Keeps, NEW s \in Slots, Others(s), RequestOK(request[s])'
  PROVE  RequestsOK'
<1> SUFFICES ASSUME NEW t \in Slots, t # s
             PROVE  RequestOK(request[t])'
  BY DEF RequestsOK
<1>1. PICK r \in Request : r = request[t] /\ r = request'[t]
  BY DEF Types, Others
<1>2. RequestOK(r)
  BY <1>1 DEF RequestsOK
<1>3. RequestOK(r)'
  BY <1>1, <1>2, KeptRequest
<1> QED
  BY <1>1, <1>3 DEF RequestOK, IsOf

InConnect == {"security", "accept", "link", "finish"}
InRemove == {"data", "workspace", "destroy"}

\* A request that goes on knows what it knew.
LEMMA MovedOK ==
  ASSUME Types, Types', Keeps, NEW s \in Slots, RequestOK(request[s]),
         Same(request'[s], request[s]), request'[s].sub = request[s].sub,
         request'[s].seen = request[s].seen,
         request[s].op = "connect" =>
           \/ request[s].at \in InConnect /\ request'[s].at \in InConnect
           \/ request'[s].at \in {"find", "insert"},
         request[s].op = "remove" =>
           /\ request'[s].at \in InRemove => request[s].at \in InRemove
           /\ request'[s].at # "unset",
         request[s].op = "uninstall" => request'[s].at # "property",
         request[s].op = "install" /\ request'[s].at \in {"update", "rehost"} =>
           request[s].at \in {"update", "rehost"}
  PROVE  RequestOK(request[s])'
<1>1. PICK r \in Request : r = request[s]
  BY DEF Types
<1>2. RequestOK(r)'
  BY <1>1, KeptRequest
<1>3. PICK q \in Request : q = request'[s]
  BY DEF Types
<1>4. Same(q, r) /\ q.sub = r.sub /\ q.seen = r.seen
  BY <1>1, <1>3
<1>5. RequestOK(q)'
  BY <1>1, <1>2, <1>3, <1>4 DEF RequestOK, IsOf, Same, InConnect, InRemove
<1> QED
  BY <1>3, <1>5 DEF RequestOK, IsOf

Sound == Types /\ RequestsOK

LEMMA Still ==
  ASSUME Sound, NEW s \in Slots, request' \in [Slots -> Request], Others(s),
         UNCHANGED <<installation, subscription, lastId>>,
         isConfigured' \in [Keys -> {"none", "true", "false"}],
         request'[s] = Idle \/ RequestOK(request[s])'
  PROVE  Sound' /\ Keeps
<1>1. Types' /\ Keeps
  BY SameTables, SameKeeps DEF Sound
<1>2. RequestOK(request[s])'
  <2>1. ASSUME request'[s] = Idle
        PROVE  RequestOK(request[s])'
    <3>1. request'[s].op = "idle" /\ request'[s].inst = 0 /\ request'[s].sub = 0
      BY <2>1, IdleParts
    <3>2. lastId' \in Nat
      BY <1>1 DEF Types
    <3> QED
      BY <3>1, <3>2 DEF RequestOK, FromSession
  <2> QED
    BY <2>1
<1> QED
  BY <1>1, <1>2, OneRequest DEF Sound

\* It did no more than go on.
Moved(s) ==
  /\ request' \in [Slots -> Request] /\ Others(s)
  /\ Same(request'[s], request[s]) /\ request'[s].sub = request[s].sub
  /\ request'[s].seen = request[s].seen /\ request'[s].accepted = request[s].accepted

LEMMA Moving ==
  ASSUME Sound, NEW s \in Slots, Moved(s),
         UNCHANGED <<installation, subscription, lastId>>,
         isConfigured' \in [Keys -> {"none", "true", "false"}],
         request[s].op = "connect" =>
           \/ request[s].at \in InConnect /\ request'[s].at \in InConnect
           \/ request'[s].at \in {"find", "insert"},
         request[s].op = "remove" =>
           /\ request'[s].at \in InRemove => request[s].at \in InRemove
           /\ request'[s].at # "unset",
         request[s].op = "uninstall" => request'[s].at # "property",
         request[s].op = "install" /\ request'[s].at \in {"update", "rehost"} =>
           request[s].at \in {"update", "rehost"}
  PROVE  Sound' /\ Keeps
<1>1. Types' /\ Keeps
  BY SameTables, SameKeeps DEF Sound, Moved
<1>2. RequestOK(request[s])'
  BY <1>1, MovedOK DEF Sound, RequestsOK, Moved
<1> QED
  BY <1>2, Still DEF Moved

LEMMA PlacesAre ==
  \A p \in {"", "find", "insert", "security", "accept", "link", "finish", "data", "workspace",
            "destroy", "check", "unset", "look", "create", "update", "rehost", "get", "list",
            "drop", "property", "row", "next", "sync"} : p \in Places
BY DEF Places

LEMMA ConfiguredSame ==
  ASSUME Sound, isConfigured' = isConfigured
  PROVE  isConfigured' \in [Keys -> {"none", "true", "false"}]
BY DEF Sound, Types

LEMMA ConnectMoves ==
  ASSUME Sound, NEW s \in Slots,
         \/ CheckSecurity(s) \/ AcceptInConnect(s) \/ LinkInConnect(s)
  PROVE  Sound' /\ Keeps
<1>1. /\ request[s].op = "connect" /\ request[s].at \in InConnect
      /\ UNCHANGED <<installation, subscription, lastId, isConfigured>>
  BY DEF CheckSecurity, AcceptInConnect, LinkInConnect, At, InConnect, tables, atJira
<1>2. Goes(s, "link") \/ Goes(s, "accept") \/ Finishes(s)
  BY DEF CheckSecurity, AcceptInConnect, LinkInConnect
<1>3. Moved(s) /\ request'[s].at \in InConnect
  BY <1>2, Going, Finishing, PlacesAre DEF Sound, Moved, InConnect
<1> QED
  BY <1>1, <1>3, Moving, ConfiguredSame

LEMMA Saving ==
  ASSUME Sound, NEW s \in Slots, NEW value \in {"none", "true", "false"},
         SavesConfigured(s, value) \/ Writes(s, request[s].key, value)
  PROVE  isConfigured' \in [Keys -> {"none", "true", "false"}]
BY DEF Sound, Types, SavesConfigured, Writes

LEMMA StoppingOrGoing ==
  ASSUME Sound, NEW s \in Slots, NEW place \in Places,
         UNCHANGED <<installation, subscription, lastId>>,
         isConfigured' \in [Keys -> {"none", "true", "false"}],
         Ends(s) \/ Goes(s, place),
         request[s].op = "connect" =>
           \/ request[s].at \in InConnect /\ place \in InConnect
           \/ place \in {"find", "insert"},
         request[s].op = "remove" =>
           /\ place \in InRemove => request[s].at \in InRemove
           /\ place # "unset",
         request[s].op = "uninstall" => place # "property",
         request[s].op = "install" /\ place \in {"update", "rehost"} =>
           request[s].at \in {"update", "rehost"}
  PROVE  Sound' /\ Keeps
<1>1. CASE Ends(s)
  BY <1>1, Ending, Still DEF Sound
<1>2. CASE Goes(s, place)
  <2>1. Moved(s) /\ request'[s].at = place
    BY <1>2, Going DEF Sound, Moved
  <2> QED
    BY <2>1, Moving
<1> QED
  BY <1>1, <1>2

LEMMA ConnectEnds ==
  ASSUME Sound, NEW s \in Slots,
         RefuseConnect(s) \/ SetConfigured(s) \/ StartSync(s)
  PROVE  Sound' /\ Keeps
<1>1. request[s].op = "connect" /\ UNCHANGED <<installation, subscription, lastId>>
  BY DEF RefuseConnect, SetConfigured, StartSync, At, tables
<1>2. isConfigured' \in [Keys -> {"none", "true", "false"}]
  <2>1. CASE SetConfigured(s)
    BY <2>1, Saving DEF SetConfigured
  <2>2. CASE RefuseConnect(s) \/ StartSync(s)
    BY <2>2, ConfiguredSame DEF RefuseConnect, StartSync, atJira
  <2> QED
    BY <2>1, <2>2
<1>3. CASE RefuseConnect(s)
  BY <1>1, <1>2, <1>3, StoppingOrGoing, PlacesAre DEF RefuseConnect, Sound, Ends
<1>4. CASE SetConfigured(s) \/ StartSync(s)
  <2>1. PICK part \in {"property", "sync"} : Did(s, part)
    BY <1>4 DEF SetConfigured, StartSync
  <2>2. request[s].at = "finish"
    BY <1>4 DEF SetConfigured, StartSync, At
  <2>3. \/ request'[s] = Idle /\ request' \in [Slots -> Request] /\ Others(s)
        \/ Moved(s) /\ request'[s].at = "finish"
    BY <2>1, <2>2, Doing DEF Sound, Moved
  <2> QED
    BY <1>1, <1>2, <2>2, <2>3, Still, Moving DEF InConnect
<1> QED
  BY <1>3, <1>4

LEMMA FoundSubscription ==
  ASSUME Types, NEW s \in Slots, NEW i \in Nat,
         request' = [request EXCEPT ![s] =
                       [@ EXCEPT !.at = "security", !.sub = i, !.accepted = i \in accepted]]
  PROVE  /\ request' \in [Slots -> Request] /\ Others(s) /\ Same(request'[s], request[s])
         /\ request'[s].at = "security" /\ request'[s].sub = i
         /\ request'[s].seen = request[s].seen
         /\ request'[s].accepted => i \in accepted
<1>1. (i \in accepted) \in BOOLEAN
  OBVIOUS
<1>2. PICK known \in BOOLEAN :
         /\ request' = [request EXCEPT ![s] =
                          [@ EXCEPT !.at = "security", !.sub = i, !.accepted = known]]
         /\ known => i \in accepted
  BY <1>1, Zenon
<1> DEFINE r == [request[s] EXCEPT !.at = "security", !.sub = i, !.accepted = known]
<1>3. request[s] \in Request /\ "security" \in Places
  BY PlacesAre DEF Types
<1>4. r \in Request
  BY <1>3 DEF Request
<1>5. Same(r, request[s]) /\ r.at = "security" /\ r.sub = i
  BY <1>3 DEF Request, Same
<1>6. r.seen = request[s].seen /\ r.accepted = known
  BY <1>3 DEF Request
<1>7. request' = [request EXCEPT ![s] = r]
  BY <1>2
<1> HIDE DEF r
<1> QED
  BY <1>2, <1>4, <1>5, <1>6, <1>7, Becoming

LEMMA FindingSubscription ==
  ASSUME Sound, NEW s \in Slots, FindSubscription(s)
  PROVE  Sound' /\ Keeps
<1>1. /\ request[s].op = "connect" /\ request[s].at = "find"
      /\ UNCHANGED <<installation, subscription, lastId, isConfigured>>
  BY DEF FindSubscription, At, tables, atJira
<1>2. CASE Goes(s, "insert")
  BY <1>1, <1>2, StoppingOrGoing, PlacesAre, ConfiguredSame
<1>3. ASSUME NEW i \in Rows(request[s].key, request[s].host, request[s].org),
             request' = [request EXCEPT ![s] =
                           [@ EXCEPT !.at = "security", !.sub = i, !.accepted = i \in accepted]]
      PROVE  Sound' /\ Keeps
  <2>1. /\ i \in Subscribed /\ i \in Nat /\ i # 0 /\ i <= lastId
        /\ subscription[i].key = request[s].key /\ subscription[i].org = request[s].org
    BY Rows_ DEF Rows, Sound
  <2>2. /\ request' \in [Slots -> Request] /\ Others(s) /\ Same(request'[s], request[s])
        /\ request'[s].at = "security" /\ request'[s].sub = i
        /\ request'[s].seen = request[s].seen
    BY <1>3, <2>1, FoundSubscription DEF Sound
  <2>3. RequestOK(request[s])'
    <3>1. PICK r \in Request : r = request'[s]
      BY <2>2
    <3>2. RequestOK(r)'
      BY <1>1, <2>1, <2>2, <3>1 DEF Sound, RequestsOK, RequestOK, Same, IsOf, Subscribed
    <3> QED
      BY <3>1, <3>2 DEF RequestOK, IsOf
  <2> QED
    BY <1>1, <2>2, <2>3, Still, ConfiguredSame
<1> QED
  BY <1>2, <1>3 DEF FindSubscription

LEMMA Inserted ==
  ASSUME Sound, NEW s \in Slots, InsertSubscription(s)
  PROVE  /\ request' \in [Slots -> Request] /\ Others(s) /\ Same(request'[s], request[s])
         /\ request'[s].at = "security" /\ request'[s].sub = lastId'
         /\ request'[s].seen = request[s].seen /\ request'[s].todo = request[s].todo
         /\ request'[s].accepted = request[s].accepted
<1>1. PICK i \in Nat : i = lastId + 1
  BY DEF Sound, Types
<1>2. lastId' = i
  BY <1>1 DEF InsertSubscription
<1>3. TakesSub(s, "security", i)
  BY <1>1 DEF InsertSubscription, TakesSub
<1>4. "security" \in Places /\ Types
  BY PlacesAre DEF Sound
<1> QED
  BY <1>2, <1>3, <1>4, TakingSubscription

LEMMA InsertingSubscription ==
  ASSUME Sound, NEW s \in Slots, InsertSubscription(s)
  PROVE  Sound' /\ Keeps
<1> DEFINE r == request[s]
           row == [key |-> r.key, host |-> r.host, org |-> r.org]
<1>1. /\ r.op = "connect" /\ lastId' = lastId + 1 /\ lastId \in Nat
      /\ subscription' = [subscription EXCEPT ![lastId'] = row]
      /\ UNCHANGED <<installation, isConfigured>>
  BY DEF InsertSubscription, At, atJira, Sound, Types
<1>2. row \in SubscriptionRow /\ row.key = r.key /\ row.org = r.org
  <2>1. r.host \in Hosts /\ r.key = SiteOf[r.host] /\ r.org \in Orgs
    BY <1>1 DEF Sound, RequestsOK, RequestOK, FromSession
  <2> HIDE DEF r
  <2> QED
    BY <2>1 DEF SubscriptionRow
<1> HIDE DEF row
<1>3. /\ request' \in [Slots -> Request] /\ Others(s) /\ Same(request'[s], request[s])
      /\ request'[s].at = "security" /\ request'[s].sub = lastId'
      /\ request'[s].seen = request[s].seen
  BY Inserted
<1>4. \A i \in Ids : i \in Nat /\ subscription'[i] = IF i = lastId' THEN row ELSE subscription[i]
  BY <1>1, Rows_ DEF Sound, Types
<1>5. Types'
  <2>1. subscription' \in [Ids -> SubscriptionRow \cup {None}]
    BY <1>1, <1>2 DEF Sound, Types
  <2>2. \A i \in Ids : i > lastId' => installation'[i] = None /\ subscription'[i] = None
    BY <1>1, <1>4 DEF Sound, Types
  <2> QED
    BY <1>1, <1>3, <2>1, <2>2 DEF Sound, Types
<1>6. Keeps
  BY <1>1, <1>4 DEF Keeps, Installed, Subscribed
<1>7. RequestOK(request[s])'
  <2>1. IsOf(lastId, request[s])'
    BY <1>2, <1>3, <1>4 DEF IsOf, Subscribed, Same
  <2>2. PICK q \in Request : q = request'[s]
    BY <1>3
  <2>3. /\ q.op = r.op /\ q.inst = r.inst /\ q.key = r.key /\ q.host = r.host /\ q.org = r.org
        /\ q.at = "security" /\ q.sub = lastId' /\ q.seen = r.seen
    BY <1>3, <2>2 DEF Same
  <2>4. /\ r.inst <= lastId /\ r.inst \in Nat /\ r.host \in Hosts /\ r.key = SiteOf[r.host]
        /\ r.org \in Orgs /\ r.seen = {TRUE}
    BY <1>1 DEF Sound, Types, Request, RequestsOK, RequestOK, FromSession
  <2>5. RequestOK(q)'
    BY <1>1, <2>1, <2>2, <2>3, <2>4 DEF RequestOK, IsOf
  <2> QED
    BY <2>2, <2>5 DEF RequestOK, IsOf
<1> QED
  BY <1>3, <1>5, <1>6, <1>7, OneRequest DEF Sound

LEMMA FoundToRemove ==
  ASSUME Sound, NEW s \in Slots, FindToRemove(s)
  PROVE  \/ Ends(s)
         \/ \E i \in Subscribed :
              /\ i \in Nat /\ i # 0 /\ i <= lastId
              /\ subscription[i].key = request[s].key /\ subscription[i].org = request[s].org
              /\ TakesSub(s, "data", i)
<1>1. request[s].op = "remove"
  BY DEF FindToRemove, At
<1>2. request[s].key = SiteOf[request[s].host]
  BY <1>1 DEF Sound, RequestsOK, RequestOK, FromSession
<1>3. ASSUME NEW i \in GetSingle(request[s].host, request[s].org),
             request' = [request EXCEPT ![s] = [@ EXCEPT !.at = "data", !.sub = i]]
      PROVE  /\ i \in Subscribed /\ i \in Nat /\ i # 0 /\ i <= lastId
             /\ subscription[i].key = request[s].key /\ subscription[i].org = request[s].org
             /\ TakesSub(s, "data", i)
  <2>1. TakesSub(s, "data", i)
    BY <1>3 DEF TakesSub
  <2>2. /\ i \in Subscribed /\ subscription[i].host = request[s].host
        /\ subscription[i].org = request[s].org
    BY DEF GetSingle
  <2> QED
    BY <1>2, <2>1, <2>2, Rows_, RowParts DEF Sound
<1> QED
  BY <1>3 DEF FindToRemove

LEMMA FindingToRemove ==
  ASSUME Sound, NEW s \in Slots, FindToRemove(s)
  PROVE  Sound' /\ Keeps
<1>1. /\ request[s].op = "remove" /\ request[s].at = "find"
      /\ UNCHANGED <<installation, subscription, lastId, isConfigured>>
  BY DEF FindToRemove, At, tables, atJira
<1>2. CASE Ends(s)
  BY <1>1, <1>2, Ending, Still, ConfiguredSame DEF Sound
<1>3. ASSUME NEW i \in Subscribed, i \in Nat, i <= lastId,
             subscription[i].key = request[s].key /\ subscription[i].org = request[s].org,
             TakesSub(s, "data", i)
      PROVE  Sound' /\ Keeps
  <2>1. /\ request' \in [Slots -> Request] /\ Others(s) /\ Same(request'[s], request[s])
        /\ request'[s].at = "data" /\ request'[s].sub = i
    BY <1>3, PlacesAre, TakingSubscription DEF Sound
  <2>2. RequestOK(request[s])'
    <3>1. PICK r \in Request : r = request'[s]
      BY <2>1
    <3>2. RequestOK(r)'
      BY <1>1, <1>3, <2>1, <3>1 DEF Sound, RequestsOK, RequestOK, Same, IsOf, Subscribed
    <3> QED
      BY <3>1, <3>2 DEF RequestOK, IsOf
  <2> QED
    BY <1>1, <2>1, <2>2, Still, ConfiguredSame
<1> QED
  BY <1>2, <1>3, FoundToRemove

LEMMA RemoveMoves ==
  ASSUME Sound, NEW s \in Slots, DeleteDevInfo(s) \/ DeleteWorkspace(s)
  PROVE  Sound' /\ Keeps
<1>1. /\ request[s].op = "remove" /\ request[s].at \in InRemove
      /\ UNCHANGED <<installation, subscription, lastId, isConfigured>>
      /\ Goes(s, "workspace") \/ Goes(s, "destroy") \/ Ends(s)
  BY DEF DeleteDevInfo, DeleteWorkspace, At, InRemove, tables, atJira
<1> QED
  BY <1>1, StoppingOrGoing, ConfiguredSame, PlacesAre DEF InRemove

LEMMA Unset ==
  ASSUME Sound, NEW s \in Slots, UnsetConfigured(s) \/ GetConfigured(s)
  PROVE  Sound' /\ Keeps
<1>1. /\ UNCHANGED <<installation, subscription, lastId>>
      /\ Ends(s) \/ (request[s].op = "enabled" /\ Goes(s, "unset"))
  BY DEF UnsetConfigured, GetConfigured, At, tables
<1>2. isConfigured' \in [Keys -> {"none", "true", "false"}]
  <2>1. CASE UnsetConfigured(s)
    BY <2>1, Saving DEF UnsetConfigured
  <2>2. CASE GetConfigured(s)
    BY <2>2, ConfiguredSame DEF GetConfigured, atJira
  <2> QED
    BY <2>1, <2>2
<1> QED
  BY <1>1, <1>2, StoppingOrGoing, PlacesAre, Ending, Still DEF Sound

\* Rows go, and a request goes on.
LEMMA Destroying ==
  ASSUME Sound, NEW ids, Destroy(ids), isConfigured' = isConfigured,
         request' \in [Slots -> Request]
  PROVE  Types' /\ Keeps /\ (\A i \in Subscribed' : i \in Subscribed /\ i \notin ids)
         /\ (\A i \in Subscribed : i \notin ids => i \in Subscribed')
         /\ \A i \in Subscribed' : subscription'[i] = subscription[i]
<1>1. /\ UNCHANGED <<installation, lastId>>
      /\ subscription' = [i \in Ids |-> IF i \in ids THEN None ELSE subscription[i]]
  BY DEF Destroy
<1>2. \A i \in Ids : subscription'[i] = IF i \in ids THEN None ELSE subscription[i]
  BY <1>1
<1>3. Types'
  BY <1>1, <1>2 DEF Sound, Types
<1>4. /\ \A i \in Subscribed' :
           i \in Subscribed /\ i \notin ids /\ subscription'[i] = subscription[i]
      /\ \A i \in Subscribed : i \notin ids => i \in Subscribed'
  BY <1>2 DEF Subscribed
<1>5. Keeps
  BY <1>1, <1>4 DEF Sound, Types, Keeps, Installed
<1> QED
  BY <1>3, <1>4, <1>5

LEMMA DestroyingSubscription ==
  ASSUME Sound, NEW s \in Slots, DestroySubscription(s)
  PROVE  Sound' /\ Keeps
<1>1. /\ Destroy({request[s].sub}) /\ Goes(s, "check") /\ isConfigured' = isConfigured
      /\ request[s].op = "remove" /\ request[s].at = "destroy"
  BY DEF DestroySubscription, At, atJira
<1>2. Moved(s) /\ request'[s].at = "check"
  BY <1>1, Going, PlacesAre DEF Moved, Sound
<1>3. Types' /\ Keeps
  BY <1>1, <1>2, Destroying DEF Moved
<1>4. RequestOK(request[s])'
  BY <1>1, <1>2, <1>3, MovedOK DEF Moved, Sound, RequestsOK, InRemove
<1> QED
  BY <1>2, <1>3, <1>4, OneRequest DEF Sound, Moved

LEMMA CheckingConnected ==
  ASSUME Sound, NEW s \in Slots, CheckConnected(s)
  PROVE  /\ Sound' /\ Keeps
         /\ \/ Ends(s)
            \/ /\ \A i \in Subscribed : subscription[i].host # request[s].host
               /\ TakesAnswer(s, "unset", {FALSE})
<1>1. /\ request[s].op = "remove" /\ request[s].at = "check"
      /\ UNCHANGED <<installation, subscription, lastId, isConfigured>>
  BY DEF CheckConnected, At, tables, atJira
<1>2. CASE Connected(request[s].host)
  <2>1. Ends(s)
    BY <1>2 DEF CheckConnected
  <2> QED
    BY <1>1, <2>1, Ending, Still, ConfiguredSame DEF Sound
<1>3. CASE ~Connected(request[s].host)
  <2>1. Connected(request[s].host) = FALSE
    BY <1>3 DEF Connected
  <2>2. Unsets(s)
    BY <1>3 DEF CheckConnected
  <2>3. TakesAnswer(s, "unset", {FALSE})
    BY <2>1, <2>2 DEF TakesAnswer, Unsets
  <2>4. {FALSE} \in Answers /\ "unset" \in Places
    BY PlacesAre DEF Answers
  <2>5. /\ request' \in [Slots -> Request] /\ Others(s) /\ Same(request'[s], request[s])
        /\ request'[s].at = "unset" /\ request'[s].sub = request[s].sub
    BY <2>3, <2>4, TakingAnswer DEF Sound
  <2>6. request'[s].seen = {FALSE}
    BY <2>3, <2>4, TakingAnswer DEF Sound
  <2>7. RequestOK(request[s])'
    <3>1. PICK r \in Request : r = request'[s]
      BY <2>5
    <3>2. RequestOK(r)'
      BY <1>1, <2>5, <2>6, <3>1 DEF Sound, RequestsOK, RequestOK, Same, IsOf, Subscribed
    <3> QED
      BY <3>1, <3>2 DEF RequestOK, IsOf
  <2> QED
    BY <1>1, <1>3, <2>3, <2>5, <2>7, Still, ConfiguredSame DEF Connected
<1> QED
  BY <1>2, <1>3

LEMMA LookingForInstallation ==
  ASSUME Sound, NEW s \in Slots, LookForInstallation(s)
  PROVE  Sound' /\ Keeps
<1>1. /\ request[s].op = "install" /\ request[s].at = "look"
      /\ UNCHANGED <<installation, subscription, lastId, isConfigured>>
  BY DEF LookForInstallation, At, tables, atJira
<1>2. CASE Goes(s, "create")
  BY <1>1, <1>2, StoppingOrGoing, PlacesAre, ConfiguredSame
<1>3. ASSUME NEW i \in Installed, installation[i].key = request[s].key,
             request' = [request EXCEPT ![s] = [@ EXCEPT !.at = "update", !.inst = i]]
      PROVE  Sound' /\ Keeps
  <2>1. TakesInst(s, "update", i)
    BY <1>3 DEF TakesInst
  <2>2. i \in Nat /\ i <= lastId /\ "update" \in Places
    BY Rows_, PlacesAre DEF Sound
  <2>3. /\ request' \in [Slots -> Request] /\ Others(s)
        /\ request'[s].op = request[s].op /\ request'[s].key = request[s].key
        /\ request'[s].host = request[s].host /\ request'[s].sub = request[s].sub
        /\ request'[s].at = "update" /\ request'[s].inst = i
    BY <2>1, <2>2, TakingInstallation DEF Sound
  <2>4. RequestOK(request[s])'
    <3>1. PICK r \in Request : r = request'[s]
      BY <2>3
    <3>2. RequestOK(r)'
      BY <1>1, <1>3, <2>2, <2>3, <3>1 DEF Sound, RequestsOK, RequestOK, IsOf, Installed
    <3> QED
      BY <3>1, <3>2 DEF RequestOK, IsOf
  <2> QED
    BY <1>1, <2>3, <2>4, Still, ConfiguredSame
<1> QED
  BY <1>2, <1>3 DEF LookForInstallation

LEMMA CreatingInstallation ==
  ASSUME Sound, NEW s \in Slots, CreateInstallation(s)
  PROVE  Sound' /\ Keeps
<1> DEFINE r == request[s]
           row == [key |-> r.key, host |-> r.host]
<1>1. /\ r.op = "install" /\ lastId' = lastId + 1 /\ lastId \in Nat
      /\ installation' = [installation EXCEPT ![lastId'] = row]
      /\ UNCHANGED <<subscription, isConfigured>>
  BY DEF CreateInstallation, At, atJira, Sound, Types
<1>2. row \in InstallationRow
  BY <1>1 DEF Sound, RequestsOK, RequestOK, InstallationRow, FromSession
<1> HIDE DEF row
<1>3. request' \in [Slots -> Request] /\ Others(s) /\ request'[s] = Idle
  BY Ending DEF CreateInstallation, Sound
<1>4. \A i \in Ids : i \in Nat /\ installation'[i] = IF i = lastId' THEN row ELSE installation[i]
  BY <1>1, Rows_ DEF Sound, Types
<1>5. Types'
  <2>1. installation' \in [Ids -> InstallationRow \cup {None}]
    BY <1>1, <1>2 DEF Sound, Types
  <2>2. \A i \in Ids : i > lastId' => installation'[i] = None /\ subscription'[i] = None
    BY <1>1, <1>4 DEF Sound, Types
  <2> QED
    BY <1>1, <1>3, <2>1, <2>2 DEF Sound, Types
<1>6. Keeps
  BY <1>1, <1>4 DEF Keeps, Installed, Subscribed
<1>7. RequestOK(request[s])'
  <2>1. request'[s].op = "idle" /\ request'[s].inst = 0 /\ request'[s].sub = 0
    BY <1>3, IdleParts
  <2> QED
    BY <1>1, <2>1 DEF RequestOK, FromSession
<1> QED
  BY <1>3, <1>5, <1>6, <1>7, OneRequest DEF Sound

\* The row stays the site's: the URL that it gets is one of the same site.
LEMMA Updated ==
  ASSUME Sound, NEW s \in Slots, UpdateInstallation(s)
  PROVE  /\ Installed' = Installed
         /\ \A i \in Installed :
              /\ installation'[i].key = installation[i].key
              /\ installation'[i].host = IF i = request[s].inst THEN request[s].host
                                                                ELSE installation[i].host
              /\ installation'[i] \in InstallationRow
<1> DEFINE r == request[s]
<1>1. r.op = "install" /\ r.at = "update"
  BY DEF UpdateInstallation, At
<1>2. /\ r.host \in Hosts /\ r.key = SiteOf[r.host]
      /\ r.inst \in Installed => installation[r.inst].key = r.key
  BY <1>1 DEF Sound, RequestsOK, RequestOK, FromSession
<1>3. \A i \in Installed : i \in Ids /\ installation[i] \in InstallationRow
  BY Rows_ DEF Sound
<1>4. CASE r.inst \notin Installed
  <2>1. installation' = installation
    BY <1>4 DEF UpdateInstallation
  <2> QED
    BY <1>3, <1>4, <2>1 DEF Installed
<1>5. CASE r.inst \in Installed
  <2> DEFINE row == [installation[r.inst] EXCEPT !.host = r.host]
  <2>1. installation' = [installation EXCEPT ![r.inst] = row]
    BY <1>5 DEF UpdateInstallation
  <2>2. PICK h \in Hosts : installation[r.inst] = [key |-> SiteOf[h], host |-> h]
    BY <1>3, <1>5 DEF InstallationRow
  <2>3. row = [key |-> r.key, host |-> r.host]
    BY <1>2, <1>5, <2>2
  <2>4. row \in InstallationRow
    BY <1>2, <2>3 DEF InstallationRow
  <2>5. row.key = installation[r.inst].key /\ row.host = r.host
    BY <1>2, <1>5, <2>3
  <2> HIDE DEF row
  <2>6. \A i \in Ids : installation'[i] = IF i = r.inst THEN row ELSE installation[i]
    BY <2>1 DEF Sound, Types
  <2>7. row # None
    BY <2>4, NoneIsNoRow
  <2> HIDE DEF r
  <2>8. Installed' = Installed
    BY <1>3, <1>5, <2>6, <2>7 DEF Installed
  <2>9. \A i \in Installed : /\ installation'[i].key = installation[i].key
                             /\ installation'[i].host = IF i = r.inst THEN r.host
                                                                      ELSE installation[i].host
                             /\ installation'[i] \in InstallationRow
    BY <1>3, <2>4, <2>5, <2>6
  <2> QED
    BY <2>8, <2>9 DEF r
<1> QED
  BY <1>4, <1>5

LEMMA UpdatingInstallation ==
  ASSUME Sound, NEW s \in Slots, UpdateInstallation(s)
  PROVE  Sound' /\ Keeps
<1>1. /\ request[s].op = "install" /\ request[s].at = "update" /\ Goes(s, "rehost")
      /\ UNCHANGED <<subscription, lastId, isConfigured>>
  BY DEF UpdateInstallation, At, atJira
<1>2. Moved(s) /\ request'[s].at = "rehost"
  BY <1>1, Going, PlacesAre DEF Moved, Sound
<1>3. Types'
  <2>1. /\ \A i \in Ids : installation'[i] = None \/ installation'[i] \in InstallationRow
        /\ \A i \in Ids : i \notin Installed => installation'[i] = None
    BY Updated DEF Installed
  <2>2. installation' \in [Ids -> InstallationRow \cup {None}]
    BY <2>1 DEF UpdateInstallation, Sound, Types
  <2>3. \A i \in Ids : i > lastId => i \notin Installed
    BY DEF Installed, Sound, Types
  <2> QED
    BY <1>1, <1>2, <2>1, <2>2, <2>3 DEF Sound, Types, Moved
<1>4. Keeps
  BY <1>1, Updated DEF Keeps, Sound, Types, Subscribed
<1>5. RequestOK(request[s])'
  BY <1>1, <1>2, <1>3, <1>4, MovedOK DEF Moved, Sound, RequestsOK
<1> QED
  BY <1>2, <1>3, <1>4, <1>5, OneRequest DEF Sound, Moved

LEMMA Rehosted ==
  ASSUME Sound, NEW s \in Slots, UpdateSubscriptions(s)
  PROVE  /\ Subscribed' = Subscribed
         /\ \A i \in Subscribed :
              /\ subscription'[i].key = subscription[i].key
              /\ subscription'[i].org = subscription[i].org
              /\ subscription'[i].host = IF subscription[i].key = request[s].key
                                         THEN request[s].host ELSE subscription[i].host
              /\ subscription'[i] \in SubscriptionRow
<1> DEFINE r == request[s]
           row(i) == [subscription[i] EXCEPT !.host = r.host]
<1>1. r.op = "install" /\ r.at = "rehost"
  BY DEF UpdateSubscriptions, At
<1>2. r.host \in Hosts /\ r.key = SiteOf[r.host]
  BY <1>1 DEF Sound, RequestsOK, RequestOK, FromSession
<1>3. \A i \in Subscribed : i \in Ids /\ subscription[i] \in SubscriptionRow
  BY Rows_ DEF Sound
<1>4. subscription' = [i \in Ids |-> IF i \in Of(r.key) THEN row(i) ELSE subscription[i]]
  BY DEF UpdateSubscriptions
<1>5. ASSUME NEW i \in Of(r.key)
      PROVE  /\ row(i) \in SubscriptionRow /\ row(i).key = subscription[i].key
             /\ row(i).org = subscription[i].org /\ row(i).host = r.host
  <2>1. i \in Subscribed /\ subscription[i].key = r.key
    BY DEF Of
  <2>2. PICK h \in Hosts, o \in Orgs : subscription[i] = [key |-> SiteOf[h], host |-> h, org |-> o]
    BY <1>3, <2>1 DEF SubscriptionRow
  <2>3. row(i) = [key |-> r.key, host |-> r.host, org |-> o]
    BY <1>2, <2>1, <2>2
  <2> HIDE DEF r
  <2>4. row(i) \in SubscriptionRow
    BY <1>2, <2>3 DEF SubscriptionRow
  <2> QED
    BY <1>2, <2>1, <2>2, <2>3, <2>4
<1> HIDE DEF row, r
<1>6. \A i \in Ids : subscription'[i] = IF i \in Of(r.key) THEN row(i) ELSE subscription[i]
  BY <1>4
<1>7. Subscribed' = Subscribed
  BY <1>3, <1>5, <1>6, NoneIsNoRow DEF Subscribed, Of
<1>8. \A i \in Subscribed :
        /\ subscription'[i].key = subscription[i].key
        /\ subscription'[i].org = subscription[i].org
        /\ subscription'[i].host = IF subscription[i].key = r.key THEN r.host
                                                                   ELSE subscription[i].host
        /\ subscription'[i] \in SubscriptionRow
  BY <1>3, <1>5, <1>6 DEF Of
<1> QED
  BY <1>7, <1>8 DEF r

LEMMA UpdatingSubscriptions ==
  ASSUME Sound, NEW s \in Slots, UpdateSubscriptions(s)
  PROVE  Sound' /\ Keeps
<1>1. Ends(s) /\ UNCHANGED <<installation, lastId, isConfigured>>
  BY DEF UpdateSubscriptions, atJira
<1>2. request' \in [Slots -> Request] /\ Others(s) /\ request'[s] = Idle
  BY <1>1, Ending DEF Sound
<1>3. Types'
  <2>1. /\ \A i \in Ids : subscription'[i] = None \/ subscription'[i] \in SubscriptionRow
        /\ \A i \in Ids : i \notin Subscribed => subscription'[i] = None
    BY Rehosted DEF Subscribed
  <2>2. subscription' \in [Ids -> SubscriptionRow \cup {None}]
    BY <2>1 DEF UpdateSubscriptions
  <2>3. \A i \in Ids : i > lastId => i \notin Subscribed
    BY DEF Subscribed, Sound, Types
  <2> QED
    BY <1>1, <1>2, <2>1, <2>2, <2>3 DEF Sound, Types
<1>4. Keeps
  BY <1>1, Rehosted DEF Keeps, Sound, Types, Installed
<1>5. RequestOK(request[s])'
  <2>1. request'[s].op = "idle" /\ request'[s].inst = 0 /\ request'[s].sub = 0
    BY <1>2, IdleParts
  <2> QED
    BY <1>3, <2>1 DEF RequestOK, FromSession, Types
<1> QED
  BY <1>2, <1>3, <1>4, <1>5, OneRequest DEF Sound

Listed(s) == {i \in Subscribed : subscription[i].host = request[s].host}

LEMMA Listing ==
  ASSUME Sound, NEW s \in Slots, ListSubscriptions(s)
  PROVE  /\ Moved(s) /\ request'[s].at = "drop" /\ request'[s].todo = Listed(s)
         /\ request[s].op = "uninstall" /\ request[s].at = "list"
<1>1. TakesWork(s, "drop", Listed(s))
  BY DEF ListSubscriptions, TakesWork, Listed
<1>2. Listed(s) \in Work
  BY Rows_ DEF Listed, Work, Sound
<1>3. "drop" \in Places
  BY PlacesAre
<1> HIDE DEF Listed
<1> QED
  BY <1>1, <1>2, <1>3, TakingWork DEF Sound, Moved, ListSubscriptions, At

LEMMA ListingSubscriptions ==
  ASSUME Sound, NEW s \in Slots, ListSubscriptions(s)
  PROVE  Sound' /\ Keeps
<1>1. UNCHANGED <<installation, subscription, lastId, isConfigured>>
  BY DEF ListSubscriptions, tables, atJira
<1> QED
  BY <1>1, Listing, Moving, ConfiguredSame

LEMMA Dropped ==
  ASSUME Sound, NEW s \in Slots, DropSubscriptions(s)
  PROVE  /\ request' \in [Slots -> Request] /\ Others(s) /\ Same(request'[s], request[s])
         /\ request'[s].at = "property" /\ request'[s].sub = request[s].sub
         /\ request'[s].seen = {FALSE} /\ request[s].op = "uninstall" /\ request[s].at = "drop"
<1>1. TakesAnswer(s, "property", {FALSE})
  BY DEF DropSubscriptions, TakesAnswer
<1>2. {FALSE} \in Answers /\ "property" \in Places
  BY PlacesAre DEF Answers
<1>3. request'[s].seen = {FALSE}
  BY <1>1, <1>2, TakingAnswer DEF Sound
<1> QED
  BY <1>1, <1>2, <1>3, TakingAnswer DEF Sound, DropSubscriptions, At

LEMMA DroppingSubscriptions ==
  ASSUME Sound, NEW s \in Slots, DropSubscriptions(s)
  PROVE  Sound' /\ Keeps
<1>1. Destroy(request[s].todo) /\ isConfigured' = isConfigured
  BY DEF DropSubscriptions, atJira
<1>2. Types' /\ Keeps
  BY <1>1, Dropped, Destroying
<1>3. RequestOK(request[s])'
  <2>1. PICK r \in Request : r = request[s]
    BY DEF Sound, Types
  <2>2. RequestOK(r)'
    BY <1>2, <2>1, KeptRequest DEF Sound, RequestsOK
  <2>3. PICK q \in Request : q = request'[s]
    BY Dropped
  <2>4. /\ Same(q, r) /\ q.at = "property" /\ q.sub = r.sub /\ q.seen = {FALSE}
        /\ r.op = "uninstall"
    BY <2>1, <2>3, Dropped
  <2>5. RequestOK(q)'
    BY <2>2, <2>4 DEF RequestOK, Same
  <2> QED
    BY <2>3, <2>5 DEF RequestOK, IsOf
<1> QED
  BY <1>2, <1>3, Dropped, OneRequest DEF Sound

LEMMA DeletingConfigured ==
  ASSUME Sound, NEW s \in Slots, DeleteConfigured(s)
  PROVE  Sound' /\ Keeps
<1>1. /\ request[s].op = "uninstall" /\ Goes(s, "row")
      /\ UNCHANGED <<installation, subscription, lastId>>
  BY DEF DeleteConfigured, At, tables
<1>2. isConfigured' \in [Keys -> {"none", "true", "false"}]
  BY Saving, ConfiguredSame DEF DeleteConfigured
<1> QED
  BY <1>1, <1>2, StoppingOrGoing, PlacesAre

LEMMA DroppingInstallation ==
  ASSUME Sound, NEW i, installation' = [installation EXCEPT ![i] = None],
         UNCHANGED <<subscription, lastId, isConfigured>>, request' \in [Slots -> Request]
  PROVE  /\ Types' /\ Keeps
         /\ Installed' = Installed \ {i} /\ \A j \in Installed' : installation'[j] = installation[j]
<1>1. \A j \in Ids : installation'[j] = IF j = i THEN None ELSE installation[j]
  BY DEF Sound, Types
<1>2. Types'
  BY <1>1 DEF Sound, Types
<1>3. Installed' = Installed \ {i} /\ \A j \in Installed' : installation'[j] = installation[j]
  BY <1>1 DEF Installed
<1>4. Keeps
  BY <1>3 DEF Sound, Types, Keeps, Subscribed
<1> QED
  BY <1>2, <1>3, <1>4

LEMMA DestroyingInstallation ==
  ASSUME Sound, NEW s \in Slots, DestroyInstallation(s)
  PROVE  Sound' /\ Keeps
<1>1. /\ Ends(s) /\ installation' = [installation EXCEPT ![request[s].inst] = None]
      /\ UNCHANGED <<subscription, lastId, isConfigured>>
  BY DEF DestroyInstallation, atJira
<1>2. request' \in [Slots -> Request] /\ Others(s) /\ request'[s] = Idle
  BY <1>1, Ending DEF Sound
<1>3. Types' /\ Keeps
  BY <1>1, <1>2, DroppingInstallation
<1>4. RequestOK(request[s])'
  <2>1. request'[s].op = "idle" /\ request'[s].inst = 0 /\ request'[s].sub = 0
    BY <1>2, IdleParts
  <2> QED
    BY <1>3, <2>1 DEF RequestOK, FromSession, Types
<1> QED
  BY <1>2, <1>3, <1>4, OneRequest DEF Sound

LEMMA WebhookMoves ==
  ASSUME Sound, NEW s \in Slots,
         LinkInWebhook(s) \/ AcceptInWebhook(s) \/ SyncInWebhook(s) \/ EndWebhook(s)
  PROVE  Sound' /\ Keeps
<1>1. /\ request[s].op \in {"permissions", "event"}
      /\ UNCHANGED <<installation, subscription, lastId, isConfigured>>
      /\ Goes(s, "accept") \/ Goes(s, "next") \/ Goes(s, "sync") \/ Ends(s)
  BY DEF LinkInWebhook, AcceptInWebhook, SyncInWebhook, EndWebhook, At, tables, atJira
<1> QED
  BY <1>1, StoppingOrGoing, ConfiguredSame, PlacesAre

LEMMA TakingNextSubscription ==
  ASSUME Sound, NEW s \in Slots, NextSubscription(s)
  PROVE  Sound' /\ Keeps
<1>1. /\ request[s].op = "permissions"
      /\ UNCHANGED <<installation, subscription, lastId, isConfigured>>
  BY DEF NextSubscription, At, tables, atJira
<1>2. PICK p \in request[s].todo :
         /\ request' \in [Slots -> Request] /\ Others(s)
         /\ Passed(s, p) \/ Took(s, p)
  BY TakingNext DEF Sound
<1>3. /\ request'[s].op = "permissions"
      /\ request'[s].sub <= lastId /\ request'[s].inst <= lastId
  <2>1. CASE Passed(s, p)
    BY <1>1, <2>1 DEF Passed, Same, Sound, RequestsOK, RequestOK
  <2>2. CASE Took(s, p)
    BY <1>1, <2>2, Rows_ DEF Took, GetSingle, Sound
  <2> QED
    BY <1>2, <2>1, <2>2
<1>4. RequestOK(request[s])'
  BY <1>1, <1>3 DEF RequestOK, FromSession
<1> QED
  BY <1>1, <1>2, <1>4, Still, ConfiguredSame

LEMMA SubmittingDevInfo ==
  ASSUME Sound, NEW s \in Slots, SubmitDevInfo(s)
  PROVE  Sound' /\ Keeps
<1>1. /\ request[s].op = "event"
      /\ UNCHANGED <<installation, subscription, lastId, isConfigured>>
  BY DEF SubmitDevInfo, At, tables
<1>2. PICK p : request' = [request EXCEPT ![s].todo = @ \ {p}]
  BY DEF SubmitDevInfo
<1>3. Moved(s) /\ request'[s].at = request[s].at
  BY <1>2, TakingEvent DEF Sound, Moved
<1> QED
  BY <1>1, <1>3, Moving, ConfiguredSame

LEMMA StartsSound ==
  ASSUME Sound, NEW s \in Slots, Start(s)
  PROVE  Sound' /\ Keeps
<1>1. UNCHANGED <<installation, subscription, lastId, isConfigured>>
  BY Starting DEF Sound, Unaffected, tables, atJira
<1>2. request' \in [Slots -> Request] /\ Others(s) /\ Begun(request'[s])
  BY Starting DEF Sound
<1>3. RequestOK(request[s])'
  <2>1. PICK q \in Request : q = request'[s]
    BY <1>2
  <2>2. q.inst = 0 \/ (q.inst \in Installed /\ q.inst <= lastId)
    BY <1>2, <2>1, Rows_ DEF Begun, Sound
  <2>3. q.inst <= lastId /\ q.sub <= lastId
    BY <1>2, <2>1, <2>2 DEF Begun, Sound, Types
  <2>4. 0 \notin Installed
    BY Rows_ DEF Sound, Installed
  <2>5. Begun(q) /\ q.inst <= lastId' /\ q.sub <= lastId'
    BY <1>1, <1>2, <2>1, <2>3 DEF Begun
  <2>6. Installed' = Installed /\ installation' = installation
    BY <1>1 DEF Installed
  <2>7. RequestOK(q)'
    BY <2>4, <2>5, <2>6 DEF Begun, RequestOK, FromSession
  <2> QED
    BY <2>1, <2>7 DEF RequestOK, IsOf
<1> QED
  BY <1>1, <1>2, <1>3, Still, ConfiguredSame

LEMMA CrashSound ==
  ASSUME Sound, NEW s \in Slots, Crash(s)
  PROVE  Sound' /\ Keeps
<1>1. UNCHANGED <<installation, subscription, lastId, isConfigured>> /\ Ends(s)
  BY DEF Crash, tables, atJira
<1> QED
  BY <1>1, Ending, Still, ConfiguredSame DEF Sound

\* What nobody asked the app to do.
LEMMA OutsideSound ==
  ASSUME Sound,
         \/ \E i \in Ids : RemoveAtGitHub(i) \/ VerifyInstallation(i)
         \/ \E o \in Orgs : AcceptPermissions(o) \/ LoseDelivery(o)
  PROVE  Sound' /\ Keeps
<1>1. UNCHANGED <<request, isConfigured>>
  BY DEF RemoveAtGitHub, VerifyInstallation, AcceptPermissions, LoseDelivery, atJira
<1>2. request' \in [Slots -> Request]
  BY <1>1 DEF Sound, Types
<1>3. Types' /\ Keeps
  <2>1. CASE \E i \in Ids : RemoveAtGitHub(i)
    BY <1>1, <1>2, <2>1, Destroying DEF RemoveAtGitHub
  <2>2. CASE \E i \in Ids : VerifyInstallation(i)
    BY <1>1, <1>2, <2>2, DroppingInstallation DEF VerifyInstallation
  <2>3. CASE \E o \in Orgs : AcceptPermissions(o) \/ LoseDelivery(o)
    <3>1. UNCHANGED <<installation, subscription, lastId>>
      BY <2>3 DEF AcceptPermissions, LoseDelivery, tables
    <3> QED
      BY <1>1, <1>2, <3>1, SameTables, SameKeeps, ConfiguredSame DEF Sound
  <2> QED
    BY <2>1, <2>2, <2>3
<1>4. ASSUME NEW t \in Slots
      PROVE  RequestOK(request[t])'
  <2>1. PICK r \in Request : r = request[t] /\ r = request'[t]
    BY <1>1, <1>2
  <2>2. RequestOK(r)'
    BY <1>3, <2>1, KeptRequest DEF Sound, RequestsOK
  <2> QED
    BY <2>1, <2>2 DEF RequestOK, IsOf
<1> QED
  BY <1>3, <1>4 DEF Sound, RequestsOK

LEMMA StepSound ==
  ASSUME Sound, [Next]_vars
  PROVE  Sound' /\ Keeps
<1>1. CASE UNCHANGED vars
  <2>1. UNCHANGED <<installation, subscription, lastId, request, isConfigured>>
    BY <1>1 DEF vars, tables, atJira
  <2>2. Types' /\ Keeps
    BY <2>1, SameKeeps DEF Sound, Types
  <2>3. RequestsOK'
    BY <2>1 DEF Sound, RequestsOK, RequestOK, IsOf, Installed, Subscribed
  <2> QED
    BY <2>2, <2>3 DEF Sound
<1>2. CASE \E s \in Slots : Start(s) \/ Crash(s)
  BY <1>2, StartsSound, CrashSound
<1>3. ASSUME NEW s \in Slots, Step(s)
      PROVE  Sound' /\ Keeps
  BY <1>3, ConnectMoves, ConnectEnds, FindingSubscription, InsertingSubscription,
     FindingToRemove, RemoveMoves, DestroyingSubscription, CheckingConnected, Unset,
     LookingForInstallation, CreatingInstallation, UpdatingInstallation,
     UpdatingSubscriptions, ListingSubscriptions, DroppingSubscriptions, DeletingConfigured,
     DestroyingInstallation, WebhookMoves, TakingNextSubscription, SubmittingDevInfo
     DEF Step
<1> QED
  BY <1>1, <1>2, <1>3, OutsideSound DEF Next

LEMMA InitSound ==
  ASSUME Init
  PROVE  Sound
<1>1. PICK h \in Hosts :
         installation = [i \in Ids |-> IF i = 1 THEN [key |-> SiteOf[h], host |-> h] ELSE None]
  BY DEF Init
<1>2. [key |-> SiteOf[h], host |-> h] \in InstallationRow
  BY DEF InstallationRow
<1>3. installation \in [Ids -> InstallationRow \cup {None}]
  BY <1>1, <1>2
<1>4. \A i \in Ids : i > 1 => installation[i] = None /\ subscription[i] = None
  BY <1>1 DEF Init
<1>5. Types
  BY <1>3, <1>4, IdleParts DEF Init, Types
<1>6. ASSUME NEW t \in Slots
      PROVE  RequestOK(request[t])
  <2>1. request[t].op = "idle" /\ request[t].inst = 0 /\ request[t].sub = 0 /\ lastId = 1
    BY IdleParts DEF Init
  <2> QED
    BY <2>1 DEF RequestOK, FromSession
<1> QED
  BY <1>5, <1>6 DEF Sound, RequestsOK

\* The rows keep their form and their keys, and what a request under way knows stays true
\* of the rows that it read, whatever the others do: the model of sequelize's tables
\* Installations and Subscriptions and of the requests' local variables is well typed.
THEOREM TypeCorrect == Spec => [](Types /\ RequestsOK)
<1>1. Init => Sound
  BY InitSound
<1>2. Sound /\ [Next]_vars => Sound'
  BY StepSound
<1>3. Sound => Types /\ RequestsOK
  BY DEF Sound
<1> QED
  BY <1>1, <1>2, <1>3, PTL DEF Spec

-----------------------------------------------------------------------------
(* What the steps do to requests. *)

\* A request keeps doing what it was begun for.
LEMMA StepRequest ==
  ASSUME Sound, NEW s \in Slots, Step(s)
  PROVE  /\ request' \in [Slots -> Request] /\ Others(s)
         /\ request'[s] = Idle \/ request'[s].op = request[s].op
<1> USE DEF Sound
<1>1. ASSUME NEW place \in Places, Goes(s, place) \/ Finishes(s) \/ Ends(s)
      PROVE  /\ request' \in [Slots -> Request] /\ Others(s)
             /\ request'[s] = Idle \/ request'[s].op = request[s].op
  BY <1>1, Going, Finishing, Ending DEF Same
<1>2. CASE \/ CheckSecurity(s) \/ AcceptInConnect(s) \/ LinkInConnect(s) \/ RefuseConnect(s)
           \/ DeleteDevInfo(s) \/ DeleteWorkspace(s) \/ DestroySubscription(s)
           \/ UnsetConfigured(s) \/ GetConfigured(s) \/ CreateInstallation(s)
           \/ UpdateInstallation(s) \/ UpdateSubscriptions(s) \/ DeleteConfigured(s)
           \/ DestroyInstallation(s) \/ LinkInWebhook(s) \/ AcceptInWebhook(s)
           \/ SyncInWebhook(s) \/ EndWebhook(s)
  <2>1. \E place \in Places : Goes(s, place) \/ Finishes(s) \/ Ends(s)
    BY <1>2, PlacesAre DEF CheckSecurity, AcceptInConnect, LinkInConnect, RefuseConnect,
       DeleteDevInfo, DeleteWorkspace, DestroySubscription, UnsetConfigured, GetConfigured,
       CreateInstallation, UpdateInstallation, UpdateSubscriptions, DeleteConfigured,
       DestroyInstallation, LinkInWebhook, AcceptInWebhook, SyncInWebhook, EndWebhook
  <2> QED
    BY <1>1, <2>1
<1>3. CASE SetConfigured(s) \/ StartSync(s)
  BY <1>3, Doing DEF SetConfigured, StartSync, Same
<1>4. CASE FindSubscription(s)
  <2>1. ASSUME NEW i \in Rows(request[s].key, request[s].host, request[s].org),
               request' = [request EXCEPT ![s] =
                           [@ EXCEPT !.at = "security", !.sub = i, !.accepted = i \in accepted]]
        PROVE  /\ request' \in [Slots -> Request] /\ Others(s)
               /\ request'[s].op = request[s].op
    <3>1. i \in Nat
      BY Rows_ DEF Rows
    <3> QED
      BY <2>1, <3>1, FoundSubscription DEF Same
  <2> QED
    BY <1>1, <1>4, <2>1, PlacesAre DEF FindSubscription
<1>5. CASE InsertSubscription(s)
  BY <1>5, Inserted DEF Same
<1>6. CASE FindToRemove(s)
  BY <1>1, <1>6, FoundToRemove, TakingSubscription, PlacesAre DEF Same
<1>7. CASE CheckConnected(s)
  <2>1. {FALSE} \in Answers
    BY DEF Answers
  <2> QED
    BY <1>1, <1>7, <2>1, CheckingConnected, TakingAnswer, PlacesAre DEF Same
<1>8. CASE LookForInstallation(s)
  <2>1. ASSUME NEW i \in Installed,
               request' = [request EXCEPT ![s] = [@ EXCEPT !.at = "update", !.inst = i]]
        PROVE  /\ request' \in [Slots -> Request] /\ Others(s)
               /\ request'[s].op = request[s].op
    <3>1. TakesInst(s, "update", i)
      BY <2>1 DEF TakesInst
    <3>2. i \in Nat /\ "update" \in Places
      BY Rows_, PlacesAre
    <3> QED
      BY <3>1, <3>2, TakingInstallation
  <2> QED
    BY <1>1, <1>8, <2>1, PlacesAre DEF LookForInstallation
<1>9. CASE ListSubscriptions(s) \/ DropSubscriptions(s)
  BY <1>9, Listing, Dropped DEF Moved, Same
<1>10. CASE NextSubscription(s)
  BY <1>10, TakingNext DEF Passed, Took, Same
<1>11. CASE SubmitDevInfo(s)
  <2>1. PICK p : request' = [request EXCEPT ![s].todo = @ \ {p}]
    BY <1>11 DEF SubmitDevInfo
  <2> QED
    BY <2>1, TakingEvent DEF Same
<1> QED
  BY <1>2, <1>3, <1>4, <1>5, <1>6, <1>7, <1>8, <1>9, <1>10, <1>11 DEF Step

LEMMA CrashRequest ==
  ASSUME Sound, NEW s \in Slots, Crash(s)
  PROVE  /\ request' \in [Slots -> Request] /\ Others(s) /\ request'[s] = Idle
         /\ UNCHANGED <<tables, atJira, permitted, deliveries, synced, leftovers, orphans>>
BY Ending DEF Sound, Crash

-----------------------------------------------------------------------------
(* SubscriptionsHaveAnInstallation. *)

LEMMA HomedStays ==
  ASSUME Homed, NEW s \in Slots, Others(s), UNCHANGED installation,
         \A i \in Subscribed' \ strays' :
           /\ i \in Subscribed \ strays /\ subscription'[i] = subscription[i]
           /\ ~Rehosts(request[s], subscription[i].key),
         \A j : ~Drops(request'[s], j)
  PROVE  Homed'
<1> SUFFICES ASSUME NEW i \in Subscribed' \ strays'
             PROVE  \/ \E j \in Ids : IsHome(j, i)'
                    \/ \E t \in Slots : Rehosts(request'[t], subscription'[i].key)
  BY DEF Homed, Rehosts
<1>1. i \in Subscribed \ strays /\ subscription'[i] = subscription[i]
  OBVIOUS
<1>2. ASSUME NEW j \in Ids, IsHome(j, i)
      PROVE  IsHome(j, i)'
  <2>1. Matches(j, i)'
    BY <1>1, <1>2 DEF IsHome, Matches, Installed
  <2>2. \A t \in Slots : Spares(request'[t], i, j)
    BY <1>2 DEF IsHome, Spares, Others
  <2> QED
    BY <2>1, <2>2 DEF IsHome, Spares, Drops
<1>3. ASSUME NEW t \in Slots, Rehosts(request[t], subscription[i].key)
      PROVE  Rehosts(request'[t], subscription'[i].key)
  BY <1>1, <1>3 DEF Others
<1> QED
  BY <1>1, <1>2, <1>3 DEF Homed

\* Requests that do not touch installations do not strand subscriptions.
LEMMA HomedCalm ==
  ASSUME Sound, Homed, NEW s \in Slots, Others(s),
         UNCHANGED <<installation, subscription, strays>>,
         \/ request[s].op \notin {"install", "uninstall"}
         \/ request[s].at \notin {"rehost", "drop", "property", "row"},
         \/ request'[s] = Idle \/ request'[s].op \notin {"uninstall"}
         \/ request'[s].at \notin {"drop", "property", "row"}
  PROVE  Homed'
BY HomedStays, IdleParts DEF Subscribed, Rehosts, Drops

LEMMA HomedStarts ==
  ASSUME Sound, Homed, NEW s \in Slots, Start(s)
  PROVE  Homed'
<1>1. /\ request'[s].op = "uninstall" => request'[s].at = "list"
      /\ Others(s) /\ request[s] = Idle /\ UNCHANGED <<installation, subscription, strays>>
  BY Starting DEF Sound, Begun, Unaffected, tables, ghosts
<1> QED
  BY <1>1, HomedCalm, IdleParts

LEMMA HomedCrash ==
  ASSUME Sound, Homed, NEW s \in Slots, Crash(s)
  PROVE  Homed'
<1>1. request'[s].op = "idle" /\ Others(s) /\ UNCHANGED <<installation, subscription>>
  BY CrashRequest, IdleParts DEF tables
<1>2. strays' = IF At(s, "install", "rehost") THEN strays \union Of(request[s].key) ELSE strays
  BY DEF Crash
<1> QED
  BY <1>1, <1>2, HomedStays DEF Subscribed, Of, Rehosts, Drops, At

LEMMA HomedUsers ==
  ASSUME Sound, Homed, NEW s \in Slots, Step(s),
         request[s].op \notin {"install", "uninstall"}, ~InsertSubscription(s)
  PROVE  Homed'
<1>1. Others(s) /\ (request'[s] = Idle \/ request'[s].op = request[s].op)
  BY StepRequest
<1>2. CASE ~DestroySubscription(s)
  <2>1. UNCHANGED <<installation, subscription, strays>>
    BY <1>2 DEF Step, tables, ghosts, At, RefuseConnect, FindSubscription, CheckSecurity,
       AcceptInConnect, LinkInConnect, SetConfigured, StartSync, FindToRemove, DeleteDevInfo,
       DeleteWorkspace, CheckConnected, UnsetConfigured, GetConfigured, LookForInstallation,
       CreateInstallation, UpdateInstallation, UpdateSubscriptions, ListSubscriptions,
       DropSubscriptions, DeleteConfigured, DestroyInstallation, NextSubscription,
       LinkInWebhook, AcceptInWebhook, SyncInWebhook, SubmitDevInfo, EndWebhook
  <2> QED
    BY <1>1, <2>1, HomedCalm
<1>3. CASE DestroySubscription(s)
  <2>1. Destroy({request[s].sub}) /\ UNCHANGED <<strays, isConfigured>>
    BY <1>3 DEF DestroySubscription, ghosts, atJira
  <2>2. \A i \in Subscribed' : i \in Subscribed /\ subscription'[i] = subscription[i]
    BY <2>1, StepRequest, Destroying
  <2>3. UNCHANGED installation
    BY <2>1 DEF Destroy
  <2> QED
    BY <1>1, <2>1, <2>2, <2>3, HomedStays, IdleParts DEF Rehosts, Drops
<1> QED
  BY <1>2, <1>3

\* A row made with the installation as it is, which is not going, has its home.
LEMMA HomedInsert ==
  ASSUME Sound, Homed, NEW s \in Slots, InsertSubscription(s)
  PROVE  Homed'
<1> DEFINE r == request[s]
           row == [key |-> r.key, host |-> r.host, org |-> r.org]
<1>1. PICK i \in Nat, home \in Nat : i = lastId + 1 /\ home = r.inst
  <2>1. r \in Request /\ lastId + 1 \in Nat
    BY DEF Sound, Types
  <2>2. r.inst \in Nat
    BY <2>1 DEF Request
  <2> QED
    BY <2>1, <2>2
<1>2. /\ r.op = "connect" /\ Others(s) /\ request'[s].op = "connect"
      /\ UNCHANGED installation
      /\ subscription' = [subscription EXCEPT ![i] = row]
      /\ strays' = IF Outdated(r) \/ BeingUninstalled(home) THEN strays \union {i} ELSE strays
  BY <1>1, Inserted DEF InsertSubscription, At, Same
<1>3. \A k \in Ids : subscription'[k] = IF k = i THEN row ELSE subscription[k]
  BY <1>2 DEF Sound, Types
<1>4. row.key = r.key /\ row.host = r.host
  OBVIOUS
<1> HIDE DEF row, r
<1>5. ASSUME i \in Subscribed' \ strays'
      PROVE  \E j \in Ids : IsHome(j, i)'
  <2>1. ~Outdated(r) /\ ~BeingUninstalled(home)
    BY <1>2, <1>5
  <2>2. home \in Installed /\ installation[home] = [key |-> r.key, host |-> r.host]
    BY <1>1, <2>1 DEF Outdated
  <2>3. \A t \in Slots : ~Drops(request[t], home)
    BY <2>1 DEF BeingUninstalled, Active, Drops
  <2>4. \A t \in Slots : ~Drops(request'[t], home)
    BY <1>2, <2>3 DEF Others, Drops
  <2>5. Matches(home, i)'
    BY <1>2, <1>3, <1>4, <1>5, <2>2 DEF Matches, Installed, Subscribed
  <2>6. IsHome(home, i)'
    BY <2>4, <2>5 DEF IsHome, Spares, Drops
  <2> QED
    BY <2>2, <2>6 DEF Installed
<1>6. ASSUME NEW k \in Subscribed' \ strays', k # i
      PROVE  \/ \E j \in Ids : IsHome(j, k)'
             \/ \E t \in Slots : Rehosts(request'[t], subscription'[k].key)
  <2>1. k \in Subscribed \ strays /\ subscription'[k] = subscription[k]
    BY <1>2, <1>3, <1>6 DEF Subscribed
  <2>2. ASSUME NEW j \in Ids, IsHome(j, k)
        PROVE  IsHome(j, k)'
    <3>1. Matches(j, k)'
      BY <1>2, <2>1, <2>2 DEF IsHome, Matches, Installed
    <3>2. \A t \in Slots : Spares(request'[t], k, j)
      BY <1>2, <2>2 DEF IsHome, Spares, Drops, Others
    <3> QED
      BY <3>1, <3>2 DEF IsHome, Spares, Drops
  <2>3. \A t \in Slots : Rehosts(request[t], subscription[k].key) => t # s
    BY <1>2 DEF Rehosts, r
  <2>4. \A t \in Slots : Rehosts(request[t], subscription[k].key)
                         => Rehosts(request'[t], subscription'[k].key)
    BY <1>2, <2>1, <2>3 DEF Others
  <2> QED
    BY <2>1, <2>2, <2>4 DEF Homed
<1> QED
  BY <1>5, <1>6 DEF Homed, Rehosts

LEMMA HomedCreate ==
  ASSUME Sound, Homed, NEW s \in Slots, CreateInstallation(s)
  PROVE  Homed'
<1>1. /\ Others(s) /\ request'[s].op = "idle" /\ request[s].at = "create"
      /\ UNCHANGED <<subscription, strays>>
  BY Ending, IdleParts DEF CreateInstallation, At, Sound, ghosts
<1>2. \A j \in Installed : j \in Installed' /\ installation'[j] = installation[j]
  <2>1. PICK n \in Nat : n = lastId + 1
    BY DEF Sound, Types
  <2>2. \A j \in Ids : j # n => installation'[j] = installation[j]
    BY <2>1 DEF CreateInstallation, Sound, Types
  <2>3. \A j \in Installed : j # n /\ j \in Ids
    BY <2>1, Rows_ DEF Sound, Types
  <2> QED
    BY <2>2, <2>3 DEF Installed
<1>3. ASSUME NEW i \in Subscribed, NEW j \in Ids, IsHome(j, i)
      PROVE  IsHome(j, i)'
  <2>1. Matches(j, i)'
    BY <1>1, <1>2, <1>3 DEF IsHome, Matches
  <2>2. \A t \in Slots : Spares(request'[t], i, j)
    BY <1>1, <1>3 DEF IsHome, Spares, Drops, Others
  <2> QED
    BY <2>1, <2>2 DEF IsHome, Spares, Drops
<1>4. \A k : \A t \in Slots : Rehosts(request[t], k) => Rehosts(request'[t], k)
  BY <1>1 DEF Rehosts, Others
<1> QED
  BY <1>1, <1>3, <1>4 DEF Homed, Subscribed, Rehosts

\* The subscriptions of the row that has a new URL are about to follow.
LEMMA HomedUpdate ==
  ASSUME Sound, Homed, NEW s \in Slots, UpdateInstallation(s)
  PROVE  Homed'
<1>1. /\ request[s].op = "install" /\ request[s].at = "update" /\ Goes(s, "rehost")
      /\ UNCHANGED <<subscription, strays>>
  BY DEF UpdateInstallation, At, ghosts
<1>2. Others(s) /\ Same(request'[s], request[s]) /\ request'[s].at = "rehost"
  BY <1>1, Going, PlacesAre DEF Sound
<1>3. \A k : \A t \in Slots : Rehosts(request[t], k) => Rehosts(request'[t], k)
  BY <1>1, <1>2 DEF Rehosts, Others
<1>4. \A i, j : \A t \in Slots : Spares(request[t], i, j) => Spares(request'[t], i, j)
  BY <1>1, <1>2 DEF Spares, Drops, Others, Same
<1>5. PICK home : home = request[s].inst
  OBVIOUS
<1>6. ASSUME NEW i \in Subscribed, NEW j \in Ids, IsHome(j, i)
      PROVE  IsHome(j, i)' \/ Rehosts(request'[s], subscription[i].key)
  <2>1. CASE j # home
    <3>1. /\ j \in Installed /\ j \in Installed' /\ installation[j] \in InstallationRow
          /\ installation'[j] \in InstallationRow
          /\ installation'[j].key = installation[j].key
          /\ installation'[j].host = installation[j].host
      BY <1>5, <1>6, <2>1, Updated, Rows_ DEF IsHome, Matches, Sound
    <3>2. installation'[j] = installation[j]
      BY <3>1 DEF InstallationRow
    <3>3. Matches(j, i)'
      BY <1>1, <1>6, <3>1, <3>2 DEF IsHome, Matches
    <3>4. \A t \in Slots : Spares(request'[t], i, j)
      BY <1>4, <1>6 DEF IsHome
    <3> QED
      BY <3>3, <3>4 DEF IsHome, Spares, Drops
  <2>2. CASE j = home
    <3>1. j \in Installed /\ subscription[i].key = installation[j].key
      BY <1>6 DEF IsHome, Matches
    <3>2. installation[j].key = request[s].key
      BY <1>1, <1>5, <2>2, <3>1 DEF Sound, RequestsOK, RequestOK
    <3> QED
      BY <1>1, <1>2, <3>1, <3>2 DEF Rehosts, Same
  <2> QED
    BY <2>1, <2>2
<1> QED
  BY <1>1, <1>3, <1>6 DEF Homed, Subscribed, Rehosts

\* They follow to the row as it is, which is not going; else they are known as strays.
LEMMA HomedRehost ==
  ASSUME Sound, Homed, NEW s \in Slots, UpdateSubscriptions(s)
  PROVE  Homed'
<1>1. PICK r \in Request, home \in Nat : r = request[s] /\ home = r.inst
  <2>1. request[s] \in Request /\ request[s].inst \in Nat
    BY DEF Sound, Types, Request
  <2> QED
    BY <2>1
<1>2. /\ r.op = "install" /\ r.at = "rehost" /\ UNCHANGED installation
      /\ strays' = IF Outdated(r) \/ BeingUninstalled(home)
                   THEN strays \union Of(r.key) ELSE strays
  BY <1>1 DEF UpdateSubscriptions, At
<1>3. Others(s) /\ request'[s].op = "idle"
  BY Ending, IdleParts DEF UpdateSubscriptions, Sound
<1>4. ASSUME NEW i \in Subscribed' \ strays', subscription[i].key = r.key
      PROVE  \E j \in Ids : IsHome(j, i)'
  <2>1. i \in Of(r.key)
    BY <1>4, Rehosted DEF Of
  <2>2. ~Outdated(r) /\ ~BeingUninstalled(home)
    BY <1>2, <1>4, <2>1
  <2>3. home \in Installed /\ installation[home] = [key |-> r.key, host |-> r.host]
    BY <1>1, <2>2 DEF Outdated
  <2>4. \A t \in Slots : ~Drops(request'[t], home)
    BY <1>3, <2>2 DEF BeingUninstalled, Active, Drops, Others
  <2>5. subscription'[i].key = r.key /\ subscription'[i].host = r.host
    BY <1>1, <1>4, <2>1, Rehosted
  <2>6. Matches(home, i)'
    BY <1>2, <2>3, <2>5 DEF Matches, Installed
  <2> QED
    BY <2>3, <2>4, <2>6 DEF IsHome, Spares, Drops, Installed
<1>5. ASSUME NEW i \in Subscribed' \ strays', subscription[i].key # r.key
      PROVE  \/ \E j \in Ids : IsHome(j, i)'
             \/ \E t \in Slots : Rehosts(request'[t], subscription'[i].key)
  <2>1. i \in Subscribed \ strays
    BY <1>2, <1>5, Rehosted
  <2>2. /\ subscription'[i].key = subscription[i].key
        /\ subscription'[i].host = subscription[i].host
    BY <1>1, <1>5, <2>1, Rehosted
  <2>3. ASSUME NEW j \in Ids, IsHome(j, i)
        PROVE  IsHome(j, i)'
    <3>1. Matches(j, i)'
      BY <1>2, <2>2, <2>3 DEF IsHome, Matches, Installed
    <3>2. \A t \in Slots : Spares(request'[t], i, j)
      BY <1>3, <2>3 DEF IsHome, Spares, Drops, Others
    <3> QED
      BY <3>1, <3>2 DEF IsHome, Spares, Drops
  <2>4. \A t \in Slots : Rehosts(request[t], subscription[i].key)
                         => Rehosts(request'[t], subscription'[i].key)
    BY <1>1, <1>3, <1>5, <2>2 DEF Others, Rehosts
  <2> QED
    BY <2>1, <2>3, <2>4 DEF Homed
<1> QED
  BY <1>4, <1>5 DEF Homed, Rehosts

LEMMA SomeIds == Ids # {}
<1>1. 1 \in Ids
  BY ConnectionsAssumption DEF Ids
<1> QED
  BY <1>1

\* A step of an uninstallation that takes no home of a subscription that is left.
LEMMA HomedUninstall ==
  ASSUME Homed, NEW s \in Slots, Others(s), request[s].op = "uninstall",
         \A j \in Ids, i \in Subscribed' \ strays' :
           /\ i \in Subscribed \ strays /\ subscription'[i] = subscription[i]
           /\ Matches(j, i) /\ Spares(request[s], i, j) =>
                /\ j \in Installed' /\ installation'[j] = installation[j]
                /\ Spares(request'[s], i, j),
         Ids # {}
  PROVE  Homed'
<1> SUFFICES ASSUME NEW i \in Subscribed' \ strays'
             PROVE  \/ \E j \in Ids : IsHome(j, i)'
                    \/ \E t \in Slots : Rehosts(request'[t], subscription'[i].key)
  BY DEF Homed, Rehosts
<1>1. i \in Subscribed \ strays /\ subscription'[i] = subscription[i]
  OBVIOUS
<1>2. ASSUME NEW j \in Ids, IsHome(j, i)
      PROVE  IsHome(j, i)'
  <2>1. /\ j \in Installed' /\ installation'[j] = installation[j] /\ Spares(request'[s], i, j)
    BY <1>2 DEF IsHome
  <2>2. Matches(j, i)'
    BY <1>1, <1>2, <2>1 DEF IsHome, Matches
  <2>3. \A t \in Slots : Spares(request'[t], i, j)
    BY <1>2, <2>1 DEF IsHome, Others
  <2> QED
    BY <2>2, <2>3 DEF IsHome, Spares, Drops
<1>3. \A t \in Slots : Rehosts(request[t], subscription[i].key)
                       => Rehosts(request'[t], subscription'[i].key)
  BY <1>1 DEF Others, Rehosts
<1> QED
  BY <1>1, <1>2, <1>3 DEF Homed

LEMMA HomedList ==
  ASSUME Sound, Homed, NEW s \in Slots, ListSubscriptions(s)
  PROVE  Homed'
<1>1. PICK r \in Request : r = request[s]
  BY DEF Sound, Types
<1>2. /\ r.op = "uninstall" /\ Others(s) /\ Same(request'[s], r) /\ request'[s].at = "drop"
      /\ request'[s].todo = {i \in Subscribed : subscription[i].host = r.host}
  BY <1>1, Listing DEF Moved, Listed
<1>3. /\ UNCHANGED <<installation, subscription>>
      /\ strays' = IF Outdated(r) THEN strays \union Of(r.key) ELSE strays
  BY <1>1 DEF ListSubscriptions, tables
<1>4. r.inst \in Installed => installation[r.inst].key = r.key
  BY <1>1, <1>2 DEF Sound, RequestsOK, RequestOK
<1>5. ASSUME NEW j \in Ids, NEW i \in Subscribed' \ strays'
      PROVE  /\ i \in Subscribed \ strays /\ subscription'[i] = subscription[i]
             /\ Matches(j, i) =>
                /\ j \in Installed' /\ installation'[j] = installation[j]
                /\ Spares(request'[s], i, j)
  <2>1. i \in Subscribed \ strays /\ subscription'[i] = subscription[i]
    BY <1>3 DEF Subscribed
  <2>2. ASSUME Matches(j, i), j = r.inst
        PROVE  i \in request'[s].todo
    <3>1. i \in Of(r.key)
      BY <1>4, <2>1, <2>2 DEF Matches, Of
    <3>2. ~Outdated(r)
      BY <1>3, <3>1
    <3> QED
      BY <1>2, <2>1, <2>2, <3>2 DEF Outdated, Matches
  <2> QED
    BY <1>2, <1>3, <2>1, <2>2 DEF Matches, Installed, Spares, Drops, Same
<1>6. Ids # {}
  BY SomeIds
<1> QED
  BY <1>1, <1>2, <1>5, <1>6, HomedUninstall

LEMMA HomedDrop ==
  ASSUME Sound, Homed, NEW s \in Slots, DropSubscriptions(s)
  PROVE  Homed'
<1>1. PICK r \in Request : r = request[s]
  BY DEF Sound, Types
<1>2. /\ r.op = "uninstall" /\ r.at = "drop" /\ Others(s) /\ Same(request'[s], r)
      /\ request'[s].at = "property"
  BY <1>1, Dropped
<1>3. Destroy(r.todo) /\ UNCHANGED <<strays, isConfigured>> /\ UNCHANGED installation
  BY <1>1 DEF DropSubscriptions, atJira, Destroy
<1>4. \A i \in Subscribed' :
        i \in Subscribed /\ i \notin r.todo /\ subscription'[i] = subscription[i]
  BY <1>3, Dropped, Destroying
<1>5. \A j \in Ids, i \in Subscribed' \ strays' :
        Spares(r, i, j) => Spares(request'[s], i, j)
  BY <1>2, <1>4 DEF Spares, Drops, Same
<1>6. Ids # {}
  BY SomeIds
<1> QED
  BY <1>1, <1>2, <1>3, <1>4, <1>5, <1>6, HomedUninstall DEF Matches, Installed

LEMMA HomedUnconfigure ==
  ASSUME Sound, Homed, NEW s \in Slots, DeleteConfigured(s)
  PROVE  Homed'
<1>1. /\ request[s].op = "uninstall" /\ request[s].at = "property" /\ Goes(s, "row")
      /\ UNCHANGED <<installation, subscription, strays>>
  BY DEF DeleteConfigured, At, tables
<1>2. Others(s) /\ Same(request'[s], request[s]) /\ request'[s].at = "row"
  BY <1>1, Going, PlacesAre DEF Sound
<1>3. \A j \in Ids, i \in Subscribed' \ strays' :
        Spares(request[s], i, j) => Spares(request'[s], i, j)
  BY <1>1, <1>2 DEF Spares, Drops, Same
<1>4. Ids # {}
  BY SomeIds
<1> QED
  BY <1>1, <1>2, <1>3, <1>4, HomedUninstall DEF Matches, Installed, Subscribed

LEMMA HomedDestroy ==
  ASSUME Sound, Homed, NEW s \in Slots, DestroyInstallation(s)
  PROVE  Homed'
<1>1. PICK r \in Request : r = request[s]
  BY DEF Sound, Types
<1>2. /\ r.op = "uninstall" /\ r.at = "row" /\ Ends(s)
      /\ installation' = [installation EXCEPT ![r.inst] = None]
      /\ UNCHANGED <<subscription, strays, lastId, isConfigured>>
  BY <1>1 DEF DestroyInstallation, At, ghosts, atJira
<1>3. request' \in [Slots -> Request] /\ Others(s) /\ request'[s].op = "idle"
  BY <1>2, Ending, IdleParts DEF Sound
<1>4. Installed' = Installed \ {r.inst} /\ \A j \in Installed' : installation'[j] = installation[j]
  BY <1>2, <1>3, DroppingInstallation
<1>5. \A j \in Ids, i \in Subscribed' \ strays' :
        /\ Spares(r, i, j) => j # r.inst
        /\ Spares(request'[s], i, j)
  BY <1>2, <1>3 DEF Spares, Drops
<1>6. Ids # {}
  BY SomeIds
<1>7. \A j \in Ids, i \in Subscribed' \ strays' :
           /\ i \in Subscribed \ strays /\ subscription'[i] = subscription[i]
           /\ Matches(j, i) /\ Spares(request[s], i, j) =>
                /\ j \in Installed' /\ installation'[j] = installation[j]
                /\ Spares(request'[s], i, j)
  BY <1>1, <1>2, <1>4, <1>5 DEF Matches, Subscribed
<1> QED
  BY <1>1, <1>2, <1>3, <1>6, <1>7, HomedUninstall

LEMMA HomedOutside ==
  ASSUME Sound, Homed, NEW i \in Ids, RemoveAtGitHub(i) \/ VerifyInstallation(i)
  PROVE  Homed'
<1>1. UNCHANGED <<request, isConfigured>> /\ request' \in [Slots -> Request]
  BY DEF RemoveAtGitHub, VerifyInstallation, atJira, Sound, Types
<1>2. CASE RemoveAtGitHub(i)
  <2>1. Destroy({i}) /\ UNCHANGED <<strays, installation>>
    BY <1>2 DEF RemoveAtGitHub, Destroy
  <2>2. \A k \in Subscribed' : k \in Subscribed /\ subscription'[k] = subscription[k]
    BY <1>1, <2>1, Destroying
  <2>3. ASSUME NEW k \in Subscribed', NEW j \in Ids, IsHome(j, k)
        PROVE  IsHome(j, k)'
    BY <1>1, <2>1, <2>2, <2>3 DEF IsHome, Matches, Installed, Spares, Drops
  <2> QED
    BY <1>1, <2>1, <2>2, <2>3 DEF Homed, Rehosts
<1>3. CASE VerifyInstallation(i)
  <2>1. /\ installation' = [installation EXCEPT ![i] = None]
        /\ strays' = strays \union Of(installation[i].key)
        /\ UNCHANGED <<subscription, lastId>> /\ Subscribed' = Subscribed
    BY <1>3 DEF VerifyInstallation, Subscribed
  <2>2. Installed' = Installed \ {i} /\ \A j \in Installed' : installation'[j] = installation[j]
    BY <1>1, <2>1, DroppingInstallation
  <2>3. ASSUME NEW k \in Subscribed' \ strays', NEW j \in Ids, IsHome(j, k)
        PROVE  IsHome(j, k)'
    <3>1. j # i
      BY <2>1, <2>3 DEF IsHome, Matches, Of
    <3> QED
      BY <1>1, <2>1, <2>2, <2>3, <3>1 DEF IsHome, Matches, Spares, Drops
  <2> QED
    BY <1>1, <2>1, <2>3 DEF Homed, Rehosts
<1> QED
  BY <1>2, <1>3

LEMMA HomedSame ==
  ASSUME Homed, UNCHANGED <<installation, subscription, request, strays>>
  PROVE  Homed'
BY DEF Homed, IsHome, Matches, Installed, Subscribed, Spares, Drops, Rehosts

LEMMA HomedStep ==
  ASSUME Sound, Homed, [Next]_vars
  PROVE  Homed'
<1>1. CASE UNCHANGED vars \/ \E o \in Orgs : AcceptPermissions(o) \/ LoseDelivery(o)
  <2>1. UNCHANGED <<installation, subscription, request, strays>>
    BY <1>1 DEF vars, tables, ghosts, AcceptPermissions, LoseDelivery
  <2> QED
    BY <2>1, HomedSame
<1>2. CASE \E s \in Slots : Start(s) \/ Crash(s)
  BY <1>2, HomedStarts, HomedCrash
<1>3. CASE \E i \in Ids : RemoveAtGitHub(i) \/ VerifyInstallation(i)
  BY <1>3, HomedOutside
<1>4. ASSUME NEW s \in Slots, Step(s)
      PROVE  Homed'
  <2>1. CASE request[s].op \notin {"install", "uninstall"}
    BY <1>4, <2>1, HomedUsers, HomedInsert
  <2>2. CASE request[s].op \in {"install", "uninstall"} /\ ~LookForInstallation(s)
    <3>1. \/ CreateInstallation(s) \/ UpdateInstallation(s) \/ UpdateSubscriptions(s)
          \/ ListSubscriptions(s) \/ DropSubscriptions(s) \/ DeleteConfigured(s)
          \/ DestroyInstallation(s)
      BY <1>4, <2>2 DEF Step, At, RefuseConnect, FindSubscription, InsertSubscription,
         CheckSecurity, AcceptInConnect, LinkInConnect, SetConfigured, StartSync, FindToRemove,
         DeleteDevInfo, DeleteWorkspace, DestroySubscription, CheckConnected, UnsetConfigured,
         GetConfigured, NextSubscription, LinkInWebhook, AcceptInWebhook, SyncInWebhook,
         SubmitDevInfo, EndWebhook
    <3> QED
      BY <3>1, HomedCreate, HomedUpdate, HomedRehost, HomedList, HomedDrop, HomedUnconfigure,
         HomedDestroy
  <2>3. CASE LookForInstallation(s)
    <3>1. /\ request[s].op = "install" /\ request[s].at = "look"
          /\ UNCHANGED <<installation, subscription, strays>>
      BY <2>3 DEF LookForInstallation, At, tables, ghosts
    <3> QED
      BY <1>4, <3>1, StepRequest, HomedCalm
  <2> QED
    BY <2>1, <2>2, <2>3
<1> QED
  BY <1>1, <1>2, <1>3, <1>4 DEF Next

\* A subscription that was not made or left with an outdated installation belongs to an
\* installation that is there, under the URL it is found by: what Jira's install and
\* uninstall callbacks do while users connect is either about to reach the subscription,
\* or known to have missed it.
THEOREM EverySubscriptionHasAHome == Spec => []SubscriptionsHaveAnInstallation
<1>1. Init => Sound /\ Homed
  BY InitSound DEF Init, Homed, Subscribed
<1>2. Sound /\ Homed /\ [Next]_vars => Sound' /\ Homed'
  BY StepSound, HomedStep
<1>3. Sound /\ Homed => SubscriptionsHaveAnInstallation
  BY IdleParts DEF SubscriptionsHaveAnInstallation, Quiet, Homed, IsHome, Matches, Rehosts
<1> QED
  BY <1>1, <1>2, <1>3, PTL DEF Spec

-----------------------------------------------------------------------------
(* IsConfiguredTellsTheTruth. *)

\* What an uninstallation listed was the site's.
OwnWork(r) ==
  r.op = "uninstall" /\ r.at = "drop" =>
    \A i \in r.todo : i \in Nat /\ i <= lastId /\ (i \in Subscribed => subscription[i].key = r.key)

OwnWorks == \A t \in Slots : OwnWork(request[t])

LEMMA OwnKept ==
  ASSUME Sound, Keeps, NEW r, OwnWork(r), lastId' \in Nat
  PROVE  OwnWork(r)'
<1> SUFFICES ASSUME r.op = "uninstall" /\ r.at = "drop", NEW i \in r.todo
             PROVE  /\ i \in Nat /\ i <= lastId'
                    /\ i \in Subscribed' => subscription'[i].key = r.key
  BY DEF OwnWork
<1>1. i \in Nat /\ i <= lastId /\ (i \in Subscribed => subscription[i].key = r.key)
  BY DEF OwnWork
<1> QED
  BY <1>1 DEF Keeps, Sound, Types

LEMMA OwnStays ==
  ASSUME Sound, Sound', Keeps, OwnWorks, NEW s \in Slots, Others(s), OwnWork(request[s])'
  PROVE  OwnWorks'
<1> SUFFICES ASSUME NEW t \in Slots, t # s
             PROVE  OwnWork(request[t])'
  BY DEF OwnWorks
<1>1. PICK r : r = request[t] /\ r = request'[t]
  BY DEF Others
<1>2. OwnWork(r)'
  BY <1>1, OwnKept DEF OwnWorks, Sound, Types
<1> QED
  BY <1>1, <1>2 DEF OwnWork

LEMMA OwnStep ==
  ASSUME Sound, OwnWorks, [Next]_vars
  PROVE  OwnWorks'
<1>1. Sound' /\ Keeps
  BY StepSound
<1>2. ASSUME UNCHANGED request
      PROVE  OwnWorks'
  <2>1. ASSUME NEW t \in Slots
        PROVE  OwnWork(request[t])'
    <3>1. PICK r : r = request[t] /\ r = request'[t]
      BY <1>2
    <3>2. OwnWork(r)'
      BY <1>1, <3>1, OwnKept DEF OwnWorks, Sound, Types
    <3> QED
      BY <3>1, <3>2 DEF OwnWork
  <2> QED
    BY <2>1 DEF OwnWorks
<1>3. ASSUME NEW s \in Slots, Start(s) \/ Crash(s)
      PROVE  OwnWorks'
  <2>1. Others(s) /\ (request'[s] = Idle \/ Begun(request'[s]))
    BY <1>3, Starting, CrashRequest DEF Sound
  <2>2. OwnWork(request[s])'
    BY <2>1, IdleParts DEF OwnWork, Begun
  <2> QED
    BY <1>1, <2>1, <2>2, OwnStays
<1>4. ASSUME NEW s \in Slots, Step(s), ~ListSubscriptions(s)
      PROVE  OwnWorks'
  <2>1. Others(s) /\ (request'[s] = Idle \/ request'[s].op = request[s].op)
    BY <1>4, StepRequest
  <2>2. CASE request[s].op # "uninstall"
    <3>1. request'[s].op # "uninstall"
      BY <2>1, <2>2, IdleParts
    <3> QED
      BY <1>1, <2>1, <3>1, OwnStays DEF OwnWork
  <2>3. CASE request[s].op = "uninstall"
    <3>1. DropSubscriptions(s) \/ DeleteConfigured(s) \/ DestroyInstallation(s)
      BY <1>4, <2>3 DEF Step, At, RefuseConnect, FindSubscription, InsertSubscription,
         CheckSecurity, AcceptInConnect, LinkInConnect, SetConfigured, StartSync, FindToRemove,
         DeleteDevInfo, DeleteWorkspace, DestroySubscription, CheckConnected, UnsetConfigured,
         GetConfigured, LookForInstallation, CreateInstallation, UpdateInstallation,
         UpdateSubscriptions, NextSubscription, LinkInWebhook, AcceptInWebhook, SyncInWebhook,
         SubmitDevInfo, EndWebhook
    <3>2. request'[s].at \in {"property", "row", ""}
      <4>1. CASE DropSubscriptions(s)
        BY <4>1, Dropped
      <4>2. CASE DeleteConfigured(s)
        BY <4>2, Going, PlacesAre DEF DeleteConfigured, Sound
      <4>3. CASE DestroyInstallation(s)
        BY <4>3, Ending, IdleParts DEF DestroyInstallation, Sound
      <4> QED
        BY <3>1, <4>1, <4>2, <4>3
    <3> QED
      BY <1>1, <2>1, <3>2, OwnStays DEF OwnWork
  <2> QED
    BY <2>2, <2>3
<1>5. ASSUME NEW s \in Slots, ListSubscriptions(s)
      PROVE  OwnWorks'
  <2>1. PICK r \in Request : r = request[s]
    BY DEF Sound, Types
  <2>2. r.op = "uninstall" /\ r.key = SiteOf[r.host]
    BY <1>5, <2>1, Listing DEF Sound, RequestsOK, RequestOK, FromSession
  <2>3. PICK q \in Request : q = request'[s]
    BY <1>5, Listing DEF Moved
  <2>4. q.key = r.key /\ q.todo = {i \in Subscribed : subscription[i].host = r.host} /\ Others(s)
    BY <1>5, <2>1, <2>3, Listing DEF Moved, Same, Listed
  <2>5. UNCHANGED <<lastId, subscription>>
    BY <1>5 DEF ListSubscriptions, tables
  <2>6. \A i \in q.todo : /\ i \in Nat /\ i <= lastId'
                          /\ i \in Subscribed' => subscription'[i].key = q.key
    BY <2>2, <2>4, <2>5, Rows_, RowParts DEF Sound, Subscribed
  <2>7. OwnWork(q)'
    BY <2>6 DEF OwnWork
  <2> QED
    BY <1>1, <2>3, <2>4, <2>7, OwnStays DEF OwnWork
<1>6. CASE UNCHANGED vars
  BY <1>2, <1>6 DEF vars
<1>7. CASE \/ \E i \in Ids : RemoveAtGitHub(i) \/ VerifyInstallation(i)
           \/ \E o \in Orgs : AcceptPermissions(o) \/ LoseDelivery(o)
  BY <1>2, <1>7 DEF RemoveAtGitHub, VerifyInstallation, AcceptPermissions, LoseDelivery
<1> QED
  BY <1>3, <1>4, <1>5, <1>6, <1>7 DEF Next

Settles(r, q, k) == (WillSet(r, k) => WillSet(q, k)) /\ (WillUnset(r, k) => WillUnset(q, k))

LEMMA ToldStays ==
  ASSUME Told, NEW s \in Slots, Others(s),
         \A k \in Keys \ doubtful' :
           /\ k \notin doubtful /\ isConfigured'[k] = isConfigured[k]
           /\ (Of(k)' = {}) = (Of(k) = {})
           /\ Settles(request[s], request'[s], k)
  PROVE  Told'
<1> SUFFICES ASSUME NEW k \in Keys \ doubtful'
             PROVE  /\ Of(k)' # {} /\ isConfigured'[k] # "true" =>
                         \E t \in Slots : WillSet(request'[t], k)
                    /\ Of(k)' = {} /\ isConfigured'[k] = "true" =>
                         \E t \in Slots : WillUnset(request'[t], k)
  BY DEF Told, WillSet, WillUnset
<1>1. /\ \A t \in Slots : WillSet(request[t], k) => WillSet(request'[t], k)
      /\ \A t \in Slots : WillUnset(request[t], k) => WillUnset(request'[t], k)
  BY DEF Settles, Others
<1>2. k \in Keys \ doubtful
  OBVIOUS
<1> QED
  BY <1>1, <1>2 DEF Told

\* What does not touch the keys of subscriptions, nor the property.
LEMMA ToldCalm ==
  ASSUME Told, NEW s \in Slots, Others(s),
         UNCHANGED <<subscription, isConfigured>>, doubtful \subseteq doubtful',
         \A k \in Keys \ doubtful' : Settles(request[s], request'[s], k)
  PROVE  Told'
<1>1. \A k : Of(k)' = Of(k)
  BY DEF Of, Subscribed
<1> QED
  BY <1>1, ToldStays

LEMMA ToldStarts ==
  ASSUME Sound, Told, NEW s \in Slots, Start(s)
  PROVE  Told'
<1>1. Others(s) /\ request[s].op = "idle" /\ UNCHANGED <<subscription, isConfigured, doubtful>>
  BY Starting, IdleParts DEF Sound, Unaffected, tables, atJira, ghosts
<1> QED
  BY <1>1, ToldCalm DEF Settles, WillSet, WillUnset

LEMMA ToldCrash ==
  ASSUME Sound, Told, NEW s \in Slots, Crash(s)
  PROVE  Told'
<1>1. Others(s) /\ UNCHANGED <<subscription, isConfigured>>
  BY CrashRequest DEF tables, atJira
<1>2. PICK r : r = request[s]
  OBVIOUS
<1>3. doubtful' = IF \/ r.op = "connect" /\ r.sub # 0 /\ (r.at = "finish" => "property" \in r.todo)
                     \/ r.op = "remove" /\ r.at \in {"check", "unset"}
                     \/ r.op = "uninstall" /\ r.at = "property"
                  THEN doubtful \union {r.key} ELSE doubtful
  BY <1>2 DEF Crash, At
<1>4. r.op = "connect" /\ r.at \in {"security", "accept", "link", "finish"} => r.sub # 0
  BY <1>2 DEF Sound, RequestsOK, RequestOK
<1>5. \A k : WillSet(r, k) \/ WillUnset(r, k) => k \in doubtful'
  BY <1>3, <1>4 DEF WillSet, WillUnset
<1> QED
  BY <1>1, <1>2, <1>3, <1>5, ToldCalm DEF Settles

\* Webhooks, and Jira's install and enabled callbacks before they write.
LEMMA ToldApart ==
  ASSUME Sound, Told, NEW s \in Slots, Step(s),
         request[s].op \notin {"connect", "remove", "uninstall"}, ~UnsetConfigured(s)
  PROVE  Told'
<1>1. Others(s)
  BY StepRequest
<1>2. \A k : Settles(request[s], request'[s], k)
  BY DEF Settles, WillSet, WillUnset
<1>3. UNCHANGED <<isConfigured, doubtful>>
  BY DEF Step, tables, ghosts, atJira, At, RefuseConnect, FindSubscription, InsertSubscription,
       CheckSecurity, AcceptInConnect, LinkInConnect, SetConfigured, StartSync, FindToRemove,
       DeleteDevInfo, DeleteWorkspace, DestroySubscription, CheckConnected, GetConfigured,
       LookForInstallation, CreateInstallation, UpdateInstallation, UpdateSubscriptions,
       ListSubscriptions, DropSubscriptions, DeleteConfigured, DestroyInstallation,
       NextSubscription, LinkInWebhook, AcceptInWebhook, SyncInWebhook, SubmitDevInfo, EndWebhook
<1>4. CASE UpdateSubscriptions(s)
  <2>1. \A k : Of(k)' = Of(k)
    BY <1>4, Rehosted DEF Of
  <2> QED
    BY <1>1, <1>2, <1>3, <2>1, ToldStays
<1>5. CASE ~UpdateSubscriptions(s)
  <2>1. UNCHANGED subscription
    BY <1>5 DEF Step, tables, At, RefuseConnect, FindSubscription, InsertSubscription,
       CheckSecurity, AcceptInConnect, LinkInConnect, SetConfigured, StartSync, FindToRemove,
       DeleteDevInfo, DeleteWorkspace, DestroySubscription, CheckConnected, GetConfigured,
       LookForInstallation, CreateInstallation, UpdateInstallation,
       ListSubscriptions, DropSubscriptions, DeleteConfigured, DestroyInstallation,
       NextSubscription, LinkInWebhook, AcceptInWebhook, SyncInWebhook, SubmitDevInfo, EndWebhook
  <2> QED
    BY <1>1, <1>2, <1>3, <2>1, ToldCalm
<1> QED
  BY <1>4, <1>5

\* Between the row and the property, a connect is about to write it.
LEMMA ToldConnect ==
  ASSUME Sound, Told, NEW s \in Slots,
         \/ RefuseConnect(s) \/ FindSubscription(s) \/ CheckSecurity(s) \/ AcceptInConnect(s)
         \/ LinkInConnect(s) \/ StartSync(s)
  PROVE  Told'
<1>1. /\ request[s].op = "connect" /\ UNCHANGED <<subscription, isConfigured, doubtful>>
  BY DEF At, tables, atJira, ghosts, RefuseConnect, FindSubscription, CheckSecurity,
     AcceptInConnect, LinkInConnect, StartSync
<1>2. Others(s)
  BY StepRequest DEF Step
<1>3. CASE RefuseConnect(s) \/ FindSubscription(s)
  BY <1>1, <1>2, <1>3, ToldCalm DEF RefuseConnect, FindSubscription, At, Settles, WillSet, WillUnset
<1>4. CASE CheckSecurity(s) \/ AcceptInConnect(s) \/ LinkInConnect(s)
  <2>1. Goes(s, "link") \/ Goes(s, "accept") \/ Finishes(s)
    BY <1>4 DEF CheckSecurity, AcceptInConnect, LinkInConnect
  <2>2. /\ Same(request'[s], request[s])
        /\ \/ request'[s].at \in {"link", "accept"}
           \/ request'[s].at = "finish" /\ request'[s].todo = {"property", "sync"}
    BY <2>1, Going, Finishing, PlacesAre DEF Sound
  <2>3. \A k : Settles(request[s], request'[s], k)
    BY <1>1, <2>2 DEF Same, Settles, WillSet, WillUnset
  <2> QED
    BY <1>1, <1>2, <2>3, ToldCalm
<1>5. CASE StartSync(s)
  <2>1. Did(s, "sync") /\ request[s].at = "finish"
    BY <1>5 DEF StartSync, At
  <2>2. \/ "property" \notin request[s].todo
        \/ /\ Same(request'[s], request[s]) /\ request'[s].at = "finish"
           /\ request'[s].todo = request[s].todo \ {"sync"}
    BY <2>1, Doing DEF Sound
  <2>3. \A k : Settles(request[s], request'[s], k)
    BY <1>1, <2>1, <2>2 DEF Same, Settles, WillSet, WillUnset
  <2> QED
    BY <1>1, <1>2, <2>3, ToldCalm
<1> QED
  BY <1>3, <1>4, <1>5

LEMMA ToldInsert ==
  ASSUME Sound, Told, NEW s \in Slots, InsertSubscription(s)
  PROVE  Told'
<1> DEFINE row == [key |-> request[s].key, host |-> request[s].host, org |-> request[s].org]
<1>1. PICK i, key : i = lastId + 1 /\ i \in Nat /\ key = request[s].key
  BY DEF Sound, Types
<1>2. /\ subscription' = [subscription EXCEPT ![i] = row]
      /\ UNCHANGED <<isConfigured, doubtful>>
      /\ request[s].op = "connect" /\ request[s].at = "insert"
  BY <1>1 DEF InsertSubscription, At, atJira
<1>3. /\ Others(s) /\ request'[s].op = "connect" /\ request'[s].key = key
      /\ request'[s].at = "security"
  BY <1>1, <1>2, Inserted DEF Same
<1>4. row.key = key
  BY <1>1
<1>5. \A k \in Ids : subscription'[k] = IF k = i THEN row ELSE subscription[k]
  BY <1>2 DEF Sound, Types
<1>6. i \in Ids => subscription[i] = None
  BY <1>1 DEF Sound, Types
<1> HIDE DEF row
<1>7. \A k : k # key => Of(k)' = Of(k)
  BY <1>4, <1>5, <1>6 DEF Of, Subscribed
<1>8. ASSUME NEW k \in Keys \ doubtful'
      PROVE  /\ Of(k)' # {} /\ isConfigured'[k] # "true" =>
                  \E t \in Slots : WillSet(request'[t], k)
             /\ Of(k)' = {} /\ isConfigured'[k] = "true" =>
                  \E t \in Slots : WillUnset(request'[t], k)
  <2>1. \A t \in Slots : /\ WillSet(request[t], k) => WillSet(request'[t], k)
                         /\ WillUnset(request[t], k) => WillUnset(request'[t], k)
    BY <1>2, <1>3 DEF WillSet, WillUnset, Others
  <2>2. CASE k # key
    BY <1>2, <1>7, <2>1, <2>2 DEF Told
  <2>3. CASE k = key
    <3>1. WillSet(request'[s], k)
      BY <1>3, <2>3 DEF WillSet
    <3>2. Of(k)' = {} => Of(k) = {}
      BY <1>5, <1>6 DEF Of, Subscribed
    <3> QED
      BY <1>2, <2>1, <3>1, <3>2 DEF Told
  <2> QED
    BY <2>2, <2>3
<1> QED
  BY <1>8 DEF Told, WillSet, WillUnset

\* A write is right, or known to be doubtful: who writes has looked the other way.
LEMMA ToldWrites ==
  ASSUME Sound, Told, NEW s \in Slots, NEW value \in {"none", "true", "false"},
         Writes(s, request[s].key, value), UNCHANGED subscription, Others(s),
         value = "true" => FALSE \notin request[s].seen,
         value # "true" => TRUE \notin request[s].seen
  PROVE  Told'
<1>1. PICK key : key = request[s].key
  OBVIOUS
<1> DEFINE connected == Of(key) # {}
<1>2. /\ isConfigured' = [isConfigured EXCEPT ![key] = value]
      /\ doubtful' = IF (value = "true") = connected THEN doubtful \ {key}
                     ELSE IF connected \notin request[s].seen THEN doubtful \union {key}
                     ELSE doubtful
  BY <1>1 DEF Writes
<1>3. \A k : Of(k)' = Of(k)
  BY DEF Of, Subscribed
<1>4. key \in doubtful' \/ (value = "true") = connected
  <2>1. CASE connected
    <3>1. connected = TRUE
      BY <2>1
    <3> QED
      BY <1>2, <3>1
  <2>2. CASE ~connected
    <3>1. connected = FALSE
      BY <2>2
    <3> QED
      BY <1>2, <3>1
  <2> QED
    BY <2>1, <2>2
<1>5. doubtful \ {key} \subseteq doubtful'
  BY <1>2
<1>6. ASSUME NEW k \in Keys \ doubtful'
      PROVE  /\ Of(k)' # {} /\ isConfigured'[k] # "true" =>
                  \E t \in Slots : WillSet(request'[t], k)
             /\ Of(k)' = {} /\ isConfigured'[k] = "true" =>
                  \E t \in Slots : WillUnset(request'[t], k)
  <2>1. CASE k # key
    <3>1. k \in Keys \ doubtful /\ isConfigured'[k] = isConfigured[k]
      BY <1>2, <1>5, <2>1 DEF Sound, Types
    <3>2. \A t \in Slots : /\ WillSet(request[t], k) => WillSet(request'[t], k)
                           /\ WillUnset(request[t], k) => WillUnset(request'[t], k)
      BY <1>1, <2>1 DEF WillSet, WillUnset, Others
    <3> QED
      BY <1>3, <3>1, <3>2 DEF Told
  <2>2. CASE k = key
    <3>1. isConfigured'[k] = value
      BY <1>2, <2>2 DEF Sound, Types
    <3>2. (value = "true") = (Of(k)' # {})
      BY <1>3, <1>4, <2>2
    <3> QED
      BY <3>1, <3>2
  <2> QED
    BY <2>1, <2>2
<1> QED
  BY <1>6 DEF Told, WillSet, WillUnset

\* A write that failed is known to be missing.
LEMMA ToldDoubts ==
  ASSUME Told, NEW s \in Slots, UNCHANGED <<subscription, isConfigured>>, Others(s),
         doubtful' = doubtful \union {request[s].key}
  PROVE  Told'
<1>1. \A k \in Keys \ doubtful' : Settles(request[s], request'[s], k)
  BY DEF Settles, WillSet, WillUnset
<1> QED
  BY <1>1, ToldCalm

LEMMA ToldSaves ==
  ASSUME Sound, Told, NEW s \in Slots, NEW value \in {"true", "false"},
         SavesConfigured(s, value), UNCHANGED subscription, Others(s),
         request[s].op \in FromSession,
         value = "true" => FALSE \notin request[s].seen,
         value # "true" => TRUE \notin request[s].seen
  PROVE  Told'
<1>1. request[s].key = SiteOf[request[s].host]
  BY DEF Sound, RequestsOK, RequestOK
<1>2. CASE doubtful' = doubtful \union {request[s].key} /\ UNCHANGED isConfigured
  BY <1>2, ToldDoubts
<1>3. CASE /\ GetForHost(request[s].host) # 0
           /\ Writes(s, installation[GetForHost(request[s].host)].key, value)
  <2>1. installation[GetForHost(request[s].host)].key = request[s].key
    BY <1>1, <1>3, NewestOfHost DEF Sound
  <2>2. Writes(s, request[s].key, value)
    BY <1>3, <2>1
  <2> QED
    BY <2>2, ToldWrites
<1> QED
  BY <1>2, <1>3 DEF SavesConfigured

LEMMA ToldSets ==
  ASSUME Sound, Told, NEW s \in Slots, SetConfigured(s) \/ UnsetConfigured(s)
  PROVE  Told'
<1>1. UNCHANGED subscription /\ Others(s)
  BY StepRequest DEF SetConfigured, UnsetConfigured, Step, tables
<1>2. CASE SetConfigured(s)
  <2>1. request[s].op = "connect" /\ SavesConfigured(s, "true") /\ request[s].seen = {TRUE}
    BY <1>2 DEF SetConfigured, At, Sound, RequestsOK, RequestOK
  <2> QED
    BY <1>1, <2>1, ToldSaves DEF FromSession
<1>3. CASE UnsetConfigured(s)
  <2>1. /\ request[s].op \in {"remove", "enabled"} /\ SavesConfigured(s, "false")
        /\ request[s].at = "unset"
    BY <1>3 DEF UnsetConfigured
  <2>2. request[s].seen = {FALSE} \/ request[s].seen = {}
    BY <2>1 DEF Sound, RequestsOK, RequestOK
  <2>3. TRUE \notin request[s].seen
    BY <2>2
  <2> QED
    BY <1>1, <2>1, <2>3, ToldSaves DEF FromSession
<1> QED
  BY <1>2, <1>3

LEMMA ToldRemove ==
  ASSUME Sound, Told, NEW s \in Slots,
         FindToRemove(s) \/ DeleteDevInfo(s) \/ DeleteWorkspace(s) \/ CheckConnected(s)
  PROVE  Told'
<1>1. request[s].op = "remove" /\ UNCHANGED <<subscription, isConfigured, doubtful>>
  BY DEF At, tables, atJira, ghosts, FindToRemove, DeleteDevInfo, DeleteWorkspace, CheckConnected
<1>2. Others(s)
  BY StepRequest DEF Step
<1>3. CASE FindToRemove(s) \/ DeleteDevInfo(s) \/ DeleteWorkspace(s)
  BY <1>1, <1>2, <1>3, ToldCalm
     DEF FindToRemove, DeleteDevInfo, DeleteWorkspace, At, Settles, WillSet, WillUnset
<1>4. CASE CheckConnected(s) /\ Connected(request[s].host)
  <2>1. PICK i \in Subscribed : subscription[i].host = request[s].host
    BY <1>4 DEF Connected
  <2>2. subscription[i].key = request[s].key
    <3>1. request[s].key = SiteOf[request[s].host]
      BY <1>1 DEF Sound, RequestsOK, RequestOK, FromSession
    <3>2. subscription[i].key = SiteOf[subscription[i].host]
      BY Rows_, RowParts DEF Sound
    <3> QED
      BY <2>1, <3>1, <3>2
  <2>3. Of(request[s].key) # {}
    BY <2>1, <2>2 DEF Of
  <2>4. PICK key : key = request[s].key
    OBVIOUS
  <2>5. \A k : Of(k)' = Of(k)
    BY <1>1 DEF Of, Subscribed
  <2>6. \A k : \A t \in Slots : /\ WillSet(request[t], k) => WillSet(request'[t], k)
                                /\ k # key /\ WillUnset(request[t], k) => WillUnset(request'[t], k)
    BY <1>1, <1>2, <2>4 DEF WillSet, WillUnset, Others
  <2>7. ASSUME NEW k \in Keys \ doubtful'
        PROVE  /\ Of(k)' # {} /\ isConfigured'[k] # "true" =>
                    \E t \in Slots : WillSet(request'[t], k)
               /\ Of(k)' = {} /\ isConfigured'[k] = "true" =>
                    \E t \in Slots : WillUnset(request'[t], k)
    <3>1. k = key => Of(k)' # {}
      BY <2>3, <2>4, <2>5
    <3> QED
      BY <1>1, <2>5, <2>6, <3>1 DEF Told
  <2> QED
    BY <2>7 DEF Told, WillSet, WillUnset
<1>5. CASE CheckConnected(s) /\ ~Connected(request[s].host)
  <2>1. TakesAnswer(s, "unset", {Connected(request[s].host)})
    BY <1>5 DEF CheckConnected, Unsets, TakesAnswer
  <2>2. {Connected(request[s].host)} \in Answers
    BY DEF Answers, Connected
  <2>3. Same(request'[s], request[s]) /\ request'[s].at = "unset"
    BY <2>1, <2>2, TakingAnswer, PlacesAre DEF Sound
  <2>4. \A k : Settles(request[s], request'[s], k)
    BY <1>1, <2>3 DEF Same, Settles, WillSet, WillUnset
  <2> QED
    BY <1>1, <1>2, <2>4, ToldCalm
<1> QED
  BY <1>3, <1>4, <1>5

\* The rows that go are the site's, and whoever took them is about to unset the property.
LEMMA ToldDestroys ==
  ASSUME Sound, Told, NEW s \in Slots, NEW ids, Destroy(ids), Others(s),
         \A i \in ids : i \in Subscribed => subscription[i].key = request[s].key,
         UNCHANGED <<isConfigured, doubtful>>, request[s].op # "connect",
         request' \in [Slots -> Request], WillUnset(request'[s], request[s].key)
  PROVE  Told'
<1>1. PICK key : key = request[s].key
  OBVIOUS
<1>2. /\ \A i \in Subscribed' :
           i \in Subscribed /\ i \notin ids /\ subscription'[i] = subscription[i]
      /\ \A i \in Subscribed : i \notin ids => i \in Subscribed'
  BY Destroying
<1>3. \A k : Of(k)' \subseteq Of(k)
  BY <1>2 DEF Of
<1>4. \A k : k # key => Of(k) \subseteq Of(k)'
  BY <1>1, <1>2 DEF Of
<1>5. \A k : \A t \in Slots : /\ WillSet(request[t], k) => WillSet(request'[t], k)
                              /\ k # key /\ WillUnset(request[t], k) => WillUnset(request'[t], k)
  BY <1>1 DEF WillSet, WillUnset, Others
<1>6. ASSUME NEW k \in Keys \ doubtful'
      PROVE  /\ Of(k)' # {} /\ isConfigured'[k] # "true" =>
                  \E t \in Slots : WillSet(request'[t], k)
             /\ Of(k)' = {} /\ isConfigured'[k] = "true" =>
                  \E t \in Slots : WillUnset(request'[t], k)
  <2>1. Of(k)' # {} => Of(k) # {}
    BY <1>3
  <2>2. k # key => (Of(k)' = {} <=> Of(k) = {})
    BY <1>3, <1>4
  <2>3. k = key => WillUnset(request'[s], k)
    BY <1>1
  <2> QED
    BY <1>5, <2>1, <2>2, <2>3 DEF Told
<1> QED
  BY <1>6 DEF Told, WillSet, WillUnset

LEMMA ToldDrops ==
  ASSUME Sound, Told, OwnWorks, NEW s \in Slots, DestroySubscription(s) \/ DropSubscriptions(s)
  PROVE  Told'
<1>1. CASE DestroySubscription(s)
  <2>1. /\ Destroy({request[s].sub}) /\ Goes(s, "check") /\ UNCHANGED <<isConfigured, doubtful>>
        /\ request[s].op = "remove" /\ request[s].at = "destroy"
    BY <1>1 DEF DestroySubscription, At, atJira, ghosts
  <2>2. /\ request' \in [Slots -> Request] /\ Others(s)
        /\ Same(request'[s], request[s]) /\ request'[s].at = "check"
    BY <2>1, Going, PlacesAre DEF Sound
  <2>3. \A i \in {request[s].sub} : i \in Subscribed => subscription[i].key = request[s].key
    BY <2>1 DEF Sound, RequestsOK, RequestOK, IsOf
  <2>4. WillUnset(request'[s], request[s].key)
    BY <2>1, <2>2 DEF WillUnset, Same
  <2> QED
    BY <2>1, <2>2, <2>3, <2>4, ToldDestroys
<1>2. CASE DropSubscriptions(s)
  <2>1. /\ Destroy(request[s].todo) /\ UNCHANGED <<isConfigured, doubtful>>
        /\ request[s].op = "uninstall" /\ request[s].at = "drop"
    BY <1>2 DEF DropSubscriptions, At, atJira
  <2>2. /\ request' \in [Slots -> Request] /\ Others(s)
        /\ Same(request'[s], request[s]) /\ request'[s].at = "property"
    BY <1>2, Dropped
  <2>3. \A i \in request[s].todo : i \in Subscribed => subscription[i].key = request[s].key
    BY <2>1 DEF OwnWorks, OwnWork
  <2>4. WillUnset(request'[s], request[s].key)
    BY <2>1, <2>2 DEF WillUnset, Same
  <2> QED
    BY <2>1, <2>2, <2>3, <2>4, ToldDestroys
<1> QED
  BY <1>1, <1>2

LEMMA ToldUninstall ==
  ASSUME Sound, Told, NEW s \in Slots,
         ListSubscriptions(s) \/ DeleteConfigured(s) \/ DestroyInstallation(s)
  PROVE  Told'
<1>1. request[s].op = "uninstall" /\ UNCHANGED subscription
  BY DEF At, tables, ListSubscriptions, DeleteConfigured, DestroyInstallation
<1>2. Others(s)
  BY StepRequest DEF Step
<1>3. CASE ListSubscriptions(s) \/ DestroyInstallation(s)
  BY <1>1, <1>2, <1>3, ToldCalm
     DEF ListSubscriptions, DestroyInstallation, At, atJira, ghosts, Settles, WillSet, WillUnset
<1>4. CASE DeleteConfigured(s)
  <2>1. request[s].seen = {FALSE}
    BY <1>4 DEF DeleteConfigured, At, Sound, RequestsOK, RequestOK
  <2>2. TRUE \notin request[s].seen
    BY <2>1
  <2>3. \/ Writes(s, request[s].key, "none")
        \/ doubtful' = doubtful \union {request[s].key} /\ UNCHANGED isConfigured
    BY <1>4 DEF DeleteConfigured
  <2> QED
    BY <1>1, <1>2, <2>2, <2>3, ToldWrites, ToldDoubts
<1> QED
  BY <1>3, <1>4

LEMMA ToldAtGitHub ==
  ASSUME Sound, Told, NEW i \in Ids, RemoveAtGitHub(i)
  PROVE  Told'
<1>1. PICK site : site = subscription[i].key
  OBVIOUS
<1>2. /\ Destroy({i}) /\ UNCHANGED <<request, isConfigured>> /\ i \in Subscribed
      /\ doubtful' = IF Of(site) = {i} THEN doubtful \union {site} ELSE doubtful
  BY <1>1 DEF RemoveAtGitHub, atJira
<1>3. request' \in [Slots -> Request]
  BY <1>2 DEF Sound, Types
<1>4. /\ \A k \in Subscribed' : k \in Subscribed /\ subscription'[k] = subscription[k]
      /\ \A k \in Subscribed : k # i => k \in Subscribed' /\ subscription'[k] = subscription[k]
  BY <1>2, <1>3, Destroying
<1>5. ASSUME NEW k \in Keys \ doubtful'
      PROVE  k \in Keys \ doubtful /\ (Of(k)' = {} <=> Of(k) = {})
  <2>1. Of(k)' \subseteq Of(k)
    BY <1>4 DEF Of
  <2>2. CASE k # site
    BY <1>1, <1>2, <1>4, <2>1, <2>2 DEF Of
  <2>3. CASE k = site
    <3>1. Of(k) # {i}
      BY <1>2, <1>5, <2>3
    <3>2. i \in Of(k)
      BY <1>1, <1>2, <2>3 DEF Of
    <3>3. PICK j \in Of(k) : j # i
      BY <3>1, <3>2
    <3>4. j \in Of(k)'
      BY <1>4, <3>3 DEF Of
    <3> QED
      BY <1>2, <1>5, <3>3, <3>4
  <2> QED
    BY <2>2, <2>3
<1> QED
  BY <1>2, <1>5 DEF Told, WillSet, WillUnset

LEMMA ToldSame ==
  ASSUME Told, UNCHANGED <<subscription, request, isConfigured, doubtful>>
  PROVE  Told'
BY DEF Told, Of, Subscribed, WillSet, WillUnset

LEMMA ToldStep ==
  ASSUME Sound, Told, OwnWorks, [Next]_vars
  PROVE  Told'
<1>1. CASE \/ UNCHANGED vars
           \/ \E o \in Orgs : AcceptPermissions(o) \/ LoseDelivery(o)
           \/ \E i \in Ids : VerifyInstallation(i)
  <2>1. UNCHANGED <<subscription, request, isConfigured, doubtful>>
    BY <1>1 DEF vars, tables, atJira, ghosts, AcceptPermissions, LoseDelivery, VerifyInstallation
  <2> QED
    BY <2>1, ToldSame
<1>2. CASE \E i \in Ids : RemoveAtGitHub(i)
  BY <1>2, ToldAtGitHub
<1>3. CASE \E s \in Slots : Start(s) \/ Crash(s)
  BY <1>3, ToldStarts, ToldCrash
<1>4. ASSUME NEW s \in Slots, Step(s)
      PROVE  Told'
  <2>1. CASE request[s].op \notin {"connect", "remove", "uninstall"}
    BY <1>4, <2>1, ToldApart, ToldSets
  <2>2. CASE request[s].op = "connect"
    BY <1>4, <2>2, ToldConnect, ToldInsert, ToldSets
       DEF Step, At, FindToRemove, DeleteDevInfo, DeleteWorkspace, DestroySubscription,
       CheckConnected, UnsetConfigured, GetConfigured, LookForInstallation, CreateInstallation,
       UpdateInstallation, UpdateSubscriptions, ListSubscriptions, DropSubscriptions,
       DeleteConfigured, DestroyInstallation, NextSubscription, LinkInWebhook, AcceptInWebhook,
       SyncInWebhook, SubmitDevInfo, EndWebhook
  <2>3. CASE request[s].op = "remove"
    BY <1>4, <2>3, ToldRemove, ToldDrops, ToldSets
       DEF Step, At, RefuseConnect, FindSubscription, InsertSubscription, CheckSecurity,
       AcceptInConnect, LinkInConnect, SetConfigured, StartSync, GetConfigured,
       LookForInstallation, CreateInstallation, UpdateInstallation, UpdateSubscriptions,
       ListSubscriptions, DropSubscriptions, DeleteConfigured, DestroyInstallation,
       NextSubscription, LinkInWebhook, AcceptInWebhook, SyncInWebhook, SubmitDevInfo, EndWebhook
  <2>4. CASE request[s].op = "uninstall"
    BY <1>4, <2>4, ToldUninstall, ToldDrops
       DEF Step, At, RefuseConnect, FindSubscription, InsertSubscription, CheckSecurity,
       AcceptInConnect, LinkInConnect, SetConfigured, StartSync, FindToRemove, DeleteDevInfo,
       DeleteWorkspace, DestroySubscription, CheckConnected, UnsetConfigured, GetConfigured,
       LookForInstallation, CreateInstallation, UpdateInstallation, UpdateSubscriptions,
       NextSubscription, LinkInWebhook, AcceptInWebhook, SyncInWebhook, SubmitDevInfo, EndWebhook
  <2> QED
    BY <2>1, <2>2, <2>3, <2>4
<1> QED
  BY <1>1, <1>2, <1>3, <1>4 DEF Next

\* The property isConfigured says whether the site has a subscription, but for the writes
\* that are known to be doubtful: whoever changes the rows is about to write it, and whoever
\* writes what the rows contradict by then had not seen them so.
THEOREM ConfiguredIsTrue == Spec => []IsConfiguredTellsTheTruth
<1>1. Init => Sound /\ OwnWorks /\ Told
  <2> SUFFICES ASSUME Init
               PROVE  OwnWorks /\ Told
    BY InitSound
  <2>1. OwnWorks
    BY IdleParts DEF Init, OwnWorks, OwnWork
  <2>2. \A k \in Keys : Of(k) = {} /\ isConfigured[k] = "none"
    BY DEF Init, Of, Subscribed
  <2> QED
    BY <2>1, <2>2 DEF Told
<1>2. Sound /\ OwnWorks /\ Told /\ [Next]_vars => Sound' /\ OwnWorks' /\ Told'
  BY StepSound, OwnStep, ToldStep
<1>3. Sound /\ Told => IsConfiguredTellsTheTruth
  <2> SUFFICES ASSUME Sound, Told, Quiet, NEW k \in Keys \ doubtful
               PROVE  (isConfigured[k] = "true") = (Of(k) # {})
    BY DEF IsConfiguredTellsTheTruth
  <2>1. \A t \in Slots : ~WillSet(request[t], k) /\ ~WillUnset(request[t], k)
    BY IdleParts DEF Quiet, WillSet, WillUnset
  <2> QED
    BY <2>1 DEF Told
<1> QED
  BY <1>1, <1>2, <1>3, PTL DEF Spec

-----------------------------------------------------------------------------
(* NothingIsLeftAtJira. *)

StillThere ==
  \A i \in Subscribed : /\ i \in Subscribed' /\ subscription'[i].key = subscription[i].key
                        /\ subscription'[i].org = subscription[i].org

LEMMA LeftStays ==
  ASSUME NothingLeft, NEW s \in Slots, Others(s), StillThere, devInfo' \subseteq devInfo,
         devInfo' \ leftovers' \subseteq devInfo \ leftovers,
         linked' \ orphans' \subseteq linked \ orphans,
         TookAway(request[s])'
  PROVE  NothingLeft'
<1>1. ASSUME NEW t \in Slots
      PROVE  TookAway(request[t])'
  <2>1. CASE t # s
    <3>1. request'[t] = request[t]
      BY <2>1 DEF Others
    <3> QED
      BY <3>1 DEF NothingLeft, TookAway
  <2> QED
    BY <2>1
<1>2. ASSUME NEW p \in devInfo' \ leftovers'
      PROVE  \E i \in Of(p[1])' : subscription'[i].org = p[2]
  <2>1. PICK i \in Of(p[1]) : subscription[i].org = p[2]
    BY DEF NothingLeft, NothingIsLeftAtJira
  <2> QED
    BY <2>1 DEF Of, StillThere
<1>3. linked' \ orphans' \subseteq Subscribed'
  BY DEF NothingLeft, NothingIsLeftAtJira, StillThere
<1>4. NothingIsLeftAtJira'
  BY <1>2, <1>3 DEF NothingIsLeftAtJira
<1> QED
  BY <1>1, <1>4 DEF NothingLeft

LEMMA SubscriptionsStay ==
  ASSUME UNCHANGED subscription
  PROVE  StillThere
BY DEF StillThere, Subscribed

\* What neither takes away nor tells Jira.
LEMMA LeftCalm ==
  ASSUME NothingLeft, NEW s \in Slots, Others(s), StillThere,
         UNCHANGED <<devInfo, leftovers, linked, orphans>>,
         request'[s].op # "remove" \/ request'[s].at \notin {"workspace", "destroy"}
  PROVE  NothingLeft'
<1>1. TookAway(request[s])'
  BY DEF TookAway
<1> QED
  BY <1>1, LeftStays

LEMMA LeftStarts ==
  ASSUME Sound, NothingLeft, NEW s \in Slots, Start(s)
  PROVE  NothingLeft'
<1>1. /\ Others(s) /\ Begun(request'[s])
      /\ UNCHANGED <<subscription, devInfo, leftovers, linked, orphans>>
  BY Starting DEF Sound, Unaffected, tables, atJira, ghosts
<1>2. request'[s].op # "remove" \/ request'[s].at \notin {"workspace", "destroy"}
  BY <1>1 DEF Begun
<1> QED
  BY <1>1, <1>2, SubscriptionsStay, LeftCalm

LEMMA LeftCrash ==
  ASSUME Sound, NothingLeft, NEW s \in Slots, Crash(s)
  PROVE  NothingLeft'
<1>1. /\ Others(s) /\ request'[s].op = "idle"
      /\ UNCHANGED <<subscription, devInfo, leftovers, linked, orphans>>
  BY CrashRequest, IdleParts DEF tables, atJira
<1> QED
  BY <1>1, SubscriptionsStay, LeftCalm

\* A workspace is linked for a subscription that is there and stays, or is an orphan.
LEMMA LeftLinks ==
  ASSUME Sound, NothingLeft, NEW s \in Slots, Others(s), Links(s),
         UNCHANGED <<subscription, devInfo, leftovers>>, request'[s].op # "remove"
  PROVE  NothingLeft'
<1>1. PICK i : i = request[s].sub
  OBVIOUS
<1>2. /\ linked' = linked \union {i}
      /\ orphans' = IF i \notin Subscribed \/ BeingRemoved(i) THEN orphans \union {i} ELSE orphans
  BY <1>1 DEF Links
<1>3. CASE i \notin Subscribed \/ BeingRemoved(i)
  <2>1. linked' \ orphans' \subseteq linked \ orphans
    BY <1>2, <1>3
  <2> QED
    BY <2>1, SubscriptionsStay, LeftStays DEF TookAway
<1>4. CASE i \in Subscribed /\ ~BeingRemoved(i)
  <2>1. NothingIsLeftAtJira'
    BY <1>2, <1>4 DEF NothingLeft, NothingIsLeftAtJira, Of, Subscribed
  <2>2. ASSUME NEW t \in Slots
        PROVE  TookAway(request[t])'
    <3>1. CASE t = s
      BY <3>1 DEF TookAway
    <3>2. CASE t # s
      <4>1. request'[t] = request[t] /\ TookAway(request[t])
        BY <3>2 DEF Others, NothingLeft
      <4>2. request[t].op = "remove" /\ request[t].at = "destroy" => request[t].sub # i
        BY <1>4 DEF BeingRemoved, Active
      <4> QED
        BY <1>2, <1>4, <4>1, <4>2 DEF TookAway
    <3> QED
      BY <3>1, <3>2
  <2> QED
    BY <2>1, <2>2 DEF NothingLeft
<1> QED
  BY <1>3, <1>4

LEMMA LeftLinked ==
  ASSUME Sound, NothingLeft, NEW s \in Slots, LinkInConnect(s) \/ LinkInWebhook(s)
  PROVE  NothingLeft'
<1>1. /\ request[s].op \in {"connect", "permissions"}
      /\ UNCHANGED <<subscription, devInfo, leftovers>>
      /\ Links(s) \/ UNCHANGED <<linked, orphans>>
  BY DEF LinkInConnect, LinkInWebhook, At, tables
<1>2. Others(s) /\ (request'[s] = Idle \/ request'[s].op = request[s].op)
  BY StepRequest DEF Step
<1>3. request'[s].op # "remove"
  BY <1>1, <1>2, IdleParts
<1> QED
  BY <1>1, <1>2, <1>3, LeftLinks, LeftCalm, SubscriptionsStay

\* Dev data is of a subscription that is there and stays, or left over.
LEMMA LeftSubmits ==
  ASSUME Sound, NothingLeft, NEW s \in Slots, SubmitDevInfo(s)
  PROVE  NothingLeft'
<1>1. /\ request[s].op = "event" /\ UNCHANGED <<subscription, linked, orphans>>
  BY DEF SubmitDevInfo, At, tables
<1>2. Others(s) /\ (request'[s] = Idle \/ request'[s].op = request[s].op)
  BY StepRequest DEF Step
<1>3. request'[s].op # "remove"
  BY <1>1, <1>2, IdleParts
<1>4. CASE UNCHANGED <<devInfo, leftovers>>
  BY <1>1, <1>2, <1>3, <1>4, LeftCalm, SubscriptionsStay
<1>5. CASE ~UNCHANGED <<devInfo, leftovers>>
  <2>1. PICK key, org :
           /\ devInfo' = devInfo \union {<<key, org>>}
           /\ leftovers' = IF \/ DataRemoved(org)
                              \/ ~\E j \in Of(key) : subscription[j].org = org
                           THEN leftovers \union {<<key, org>>} ELSE leftovers
    BY <1>5 DEF SubmitDevInfo
  <2>2. \A p \in devInfo' : p = <<p[1], p[2]>>
    BY <2>1 DEF NothingLeft
  <2>3. /\ \A p \in devInfo' \ leftovers' :
             p \in devInfo \ leftovers \/ (p = <<key, org>> /\ ~DataRemoved(org)
                                           /\ \E j \in Of(key) : subscription[j].org = org)
    BY <2>1
  <2>4. NothingIsLeftAtJira'
    BY <1>1, <2>3 DEF NothingLeft, NothingIsLeftAtJira, Of, Subscribed
  <2>5. ASSUME NEW t \in Slots
        PROVE  TookAway(request[t])'
    <3>1. CASE t = s
      BY <1>3, <3>1 DEF TookAway
    <3>2. CASE t # s
      <4>1. request'[t] = request[t] /\ TookAway(request[t])
        BY <1>2, <3>2 DEF Others, NothingLeft
      <4>2. ~DataRemoved(org) =>
              (request[t].op = "remove" /\ request[t].at \in {"workspace", "destroy"}
               => request[t].org # org)
        BY DEF DataRemoved, Active
      <4> QED
        BY <1>1, <2>3, <4>1, <4>2 DEF TookAway
    <3> QED
      BY <3>1, <3>2
  <2> QED
    BY <2>2, <2>4, <2>5 DEF NothingLeft
<1> QED
  BY <1>4, <1>5

LEMMA LeftDevInfo ==
  ASSUME Sound, NothingLeft, NEW s \in Slots, DeleteDevInfo(s)
  PROVE  NothingLeft'
<1>1. PICK r \in Request : r = request[s]
  BY DEF Sound, Types
<1>2. /\ r.op = "remove" /\ UNCHANGED <<subscription, linked, orphans>>
      /\ r.key = SiteOf[r.host]
  BY <1>1 DEF DeleteDevInfo, At, tables, Sound, RequestsOK, RequestOK, FromSession
<1>3. CASE Ends(s) /\ UNCHANGED <<devInfo, leftovers>>
  BY <1>2, <1>3, Ending, IdleParts, LeftCalm, SubscriptionsStay DEF Sound
<1>4. CASE /\ GetForHost(r.host) # 0 /\ Goes(s, "workspace")
           /\ devInfo' = devInfo \ {<<installation[GetForHost(r.host)].key, r.org>>}
           /\ leftovers' = leftovers \ {<<installation[GetForHost(r.host)].key, r.org>>}
  <2>1. installation[GetForHost(r.host)].key = r.key
    BY <1>2, <1>4, NewestOfHost DEF Sound
  <2>2. /\ Others(s) /\ request'[s].at = "workspace" /\ request'[s].key = r.key
        /\ request'[s].org = r.org
    BY <1>1, <1>4, Going, PlacesAre DEF Sound, Same
  <2>3. devInfo' = devInfo \ {<<r.key, r.org>>} /\ leftovers' = leftovers \ {<<r.key, r.org>>}
    BY <1>4, <2>1
  <2>4. TookAway(request[s])'
    BY <2>2, <2>3 DEF TookAway
  <2>5. devInfo' \subseteq devInfo /\ devInfo' \ leftovers' \subseteq devInfo \ leftovers
    BY <2>3
  <2> QED
    BY <1>2, <2>2, <2>4, <2>5, LeftStays, SubscriptionsStay
<1> QED
  BY <1>1, <1>3, <1>4 DEF DeleteDevInfo

LEMMA LeftWorkspace ==
  ASSUME Sound, NothingLeft, NEW s \in Slots, DeleteWorkspace(s)
  PROVE  NothingLeft'
<1>1. PICK r \in Request : r = request[s]
  BY DEF Sound, Types
<1>2. /\ r.op = "remove" /\ r.at = "workspace" /\ Goes(s, "destroy")
      /\ UNCHANGED <<subscription, devInfo, leftovers>>
      /\ \/ linked' = linked \ {r.sub} /\ orphans' = orphans \ {r.sub}
         \/ orphans' = orphans \union (linked \intersect {r.sub}) /\ UNCHANGED linked
  BY <1>1 DEF DeleteWorkspace, At, tables
<1>3. /\ Others(s) /\ request'[s].op = "remove" /\ request'[s].sub = r.sub
      /\ request'[s].key = r.key /\ request'[s].org = r.org
  BY <1>1, <1>2, Going, PlacesAre DEF Sound, Same
<1>4. TookAway(r)
  BY <1>1 DEF NothingLeft
<1>5. TookAway(request[s])'
  BY <1>2, <1>3, <1>4 DEF TookAway
<1>6. linked' \ orphans' \subseteq linked \ orphans
  BY <1>2
<1> QED
  BY <1>2, <1>3, <1>5, <1>6, LeftStays, SubscriptionsStay

\* By then Jira has nothing of the subscription that is not known to be left over.
LEMMA LeftDestroy ==
  ASSUME Sound, NothingLeft, NEW s \in Slots, DestroySubscription(s)
  PROVE  NothingLeft'
<1>1. PICK r \in Request : r = request[s]
  BY DEF Sound, Types
<1>2. /\ r.op = "remove" /\ r.at = "destroy" /\ Goes(s, "check") /\ Destroy({r.sub})
      /\ UNCHANGED <<devInfo, leftovers, linked, orphans, isConfigured>>
  BY <1>1 DEF DestroySubscription, At, atJira, ghosts
<1>3. /\ request' \in [Slots -> Request] /\ Others(s) /\ request'[s].at = "check"
  BY <1>2, Going, PlacesAre DEF Sound
<1>4. \A i \in Subscribed : i # r.sub => i \in Subscribed' /\ subscription'[i] = subscription[i]
  BY <1>2, <1>3, Destroying
<1>5. TookAway(r) /\ (r.sub \in Subscribed => /\ subscription[r.sub].key = r.key
                                              /\ subscription[r.sub].org = r.org)
  BY <1>1, <1>2 DEF NothingLeft, Sound, RequestsOK, RequestOK, IsOf
<1>6. ASSUME NEW p \in devInfo \ leftovers
      PROVE  \E i \in Of(p[1])' : subscription'[i].org = p[2]
  <2>1. PICK i \in Of(p[1]) : subscription[i].org = p[2]
    BY DEF NothingLeft, NothingIsLeftAtJira
  <2>2. i # r.sub
    <3>1. p = <<p[1], p[2]>>
      BY DEF NothingLeft
    <3>2. <<r.key, r.org>> \notin devInfo \ leftovers
      BY <1>2, <1>5 DEF TookAway
    <3> QED
      BY <1>5, <2>1, <3>1, <3>2 DEF Of
  <2> QED
    BY <1>4, <2>1, <2>2 DEF Of
<1>7. linked \ orphans \subseteq Subscribed'
  BY <1>2, <1>4, <1>5 DEF NothingLeft, NothingIsLeftAtJira, TookAway
<1>8. NothingIsLeftAtJira'
  BY <1>2, <1>6, <1>7 DEF NothingIsLeftAtJira
<1>9. \A t \in Slots : TookAway(request[t])'
  BY <1>2, <1>3 DEF NothingLeft, TookAway, Others
<1> QED
  BY <1>2, <1>8, <1>9 DEF NothingLeft

\* Rows that go without a word to Jira: what it has of them is known to be left over.
LEMMA LeftAbandons ==
  ASSUME Sound, NothingLeft, NEW ids, Destroy(ids), Abandons(ids),
         UNCHANGED <<devInfo, linked, isConfigured>>, request' \in [Slots -> Request],
         \A t \in Slots : request'[t] = request[t] \/ request'[t].op # "remove"
  PROVE  NothingLeft'
<1>1. \A i \in Subscribed : i \notin ids => i \in Subscribed' /\ subscription'[i] = subscription[i]
  BY Destroying
<1>2. /\ orphans \subseteq orphans' /\ leftovers \subseteq leftovers'
      /\ \A i \in ids : i \in linked => i \in orphans'
      /\ \A i \in Subscribed : i \in ids =>
           <<subscription[i].key, subscription[i].org>> \in leftovers'
  BY DEF Abandons
<1>3. ASSUME NEW p \in devInfo \ leftovers'
      PROVE  \E i \in Of(p[1])' : subscription'[i].org = p[2]
  <2>1. PICK i \in Of(p[1]) : subscription[i].org = p[2]
    BY <1>2 DEF NothingLeft, NothingIsLeftAtJira
  <2>2. i \notin ids
    <3>1. p = <<p[1], p[2]>>
      BY DEF NothingLeft
    <3> QED
      BY <1>2, <2>1, <3>1 DEF Of
  <2> QED
    BY <1>1, <2>1, <2>2 DEF Of
<1>4. linked \ orphans' \subseteq Subscribed'
  BY <1>1, <1>2 DEF NothingLeft, NothingIsLeftAtJira
<1>5. NothingIsLeftAtJira'
  BY <1>3, <1>4 DEF NothingIsLeftAtJira
<1>6. \A t \in Slots : TookAway(request[t])'
  BY <1>2 DEF NothingLeft, TookAway
<1> QED
  BY <1>5, <1>6 DEF NothingLeft

LEMMA LeftDrops ==
  ASSUME Sound, NothingLeft,
         (\E s \in Slots : DropSubscriptions(s)) \/ (\E i \in Ids : RemoveAtGitHub(i))
  PROVE  NothingLeft'
<1>1. ASSUME NEW s \in Slots, DropSubscriptions(s)
      PROVE  NothingLeft'
  <2>1. /\ request' \in [Slots -> Request] /\ Others(s)
        /\ request'[s].op = "uninstall"
    BY <1>1, Dropped DEF Same
  <2>2. \A t \in Slots : request'[t] = request[t] \/ request'[t].op # "remove"
    BY <2>1 DEF Others
  <2> QED
    BY <1>1, <2>1, <2>2, LeftAbandons DEF DropSubscriptions, atJira
<1>2. ASSUME NEW i \in Ids, RemoveAtGitHub(i)
      PROVE  NothingLeft'
  <2>1. /\ Destroy({i}) /\ Abandons({i})
        /\ UNCHANGED <<devInfo, linked, isConfigured, request>>
    BY <1>2 DEF RemoveAtGitHub, atJira
  <2>2. request' \in [Slots -> Request]
    BY <2>1 DEF Sound, Types
  <2> QED
    BY <2>1, <2>2, LeftAbandons
<1> QED
  BY <1>1, <1>2

LEMMA LeftOthers ==
  ASSUME Sound, NothingLeft, NEW s \in Slots, Step(s),
         ~DeleteDevInfo(s), ~DeleteWorkspace(s), ~DestroySubscription(s), ~DropSubscriptions(s),
         ~LinkInConnect(s), ~LinkInWebhook(s), ~SubmitDevInfo(s)
  PROVE  NothingLeft'
<1>1. Others(s) /\ (request'[s] = Idle \/ request'[s].op = request[s].op)
  BY StepRequest
<1>2. UNCHANGED <<devInfo, leftovers, linked, orphans>>
  BY DEF Step, ghosts, atJira, At, RefuseConnect, FindSubscription, InsertSubscription,
     CheckSecurity, AcceptInConnect, SetConfigured, StartSync, FindToRemove, CheckConnected,
     UnsetConfigured, GetConfigured, LookForInstallation, CreateInstallation,
     UpdateInstallation, UpdateSubscriptions, ListSubscriptions, DeleteConfigured,
     DestroyInstallation, NextSubscription, AcceptInWebhook, SyncInWebhook, EndWebhook
<1>3. StillThere
  <2>1. CASE InsertSubscription(s)
    <3>1. PICK i \in Nat : i = lastId + 1
      BY DEF Sound, Types
    <3>2. \A k \in Ids : k # i => subscription'[k] = subscription[k]
      BY <2>1, <3>1 DEF InsertSubscription, Sound, Types
    <3>3. \A k \in Subscribed : k # i /\ k \in Ids
      BY <3>1, Rows_ DEF Sound, Types
    <3> QED
      BY <3>2, <3>3 DEF StillThere, Subscribed
  <2>2. CASE UpdateSubscriptions(s)
    BY <2>2, Rehosted DEF StillThere
  <2>3. CASE ~InsertSubscription(s) /\ ~UpdateSubscriptions(s)
    <3>1. UNCHANGED subscription
      BY <2>3 DEF Step, tables, RefuseConnect, FindSubscription,
         CheckSecurity, AcceptInConnect, SetConfigured, StartSync, FindToRemove, CheckConnected,
         UnsetConfigured, GetConfigured, LookForInstallation, CreateInstallation,
         UpdateInstallation, ListSubscriptions, DeleteConfigured,
         DestroyInstallation, NextSubscription, AcceptInWebhook, SyncInWebhook, EndWebhook
    <3> QED
      BY <3>1, SubscriptionsStay
  <2> QED
    BY <2>1, <2>2, <2>3
<1>4. CASE request[s].op # "remove"
  BY <1>1, <1>2, <1>3, <1>4, IdleParts, LeftCalm
<1>5. CASE request[s].op = "remove"
  <2>1. FindToRemove(s) \/ CheckConnected(s) \/ UnsetConfigured(s)
    BY <1>5 DEF Step, At, RefuseConnect, FindSubscription, InsertSubscription, CheckSecurity,
       AcceptInConnect, SetConfigured, StartSync, GetConfigured, LookForInstallation,
       CreateInstallation, UpdateInstallation, UpdateSubscriptions, ListSubscriptions,
       DeleteConfigured, DestroyInstallation, NextSubscription, AcceptInWebhook, SyncInWebhook,
       EndWebhook
  <2>2. request'[s].at \in {"", "data", "unset"}
    <3>1. CASE FindToRemove(s)
      BY <3>1, FoundToRemove, TakingSubscription, Ending, IdleParts, PlacesAre DEF Sound
    <3>2. CASE CheckConnected(s)
      <4>1. {FALSE} \in Answers
        BY DEF Answers
      <4> QED
        BY <3>2, <4>1, CheckingConnected, TakingAnswer, Ending, IdleParts, PlacesAre DEF Sound
    <3>3. CASE UnsetConfigured(s)
      BY <3>3, Ending, IdleParts DEF UnsetConfigured, Sound
    <3> QED
      BY <2>1, <3>1, <3>2, <3>3
  <2> QED
    BY <1>1, <1>2, <1>3, <2>2, LeftCalm
<1> QED
  BY <1>4, <1>5

LEMMA LeftStep ==
  ASSUME Sound, NothingLeft, [Next]_vars
  PROVE  NothingLeft'
<1>1. CASE \/ UNCHANGED vars
           \/ \E o \in Orgs : AcceptPermissions(o) \/ LoseDelivery(o)
           \/ \E i \in Ids : VerifyInstallation(i)
  <2>1. UNCHANGED <<subscription, request, devInfo, leftovers, linked, orphans>>
    BY <1>1 DEF vars, tables, atJira, ghosts, AcceptPermissions, LoseDelivery, VerifyInstallation
  <2> QED
    BY <2>1 DEF NothingLeft, NothingIsLeftAtJira, Of, Subscribed, TookAway
<1>2. CASE \E i \in Ids : RemoveAtGitHub(i)
  BY <1>2, LeftDrops
<1>3. CASE \E s \in Slots : Start(s) \/ Crash(s)
  BY <1>3, LeftStarts, LeftCrash
<1>4. ASSUME NEW s \in Slots, Step(s)
      PROVE  NothingLeft'
  BY <1>4, LeftOthers, LeftDevInfo, LeftWorkspace, LeftDestroy, LeftDrops, LeftLinked, LeftSubmits
<1> QED
  BY <1>1, <1>2, <1>3, <1>4 DEF Next

\* A subscription that is removed leaves nothing of it at Jira, neither dev data nor a
\* security workspace, but for what is known to be left over: a removal deletes the row last,
\* and what webhooks and connects send meanwhile is sent for a row that is still there.
THEOREM NothingStaysAtJira == Spec => []NothingIsLeftAtJira
<1>1. Init => Sound /\ NothingLeft
  <2> SUFFICES ASSUME Init
               PROVE  NothingLeft
    BY InitSound
  <2>1. \A t \in Slots : TookAway(request[t])
    BY IdleParts DEF Init, TookAway
  <2> QED
    BY <2>1 DEF Init, NothingLeft, NothingIsLeftAtJira
<1>2. Sound /\ NothingLeft /\ [Next]_vars => Sound' /\ NothingLeft'
  BY StepSound, LeftStep
<1>3. NothingLeft => NothingIsLeftAtJira
  BY DEF NothingLeft
<1> QED
  BY <1>1, <1>2, <1>3, PTL DEF Spec

-----------------------------------------------------------------------------
(* PermittedMeansSetUp. *)

Shrinks ==
  \A i \in Subscribed' : /\ i \in Subscribed /\ subscription'[i].org = subscription[i].org
                         /\ i \in accepted => i \in accepted'

LEMMA SubscriptionsSame ==
  ASSUME UNCHANGED subscription, accepted \subseteq accepted'
  PROVE  Shrinks
BY DEF Shrinks, Subscribed

LEMMA DestroyingShrinks ==
  ASSUME Sound, NEW ids, Destroy(ids), isConfigured' = isConfigured,
         request' \in [Slots -> Request]
  PROVE  Shrinks
BY Destroying DEF Shrinks, Destroy

LEMMA StepShrinks ==
  ASSUME Sound, NEW s \in Slots, Step(s), ~InsertSubscription(s)
  PROVE  Shrinks
<1>1. CASE UpdateSubscriptions(s)
  BY <1>1, Rehosted DEF Shrinks, UpdateSubscriptions
<1>2. CASE DestroySubscription(s)
  BY <1>2, StepRequest, DestroyingShrinks DEF DestroySubscription, atJira
<1>3. CASE DropSubscriptions(s)
  BY <1>3, StepRequest, DestroyingShrinks DEF DropSubscriptions, atJira
<1>4. CASE AcceptInConnect(s) \/ AcceptInWebhook(s)
  BY <1>4, SubscriptionsSame DEF AcceptInConnect, AcceptInWebhook, Accepts
<1>5. CASE /\ ~UpdateSubscriptions(s) /\ ~DestroySubscription(s) /\ ~DropSubscriptions(s)
           /\ ~AcceptInConnect(s) /\ ~AcceptInWebhook(s)
  <2>1. UNCHANGED <<subscription, accepted>>
    BY <1>5 DEF Step, tables, RefuseConnect, FindSubscription, InsertSubscription, CheckSecurity,
       LinkInConnect, SetConfigured, StartSync, FindToRemove, DeleteDevInfo, DeleteWorkspace,
       CheckConnected, UnsetConfigured, GetConfigured, LookForInstallation, CreateInstallation,
       UpdateInstallation, ListSubscriptions, DeleteConfigured, DestroyInstallation,
       NextSubscription, LinkInWebhook, SyncInWebhook, SubmitDevInfo, EndWebhook
  <2> QED
    BY <2>1, SubscriptionsSame
<1> QED
  BY <1>1, <1>2, <1>3, <1>4, <1>5

LEMMA KnownStays ==
  ASSUME Known, NEW s \in Slots, Others(s), Shrinks, missed \subseteq missed',
         permitted' \ deliveries' \subseteq permitted \ deliveries,
         \A i \in Subscribed' \ missed' :
           subscription[i].org \in permitted' /\ WillAccept(request[s], i)
             => WillAccept(request'[s], i) \/ i \in accepted'
  PROVE  Known'
<1> SUFFICES ASSUME NEW i \in Subscribed' \ missed',
                    subscription'[i].org \in permitted' \ deliveries'
             PROVE  i \in accepted' \/ \E t \in Slots : WillAccept(request'[t], i)
  BY DEF Known, WillAccept
<1>1. /\ i \in Subscribed \ missed /\ subscription[i].org \in permitted \ deliveries
      /\ subscription[i].org \in permitted' /\ (i \in accepted => i \in accepted')
  BY DEF Shrinks
<1>2. i \in accepted \/ \E t \in Slots : WillAccept(request[t], i)
  BY <1>1 DEF Known
<1> QED
  BY <1>1, <1>2 DEF Others

LEMMA KnownStarts ==
  ASSUME Sound, Known, NEW s \in Slots, Start(s)
  PROVE  Known'
<1>1. /\ Others(s) /\ request[s].op = "idle"
      /\ UNCHANGED <<subscription, accepted, missed, permitted>>
  BY Starting, IdleParts DEF Sound, Unaffected, tables, ghosts
<1>2. CASE UNCHANGED deliveries
  BY <1>1, <1>2, KnownStays, SubscriptionsSame DEF WillAccept
<1>3. ASSUME NEW o \in Orgs, request'[s].op = "permissions", request'[s].todo = Addressed(o),
             deliveries' = deliveries \ {o}
      PROVE  Known'
  <2> SUFFICES ASSUME NEW i \in Subscribed \ missed,
                      subscription[i].org \in permitted \ deliveries'
               PROVE  i \in accepted \/ \E t \in Slots : WillAccept(request'[t], i)
    BY <1>1 DEF Known, WillAccept, Subscribed
  <2>1. CASE subscription[i].org = o
    <3>1. <<i, subscription[i].host>> \in request'[s].todo
      BY <1>3, <2>1 DEF Addressed
    <3>2. WillAccept(request'[s], i)
      BY <1>3, <3>1 DEF WillAccept
    <3> QED
      BY <3>2
  <2>2. CASE subscription[i].org # o
    <3>1. i \in accepted \/ \E t \in Slots : WillAccept(request[t], i)
      BY <1>3, <2>2 DEF Known
    <3>2. \A t \in Slots : WillAccept(request[t], i) => request'[t] = request[t]
      BY <1>1 DEF WillAccept, Others
    <3> QED
      BY <3>1, <3>2
  <2> QED
    BY <2>1, <2>2
<1> QED
  BY <1>2, <1>3, Starting DEF Sound

LEMMA KnownCrash ==
  ASSUME Sound, Known, NEW s \in Slots, Crash(s)
  PROVE  Known'
<1>1. PICK r : r = request[s]
  OBVIOUS
<1>2. Others(s) /\ UNCHANGED <<subscription, accepted, permitted, deliveries>>
  BY CrashRequest DEF tables
<1>3. missed' = CASE r.op = "connect" -> missed \union {r.sub}
                  [] r.op = "permissions" -> missed \union {r.sub} \union {p[1] : p \in r.todo}
                  [] OTHER -> missed
  BY <1>1 DEF Crash
<1>4. missed \subseteq missed' /\ \A i : WillAccept(r, i) => i \in missed'
  BY <1>3 DEF WillAccept
<1> QED
  BY <1>1, <1>2, <1>4, KnownStays, SubscriptionsSame

\* A user who connects asks GitHub after the row is there.
LEMMA KnownInsert ==
  ASSUME Sound, Known, NEW s \in Slots, InsertSubscription(s)
  PROVE  Known'
<1>1. PICK n \in Nat : n = lastId + 1
  BY DEF Sound, Types
<1>2. /\ request[s].op = "connect" /\ request[s].at = "insert"
      /\ UNCHANGED <<missed, accepted, permitted, deliveries>>
  BY DEF InsertSubscription, At
<1>3. \A i \in Ids : i # n => subscription'[i] = subscription[i]
  BY <1>1 DEF InsertSubscription, Sound, Types
<1>4. /\ Others(s) /\ request'[s].op = "connect" /\ request'[s].at = "security"
      /\ request'[s].sub = n
  BY <1>1, <1>2, Inserted DEF Same, InsertSubscription
<1> SUFFICES ASSUME NEW i \in Subscribed' \ missed,
                    subscription'[i].org \in permitted \ deliveries
             PROVE  i \in accepted \/ \E t \in Slots : WillAccept(request'[t], i)
  BY <1>2 DEF Known, WillAccept
<1>5. CASE i = n
  BY <1>4, <1>5 DEF WillAccept
<1>6. CASE i # n
  <2>1. i \in Subscribed \ missed /\ subscription[i].org \in permitted \ deliveries
    BY <1>3, <1>6 DEF Subscribed
  <2>2. i \in accepted \/ \E t \in Slots : WillAccept(request[t], i)
    BY <2>1 DEF Known
  <2>3. \A t \in Slots : WillAccept(request[t], i) => request'[t] = request[t]
    BY <1>2, <1>4 DEF WillAccept, Others
  <2> QED
    BY <2>2, <2>3
<1> QED
  BY <1>5, <1>6

\* It asks GitHub, unless the row says so already; an answer that is missed is known as such.
LEMMA KnownConnect ==
  ASSUME Sound, Known, NEW s \in Slots, HoldsAccepted(request[s]),
         CheckSecurity(s) \/ AcceptInConnect(s)
  PROVE  Known'
<1>1. PICK r \in Request : r = request[s]
  BY DEF Sound, Types
<1>2. Others(s) /\ Shrinks
  BY StepRequest, StepShrinks DEF Step, CheckSecurity, AcceptInConnect, InsertSubscription, At
<1>3. UNCHANGED <<permitted, deliveries>> /\ missed \subseteq missed' /\ r.op = "connect"
  BY <1>1 DEF CheckSecurity, AcceptInConnect, At
<1>4. CASE CheckSecurity(s)
  <2>1. /\ UNCHANGED <<subscription, accepted>> /\ r.at = "security"
        /\ \/ r.accepted \/ r.org \notin permitted \/ r.sub \in missed'
           \/ Goes(s, "accept")
    BY <1>1, <1>4 DEF CheckSecurity, At, tables
  <2>2. Goes(s, "accept") => WillAccept(request'[s], r.sub)
    BY <1>1, <1>3, Going, PlacesAre DEF Sound, Same, WillAccept
  <2>3. r.sub \in Subscribed => subscription[r.sub].org = r.org
    BY <1>1, <1>3, <2>1 DEF Sound, RequestsOK, RequestOK, IsOf
  <2>4. r.accepted /\ r.sub \in Subscribed => r.sub \in accepted
    BY <1>1, <1>3 DEF HoldsAccepted
  <2>5. ASSUME NEW i \in Subscribed' \ missed',
               subscription[i].org \in permitted' /\ WillAccept(request[s], i)
        PROVE  WillAccept(request'[s], i) \/ i \in accepted'
    <3>1. i = r.sub /\ i \in Subscribed
      BY <1>1, <1>3, <2>1, <2>5 DEF WillAccept, Subscribed
    <3> QED
      BY <1>3, <2>1, <2>2, <2>3, <2>4, <2>5, <3>1
  <2> QED
    BY <1>2, <1>3, <2>5, KnownStays
<1>5. CASE AcceptInConnect(s)
  <2>1. /\ r.at = "accept" /\ UNCHANGED subscription
        /\ Accepts(r.sub) \/ r.sub \in missed'
    BY <1>1, <1>5 DEF AcceptInConnect, At
  <2>2. ASSUME NEW i \in Subscribed' \ missed', WillAccept(request[s], i)
        PROVE  i \in accepted'
    <3>1. i = r.sub /\ i \in Subscribed
      BY <1>1, <1>3, <2>1, <2>2 DEF WillAccept, Subscribed
    <3> QED
      BY <2>1, <2>2, <3>1 DEF Accepts
  <2> QED
    BY <1>2, <1>3, <2>2, KnownStays
<1> QED
  BY <1>4, <1>5

LEMMA KnownNext ==
  ASSUME Sound, Known, NEW s \in Slots, NextSubscription(s)
  PROVE  Known'
<1>1. /\ request[s].op = "permissions" /\ request[s].at = "next"
      /\ UNCHANGED <<subscription, accepted, permitted, deliveries>>
  BY DEF NextSubscription, At, tables
<1>2. PICK p \in request[s].todo :
        /\ Others(s) /\ request'[s].todo = request[s].todo \ {p}
        /\ Passed(s, p) \/ Took(s, p)
  BY TakingNext DEF Sound
<1>3. request'[s].op = "permissions" /\ missed \subseteq missed'
  BY <1>1, <1>2 DEF Passed, Took, Same
<1>4. ASSUME NEW i \in Subscribed' \ missed', WillAccept(request[s], i)
      PROVE  WillAccept(request'[s], i) \/ i \in accepted'
  <2>1. PICK q \in request[s].todo : q[1] = i
    BY <1>1, <1>4 DEF WillAccept
  <2>2. CASE q # p
    BY <1>2, <1>3, <2>1, <2>2 DEF WillAccept
  <2>3. CASE q = p
    <3>1. CASE Passed(s, p)
      BY <1>1, <1>4, <2>1, <2>3, <3>1 DEF Passed
    <3>2. CASE Took(s, p)
      <4>1. request'[s].at = "link" /\ request'[s].sub = i
        BY <1>4, <2>1, <2>3, <3>2 DEF Took
      <4> QED
        BY <1>3, <4>1 DEF WillAccept
    <3> QED
      BY <1>2, <3>1, <3>2
  <2> QED
    BY <2>2, <2>3
<1> QED
  BY <1>1, <1>2, <1>3, <1>4, KnownStays, SubscriptionsSame

LEMMA KnownWebhook ==
  ASSUME Sound, Known, NEW s \in Slots,
         LinkInWebhook(s) \/ AcceptInWebhook(s) \/ SyncInWebhook(s) \/ EndWebhook(s)
  PROVE  Known'
<1>1. PICK r \in Request : r = request[s]
  BY DEF Sound, Types
<1>2. Others(s) /\ Shrinks
  BY StepRequest, StepShrinks
     DEF Step, LinkInWebhook, AcceptInWebhook, SyncInWebhook, EndWebhook, InsertSubscription, At
<1>3. UNCHANGED <<permitted, deliveries, subscription>> /\ missed \subseteq missed'
  BY DEF LinkInWebhook, AcceptInWebhook, SyncInWebhook, EndWebhook, tables, ghosts
<1>4. CASE EndWebhook(s)
  <2>1. r.op \in {"permissions", "event"} /\ r.at = "next" /\ r.todo = {}
    BY <1>1, <1>4 DEF EndWebhook, At
  <2> QED
    BY <1>1, <1>2, <1>3, <2>1, KnownStays DEF WillAccept
<1>5. CASE LinkInWebhook(s) \/ AcceptInWebhook(s) \/ SyncInWebhook(s)
  <2>1. /\ r.op = "permissions"
        /\ \/ r.at = "link" /\ Goes(s, "accept")
           \/ r.at = "link" /\ Goes(s, "next") /\ r.sub \in missed'
           \/ r.at = "accept" /\ Goes(s, "sync") /\ (Accepts(r.sub) \/ r.sub \in missed')
           \/ r.at = "sync" /\ Goes(s, "next")
    BY <1>1, <1>5 DEF LinkInWebhook, AcceptInWebhook, SyncInWebhook, At
  <2>2. /\ request'[s].op = "permissions" /\ request'[s].sub = r.sub /\ request'[s].todo = r.todo
        /\ \/ r.at = "link" /\ request'[s].at = "accept"
           \/ r.at = "link" /\ r.sub \in missed'
           \/ r.at = "accept" /\ (Accepts(r.sub) \/ r.sub \in missed')
           \/ r.at = "sync"
    BY <1>1, <2>1, Going, PlacesAre DEF Sound, Same
  <2>3. ASSUME NEW i \in Subscribed' \ missed', WillAccept(request[s], i)
        PROVE  WillAccept(request'[s], i) \/ i \in accepted'
    <3>1. CASE \E p \in r.todo : p[1] = i
      BY <2>2, <3>1 DEF WillAccept
    <3>2. CASE r.at \in {"link", "accept"} /\ r.sub = i
      <4>1. i \in Subscribed
        BY <1>3, <2>3 DEF Subscribed
      <4> QED
        BY <2>2, <2>3, <3>2, <4>1 DEF WillAccept, Accepts
    <3> QED
      BY <1>1, <2>1, <2>3, <3>1, <3>2 DEF WillAccept
  <2> QED
    BY <1>2, <1>3, <2>3, KnownStays
<1> QED
  BY <1>4, <1>5

LEMMA KnownOthers ==
  ASSUME Sound, Known, NEW s \in Slots, Step(s), ~InsertSubscription(s), ~CheckSecurity(s),
         ~AcceptInConnect(s), ~NextSubscription(s), ~LinkInWebhook(s), ~AcceptInWebhook(s),
         ~SyncInWebhook(s), ~EndWebhook(s)
  PROVE  Known'
<1>1. Others(s) /\ Shrinks
  BY StepRequest, StepShrinks
<1>2. /\ UNCHANGED <<permitted, deliveries, missed>>
      /\ request[s].op # "permissions"
      /\ request[s].op = "connect" => request[s].at \notin {"security", "accept"}
  BY DEF Step, ghosts, At, RefuseConnect, FindSubscription,
     LinkInConnect, SetConfigured, StartSync, FindToRemove, DeleteDevInfo, DeleteWorkspace,
     DestroySubscription, CheckConnected, UnsetConfigured, GetConfigured, LookForInstallation,
     CreateInstallation, UpdateInstallation, UpdateSubscriptions, ListSubscriptions,
     DropSubscriptions, DeleteConfigured, DestroyInstallation, SubmitDevInfo
<1>3. \A i : ~WillAccept(request[s], i)
  BY <1>2 DEF WillAccept
<1> QED
  BY <1>1, <1>2, <1>3, KnownStays

LEMMA KnownStep ==
  ASSUME Sound, Known, \A t \in Slots : HoldsAccepted(request[t]), [Next]_vars
  PROVE  Known'
<1>1. CASE UNCHANGED vars \/ \E i \in Ids : VerifyInstallation(i)
  <2>1. UNCHANGED <<subscription, request, accepted, missed, permitted, deliveries>>
    BY <1>1 DEF vars, tables, ghosts, VerifyInstallation
  <2> QED
    BY <2>1 DEF Known, Subscribed, WillAccept
<1>2. ASSUME NEW o \in Orgs, AcceptPermissions(o)
      PROVE  Known'
  <2>1. /\ UNCHANGED <<subscription, request, accepted, missed>>
        /\ permitted' \ deliveries' \subseteq permitted \ deliveries
    BY <1>2 DEF AcceptPermissions, tables, ghosts
  <2> QED
    BY <2>1 DEF Known, Subscribed, WillAccept
<1>3. ASSUME NEW o \in Orgs, LoseDelivery(o)
      PROVE  Known'
  <2>1. /\ UNCHANGED <<subscription, request, accepted, permitted>>
        /\ deliveries' = deliveries \ {o}
        /\ missed' = missed \union {i \in Subscribed : subscription[i].org = o}
    BY <1>3 DEF LoseDelivery, tables
  <2> QED
    BY <2>1 DEF Known, Subscribed, WillAccept
<1>4. ASSUME NEW i \in Ids, RemoveAtGitHub(i)
      PROVE  Known'
  <2>1. /\ Destroy({i}) /\ UNCHANGED <<request, isConfigured, missed, permitted, deliveries>>
    BY <1>4 DEF RemoveAtGitHub, atJira
  <2>2. Shrinks
    BY <2>1, DestroyingShrinks DEF Sound, Types
  <2> QED
    BY <2>1, <2>2 DEF Known, Shrinks, WillAccept
<1>5. CASE \E s \in Slots : Start(s) \/ Crash(s)
  BY <1>5, KnownStarts, KnownCrash
<1>6. ASSUME NEW s \in Slots, Step(s)
      PROVE  Known'
  BY <1>6, KnownInsert, KnownConnect, KnownNext, KnownWebhook, KnownOthers
<1> QED
  BY <1>1, <1>2, <1>3, <1>4, <1>5, <1>6 DEF Next

AllHold == \A t \in Slots : HoldsAccepted(request[t])

\* Accepted permissions are not forgotten before the row goes.
Remembers == \A i \in Subscribed' : i \in accepted => i \in accepted'

LEMMA StepRemembers ==
  ASSUME Sound, [Next]_vars
  PROVE  Remembers
<1>1. CASE UNCHANGED vars
  BY <1>1 DEF vars, tables, Remembers
<1>2. CASE \E s \in Slots : Start(s)
  BY <1>2, Starting DEF Sound, Unaffected, tables, Remembers
<1>3. CASE \E s \in Slots : Crash(s)
  BY <1>3 DEF Crash, tables, Remembers
<1>4. ASSUME NEW s \in Slots, Step(s)
      PROVE  Remembers
  BY <1>4, StepShrinks DEF Shrinks, Remembers, InsertSubscription
<1>5. CASE \/ \E i \in Ids : VerifyInstallation(i)
           \/ \E o \in Orgs : AcceptPermissions(o) \/ LoseDelivery(o)
  BY <1>5 DEF VerifyInstallation, AcceptPermissions, LoseDelivery, tables, Remembers
<1>6. ASSUME NEW i \in Ids, RemoveAtGitHub(i)
      PROVE  Remembers
  <2>1. Destroy({i}) /\ UNCHANGED <<request, isConfigured>>
    BY <1>6 DEF RemoveAtGitHub, atJira
  <2>2. Shrinks
    BY <2>1, DestroyingShrinks DEF Sound, Types
  <2> QED
    BY <2>2 DEF Shrinks, Remembers
<1> QED
  BY <1>1, <1>2, <1>3, <1>4, <1>5, <1>6 DEF Next

\* What a request holds of a row is true of it until the row goes.
LEMMA HeldStays ==
  ASSUME Types, Types', Keeps, Remembers, NEW r \in Request, r.sub <= lastId, HoldsAccepted(r)
  PROVE  HoldsAccepted(r)'
BY DEF HoldsAccepted, Keeps, Remembers

LEMMA HoldingStep ==
  ASSUME Sound, Sound', Keeps, Remembers, AllHold, NEW s \in Slots, Others(s),
         \/ request'[s] = Idle
         \/ request'[s].op # "connect"
         \/ ~request'[s].accepted
         \/ /\ request[s].op = "connect" /\ request'[s].sub = request[s].sub
            /\ request'[s].accepted = request[s].accepted /\ request'[s].at \in InConnect
         \/ request'[s].at = "security" /\ request'[s].sub \in accepted
  PROVE  AllHold'
<1> SUFFICES ASSUME NEW t \in Slots
             PROVE  HoldsAccepted(request[t])'
  BY DEF AllHold
<1>1. PICK r \in Request : r = request[t]
  BY DEF Sound, Types
<1>2. PICK q \in Request : q = request'[t]
  BY DEF Sound, Types
<1>3. HoldsAccepted(r) /\ r.sub <= lastId
  BY <1>1 DEF AllHold, Sound, RequestsOK, RequestOK
<1>4. HoldsAccepted(r)'
  BY <1>3, HeldStays DEF Sound
<1>5. HoldsAccepted(q)'
  <2>1. CASE t # s
    BY <1>1, <1>2, <1>4, <2>1 DEF Others
  <2>2. CASE t = s
    <3>1. CASE q = Idle \/ q.op # "connect" \/ ~q.accepted
      BY <3>1, IdleParts DEF HoldsAccepted
    <3>2. CASE /\ r.op = "connect" /\ q.sub = r.sub
               /\ q.accepted = r.accepted /\ q.at \in InConnect
      BY <1>4, <3>2 DEF HoldsAccepted, InConnect
    <3>3. CASE q.at = "security" /\ q.sub \in accepted
      BY <3>3 DEF HoldsAccepted, Remembers
    <3> QED
      BY <1>1, <1>2, <2>2, <3>1, <3>2, <3>3
  <2> QED
    BY <2>1, <2>2
<1> QED
  BY <1>2, <1>5 DEF HoldsAccepted

LEMMA HoldingConnect ==
  ASSUME Sound, AllHold, NEW s \in Slots, Step(s), request[s].op = "connect"
  PROVE  \/ request'[s] = Idle
         \/ ~request'[s].accepted
         \/ /\ request'[s].sub = request[s].sub
            /\ request'[s].accepted = request[s].accepted /\ request'[s].at \in InConnect
         \/ request'[s].at = "security" /\ request'[s].sub \in accepted
<1> USE DEF Sound
<1>1. PICK r \in Request : r = request[s]
  BY DEF Types
<1>2. r.accepted => r.at \in InConnect
  BY <1>1 DEF AllHold, HoldsAccepted, InConnect
<1>3. CASE FindSubscription(s)
  <2>1. CASE Goes(s, "insert")
    <3>1. r.at = "find"
      BY <1>1, <1>3 DEF FindSubscription, At
    <3>2. request'[s].accepted = r.accepted
      BY <1>1, <2>1, Going, PlacesAre
    <3> QED
      BY <1>2, <3>1, <3>2 DEF InConnect
  <2>2. ASSUME NEW i \in Rows(request[s].key, request[s].host, request[s].org),
               request' = [request EXCEPT ![s] =
                           [@ EXCEPT !.at = "security", !.sub = i, !.accepted = i \in accepted]]
        PROVE  /\ request'[s].at = "security" /\ request'[s].sub = i
               /\ request'[s].accepted => i \in accepted
    <3>1. i \in Nat
      BY Rows_ DEF Rows
    <3> QED
      BY <2>2, <3>1, FoundSubscription
  <2> QED
    BY <1>3, <2>1, <2>2 DEF FindSubscription
<1>4. CASE InsertSubscription(s)
  <2>1. r.at = "insert"
    BY <1>1, <1>4 DEF InsertSubscription, At
  <2> QED
    BY <1>1, <1>2, <1>4, <2>1, Inserted DEF InConnect
<1>5. CASE CheckSecurity(s) \/ AcceptInConnect(s) \/ LinkInConnect(s) \/ RefuseConnect(s)
  <2>1. Goes(s, "link") \/ Goes(s, "accept") \/ Finishes(s) \/ Ends(s)
    BY <1>5 DEF CheckSecurity, AcceptInConnect, LinkInConnect, RefuseConnect
  <2> QED
    BY <2>1, Going, Finishing, Ending, PlacesAre DEF InConnect
<1>6. CASE SetConfigured(s) \/ StartSync(s)
  <2>1. Did(s, "property") \/ Did(s, "sync")
    BY <1>6 DEF SetConfigured, StartSync
  <2>2. request[s].at = "finish"
    BY <1>6 DEF SetConfigured, StartSync, At
  <2> QED
    BY <2>1, <2>2, Doing DEF InConnect
<1> QED
  BY <1>3, <1>4, <1>5, <1>6
     DEF Step, At, FindToRemove, DeleteDevInfo, DeleteWorkspace, DestroySubscription,
         CheckConnected, UnsetConfigured, GetConfigured, LookForInstallation, CreateInstallation,
         UpdateInstallation, UpdateSubscriptions, ListSubscriptions, DropSubscriptions,
         DeleteConfigured, DestroyInstallation, NextSubscription, LinkInWebhook, AcceptInWebhook,
         SyncInWebhook, SubmitDevInfo, EndWebhook

LEMMA HoldStep ==
  ASSUME Sound, AllHold, [Next]_vars
  PROVE  AllHold'
<1>1. Sound' /\ Keeps /\ Remembers
  BY StepSound, StepRemembers
<1>2. CASE \/ UNCHANGED vars
           \/ \E i \in Ids : VerifyInstallation(i)
           \/ \E o \in Orgs : AcceptPermissions(o) \/ LoseDelivery(o)
  <2>1. UNCHANGED <<request, subscription, accepted>>
    BY <1>2 DEF vars, tables, VerifyInstallation, AcceptPermissions, LoseDelivery
  <2> QED
    BY <2>1 DEF AllHold, HoldsAccepted, Subscribed
<1>3. ASSUME NEW i \in Ids, RemoveAtGitHub(i)
      PROVE  AllHold'
  <2> SUFFICES ASSUME NEW t \in Slots
               PROVE  HoldsAccepted(request[t])'
    BY DEF AllHold
  <2>1. PICK r \in Request : r = request[t] /\ r = request'[t]
    BY <1>3 DEF Sound, Types, RemoveAtGitHub
  <2>2. HoldsAccepted(r) /\ r.sub <= lastId
    BY <2>1 DEF AllHold, Sound, RequestsOK, RequestOK
  <2>3. HoldsAccepted(r)'
    BY <1>1, <2>2, HeldStays DEF Sound
  <2> QED
    BY <2>1, <2>3 DEF HoldsAccepted
<1>4. ASSUME NEW s \in Slots, Start(s)
      PROVE  AllHold'
  <2>1. Others(s) /\ request'[s].accepted = FALSE
    BY <1>4, Starting DEF Sound, Begun
  <2> QED
    BY <1>1, <2>1, HoldingStep
<1>5. ASSUME NEW s \in Slots, Crash(s)
      PROVE  AllHold'
  BY <1>1, <1>5, CrashRequest, HoldingStep
<1>6. ASSUME NEW s \in Slots, Step(s)
      PROVE  AllHold'
  <2>1. Others(s) /\ (request'[s] = Idle \/ request'[s].op = request[s].op)
    BY <1>6, StepRequest
  <2> QED
    BY <1>1, <1>6, <2>1, HoldingConnect, HoldingStep
<1> QED
  BY <1>2, <1>3, <1>4, <1>5, <1>6 DEF Next

AllLinkedFirst == \A t \in Slots : LinkedFirst(request[t])

\* A webhook whose workspace is linked, or about to go, stays one: the row never comes back.
LEMMA FirstStays ==
  ASSUME Sound, Sound', Keeps, AllLinkedFirst, NEW s \in Slots, Others(s),
         \A i : i \in linked \cup broken =>
                  i \in linked' \cup broken' \/ IsRemoved(request'[s], i),
         \A i : IsRemoved(request[s], i) =>
                  IsRemoved(request'[s], i) \/ i \notin Subscribed' \/ i \in broken',
         request'[s].op = "permissions" /\ request'[s].at = "accept" => request'[s].sub \in linked'
  PROVE  AllLinkedFirst'
<1> SUFFICES ASSUME NEW t \in Slots
             PROVE  LinkedFirst(request[t])'
  BY DEF AllLinkedFirst
<1>1. PICK r \in Request : r = request[t]
  BY DEF Sound, Types
<1>2. PICK q \in Request : q = request'[t]
  BY DEF Sound, Types
<1>3. LinkedFirst(r) /\ r.sub \in Nat /\ r.sub <= lastId
  BY <1>1 DEF AllLinkedFirst, Sound, RequestsOK, RequestOK, Request
<1>4. LinkedFirst(q)'
  <2>1. CASE t = s
    BY <1>2, <2>1 DEF LinkedFirst
  <2>2. CASE t # s
    <3>1. r = q
      BY <1>1, <1>2, <2>2 DEF Others
    <3>2. CASE r.op = "permissions" /\ r.at = "accept"
      <4>1. CASE r.sub \notin Subscribed
        BY <1>3, <3>1, <4>1 DEF LinkedFirst, Keeps
      <4>2. CASE r.sub \in linked \cup broken
        BY <3>1, <4>2 DEF LinkedFirst
      <4>3. ASSUME NEW u \in Slots, IsRemoved(request[u], r.sub)
            PROVE  LinkedFirst(r)'
        <5>1. CASE u = s
          BY <4>3, <5>1 DEF LinkedFirst
        <5>2. CASE u # s
          <6>1. request'[u] = request[u]
            BY <5>2 DEF Others
          <6>2. IsRemoved(request'[u], r.sub)
            BY <4>3, <6>1
          <6> QED
            BY <6>2 DEF LinkedFirst
        <5> QED
          BY <5>1, <5>2
      <4> QED
        BY <1>3, <3>1, <3>2, <4>1, <4>2, <4>3 DEF LinkedFirst
    <3> QED
      BY <3>1, <3>2 DEF LinkedFirst
  <2> QED
    BY <2>1, <2>2
<1> QED
  BY <1>2, <1>4 DEF LinkedFirst

LEMMA FirstRemove ==
  ASSUME Sound, AllLinkedFirst, NEW s \in Slots, Step(s), request[s].op = "remove", Sound', Keeps
  PROVE  AllLinkedFirst'
<1>1. PICK r \in Request : r = request[s]
  BY DEF Sound, Types
<1>2. Others(s) /\ (request'[s] = Idle \/ request'[s].op = "remove")
  BY StepRequest
<1>3. request'[s].op # "permissions"
  BY <1>2, IdleParts
<1>4. CASE DeleteWorkspace(s)
  <2>1. /\ r.at = "workspace" /\ Goes(s, "destroy") /\ broken' = broken
        /\ linked \ {r.sub} \subseteq linked'
    BY <1>1, <1>4 DEF DeleteWorkspace, At
  <2>2. IsRemoved(request'[s], r.sub)
    BY <1>1, <2>1, Going, PlacesAre DEF Sound, Same, IsRemoved
  <2> QED
    BY <1>1, <1>2, <1>3, <2>1, <2>2, FirstStays DEF IsRemoved
<1>5. CASE DestroySubscription(s)
  <2>1. Destroy({r.sub}) /\ UNCHANGED <<linked, broken>> /\ r.sub \in Nat
    BY <1>1, <1>5 DEF DestroySubscription, atJira, ghosts, Request
  <2>2. r.sub \notin Subscribed'
    BY <2>1 DEF Destroy, Subscribed
  <2> QED
    BY <1>1, <1>2, <1>3, <2>1, <2>2, FirstStays DEF IsRemoved
<1>6. CASE FindToRemove(s) \/ DeleteDevInfo(s) \/ CheckConnected(s) \/ UnsetConfigured(s)
  <2>1. UNCHANGED <<linked, broken>> /\ r.at # "destroy"
    BY <1>1, <1>6 DEF FindToRemove, DeleteDevInfo, CheckConnected, UnsetConfigured, At, atJira,
       ghosts
  <2> QED
    BY <1>1, <1>2, <1>3, <2>1, FirstStays DEF IsRemoved
<1> QED
  BY <1>4, <1>5, <1>6
     DEF Step, At, RefuseConnect, FindSubscription, InsertSubscription, CheckSecurity,
         AcceptInConnect, LinkInConnect, SetConfigured, StartSync, GetConfigured,
         LookForInstallation, CreateInstallation, UpdateInstallation, UpdateSubscriptions,
         ListSubscriptions, DropSubscriptions, DeleteConfigured, DestroyInstallation,
         NextSubscription, LinkInWebhook, AcceptInWebhook, SyncInWebhook, SubmitDevInfo, EndWebhook

LEMMA FirstOthers ==
  ASSUME Sound, AllLinkedFirst, NEW s \in Slots, Step(s), request[s].op # "remove", Sound', Keeps
  PROVE  AllLinkedFirst'
<1>1. PICK r \in Request : r = request[s]
  BY DEF Sound, Types
<1>2. Others(s) /\ (request'[s] = Idle \/ request'[s].op = r.op)
  BY <1>1, StepRequest
<1>3. linked \subseteq linked' /\ broken \subseteq broken'
  BY DEF Step, At, RefuseConnect, FindSubscription, InsertSubscription, CheckSecurity,
         AcceptInConnect, LinkInConnect, SetConfigured, StartSync, FindToRemove, DeleteDevInfo,
         DeleteWorkspace, DestroySubscription, CheckConnected, UnsetConfigured, GetConfigured,
         LookForInstallation, CreateInstallation, UpdateInstallation, UpdateSubscriptions,
         ListSubscriptions, DropSubscriptions, DeleteConfigured, DestroyInstallation,
         NextSubscription, LinkInWebhook, AcceptInWebhook, SyncInWebhook, SubmitDevInfo,
         EndWebhook, Links, ghosts, atJira
<1>4. ~(request'[s].op = "permissions" /\ request'[s].at = "accept")
        \/ request'[s].sub \in linked'
  <2>1. CASE request'[s] = Idle \/ r.op # "permissions"
    BY <1>2, <2>1, IdleParts
  <2>2. CASE NextSubscription(s)
    BY <2>2, TakingNext DEF Passed, Took, Sound
  <2>3. CASE LinkInWebhook(s) \/ AcceptInWebhook(s) \/ SyncInWebhook(s) \/ EndWebhook(s)
    <3>1. \/ Goes(s, "accept") /\ r.sub \in linked'
          \/ Goes(s, "next") \/ Goes(s, "sync") \/ Ends(s)
      BY <1>1, <2>3 DEF LinkInWebhook, AcceptInWebhook, SyncInWebhook, EndWebhook, Links
    <3> QED
      BY <1>1, <3>1, Going, Ending, IdleParts, PlacesAre DEF Sound
  <2> QED
    BY <1>1, <2>1, <2>2, <2>3
       DEF Step, At, RefuseConnect, FindSubscription, InsertSubscription, CheckSecurity,
           AcceptInConnect, LinkInConnect, SetConfigured, StartSync, FindToRemove, DeleteDevInfo,
           DeleteWorkspace, DestroySubscription, CheckConnected, UnsetConfigured, GetConfigured,
           LookForInstallation, CreateInstallation, UpdateInstallation, UpdateSubscriptions,
           ListSubscriptions, DropSubscriptions, DeleteConfigured, DestroyInstallation,
           SubmitDevInfo
<1>5. \A i : ~IsRemoved(request[s], i)
  BY DEF IsRemoved
<1> QED
  BY <1>2, <1>3, <1>4, <1>5, FirstStays

LEMMA FirstStep ==
  ASSUME Sound, AllLinkedFirst, [Next]_vars
  PROVE  AllLinkedFirst'
<1>1. Sound' /\ Keeps
  BY StepSound
<1>2. CASE \/ UNCHANGED vars
           \/ \E i \in Ids : VerifyInstallation(i)
           \/ \E o \in Orgs : AcceptPermissions(o) \/ LoseDelivery(o)
  <2>1. UNCHANGED <<request, subscription, linked, broken>>
    BY <1>2 DEF vars, tables, atJira, ghosts, VerifyInstallation, AcceptPermissions, LoseDelivery
  <2> QED
    BY <2>1 DEF AllLinkedFirst, LinkedFirst, Subscribed, IsRemoved
<1>3. ASSUME NEW i \in Ids, RemoveAtGitHub(i)
      PROVE  AllLinkedFirst'
  <2>1. Destroy({i}) /\ UNCHANGED <<request, linked, broken, isConfigured>>
    BY <1>3 DEF RemoveAtGitHub, atJira
  <2>2. \A j \in Subscribed' : j \in Subscribed
    BY <2>1, DestroyingShrinks DEF Shrinks, Sound, Types
  <2> QED
    BY <2>1, <2>2 DEF AllLinkedFirst, LinkedFirst, IsRemoved
<1>4. ASSUME NEW s \in Slots, Start(s)
      PROVE  AllLinkedFirst'
  <2>1. /\ Others(s) /\ request[s] = Idle /\ request'[s].at # "accept"
        /\ UNCHANGED <<linked, broken>>
    BY <1>4, Starting DEF Sound, Begun, Unaffected, atJira, ghosts
  <2>2. \A i : ~IsRemoved(request[s], i)
    BY <2>1, IdleParts DEF IsRemoved
  <2> QED
    BY <1>1, <2>1, <2>2, FirstStays
<1>5. ASSUME NEW s \in Slots, Crash(s)
      PROVE  AllLinkedFirst'
  <2>1. Others(s) /\ request'[s].op = "idle" /\ UNCHANGED linked
    BY <1>5, CrashRequest, IdleParts DEF atJira
  <2>2. broken \subseteq broken' /\ \A i : IsRemoved(request[s], i) => i \in broken'
    BY <1>5 DEF Crash, IsRemoved
  <2> QED
    BY <1>1, <2>1, <2>2, FirstStays
<1>6. ASSUME NEW s \in Slots, Step(s)
      PROVE  AllLinkedFirst'
  BY <1>1, <1>6, FirstRemove, FirstOthers
<1> QED
  BY <1>2, <1>3, <1>4, <1>5, <1>6 DEF Next

Linking(i) == i \in linked \/ \E t \in Slots : WillLink(request[t], i)
Syncing(i) == i \in synced \/ \E t \in Slots : WillSync(request[t], i)

\* A step of s disturbs what s was about to do, and no more.
LEMMA SetUpStays ==
  ASSUME SetUp, NEW s \in Slots, Others(s), broken \subseteq broken',
         \A i \in accepted' \ broken' :
           /\ i \in accepted /\ (i \in linked \/ WillLink(request[s], i))
                => i \in linked' \/ WillLink(request'[s], i)
           /\ i \in accepted /\ (i \in synced \/ WillSync(request[s], i))
                => i \in synced' \/ WillSync(request'[s], i)
           /\ i \notin accepted => Linking(i)' /\ Syncing(i)'
  PROVE  SetUp'
<1> SUFFICES ASSUME NEW i \in accepted' \ broken'
             PROVE  Linking(i)' /\ Syncing(i)'
  BY DEF SetUp, Linking, Syncing, WillLink, WillSync, IsRemoved
<1>1. CASE i \notin accepted
  BY <1>1
<1>2. CASE i \in accepted
  <2>1. Linking(i) /\ Syncing(i)
    BY <1>2 DEF SetUp, Linking, Syncing
  <2>2. Linking(i)'
    <3>1. CASE i \in linked \/ WillLink(request[s], i)
      <4>1. i \in linked' \/ WillLink(request'[s], i)
        BY <1>2, <3>1
      <4> QED
        BY <4>1 DEF Linking, WillLink, IsRemoved
    <3>2. ASSUME NEW t \in Slots, t # s, WillLink(request[t], i)
          PROVE  Linking(i)'
      <4>1. WillLink(request'[t], i)
        BY <3>2 DEF Others
      <4> QED
        BY <4>1 DEF Linking, WillLink, IsRemoved
    <3> QED
      BY <2>1, <3>1, <3>2 DEF Linking
  <2>3. Syncing(i)'
    <3>1. CASE i \in synced \/ WillSync(request[s], i)
      <4>1. i \in synced' \/ WillSync(request'[s], i)
        BY <1>2, <3>1
      <4> QED
        BY <4>1 DEF Syncing, WillSync
    <3>2. ASSUME NEW t \in Slots, t # s, WillSync(request[t], i)
          PROVE  Syncing(i)'
      <4>1. WillSync(request'[t], i)
        BY <3>2 DEF Others
      <4> QED
        BY <4>1 DEF Syncing, WillSync
    <3> QED
      BY <2>1, <3>1, <3>2 DEF Syncing
  <2> QED
    BY <2>2, <2>3
<1> QED
  BY <1>1, <1>2

\* A user who connects links the workspace and starts the backfill afterwards.
LEMMA SetUpConnect ==
  ASSUME Sound, SetUp, NEW s \in Slots,
         \/ AcceptInConnect(s) \/ LinkInConnect(s) \/ SetConfigured(s) \/ StartSync(s)
  PROVE  SetUp'
<1> USE DEF Sound
<1>1. PICK r \in Request : r = request[s]
  BY DEF Types
<1>2. Others(s) /\ r.op = "connect" /\ broken \subseteq broken'
  BY <1>1, StepRequest
     DEF Step, AcceptInConnect, LinkInConnect, SetConfigured, StartSync, At
<1>3. CASE AcceptInConnect(s)
  <2>1. /\ r.at = "accept" /\ UNCHANGED <<linked, synced>>
        /\ \/ Goes(s, "link") /\ accepted' \subseteq accepted \cup {r.sub}
           \/ accepted' = accepted
    BY <1>1, <1>3 DEF AcceptInConnect, Accepts, At, atJira
  <2>2. \A i : ~WillLink(request[s], i) /\ ~WillSync(request[s], i)
    BY <1>1, <1>2, <2>1 DEF WillLink, WillSync, IsRemoved
  <2>3. ASSUME NEW i \in accepted', i \notin accepted
        PROVE  Linking(i)' /\ Syncing(i)'
    <3>1. Goes(s, "link") /\ i = r.sub
      BY <2>1, <2>3
    <3>2. WillLink(request'[s], i) /\ WillSync(request'[s], i)
      BY <1>1, <1>2, <3>1, Going, PlacesAre DEF Same, WillLink, WillSync
    <3> QED
      BY <3>2 DEF Linking, Syncing, WillLink, WillSync, IsRemoved
  <2> QED
    BY <1>2, <2>1, <2>2, <2>3, SetUpStays
<1>4. CASE LinkInConnect(s)
  <2>1. /\ r.at = "link" /\ Finishes(s) /\ UNCHANGED <<accepted, synced>>
        /\ linked \subseteq linked' /\ (r.sub \in linked' \/ r.sub \in broken')
    BY <1>1, <1>4 DEF LinkInConnect, Links, At, tables
  <2>2. WillSync(request'[s], r.sub)
    BY <1>1, <1>2, <2>1, Finishing DEF Same, WillSync
  <2>3. \A i : WillLink(request[s], i) \/ WillSync(request[s], i) => i = r.sub
    BY <1>1, <1>2 DEF WillLink, WillSync, IsRemoved
  <2> QED
    BY <1>2, <2>1, <2>2, <2>3, SetUpStays
<1>5. CASE SetConfigured(s)
  <2>1. r.at = "finish" /\ Did(s, "property") /\ UNCHANGED <<accepted, linked, synced>>
    BY <1>1, <1>5 DEF SetConfigured, At, tables
  <2>2. \A i : ~WillLink(request[s], i)
    BY <1>1, <1>2, <2>1 DEF WillLink, IsRemoved
  <2>3. ASSUME NEW i, WillSync(request[s], i)
        PROVE  WillSync(request'[s], i)
    <3>1. "sync" \in r.todo /\ r.sub = i
      BY <1>1, <1>2, <2>1, <2>3 DEF WillSync
    <3>2. /\ Same(request'[s], r) /\ request'[s].at = "finish" /\ request'[s].sub = i
          /\ request'[s].todo = r.todo \ {"property"}
      BY <1>1, <2>1, <3>1, Doing
    <3> QED
      BY <1>2, <3>1, <3>2 DEF Same, WillSync
  <2> QED
    BY <1>2, <2>1, <2>2, <2>3, SetUpStays
<1>6. CASE StartSync(s)
  <2>1. /\ r.at = "finish" /\ UNCHANGED <<accepted, linked>> /\ synced \subseteq synced'
        /\ r.sub \in accepted => r.sub \in synced' \/ r.sub \in broken'
    BY <1>1, <1>6 DEF StartSync, At, tables, atJira
  <2>2. \A i : ~WillLink(request[s], i) /\ (WillSync(request[s], i) => i = r.sub)
    BY <1>1, <1>2, <2>1 DEF WillLink, WillSync, IsRemoved
  <2> QED
    BY <1>2, <2>1, <2>2, SetUpStays
<1> QED
  BY <1>3, <1>4, <1>5, <1>6

\* The workspace goes first, and then the row with what was accepted of it.
LEMMA SetUpRemove ==
  ASSUME Sound, SetUp, NEW s \in Slots, DeleteWorkspace(s) \/ DestroySubscription(s)
  PROVE  SetUp'
<1> USE DEF Sound
<1>1. PICK r \in Request : r = request[s]
  BY DEF Types
<1>2. Others(s) /\ r.op = "remove" /\ UNCHANGED <<broken, synced>>
  BY <1>1, StepRequest DEF Step, DeleteWorkspace, DestroySubscription, At, ghosts
<1>3. CASE DeleteWorkspace(s)
  <2>1. /\ r.at = "workspace" /\ Goes(s, "destroy") /\ accepted' = accepted
        /\ linked \ {r.sub} \subseteq linked'
    BY <1>1, <1>3 DEF DeleteWorkspace, At, tables
  <2>2. WillLink(request'[s], r.sub)
    BY <1>1, <1>2, <2>1, Going, PlacesAre DEF Same, WillLink, IsRemoved
  <2>3. \A i : ~WillLink(request[s], i) /\ ~WillSync(request[s], i)
    BY <1>1, <1>2, <2>1 DEF WillLink, WillSync, IsRemoved
  <2> QED
    BY <1>2, <2>1, <2>2, <2>3, SetUpStays
<1>4. CASE DestroySubscription(s)
  <2>1. accepted' = accepted \ {r.sub} /\ linked' = linked
    BY <1>1, <1>4 DEF DestroySubscription, Destroy, atJira
  <2>2. \A i : (WillLink(request[s], i) => i = r.sub) /\ ~WillSync(request[s], i)
    BY <1>1, <1>2 DEF WillLink, WillSync, IsRemoved
  <2> QED
    BY <1>2, <2>1, <2>2, SetUpStays
<1> QED
  BY <1>3, <1>4

\* The webhook links the workspace before and starts the backfill after.
LEMMA SetUpWebhook ==
  ASSUME Sound, SetUp, AllLinkedFirst, NEW s \in Slots, AcceptInWebhook(s) \/ SyncInWebhook(s)
  PROVE  SetUp'
<1> USE DEF Sound
<1>1. PICK r \in Request : r = request[s]
  BY DEF Types
<1>2. /\ Others(s) /\ r.op = "permissions" /\ broken \subseteq broken' /\ linked' = linked
  BY <1>1, StepRequest DEF Step, AcceptInWebhook, SyncInWebhook, At, ghosts, atJira
<1>3. \A i : ~WillLink(request[s], i)
  BY <1>1, <1>2 DEF WillLink, IsRemoved
<1>4. CASE AcceptInWebhook(s)
  <2>1. /\ r.at = "accept" /\ Goes(s, "sync") /\ synced' = synced /\ broken' = broken
        /\ accepted' = accepted \/ Accepts(r.sub)
    BY <1>1, <1>4 DEF AcceptInWebhook, At
  <2>2. ASSUME NEW i \in accepted' \ broken', i \notin accepted
        PROVE  Linking(i)' /\ Syncing(i)'
    <3>1. i = r.sub /\ i \in Subscribed
      BY <2>1, <2>2 DEF Accepts
    <3>2. LinkedFirst(r)
      BY <1>1 DEF AllLinkedFirst
    <3>3. i \in linked \/ \E t \in Slots : IsRemoved(request[t], i)
      BY <1>2, <2>1, <2>2, <3>1, <3>2 DEF LinkedFirst
    <3>4. \A t \in Slots : IsRemoved(request[t], i) => IsRemoved(request'[t], i)
      BY <1>1, <1>2 DEF IsRemoved, Others
    <3>5. Linking(i)'
      <4>1. i \in linked' \/ \E t \in Slots : IsRemoved(request'[t], i)
        BY <1>2, <3>3, <3>4
      <4> QED
        BY <4>1 DEF Linking, WillLink, IsRemoved
    <3>6. WillSync(request'[s], i)
      BY <1>1, <1>2, <2>1, <3>1, Going, PlacesAre DEF Same, WillSync
    <3> QED
      BY <3>5, <3>6 DEF Syncing, WillSync
  <2>3. \A i : ~WillSync(request[s], i)
    BY <1>1, <1>2, <2>1 DEF WillSync
  <2> QED
    BY <1>2, <1>3, <2>1, <2>2, <2>3, SetUpStays
<1>5. CASE SyncInWebhook(s)
  <2>1. /\ accepted' = accepted /\ synced \subseteq synced'
        /\ r.sub \in synced' \/ r.sub \in broken'
    BY <1>1, <1>5 DEF SyncInWebhook, tables
  <2>2. \A i : WillSync(request[s], i) => i = r.sub
    BY <1>1 DEF WillSync
  <2> QED
    BY <1>2, <1>3, <2>1, <2>2, SetUpStays
<1> QED
  BY <1>4, <1>5

LEMMA SetUpOthers ==
  ASSUME Sound, SetUp, NEW s \in Slots, Step(s), ~AcceptInConnect(s), ~LinkInConnect(s),
         ~SetConfigured(s), ~StartSync(s), ~DeleteWorkspace(s), ~DestroySubscription(s),
         ~AcceptInWebhook(s), ~SyncInWebhook(s)
  PROVE  SetUp'
<1>1. Others(s)
  BY StepRequest
<1>2. /\ UNCHANGED <<synced, broken>> /\ linked \subseteq linked' /\ accepted' \subseteq accepted
  BY DEF Step, RefuseConnect, FindSubscription, InsertSubscription, CheckSecurity, FindToRemove,
     DeleteDevInfo, CheckConnected, UnsetConfigured, GetConfigured, LookForInstallation,
     CreateInstallation, UpdateInstallation, UpdateSubscriptions, ListSubscriptions,
     DropSubscriptions, DeleteConfigured, DestroyInstallation, NextSubscription, LinkInWebhook,
     SubmitDevInfo, EndWebhook, Links, Destroy, tables, atJira, ghosts
<1>3. /\ request[s].op = "connect" => request[s].at \in {"find", "insert", "security"}
      /\ request[s].op = "remove" => request[s].at # "destroy"
      /\ request[s].op = "permissions" => request[s].at \in {"next", "link"}
  BY DEF Step, At, RefuseConnect, FindSubscription, InsertSubscription, CheckSecurity,
     FindToRemove, DeleteDevInfo, CheckConnected, UnsetConfigured, GetConfigured,
     LookForInstallation, CreateInstallation, UpdateInstallation, UpdateSubscriptions,
     ListSubscriptions, DropSubscriptions, DeleteConfigured, DestroyInstallation,
     NextSubscription, LinkInWebhook, SubmitDevInfo, EndWebhook
<1>4. \A i : ~WillLink(request[s], i) /\ ~WillSync(request[s], i)
  BY <1>3 DEF WillLink, WillSync, IsRemoved
<1> QED
  BY <1>1, <1>2, <1>4, SetUpStays

LEMMA SetUpStep ==
  ASSUME Sound, SetUp, AllLinkedFirst, [Next]_vars
  PROVE  SetUp'
<1>1. CASE \/ UNCHANGED vars
           \/ \E i \in Ids : VerifyInstallation(i)
           \/ \E o \in Orgs : AcceptPermissions(o) \/ LoseDelivery(o)
  <2>1. UNCHANGED <<request, accepted, linked, synced, broken>>
    BY <1>1 DEF vars, tables, atJira, ghosts, VerifyInstallation, AcceptPermissions, LoseDelivery
  <2> QED
    BY <2>1 DEF SetUp, WillLink, WillSync, IsRemoved
<1>2. ASSUME NEW i \in Ids, RemoveAtGitHub(i)
      PROVE  SetUp'
  <2>1. UNCHANGED <<request, linked, synced, broken>> /\ accepted' \subseteq accepted
    BY <1>2 DEF RemoveAtGitHub, Destroy, atJira
  <2> QED
    BY <2>1 DEF SetUp, WillLink, WillSync, IsRemoved
<1>3. ASSUME NEW s \in Slots, Start(s)
      PROVE  SetUp'
  <2>1. /\ Others(s) /\ request[s] = Idle
        /\ UNCHANGED <<accepted, linked, synced, broken>>
    BY <1>3, Starting DEF Sound, Unaffected, tables, atJira, ghosts
  <2>2. \A i : ~WillLink(request[s], i) /\ ~WillSync(request[s], i)
    BY <2>1, IdleParts DEF WillLink, WillSync, IsRemoved
  <2> QED
    BY <2>1, <2>2, SetUpStays
<1>4. ASSUME NEW s \in Slots, Crash(s)
      PROVE  SetUp'
  <2>1. Others(s) /\ UNCHANGED <<accepted, linked, synced>>
    BY <1>4, CrashRequest DEF tables, atJira
  <2>2. /\ broken \subseteq broken'
        /\ \A i : WillLink(request[s], i) \/ WillSync(request[s], i) => i \in broken'
    BY <1>4 DEF Crash, WillLink, WillSync, IsRemoved
  <2> QED
    BY <2>1, <2>2, SetUpStays
<1>5. ASSUME NEW s \in Slots, Step(s)
      PROVE  SetUp'
  BY <1>5, SetUpConnect, SetUpRemove, SetUpWebhook, SetUpOthers
<1> QED
  BY <1>1, <1>2, <1>3, <1>4, <1>5 DEF Next

\* PermittedMeansSetUp: once all is quiet, an organisation that accepted the security
\* permissions is known to have done so, unless a call that would have told failed, and a
\* subscription whose permissions are accepted has its workspace at Jira and a backfill of its
\* alerts, however connects, removals, webhooks and crashes overlapped.  The invariants: who
\* has not noticed yet is on some request's list; a connect that holds the row for accepted is
\* right as long as the row is there; who is accepted is linked and synced, or a request is
\* about to link and to sync it; and a webhook accepts what it linked before.
THEOREM PermissionsAreSetUp == Spec => []PermittedMeansSetUp
<1> DEFINE Inv == Sound /\ Known /\ AllHold /\ SetUp /\ AllLinkedFirst
<1>1. Init => Inv
  <2> SUFFICES ASSUME Init
               PROVE  Known /\ AllHold /\ SetUp /\ AllLinkedFirst
    BY InitSound
  <2>1. AllHold /\ AllLinkedFirst
    BY IdleParts DEF Init, AllHold, HoldsAccepted, AllLinkedFirst, LinkedFirst
  <2>2. Known /\ SetUp
    BY DEF Init, Known, SetUp, Subscribed
  <2> QED
    BY <2>1, <2>2
<1>2. Inv /\ [Next]_vars => Inv'
  BY StepSound, KnownStep, HoldStep, SetUpStep, FirstStep DEF AllHold
<1>3. Inv => PermittedMeansSetUp
  <2> SUFFICES ASSUME Known, SetUp, Quiet
               PROVE  /\ \A i \in Subscribed \ missed :
                           subscription[i].org \in permitted \ deliveries => i \in accepted
                      /\ \A i \in accepted \ broken : i \in linked /\ i \in synced
    BY DEF PermittedMeansSetUp
  <2>1. \A i : \A t \in Slots : /\ ~WillAccept(request[t], i) /\ ~WillLink(request[t], i)
                                /\ ~WillSync(request[t], i)
    BY IdleParts DEF Quiet, WillAccept, WillLink, WillSync, IsRemoved
  <2> QED
    BY <2>1 DEF Known, SetUp
<1> QED
  BY <1>1, <1>2, <1>3, PTL DEF Spec

=============================================================================

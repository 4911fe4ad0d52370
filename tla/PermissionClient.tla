--------------------------- MODULE PermissionClient ---------------------------
(***************************************************************************)
(* permissions/client.py: threads that share the module-level client and   *)
(* its cache call fetch, check, discover, permission_receipt, clear_cache  *)
(* and configure, while the sites and the registry change what they serve  *)
(* and the clock runs.  A thread stops between any two cache operations    *)
(* and between any two requests: nothing is locked across them.            *)
(***************************************************************************)
EXTENDS TermsCache

CONSTANTS
  Threads,
  Kinds,       \* the calls the application makes
  Clients,     \* configurations that configure may install
  Responses,   \* what a URL may answer
  MaxChanges   \* bound on how often the URLs change their answer

AllKinds == {"fetch", "check", "discover", "receipt", "clear", "clear_all"}

\* A client's default_ttl, and whether registry_url is set.
Client == [ttl: TTLs, registry: BOOLEAN]

ASSUME ClientAssumption ==
  /\ Kinds \subseteq AllKinds
  /\ Clients # {} /\ Clients \subseteq Client
  /\ Responses # {} /\ Responses \subseteq Response
  /\ \A r \in Responses : r.ok <=> r.doc # NoDoc
  /\ MaxChanges \in Nat

\* The bound on ages loses nothing as long as it exceeds every lifetime.
ASSUME LifetimesBelowMaxAge ==
  /\ \A c \in Clients : c.ttl < MaxAge
  /\ \A r \in Responses : r.header.seconds < MaxAge

VARIABLES
  client,   \* the module-level client (_default_client)
  cache,    \* its store; every client shares the default one
  pc,       \* where each thread is inside a call
  call,     \* the call: kind, domain, action, the client it was made on
  hitFirst, \* check's own cache.get found an entry (cached_before)
  hand,     \* the entry a thread has fetched and not yet stored
  answer,   \* what the thread's last call returned
  receipt,  \* the thread's last permission_receipt
  site,     \* what each URL answers now, for each domain
  changes,  \* number of changes of site so far
  history,  \* history variable: everything each URL has answered
  during    \* history variable: what the URLs have answered during the call

threadVars == <<pc, call, hitFirst, hand, answer, receipt>>
siteVars == <<site, changes, history, during>>
vars == <<client, cache, threadVars, siteVars>>

NoCall == [kind |-> "fetch", domain |-> CHOOSE d \in Domains : TRUE,
           action |-> CHOOSE a \in Actions : TRUE,
           client |-> CHOOSE c \in Clients : TRUE]

NoAnswer == [kind |-> "none", doc |-> NoDoc, decision |-> "not_specified",
             source |-> "network", from |-> "network", ttl |-> 0, age |-> 0]

NoReceipt == [decision |-> "not_specified", hash |-> NoDoc, checked |-> NoDoc]

Init ==
  /\ client \in Clients
  /\ cache = EmptyStore
  /\ pc = [t \in Threads |-> "idle"]
  /\ call = [t \in Threads |-> NoCall]
  /\ hitFirst = [t \in Threads |-> FALSE]
  /\ hand = [t \in Threads |-> NoEntry]
  /\ answer = [t \in Threads |-> NoAnswer]
  /\ receipt = [t \in Threads |-> NoReceipt]
  /\ site \in [Domains -> [Urls -> Responses]]
  /\ changes = 0
  /\ history = {<<d, u, site[d][u]>> : d \in Domains, u \in Urls}
  /\ during = [t \in Threads |-> {}]

-----------------------------------------------------------------------------
(* The calls.                                                              *)

FirstStep(kind) == CASE kind = "check" -> "tag"
                     [] kind = "receipt" -> "hash"
                     [] kind = "clear" -> "evict"
                     [] kind = "clear_all" -> "flush"
                     [] OTHER -> "lookup"

\* A module-level wrapper reads _default_client and enters the call.  A receipt
\* is asked for the thread's last check, as the module's usage shows.
Begin(t, kind, d, a) ==
  /\ pc[t] = "idle"
  /\ kind = "receipt" =>
       /\ answer[t].kind = "check"
       /\ answer[t].decision \in Decisions
       /\ d = call[t].domain /\ a = call[t].action
  /\ pc' = [pc EXCEPT ![t] = FirstStep(kind)]
  /\ call' = [call EXCEPT ![t] = [kind |-> kind, domain |-> d, action |-> a,
                                  client |-> client]]
  /\ answer' = [answer EXCEPT ![t] = IF kind = "receipt" THEN @ ELSE NoAnswer]
  /\ receipt' = [receipt EXCEPT ![t] = NoReceipt]
  /\ hitFirst' = [hitFirst EXCEPT ![t] = FALSE]
  /\ during' = [during EXCEPT ![t] = {<<u, site[d][u]>> : u \in Urls}]
  /\ UNCHANGED <<client, cache, hand, site, changes, history>>

\* check's first cache.get, which only serves the source tag.
Tag(t) ==
  LET d == call[t].domain IN
  /\ pc[t] = "tag"
  /\ hitFirst' = [hitFirst EXCEPT ![t] = Hit(cache, d)]
  /\ cache' = AfterGet(cache, d)
  /\ pc' = [pc EXCEPT ![t] = "lookup"]
  /\ UNCHANGED <<client, call, hand, answer, receipt, siteVars>>

\* What the call makes of the document of an entry (or of NoEntry).  A
\* "permissions" member that is not an object makes check raise.
AnswerFrom(t, entry, from) ==
  LET k == call[t].kind IN
  [kind |-> k,
   doc |-> IF k = "discover" /\ entry.doc \notin DiscoveryDocs
           THEN NoDoc ELSE entry.doc,
   decision |-> IF k # "check" THEN "not_specified"
                ELSE IF entry.doc \in BrokenDocs THEN "raised"
                ELSE Decision(entry.doc, call[t].action),
   source |-> IF hitFirst[t] THEN "cache" ELSE "network",
   from |-> from, ttl |-> entry.ttl, age |-> entry.age]

Return(t, entry, from) ==
  /\ pc' = [pc EXCEPT ![t] = "idle"]
  /\ answer' = [answer EXCEPT ![t] = AnswerFrom(t, entry, from)]
  /\ hand' = [hand EXCEPT ![t] = NoEntry]
  /\ during' = [during EXCEPT ![t] = IF from = "network" THEN @ ELSE {}]

\* Slip: a hit renews the entry.
LookupHitRenews(t) ==
  LET d == call[t].domain IN
  /\ pc[t] = "lookup"
  /\ Hit(cache, d)
  /\ Return(t, cache[d], "cache")
  /\ cache' = [cache EXCEPT ![d].age = 0]
  /\ UNCHANGED <<client, call, hitFirst, receipt, site, changes, history>>

\* fetch's cache.get: a hit ends the call.
LookupHit(t) ==
  LET d == call[t].domain IN
  /\ pc[t] = "lookup"
  /\ Hit(cache, d)
  /\ Return(t, cache[d], "cache")
  /\ UNCHANGED <<client, cache, call, hitFirst, receipt, site, changes, history>>

LookupMiss(t) ==
  LET d == call[t].domain IN
  /\ pc[t] = "lookup"
  /\ ~ Hit(cache, d)
  /\ cache' = AfterGet(cache, d)
  /\ pc' = [pc EXCEPT ![t] = "well_known"]
  /\ UNCHANGED <<client, call, hitFirst, hand, answer, receipt, siteVars>>

\* One GET of _fetch_raw: the URL's answer is the one of this instant.
Served(t) == site[call[t].domain][pc[t]]

Receive(t) ==
  /\ pc[t] \in Urls
  /\ Accepted(pc[t], Served(t))
  /\ hand' = [hand EXCEPT ![t] =
       [doc |-> Served(t).doc,
        ttl |-> EffectiveTTL(call[t].client.ttl, Served(t).header),
        age |-> 0, url |-> pc[t]]]
  /\ pc' = [pc EXCEPT ![t] = "stamp"]
  /\ UNCHANGED <<client, cache, call, hitFirst, answer, receipt, siteVars>>

\* Slip: the registry is asked before the site's second URL.
NextUrlRegistryFirst(t) ==
  CASE pc[t] = "well_known" /\ call[t].client.registry -> "registry"
    [] pc[t] = "registry" -> "root"
    [] OTHER -> "none"

\* Slip: after the last URL, start over.
NextUrlAgain(t) == CASE pc[t] = "well_known" -> "root"
                     [] pc[t] = "root" /\ call[t].client.registry -> "registry"
                     [] OTHER -> "well_known"

\* The URLs left to try; the registry is one only if the client has one.
NextUrl(t) == CASE pc[t] = "well_known" -> "root"
                [] pc[t] = "root" /\ call[t].client.registry -> "registry"
                [] OTHER -> "none"

TryNext(t) ==
  /\ pc[t] \in Urls
  /\ ~ Accepted(pc[t], Served(t))
  /\ NextUrl(t) \in Urls
  /\ pc' = [pc EXCEPT ![t] = NextUrl(t)]
  /\ UNCHANGED <<client, cache, call, hitFirst, hand, answer, receipt, siteVars>>

GiveUp(t) ==
  /\ pc[t] \in Urls
  /\ ~ Accepted(pc[t], Served(t))
  /\ NextUrl(t) \notin Urls
  /\ Return(t, NoEntry, "network")
  /\ UNCHANGED <<client, cache, call, hitFirst, receipt, site, changes, history>>

\* Slip: the header's lifetime is dropped.
StampDefaultTTL(t) ==
  /\ pc[t] = "stamp"
  /\ hand' = [hand EXCEPT ![t].age = 0, ![t].ttl = call[t].client.ttl]
  /\ pc' = [pc EXCEPT ![t] = "store"]
  /\ UNCHANGED <<client, cache, call, hitFirst, answer, receipt, siteVars>>

\* fetch builds the entry with fetched_at = now, then stores it.
Stamp(t) ==
  /\ pc[t] = "stamp"
  /\ hand' = [hand EXCEPT ![t] = Stamped(@)]
  /\ pc' = [pc EXCEPT ![t] = "store"]
  /\ UNCHANGED <<client, cache, call, hitFirst, answer, receipt, siteVars>>

Store(t) ==
  /\ pc[t] = "store"
  /\ cache' = AfterSet(cache, call[t].domain, hand[t])
  /\ Return(t, hand[t], "network")
  /\ UNCHANGED <<client, call, hitFirst, receipt, site, changes, history>>

\* clear_cache(domain) and clear_cache().
Evict(t) ==
  /\ pc[t] = "evict"
  /\ cache' = AfterDelete(cache, call[t].domain)
  /\ pc' = [pc EXCEPT ![t] = "idle"]
  /\ UNCHANGED <<client, call, hitFirst, hand, answer, receipt, siteVars>>

Flush(t) ==
  /\ pc[t] = "flush"
  /\ cache' = EmptyStore
  /\ pc' = [pc EXCEPT ![t] = "idle"]
  /\ UNCHANGED <<client, call, hitFirst, hand, answer, receipt, siteVars>>

\* permission_receipt: the hash is the one of whatever is cached now.
Hash(t) ==
  LET d == call[t].domain IN
  /\ pc[t] = "hash"
  /\ receipt' = [receipt EXCEPT ![t] =
       [decision |-> answer[t].decision,
        hash |-> IF Hit(cache, d) THEN cache[d].doc ELSE NoDoc,
        checked |-> answer[t].doc]]
  /\ cache' = AfterGet(cache, d)
  /\ pc' = [pc EXCEPT ![t] = "idle"]
  /\ UNCHANGED <<client, call, hitFirst, hand, answer, siteVars>>

Step(t) ==
  \/ Tag(t) \/ LookupHit(t) \/ LookupMiss(t)
  \/ Receive(t) \/ TryNext(t) \/ GiveUp(t)
  \/ Stamp(t) \/ Store(t)
  \/ Evict(t) \/ Flush(t) \/ Hash(t)

\* configure replaces the module-level client.  The new one is given no cache,
\* so it shares the default store, as it is.
Configure(c) ==
  /\ client' = c
  /\ UNCHANGED <<cache, threadVars, siteVars>>

-----------------------------------------------------------------------------
(* The environment.                                                        *)

\* An operator changes, withdraws or restores a document, or a URL goes down.
Publish(d, u, r) ==
  /\ changes < MaxChanges
  /\ site[d][u] # r
  /\ site' = [site EXCEPT ![d][u] = r]
  /\ changes' = changes + 1
  /\ history' = history \cup {<<d, u, r>>}
  /\ during' = [t \in Threads |->
       IF pc[t] # "idle" /\ call[t].domain = d
       THEN during[t] \cup {<<u, r>>} ELSE during[t]]
  /\ UNCHANGED <<client, cache, threadVars>>

\* Time passes for every entry, stored or about to be.
Tick ==
  /\ cache' = [d \in Domains |-> Older(cache[d])]
  /\ hand' = [t \in Threads |-> Older(hand[t])]
  /\ UNCHANGED <<client, pc, call, hitFirst, answer, receipt, siteVars>>

Next ==
  \/ \E t \in Threads : Step(t)
  \/ \E t \in Threads, k \in Kinds, d \in Domains, a \in Actions : Begin(t, k, d, a)
  \/ \E c \in Clients : Configure(c)
  \/ \E d \in Domains, u \in Urls, r \in Responses : Publish(d, u, r)
  \/ Tick

Spec == Init /\ [][Next]_vars

\* A started call goes on, and time does not stop.  That every GET ends is assumed of
\* the environment: its timeout bounds the connection and each read, not the whole.
FairSpec == Spec /\ (\A t \in Threads : WF_vars(Step(t))) /\ WF_vars(Tick)

-----------------------------------------------------------------------------
(* Properties.                                                             *)

Steps == {"idle", "tag", "lookup", "stamp", "store", "evict", "flush", "hash"} \cup Urls

Calls == [kind: AllKinds, domain: Domains, action: Actions, client: Clients]

Answers == [kind: AllKinds \cup {"none"}, doc: Docs \cup {NoDoc},
            decision: Decisions \cup {"raised"},
            source: {"cache", "network"}, from: {"cache", "network"},
            ttl: TTLs, age: Ages]

Receipts == [decision: Decisions \cup {"raised"}, hash: Docs \cup {NoDoc},
             checked: Docs \cup {NoDoc}]

\* The type of every variable of the client and its environment.
TypeOK ==
  /\ client \in Clients
  /\ cache \in [Domains -> Entry \cup {NoEntry}]
  /\ pc \in [Threads -> Steps]
  /\ call \in [Threads -> Calls]
  /\ hitFirst \in [Threads -> BOOLEAN]
  /\ hand \in [Threads -> Entry \cup {NoEntry}]
  /\ answer \in [Threads -> Answers]
  /\ receipt \in [Threads -> Receipts]
  /\ site \in [Domains -> [Urls -> Responses]]
  /\ changes \in 0 .. MaxChanges
  /\ history \subseteq Domains \X Urls \X Responses
  /\ during \in [Threads -> SUBSET (Urls \X Responses)]

Before(url) == CASE url = "well_known" -> {}
                 [] url = "root" -> {"well_known"}
                 [] url = "registry" -> {"well_known", "root"}

RefusedDuring(t, u) ==
  \E r \in Responses : <<u, r>> \in during[t] /\ ~ Accepted(u, r)

ServedDuring(t, entry) ==
  \E r \in Responses : /\ <<entry.url, r>> \in during[t]
                       /\ Accepted(entry.url, r)
                       /\ r.doc = entry.doc
                       /\ entry.ttl = EffectiveTTL(call[t].client.ttl, r.header)

\* The URLs a call gives up on when it reports the domain unreachable.
AllUrls(t) == IF call[t].client.registry THEN Urls ELSE Urls \ {"registry"}

\* What a call brings back from the network was served by its URL while the
\* call ran, with the lifetime it is stored under, and every URL of higher rank
\* refused while the call ran; "unreachable" means that each URL refused during
\* the call.  So a registry copy never displaces a document the site served all
\* along, whatever other threads did to the cache meanwhile (_fetch_raw, fetch).
FetchedDuringCall ==
  \A t \in Threads :
    /\ hand[t] # NoEntry =>
         /\ ServedDuring(t, hand[t])
         /\ \A u \in Before(hand[t].url) : RefusedDuring(t, u)
    /\ /\ answer[t].kind \in {"fetch", "check"}
       /\ answer[t].kind = call[t].kind
       /\ answer[t].doc = NoDoc
       => \A u \in AllUrls(t) : RefusedDuring(t, u)

\* Some URL of the domain has served this document and it was acceptable there.
Offered(past, d, doc) ==
  \E u \in Urls, r \in Responses :
    <<d, u, r>> \in past /\ Accepted(u, r) /\ r.doc = doc

\* The entry was served by the URL it names, for domain d, and has the lifetime
\* that header gives it under some client's default.
Grounded(past, d, entry) ==
  \E c \in Clients, r \in Responses :
    /\ <<d, entry.url, r>> \in past
    /\ Accepted(entry.url, r)
    /\ r.doc = entry.doc
    /\ entry.ttl = EffectiveTTL(c.ttl, r.header)

\* A cached entry was served by the very URL it names, for the domain it is
\* filed under, with a header that gives it its lifetime under some client's
\* default: concurrent fills, evictions and reconfigurations never mix domains,
\* documents and lifetimes (fetch, TermsCache).
CacheGrounded ==
  \A d \in Domains : Present(cache, d) => Grounded(history, d, cache[d])

\* "allow" is only ever answered on a document that the domain's URLs have
\* served and in which a key that names the action grants it; an unreachable
\* domain, an absent key or a value of another shape never allows (check).
AllowIsGrounded ==
  \A t \in Threads : answer[t].decision = "allow" =>
    /\ Offered(history, call[t].domain, answer[t].doc)
    /\ \E i \in Matches(answer[t].doc, call[t].action) :
         Permissions[answer[t].doc][i].value \in Grants

\* What makes the three inductive.  Within a call: an entry is in hand exactly
\* between its receipt and its storing, a URL is tried once those before it have
\* refused, and what the URLs answer now is among what they answered meanwhile.
CallInv ==
  \A t \in Threads :
    /\ hand[t] # NoEntry <=> pc[t] \in {"stamp", "store"}
    /\ pc[t] \in Urls => \A u \in Before(pc[t]) : RefusedDuring(t, u)
    /\ pc[t] = "registry" => call[t].client.registry
    /\ pc[t] # "idle" => \A u \in Urls : <<u, site[call[t].domain][u]>> \in during[t]

\* Across calls: what is served now and what is in hand is on record.
Recorded ==
  /\ \A d \in Domains, u \in Urls : <<d, u, site[d][u]>> \in history
  /\ \A t \in Threads : hand[t] # NoEntry => Grounded(history, call[t].domain, hand[t])

IInv == /\ TypeOK /\ CallInv /\ FetchedDuringCall
        /\ Recorded /\ CacheGrounded /\ AllowIsGrounded

\* Each call of a thread comes back: nothing it waits for is another thread.
CallsReturn == \A t \in Threads : pc[t] # "idle" ~> pc[t] = "idle"

\* What a call made now on an empty cache would answer.
Current(d, c) ==
  LET tried == IF c.registry THEN Urls ELSE Urls \ {"registry"}
      first == {u \in tried : /\ Accepted(u, site[d][u])
                              /\ \A v \in Before(u) : ~ Accepted(v, site[d][v])}
  IN  IF first = {} THEN NoDoc ELSE site[d][CHOOSE u \in first : TRUE].doc

\* Thread t returns a document in this step.
Answering(t) == pc[t] # "idle" /\ pc'[t] = "idle" /\ answer'[t] # NoAnswer
                /\ call[t].kind \in {"fetch", "check"}

\* When every lifetime is positive, a document the site has withdrawn or
\* replaced is eventually answered by no one, even if a slow thread stores the
\* old one long after the change (is_expired, get, fetch).
RevocationTakesEffect ==
  <>[][\A t \in Threads :
         Answering(t) => answer'[t].doc = Current(call[t].domain, call[t].client)]_vars

-----------------------------------------------------------------------------
(* What the documentation says and the code does not do.                   *)

\* client.py:62 says of no-store and no-cache "do not cache": a document served
\* so would never be answered from the cache.
NoStoreNotCached ==
  \A t \in Threads : answer[t].from = "cache" =>
    \E u \in Urls, r \in Responses :
      /\ <<call[t].domain, u, r>> \in history
      /\ r.doc = answer[t].doc
      /\ r.header.hasMaxAge \/ ~ r.header.noStore
=============================================================================

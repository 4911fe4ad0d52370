----------------------- MODULE PermissionClientProofs -----------------------
(***************************************************************************)
(* The safety properties of PermissionClient, for any number of threads,   *)
(* domains and documents, any lifetimes and any change of the sites.       *)
(***************************************************************************)
EXTENDS PermissionClient, WellFoundedInduction, TLAPS

(***************************************************************************)
(* The operators of TermsDocument and TermsCache.                          *)
(***************************************************************************)

\* A nonempty set of naturals has a least element.
LEMMA LeastNatural ==
  ASSUME NEW S \in SUBSET Nat, S # {}
  PROVE  \E x \in S : \A y \in S : x <= y
<1>1. PICK x \in S : \A y \in S : ~ (<<y, x>> \in OpToRel(<, Nat))
  BY NatLessThanWellFounded, WFMin, Zenon
<1>2. \A y \in S : ~ (y < x)
  BY <1>1 DEF OpToRel
<1> QED
  BY <1>2

\* check's lookup answers a decision, and "allow" only on a key that grants.
LEMMA DecisionSound ==
  ASSUME NEW doc \in Docs \cup {NoDoc}, NEW action \in Actions
  PROVE  /\ Decision(doc, action) \in Decisions
         /\ Decision(doc, action) = "allow" =>
              /\ doc # NoDoc
              /\ \E i \in Matches(doc, action) : Permissions[doc][i].value \in Grants
<1>1. CASE doc = NoDoc \/ Matches(doc, action) = {}
  BY <1>1 DEF Decision, Decisions
<1>2. CASE doc # NoDoc /\ Matches(doc, action) # {}
  <2> DEFINE first == CHOOSE i \in Matches(doc, action) :
                        \A j \in Matches(doc, action) : i <= j
  <2>1. Permissions[doc] \in Seq(Pair)
    BY <1>2, DocAssumption
  <2>2. Matches(doc, action) \in SUBSET Nat
    BY <2>1 DEF Matches
  <2>3. first \in Matches(doc, action)
    BY <1>2, <2>2, LeastNatural
  <2>4. Decision(doc, action) = DecisionOf(Permissions[doc][first].value)
    BY <1>2 DEF Decision
  <2> HIDE DEF first
  <2>5. Decision(doc, action) = "allow" => Permissions[doc][first].value \in Grants
    BY <2>4 DEF DecisionOf
  <2> QED
    BY <1>2, <2>3, <2>4, <2>5 DEF DecisionOf, Decisions
<1> QED
  BY <1>1, <1>2

\* A lifetime is a natural number.
LEMMA EffectiveTTLType ==
  ASSUME NEW c \in Client, NEW r \in Response
  PROVE  EffectiveTTL(c.ttl, r.header) \in TTLs
BY DEF EffectiveTTL, Client, Response, Headers, TTLs

\* Waiting changes nothing of an entry but its age.
LEMMA OlderSound ==
  ASSUME NEW e \in Entry \cup {NoEntry}
  PROVE  /\ Older(e) \in Entry \cup {NoEntry}
         /\ Older(e) = NoEntry <=> e = NoEntry
         /\ Older(e).doc = e.doc
         /\ Older(e).ttl = e.ttl
         /\ Older(e).url = e.url
<1> SUFFICES ASSUME e # NoEntry, e.age # MaxAge
             PROVE  /\ Older(e) \in Entry
                    /\ Older(e).doc = e.doc /\ Older(e).ttl = e.ttl
                    /\ Older(e).url = e.url
  BY DocAssumption DEF Older, Entry, NoEntry
<1>1. e \in Entry
  OBVIOUS
<1>2. e.age + 1 \in Ages
  BY <1>1, CacheAssumption DEF Entry, Ages
<1>3. Older(e) = [doc |-> e.doc, ttl |-> e.ttl, age |-> e.age + 1, url |-> e.url]
  BY <1>1 DEF Older, Entry
<1> QED
  BY <1>1, <1>2, <1>3 DEF Entry

\* Stamping an entry changes nothing of it but its age.
LEMMA StampedSound ==
  ASSUME NEW e \in Entry \cup {NoEntry}
  PROVE  /\ Stamped(e) \in Entry \cup {NoEntry}
         /\ Stamped(e) = NoEntry <=> e = NoEntry
         /\ Stamped(e).doc = e.doc
         /\ Stamped(e).ttl = e.ttl
         /\ Stamped(e).url = e.url
<1>1. Stamped(e) = [doc |-> e.doc, ttl |-> e.ttl, age |-> 0, url |-> e.url]
  BY DEF Stamped, Entry, NoEntry
<1>2. 0 \in Ages
  BY CacheAssumption DEF Ages
<1>3. CASE e = NoEntry
  BY <1>1, <1>3 DEF NoEntry
<1>4. CASE e \in Entry
  BY <1>1, <1>2, <1>4, DocAssumption DEF Entry, NoEntry
<1> QED
  BY <1>3, <1>4

\* An entry is not the absence of one.
LEMMA EntryHasDoc ==
  ASSUME NEW e \in Entry \cup {NoEntry}
  PROVE  /\ e # NoEntry => e \in Entry /\ e.doc \in Docs /\ e.doc # NoDoc
         /\ e.doc # NoDoc => e # NoEntry
BY DocAssumption DEF Entry, NoEntry

\* The cache's operations keep a store a store, and none of them alters or
\* invents an entry.
LEMMA StoreOperations ==
  ASSUME NEW store \in [Domains -> Entry \cup {NoEntry}], NEW d \in Domains,
         NEW e \in Entry \cup {NoEntry}
  PROVE  /\ AfterGet(store, d) \in [Domains -> Entry \cup {NoEntry}]
         /\ AfterSet(store, d, e) \in [Domains -> Entry \cup {NoEntry}]
         /\ AfterDelete(store, d) \in [Domains -> Entry \cup {NoEntry}]
         /\ EmptyStore \in [Domains -> Entry \cup {NoEntry}]
         /\ \A x \in Domains :
              /\ AfterGet(store, d)[x] \in {store[x], NoEntry}
              /\ AfterSet(store, d, e)[x] = IF x = d THEN e ELSE store[x]
              /\ AfterDelete(store, d)[x] \in {store[x], NoEntry}
BY DEF AfterGet, AfterSet, AfterDelete, EmptyStore

(***************************************************************************)
(* Types.                                                                  *)
(***************************************************************************)

LEMMA InitType == Init => TypeOK
<1> SUFFICES ASSUME Init PROVE TypeOK
  OBVIOUS
<1> USE DEF Init
<1>1. NoCall \in Calls
  BY DocAssumption, CacheAssumption, ClientAssumption DEF NoCall, Calls, AllKinds
<1>2. NoAnswer \in Answers
  BY CacheAssumption DEF NoAnswer, Answers, Decisions, TTLs, Ages
<1>3. NoReceipt \in Receipts
  BY DEF NoReceipt, Receipts, Decisions
<1>4. cache \in [Domains -> Entry \cup {NoEntry}]
  BY DEF EmptyStore
<1>5. pc \in [Threads -> Steps]
  BY DEF Steps
<1>6. history \subseteq Domains \X Urls \X Responses
  OBVIOUS
<1>7. during \in [Threads -> SUBSET (Urls \X Responses)]
  OBVIOUS
<1> QED
  BY <1>1, <1>2, <1>3, <1>4, <1>5, <1>6, <1>7, ClientAssumption DEF TypeOK

\* What a call answers from an entry has the type of an answer.
LEMMA AnswerFromType ==
  ASSUME TypeOK, NEW t \in Threads, NEW e \in Entry \cup {NoEntry},
         NEW from \in {"cache", "network"}
  PROVE  AnswerFrom(t, e, from) \in Answers
<1>1. /\ call[t] \in Calls /\ call[t].kind \in AllKinds /\ call[t].action \in Actions
  BY DEF TypeOK, Calls
<1>2. /\ e.doc \in Docs \cup {NoDoc} /\ e.ttl \in TTLs /\ e.age \in Ages
  BY CacheAssumption DEF Entry, NoEntry, TTLs, Ages
<1>3. Decision(e.doc, call[t].action) \in Decisions
  BY <1>1, <1>2, DecisionSound
<1>4. "not_specified" \in Decisions
  BY DEF Decisions
<1> QED
  BY <1>1, <1>2, <1>3, <1>4 DEF AnswerFrom, Answers

LEMMA NextType == TypeOK /\ [Next]_vars => TypeOK'
<1> SUFFICES ASSUME TypeOK, [Next]_vars PROVE TypeOK'
  OBVIOUS
<1> USE DEF TypeOK
<1>1. ASSUME NEW t \in Threads, Tag(t) PROVE TypeOK'
  <2>1. call[t].domain \in Domains
    BY DEF Calls
  <2>2. cache' \in [Domains -> Entry \cup {NoEntry}]
    BY <1>1, <2>1, StoreOperations DEF Tag, NoEntry
  <2>3. Hit(cache, call[t].domain) \in BOOLEAN
    BY DEF Hit, Present, IsExpired
  <2>4. hitFirst' \in [Threads -> BOOLEAN]
    BY <1>1, <2>3 DEF Tag
  <2>5. pc' \in [Threads -> Steps]
    BY <1>1 DEF Tag, Steps
  <2> QED
    BY <1>1, <2>2, <2>4, <2>5 DEF Tag, siteVars
<1>2. ASSUME NEW t \in Threads, LookupHit(t) PROVE TypeOK'
  <2>1. cache[call[t].domain] \in Entry \cup {NoEntry}
    BY DEF Calls
  <2>2. AnswerFrom(t, cache[call[t].domain], "cache") \in Answers
    BY <2>1, AnswerFromType
  <2>3. answer' \in [Threads -> Answers]
    BY <1>2, <2>2 DEF LookupHit, Return
  <2>4. pc' \in [Threads -> Steps] /\ hand' \in [Threads -> Entry \cup {NoEntry}]
    BY <1>2 DEF LookupHit, Return, Steps
  <2>5. during' \in [Threads -> SUBSET (Urls \X Responses)]
    BY <1>2 DEF LookupHit, Return
  <2> QED
    BY <1>2, <2>3, <2>4, <2>5 DEF LookupHit, Return
<1>3. ASSUME NEW t \in Threads, LookupMiss(t) PROVE TypeOK'
  <2>1. call[t].domain \in Domains
    BY DEF Calls
  <2>2. cache' \in [Domains -> Entry \cup {NoEntry}]
    BY <1>3, <2>1, StoreOperations DEF LookupMiss, NoEntry
  <2>3. pc' \in [Threads -> Steps]
    BY <1>3 DEF LookupMiss, Steps, Urls
  <2> QED
    BY <1>3, <2>2, <2>3 DEF LookupMiss, siteVars
<1>4. ASSUME NEW t \in Threads, Receive(t) PROVE TypeOK'
  <2>1. call[t].domain \in Domains /\ call[t].client \in Clients
    BY DEF Calls
  <2>2. Served(t) \in Responses /\ Served(t) \in Response
    BY <1>4, <2>1, ClientAssumption DEF Served, Receive
  <2>3. Served(t).ok
    BY <1>4 DEF Receive, Accepted
  <2>4. Served(t).doc \in Docs
    BY <2>2, <2>3, ClientAssumption DEF Response
  <2>5. EffectiveTTL(call[t].client.ttl, Served(t).header) \in TTLs
    BY <2>1, <2>2, ClientAssumption, EffectiveTTLType
  <2>6. 0 \in Ages
    BY CacheAssumption DEF Ages
  <2>7. hand' \in [Threads -> Entry \cup {NoEntry}]
    BY <1>4, <2>4, <2>5, <2>6 DEF Receive, Entry
  <2>8. pc' \in [Threads -> Steps]
    BY <1>4 DEF Receive, Steps
  <2> QED
    BY <1>4, <2>7, <2>8 DEF Receive, siteVars
<1>5. ASSUME NEW t \in Threads, TryNext(t) PROVE TypeOK'
  <2>1. pc' \in [Threads -> Steps]
    BY <1>5 DEF TryNext, Steps
  <2> QED
    BY <1>5, <2>1 DEF TryNext, siteVars
<1>6. ASSUME NEW t \in Threads, GiveUp(t) PROVE TypeOK'
  <2>1. AnswerFrom(t, NoEntry, "network") \in Answers
    BY AnswerFromType
  <2>2. answer' \in [Threads -> Answers]
    BY <1>6, <2>1 DEF GiveUp, Return
  <2>3. pc' \in [Threads -> Steps] /\ hand' \in [Threads -> Entry \cup {NoEntry}]
    BY <1>6 DEF GiveUp, Return, Steps
  <2>4. during' \in [Threads -> SUBSET (Urls \X Responses)]
    BY <1>6 DEF GiveUp, Return
  <2> QED
    BY <1>6, <2>2, <2>3, <2>4 DEF GiveUp, Return
<1>7. ASSUME NEW t \in Threads, Stamp(t) PROVE TypeOK'
  <2>1. Stamped(hand[t]) \in Entry \cup {NoEntry}
    BY StampedSound
  <2>2. hand' \in [Threads -> Entry \cup {NoEntry}]
    BY <1>7, <2>1 DEF Stamp
  <2>3. pc' \in [Threads -> Steps]
    BY <1>7 DEF Stamp, Steps
  <2> QED
    BY <1>7, <2>2, <2>3 DEF Stamp, siteVars
<1>8. ASSUME NEW t \in Threads, Store(t) PROVE TypeOK'
  <2>1. call[t].domain \in Domains /\ hand[t] \in Entry \cup {NoEntry}
    BY DEF Calls
  <2>2. cache' \in [Domains -> Entry \cup {NoEntry}]
    BY <1>8, <2>1, StoreOperations DEF Store
  <2>3. AnswerFrom(t, hand[t], "network") \in Answers
    BY <2>1, AnswerFromType
  <2>4. answer' \in [Threads -> Answers]
    BY <1>8, <2>3 DEF Store, Return
  <2>5. pc' \in [Threads -> Steps] /\ hand' \in [Threads -> Entry \cup {NoEntry}]
    BY <1>8 DEF Store, Return, Steps
  <2>6. during' \in [Threads -> SUBSET (Urls \X Responses)]
    BY <1>8 DEF Store, Return
  <2> QED
    BY <1>8, <2>2, <2>4, <2>5, <2>6 DEF Store, Return
<1>9. ASSUME NEW t \in Threads, Evict(t) PROVE TypeOK'
  <2>1. call[t].domain \in Domains
    BY DEF Calls
  <2>2. cache' \in [Domains -> Entry \cup {NoEntry}]
    BY <1>9, <2>1, StoreOperations DEF Evict, NoEntry
  <2>3. pc' \in [Threads -> Steps]
    BY <1>9 DEF Evict, Steps
  <2> QED
    BY <1>9, <2>2, <2>3 DEF Evict, siteVars
<1>10. ASSUME NEW t \in Threads, Flush(t) PROVE TypeOK'
  <2>1. cache' \in [Domains -> Entry \cup {NoEntry}]
    BY <1>10 DEF Flush, EmptyStore
  <2>2. pc' \in [Threads -> Steps]
    BY <1>10 DEF Flush, Steps
  <2> QED
    BY <1>10, <2>1, <2>2 DEF Flush, siteVars
<1>11. ASSUME NEW t \in Threads, Hash(t) PROVE TypeOK'
  <2>1. call[t].domain \in Domains
    BY DEF Calls
  <2>2. cache' \in [Domains -> Entry \cup {NoEntry}]
    BY <1>11, <2>1, StoreOperations DEF Hash, NoEntry
  <2>3. cache[call[t].domain].doc \in Docs \cup {NoDoc}
    BY <2>1, EntryHasDoc DEF NoEntry
  <2>4. /\ answer[t].decision \in Decisions \cup {"raised"}
        /\ answer[t].doc \in Docs \cup {NoDoc}
    BY DEF Answers
  <2>5. receipt' \in [Threads -> Receipts]
    BY <1>11, <2>3, <2>4 DEF Hash, Receipts
  <2>6. pc' \in [Threads -> Steps]
    BY <1>11 DEF Hash, Steps
  <2> QED
    BY <1>11, <2>2, <2>5, <2>6 DEF Hash, siteVars
<1>12. ASSUME NEW t \in Threads, NEW k \in Kinds, NEW d \in Domains,
              NEW a \in Actions, Begin(t, k, d, a)
       PROVE  TypeOK'
  <2>1. [kind |-> k, domain |-> d, action |-> a, client |-> client] \in Calls
    BY ClientAssumption DEF Calls
  <2>2. call' \in [Threads -> Calls]
    BY <1>12, <2>1 DEF Begin
  <2>3. FirstStep(k) \in Steps
    BY DEF FirstStep, Steps
  <2>4. pc' \in [Threads -> Steps]
    BY <1>12, <2>3 DEF Begin
  <2>5. NoAnswer \in Answers
    BY CacheAssumption DEF NoAnswer, Answers, Decisions, TTLs, Ages
  <2>6. answer' \in [Threads -> Answers]
    BY <1>12, <2>5 DEF Begin
  <2>7. receipt' \in [Threads -> Receipts]
    BY <1>12 DEF Begin, NoReceipt, Receipts, Decisions
  <2>8. during' \in [Threads -> SUBSET (Urls \X Responses)]
    BY <1>12 DEF Begin
  <2>9. hitFirst' \in [Threads -> BOOLEAN]
    BY <1>12 DEF Begin
  <2> QED
    BY <1>12, <2>2, <2>4, <2>6, <2>7, <2>8, <2>9 DEF Begin
<1>13. ASSUME NEW c \in Clients, Configure(c) PROVE TypeOK'
  BY <1>13 DEF Configure, threadVars, siteVars
<1>14. ASSUME NEW d \in Domains, NEW u \in Urls, NEW r \in Responses, Publish(d, u, r)
       PROVE  TypeOK'
  <2>1. site' \in [Domains -> [Urls -> Responses]]
    BY <1>14 DEF Publish
  <2>2. changes' \in 0 .. MaxChanges
    BY <1>14, ClientAssumption DEF Publish
  <2>3. history' \subseteq Domains \X Urls \X Responses
    BY <1>14 DEF Publish
  <2>4. during' \in [Threads -> SUBSET (Urls \X Responses)]
    BY <1>14 DEF Publish
  <2> QED
    BY <1>14, <2>1, <2>2, <2>3, <2>4 DEF Publish, threadVars
<1>15. ASSUME Tick PROVE TypeOK'
  <2>1. cache' \in [Domains -> Entry \cup {NoEntry}]
    BY <1>15, OlderSound DEF Tick
  <2>2. hand' \in [Threads -> Entry \cup {NoEntry}]
    BY <1>15, OlderSound DEF Tick
  <2> QED
    BY <1>15, <2>1, <2>2 DEF Tick, siteVars
<1>16. CASE UNCHANGED vars
  BY <1>16 DEF vars, threadVars, siteVars
<1> QED
  BY <1>1, <1>2, <1>3, <1>4, <1>5, <1>6, <1>7, <1>8, <1>9, <1>10, <1>11, <1>12,
     <1>13, <1>14, <1>15, <1>16 DEF Next, Step

\* Every variable keeps its type in every behaviour.
THEOREM TypeCorrect == Spec => []TypeOK
BY InitType, NextType, PTL DEF Spec

(***************************************************************************)
(* FetchedDuringCall.  CallOK(t) is what CallInv and FetchedDuringCall say *)
(* of one thread: a step of another thread leaves it alone, and the        *)
(* environment only adds to what the URLs have answered during the call.   *)
(***************************************************************************)

CallOK(t) ==
  /\ hand[t] # NoEntry <=> pc[t] \in {"stamp", "store"}
  /\ pc[t] \in Urls => \A u \in Before(pc[t]) : RefusedDuring(t, u)
  /\ pc[t] = "registry" => call[t].client.registry
  /\ pc[t] # "idle" => \A u \in Urls : <<u, site[call[t].domain][u]>> \in during[t]
  /\ hand[t] # NoEntry =>
       /\ ServedDuring(t, hand[t])
       /\ \A u \in Before(hand[t].url) : RefusedDuring(t, u)
  /\ /\ answer[t].kind \in {"fetch", "check"}
     /\ answer[t].kind = call[t].kind
     /\ answer[t].doc = NoDoc
     => \A u \in AllUrls(t) : RefusedDuring(t, u)

\* A thread whose call, place and answer stay as they are keeps CallOK.
LEMMA CallFrame ==
  ASSUME TypeOK, NEW t \in Threads, CallOK(t),
         pc'[t] = pc[t], call'[t] = call[t], answer'[t] = answer[t],
         hand'[t] = NoEntry <=> hand[t] = NoEntry,
         hand'[t].doc = hand[t].doc, hand'[t].ttl = hand[t].ttl,
         hand'[t].url = hand[t].url,
         during[t] \subseteq during'[t],
         pc[t] # "idle" => \A u \in Urls : <<u, site'[call[t].domain][u]>> \in during'[t]
  PROVE  CallOK(t)'
<1>1. \A u : RefusedDuring(t, u) => RefusedDuring(t, u)'
  BY DEF RefusedDuring
<1>2. ServedDuring(t, hand[t]) => ServedDuring(t, hand[t])'
  BY DEF ServedDuring
<1>3. AllUrls(t)' = AllUrls(t)
  BY DEF AllUrls
<1> QED
  BY <1>1, <1>2, <1>3 DEF CallOK

\* The same for a thread that moves on without touching hand, call or answer.
LEMMA CallMove ==
  ASSUME TypeOK, NEW t \in Threads, CallOK(t),
         UNCHANGED <<call, hand, answer, siteVars>>,
         pc[t] # "idle",
         pc'[t] \in {"stamp", "store"} <=> pc[t] \in {"stamp", "store"},
         pc'[t] \in Urls => \A u \in Before(pc'[t]) : RefusedDuring(t, u),
         pc'[t] = "registry" => call[t].client.registry
  PROVE  CallOK(t)'
<1>1. \A u : RefusedDuring(t, u)' <=> RefusedDuring(t, u)
  BY DEF RefusedDuring, siteVars
<1>2. ServedDuring(t, hand[t]) => ServedDuring(t, hand[t])'
  BY DEF ServedDuring, siteVars
<1>3. AllUrls(t)' = AllUrls(t)
  BY DEF AllUrls
<1> QED
  BY <1>1, <1>2, <1>3 DEF CallOK, siteVars

\* A call that returns: its answer is what entry e gives, and "no document"
\* comes with every refusal.
LEMMA CallReturn ==
  ASSUME TypeOK, NEW t \in Threads, NEW e \in Entry \cup {NoEntry},
         NEW from \in {"cache", "network"},
         Return(t, e, from), call' = call,
         e = NoEntry => /\ from = "network"
                        /\ \A u \in AllUrls(t) : RefusedDuring(t, u)
  PROVE  CallOK(t)'
<1>1. pc'[t] = "idle" /\ hand'[t] = NoEntry /\ answer'[t] = AnswerFrom(t, e, from)
  BY DEF Return, TypeOK
<1>2. from = "network" => during'[t] = during[t]
  BY DEF Return, TypeOK
<1>3. ASSUME answer'[t].kind \in {"fetch", "check"}, answer'[t].doc = NoDoc
      PROVE  e = NoEntry
  BY <1>1, <1>3, EntryHasDoc DEF AnswerFrom
<1>4. ASSUME e = NoEntry
      PROVE  \A u \in AllUrls(t)' : RefusedDuring(t, u)'
  BY <1>2, <1>4 DEF AllUrls, RefusedDuring
<1> QED
  BY <1>1, <1>3, <1>4 DEF CallOK, Urls

\* What a GET brings is on record for the call.
LEMMA GetOnRecord ==
  ASSUME TypeOK, NEW t \in Threads, CallOK(t), pc[t] \in Urls
  PROVE  Served(t) \in Responses /\ <<pc[t], Served(t)>> \in during[t]
<1>1. call[t].domain \in Domains
  BY DEF TypeOK, Calls
<1>2. pc[t] # "idle"
  BY DEF Urls
<1>3. site[call[t].domain] \in [Urls -> Responses]
  BY <1>1 DEF TypeOK
<1>4. site[call[t].domain][pc[t]] \in Responses
  BY <1>3
<1>5. <<pc[t], site[call[t].domain][pc[t]]>> \in during[t]
  BY <1>2 DEF CallOK
<1> QED
  BY <1>4, <1>5 DEF Served

\* A refused GET puts the URL among those that refused during the call.
LEMMA Refusal ==
  ASSUME TypeOK, NEW t \in Threads, CallOK(t),
         pc[t] \in Urls, ~ Accepted(pc[t], Served(t))
  PROVE  \A u \in Before(pc[t]) \cup {pc[t]} : RefusedDuring(t, u)
<1>1. Served(t) \in Responses /\ <<pc[t], Served(t)>> \in during[t]
  BY GetOnRecord
<1> QED
  BY <1>1 DEF CallOK, RefusedDuring

LEMMA StepCall ==
  ASSUME TypeOK, NEW s \in Threads, NEW t \in Threads, CallOK(t), Step(s)
  PROVE  CallOK(t)'
<1>1. CASE s # t
  <2>1. /\ pc'[t] = pc[t] /\ call' = call /\ answer'[t] = answer[t]
        /\ hand'[t] = hand[t] /\ during'[t] = during[t] /\ site' = site
    BY <1>1 DEF TypeOK, Step, Tag, LookupHit, LookupMiss, Receive, TryNext,
         GiveUp, Stamp, Store, Evict, Flush, Hash, Return, siteVars
  <2> QED
    BY <2>1, CallFrame DEF CallOK
<1>2. CASE s = t
  <2>1. CASE Tag(t)
    BY <2>1, CallMove DEF Tag, TypeOK, Urls
  <2>2. CASE LookupHit(t)
    <3>1. cache[call[t].domain] \in Entry /\ cache[call[t].domain] # NoEntry
      BY <2>2 DEF LookupHit, Hit, Present, TypeOK, Calls
    <3> QED
      BY <2>2, <3>1, CallReturn DEF LookupHit
  <2>3. CASE LookupMiss(t)
    <3>1. pc'[t] = "well_known" /\ Before(pc'[t]) = {}
      BY <2>3 DEF LookupMiss, TypeOK, Before
    <3> QED
      BY <2>3, <3>1, CallMove DEF LookupMiss, Urls
  <2>4. CASE Receive(t)
    <3>1. Served(t) \in Responses /\ <<pc[t], Served(t)>> \in during[t]
      BY <2>4, GetOnRecord DEF Receive
    <3>2. /\ hand'[t].doc = Served(t).doc /\ hand'[t].url = pc[t]
          /\ hand'[t].ttl = EffectiveTTL(call[t].client.ttl, Served(t).header)
          /\ pc'[t] = "stamp" /\ call' = call /\ answer' = answer
          /\ during' = during /\ site' = site
          /\ Accepted(pc[t], Served(t))
      BY <2>4 DEF Receive, TypeOK, siteVars
    <3>3. hand'[t] # NoEntry
      <4>1. Served(t).ok
        BY <3>2 DEF Accepted
      <4> QED
        BY <3>1, <3>2, <4>1, ClientAssumption DEF NoEntry
    <3>4. ServedDuring(t, hand[t])'
      BY <3>1, <3>2 DEF ServedDuring
    <3>5. \A u \in Before(pc[t]) : RefusedDuring(t, u)'
      BY <2>4, <3>2 DEF CallOK, RefusedDuring, Receive
    <3>6. AllUrls(t)' = AllUrls(t) /\ \A u : RefusedDuring(t, u)' <=> RefusedDuring(t, u)
      BY <3>2 DEF AllUrls, RefusedDuring
    <3> QED
      BY <2>4, <3>2, <3>3, <3>4, <3>5, <3>6 DEF CallOK, Receive, Urls
  <2>5. CASE TryNext(t)
    <3>1. \A u \in Before(pc[t]) \cup {pc[t]} : RefusedDuring(t, u)
      BY <2>5, Refusal DEF TryNext
    <3>2. pc'[t] = NextUrl(t) /\ NextUrl(t) \in Urls
      BY <2>5 DEF TryNext, TypeOK
    <3>3. /\ Before(pc'[t]) \subseteq Before(pc[t]) \cup {pc[t]}
          /\ pc'[t] = "registry" => call[t].client.registry
      BY <2>5, <3>2 DEF NextUrl, Before, TryNext, Urls
    <3> QED
      BY <2>5, <3>1, <3>2, <3>3, CallMove DEF TryNext, Urls
  <2>6. CASE GiveUp(t)
    <3>1. \A u \in Before(pc[t]) \cup {pc[t]} : RefusedDuring(t, u)
      BY <2>6, Refusal DEF GiveUp
    <3>2. AllUrls(t) \subseteq Before(pc[t]) \cup {pc[t]}
      BY <2>6 DEF GiveUp, NextUrl, AllUrls, Before, Urls
    <3> QED
      BY <2>6, <3>1, <3>2, CallReturn DEF GiveUp
  <2>7. CASE Stamp(t)
    <3>1. /\ hand'[t] = Stamped(hand[t]) /\ pc'[t] = "store" /\ pc[t] = "stamp"
          /\ hand[t] \in Entry \cup {NoEntry}
      BY <2>7 DEF Stamp, TypeOK
    <3>2. /\ hand'[t] = NoEntry <=> hand[t] = NoEntry
          /\ hand'[t].doc = hand[t].doc /\ hand'[t].ttl = hand[t].ttl
          /\ hand'[t].url = hand[t].url
      BY <3>1, StampedSound
    <3>3. /\ \A u : RefusedDuring(t, u)' <=> RefusedDuring(t, u)
          /\ ServedDuring(t, hand[t]) => ServedDuring(t, hand[t])'
          /\ AllUrls(t)' = AllUrls(t)
      BY <2>7, <3>2 DEF Stamp, RefusedDuring, ServedDuring, AllUrls, siteVars
    <3> QED
      BY <2>7, <3>1, <3>2, <3>3 DEF CallOK, Stamp, Urls, siteVars
  <2>8. CASE Store(t)
    <3>1. hand[t] \in Entry \cup {NoEntry} /\ hand[t] # NoEntry
      BY <2>8 DEF Store, TypeOK, CallOK
    <3> QED
      BY <2>8, <3>1, CallReturn DEF Store
  <2>9. CASE Evict(t)
    BY <2>9, CallMove DEF Evict, TypeOK, Urls
  <2>10. CASE Flush(t)
    BY <2>10, CallMove DEF Flush, TypeOK, Urls
  <2>11. CASE Hash(t)
    BY <2>11, CallMove DEF Hash, TypeOK, Urls
  <2> QED
    BY <1>2, <2>1, <2>2, <2>3, <2>4, <2>5, <2>6, <2>7, <2>8, <2>9, <2>10, <2>11 DEF Step
<1> QED
  BY <1>1, <1>2

LEMMA BeginCall ==
  ASSUME TypeOK, NEW s \in Threads, NEW t \in Threads, CallOK(t),
         NEW k \in Kinds, NEW d \in Domains, NEW a \in Actions, Begin(s, k, d, a)
  PROVE  CallOK(t)'
<1>1. CASE s # t
  <2>1. /\ pc'[t] = pc[t] /\ call'[t] = call[t] /\ answer'[t] = answer[t]
        /\ hand'[t] = hand[t] /\ during'[t] = during[t] /\ site' = site
    BY <1>1 DEF TypeOK, Begin
  <2> QED
    BY <2>1, CallFrame DEF CallOK
<1>2. CASE s = t
  <2>1. /\ pc[t] = "idle" /\ pc'[t] = FirstStep(k) /\ hand' = hand /\ site' = site
        /\ call'[t].kind = k /\ call'[t].domain = d
        /\ answer'[t] = IF k = "receipt" THEN answer[t] ELSE NoAnswer
        /\ during'[t] = {<<u, site[d][u]>> : u \in Urls}
    BY <1>2 DEF Begin, TypeOK
  <2>2. hand'[t] = NoEntry
    BY <2>1 DEF CallOK
  <2>3. pc'[t] \notin {"stamp", "store"} \cup Urls
    BY <2>1 DEF FirstStep, Urls
  <2>4. ~ (answer'[t].kind \in {"fetch", "check"} /\ answer'[t].kind = call'[t].kind)
    BY <2>1 DEF NoAnswer
  <2> QED
    BY <2>1, <2>2, <2>3, <2>4 DEF CallOK, Urls
<1> QED
  BY <1>1, <1>2

LEMMA EnvironmentCall ==
  ASSUME TypeOK, NEW t \in Threads, CallOK(t),
         \/ \E c \in Clients : Configure(c)
         \/ \E d \in Domains, u \in Urls, r \in Responses : Publish(d, u, r)
         \/ Tick
         \/ UNCHANGED vars
  PROVE  CallOK(t)'
<1>1. CASE \/ \E c \in Clients : Configure(c)
           \/ UNCHANGED vars
  BY <1>1, CallFrame DEF Configure, vars, threadVars, siteVars, CallOK
<1>2. ASSUME NEW d \in Domains, NEW u \in Urls, NEW r \in Responses, Publish(d, u, r)
      PROVE  CallOK(t)'
  <2>1. /\ pc' = pc /\ call' = call /\ answer' = answer /\ hand' = hand
        /\ during[t] \subseteq during'[t]
    BY <1>2 DEF Publish, threadVars, TypeOK
  <2>2. ASSUME pc[t] # "idle", NEW v \in Urls
        PROVE  <<v, site'[call[t].domain][v]>> \in during'[t]
    <3>1. <<v, site[call[t].domain][v]>> \in during[t]
      BY <2>2 DEF CallOK
    <3>2. site'[call[t].domain][v] =
            IF call[t].domain = d /\ v = u THEN r ELSE site[call[t].domain][v]
      BY <1>2 DEF Publish, TypeOK, Calls
    <3>3. during'[t] = IF call[t].domain = d THEN during[t] \cup {<<u, r>>} ELSE during[t]
      BY <1>2, <2>2 DEF Publish
    <3> QED
      BY <3>1, <3>2, <3>3
  <2> QED
    BY <2>1, <2>2, CallFrame
<1>3. CASE Tick
  <2>1. /\ pc' = pc /\ call' = call /\ answer' = answer
        /\ during' = during /\ site' = site
        /\ hand[t] \in Entry \cup {NoEntry} /\ hand'[t] = Older(hand[t])
    BY <1>3 DEF Tick, siteVars, TypeOK
  <2> QED
    BY <2>1, OlderSound, CallFrame DEF CallOK
<1> QED
  BY <1>1, <1>2, <1>3

LEMMA CallInvariant == Spec => [](\A t \in Threads : CallOK(t))
<1> DEFINE Inv == \A t \in Threads : CallOK(t)
<1>1. Init => Inv
  BY DEF Init, CallOK, NoAnswer, NoEntry, Urls
<1>2. TypeOK /\ Inv /\ [Next]_vars => Inv'
  <2> SUFFICES ASSUME TypeOK, Inv, [Next]_vars, NEW t \in Threads PROVE CallOK(t)'
    OBVIOUS
  <2> QED
    BY StepCall, BeginCall, EnvironmentCall DEF Next
<1> QED
  BY <1>1, <1>2, TypeCorrect, PTL DEF Spec

\* What a call brings back from the network was served while it ran, and it
\* reports "unreachable" only if every URL refused while it ran.
THEOREM FetchSoundness == Spec => []FetchedDuringCall
<1>1. (\A t \in Threads : CallOK(t)) => FetchedDuringCall
  BY DEF CallOK, FetchedDuringCall
<1> QED
  BY <1>1, CallInvariant, PTL

(***************************************************************************)
(* CacheGrounded and AllowIsGrounded.  The record of what was served only  *)
(* grows, and an entry keeps its document, lifetime and URL from the GET   *)
(* that brought it to the cache and to the answers.                        *)
(***************************************************************************)

LEMMA GroundedGrows ==
  ASSUME NEW past, NEW future, past \subseteq future,
         NEW d, NEW e, NEW f, f.doc = e.doc, f.ttl = e.ttl, f.url = e.url,
         Grounded(past, d, e)
  PROVE  Grounded(future, d, f)
BY DEF Grounded

LEMMA GroundedIsOffered ==
  ASSUME NEW past, NEW d, NEW e \in Entry, Grounded(past, d, e)
  PROVE  Offered(past, d, e.doc)
BY DEF Grounded, Offered, Entry

LEMMA OfferedGrows ==
  ASSUME NEW past, NEW future, past \subseteq future,
         NEW d, NEW doc, Offered(past, d, doc)
  PROVE  Offered(future, d, doc)
BY DEF Offered

HandGrounded(t) == hand[t] # NoEntry => Grounded(history, call[t].domain, hand[t])

EntryGrounded(d) == Present(cache, d) => Grounded(history, d, cache[d])

AllowGrounded(t) ==
  answer[t].decision = "allow" =>
    /\ Offered(history, call[t].domain, answer[t].doc)
    /\ \E i \in Matches(answer[t].doc, call[t].action) :
         Permissions[answer[t].doc][i].value \in Grants

LEMMA HistoryGrows ==
  ASSUME [Next]_vars
  PROVE  history \subseteq history'
BY DEF Next, vars, siteVars, threadVars, Step, Begin, Tag, LookupHit, LookupMiss, Receive,
   TryNext, GiveUp, Stamp, Store, Evict, Flush, Hash, Configure, Publish, Tick, Return

LEMMA SiteRecorded ==
  ASSUME TypeOK, Recorded, [Next]_vars, NEW d \in Domains, NEW u \in Urls
  PROVE  <<d, u, site'[d][u]>> \in history'
<1>1. ASSUME NEW e \in Domains, NEW v \in Urls, NEW r \in Responses, Publish(e, v, r)
      PROVE  <<d, u, site'[d][u]>> \in history'
  <2>1. site'[d][u] = IF d = e /\ u = v THEN r ELSE site[d][u]
    BY <1>1 DEF Publish, TypeOK
  <2> QED
    BY <1>1, <2>1 DEF Publish, Recorded
<1>2. CASE ~ \E e \in Domains, v \in Urls, r \in Responses : Publish(e, v, r)
  <2>1. site' = site
    BY <1>2 DEF Next, vars, siteVars, threadVars, Step, Begin, Tag, LookupHit, LookupMiss,
       Receive, TryNext, GiveUp, Stamp, Store, Evict, Flush, Hash, Configure, Tick
  <2> QED
    BY <2>1, HistoryGrows DEF Recorded
<1> QED
  BY <1>1, <1>2

\* Whatever a step does to a thread's hand, the entry there is grounded.
LEMMA HandStep ==
  ASSUME TypeOK, Recorded, [Next]_vars, NEW t \in Threads, CallOK(t), HandGrounded(t)
  PROVE  HandGrounded(t)'
<1>1. CASE Receive(t)
  <2>1. Served(t) \in Responses /\ call[t].domain \in Domains /\ call[t].client \in Clients
    BY <1>1, GetOnRecord DEF Receive, TypeOK, Calls
  <2>2. <<call[t].domain, pc[t], Served(t)>> \in history
    BY <1>1, <2>1 DEF Receive, Recorded, Served
  <2>3. /\ hand'[t].doc = Served(t).doc /\ hand'[t].url = pc[t]
        /\ hand'[t].ttl = EffectiveTTL(call[t].client.ttl, Served(t).header)
        /\ Accepted(pc[t], Served(t)) /\ history' = history /\ call' = call
    BY <1>1 DEF Receive, TypeOK, siteVars
  <2> QED
    BY <2>1, <2>2, <2>3 DEF HandGrounded, Grounded
<1>2. CASE Tick
  <2>1. /\ hand[t] \in Entry \cup {NoEntry} /\ hand'[t] = Older(hand[t])
        /\ history' = history /\ call' = call
    BY <1>2 DEF Tick, siteVars, TypeOK
  <2> QED
    BY <2>1, OlderSound, GroundedGrows DEF HandGrounded
<1>3. CASE Stamp(t)
  <2>1. /\ hand[t] \in Entry \cup {NoEntry} /\ hand'[t] = Stamped(hand[t])
        /\ history' = history /\ call' = call
    BY <1>3 DEF Stamp, siteVars, TypeOK
  <2> QED
    BY <2>1, StampedSound, GroundedGrows DEF HandGrounded
<1>4. CASE \E k \in Kinds, d \in Domains, a \in Actions : Begin(t, k, d, a)
  BY <1>4 DEF Begin, CallOK, HandGrounded
<1>5. CASE /\ ~ Receive(t) /\ ~ Tick /\ ~ Stamp(t)
           /\ ~ \E k \in Kinds, d \in Domains, a \in Actions : Begin(t, k, d, a)
  <2>1. hand'[t] = NoEntry \/ (hand'[t] = hand[t] /\ call'[t] = call[t])
    BY <1>5 DEF Next, vars, threadVars, Step, Begin, Tag, LookupHit, LookupMiss, Receive,
       TryNext, GiveUp, Stamp, Store, Evict, Flush, Hash, Configure, Publish, Return, TypeOK
  <2> QED
    BY <2>1, HistoryGrows, GroundedGrows DEF HandGrounded
<1> QED
  BY <1>1, <1>2, <1>3, <1>4, <1>5

\* Whatever a step does to the cache, the entries there are grounded.
LEMMA CacheStep ==
  ASSUME TypeOK, \A t \in Threads : HandGrounded(t), [Next]_vars,
         NEW d \in Domains, EntryGrounded(d)
  PROVE  EntryGrounded(d)'
<1>1. ASSUME NEW t \in Threads, Store(t) PROVE EntryGrounded(d)'
  <2>1. /\ call[t].domain \in Domains /\ hand[t] \in Entry \cup {NoEntry}
        /\ history' = history
        /\ cache'[d] = IF d = call[t].domain THEN hand[t] ELSE cache[d]
    BY <1>1 DEF Store, AfterSet, TypeOK, Calls
  <2> QED
    BY <2>1 DEF EntryGrounded, HandGrounded, Present
<1>2. CASE Tick
  <2>1. /\ cache[d] \in Entry \cup {NoEntry} /\ cache'[d] = Older(cache[d])
        /\ history' = history
    BY <1>2 DEF Tick, siteVars, TypeOK
  <2> QED
    BY <2>1, OlderSound, GroundedGrows DEF EntryGrounded, Present
<1>3. CASE ~ Tick /\ ~ \E t \in Threads : Store(t)
  <2>1. \A t \in Threads : AfterGet(cache, call[t].domain)[d] \in {cache[d], NoEntry}
                        /\ AfterDelete(cache, call[t].domain)[d] \in {cache[d], NoEntry}
    BY StoreOperations DEF TypeOK, Calls, NoEntry
  <2>2. cache'[d] = NoEntry \/ cache'[d] = cache[d]
    BY <1>3, <2>1 DEF Next, vars, Step, Begin, Tag, LookupHit, LookupMiss, Receive,
       TryNext, GiveUp, Stamp, Store, Evict, Flush, Hash, Configure, Publish, EmptyStore
  <2> QED
    BY <2>2, HistoryGrows, GroundedGrows DEF EntryGrounded, Present
<1> QED
  BY <1>1, <1>2, <1>3

\* An answer taken from a grounded entry is grounded when it allows.
LEMMA AllowReturn ==
  ASSUME TypeOK, NEW t \in Threads, NEW e \in Entry \cup {NoEntry},
         NEW from \in {"cache", "network"}, Return(t, e, from),
         call' = call, history' = history,
         e # NoEntry => Grounded(history, call[t].domain, e)
  PROVE  AllowGrounded(t)'
<1> SUFFICES ASSUME answer'[t].decision = "allow"
             PROVE  /\ Offered(history, call[t].domain, answer'[t].doc)
                    /\ \E i \in Matches(answer'[t].doc, call[t].action) :
                         Permissions[answer'[t].doc][i].value \in Grants
  BY DEF AllowGrounded
<1>1. answer'[t] = AnswerFrom(t, e, from)
  BY DEF Return, TypeOK
<1>2. /\ call[t].kind = "check" /\ answer'[t].doc = e.doc
      /\ Decision(e.doc, call[t].action) = "allow"
  BY <1>1 DEF AnswerFrom
<1>3. call[t].action \in Actions /\ e.doc \in Docs \cup {NoDoc}
  BY DEF TypeOK, Calls, Entry, NoEntry
<1>4. /\ e.doc # NoDoc
      /\ \E i \in Matches(e.doc, call[t].action) : Permissions[e.doc][i].value \in Grants
  BY <1>2, <1>3, DecisionSound
<1>5. e \in Entry /\ e # NoEntry
  BY <1>4, EntryHasDoc
<1> QED
  BY <1>2, <1>4, <1>5, GroundedIsOffered

LEMMA AllowStep ==
  ASSUME TypeOK, [Next]_vars, NEW t \in Threads, CallOK(t), HandGrounded(t), CacheGrounded,
         AllowGrounded(t)
  PROVE  AllowGrounded(t)'
<1>1. CASE LookupHit(t)
  <2>1. /\ call[t].domain \in Domains /\ Present(cache, call[t].domain)
        /\ cache[call[t].domain] \in Entry \cup {NoEntry}
    BY <1>1 DEF LookupHit, Hit, TypeOK, Calls
  <2> QED
    BY <1>1, <2>1, AllowReturn DEF LookupHit, CacheGrounded
<1>2. CASE GiveUp(t)
  BY <1>2, AllowReturn DEF GiveUp
<1>3. CASE Store(t)
  <2>1. hand[t] \in Entry \cup {NoEntry}
    BY DEF TypeOK
  <2> QED
    BY <1>3, <2>1, AllowReturn DEF Store, HandGrounded
<1>4. CASE \E k \in Kinds, d \in Domains, a \in Actions : Begin(t, k, d, a)
  <2>1. PICK k \in Kinds, d \in Domains, a \in Actions : Begin(t, k, d, a)
    BY <1>4
  <2>2. \/ answer'[t] = NoAnswer
        \/ /\ answer'[t] = answer[t]
           /\ call'[t].domain = call[t].domain /\ call'[t].action = call[t].action
    BY <2>1 DEF Begin, TypeOK
  <2> QED
    BY <2>1, <2>2 DEF AllowGrounded, NoAnswer, Begin
<1>5. CASE /\ ~ LookupHit(t) /\ ~ GiveUp(t) /\ ~ Store(t)
           /\ ~ \E k \in Kinds, d \in Domains, a \in Actions : Begin(t, k, d, a)
  <2>1. answer'[t] = answer[t] /\ call'[t] = call[t]
    BY <1>5 DEF Next, vars, threadVars, Step, Begin, Tag, LookupHit, LookupMiss, Receive,
       TryNext, GiveUp, Stamp, Store, Evict, Flush, Hash, Configure, Publish, Tick, Return,
       TypeOK
  <2> QED
    BY <2>1, HistoryGrows, OfferedGrows DEF AllowGrounded
<1> QED
  BY <1>1, <1>2, <1>3, <1>4, <1>5

LEMMA GroundInvariant == Spec => [](Recorded /\ CacheGrounded /\ AllowIsGrounded)
<1> DEFINE Ground == Recorded /\ CacheGrounded /\ AllowIsGrounded
           Calling == \A t \in Threads : CallOK(t)
<1>1. Init => Ground
  BY DEF Init, Recorded, CacheGrounded, AllowIsGrounded, EmptyStore, Present, NoAnswer
<1>2. TypeOK /\ Calling /\ Ground /\ [Next]_vars => Ground'
  <2> SUFFICES ASSUME TypeOK, Calling, Ground, [Next]_vars PROVE Ground'
    OBVIOUS
  <2>1. \A t \in Threads : HandGrounded(t) /\ AllowGrounded(t)
    BY DEF Recorded, HandGrounded, AllowIsGrounded, AllowGrounded
  <2>2. \A d \in Domains : EntryGrounded(d)
    BY DEF CacheGrounded, EntryGrounded
  <2>3. Recorded'
    BY <2>1, SiteRecorded, HandStep DEF Recorded, HandGrounded
  <2>4. CacheGrounded'
    <3>1. \A d \in Domains : EntryGrounded(d)'
      BY <2>1, <2>2, CacheStep
    <3> QED
      BY <3>1 DEF CacheGrounded, EntryGrounded
  <2>5. AllowIsGrounded'
    <3>1. \A t \in Threads : AllowGrounded(t)'
      BY <2>1, AllowStep
    <3> QED
      BY <3>1 DEF AllowIsGrounded, AllowGrounded
  <2> QED
    BY <2>3, <2>4, <2>5
<1> QED
  BY <1>1, <1>2, TypeCorrect, CallInvariant, PTL DEF Spec

\* The inductive invariant holds in every behaviour.
THEOREM InvariantCorrect == Spec => []IInv
<1>1. (\A t \in Threads : CallOK(t)) => CallInv /\ FetchedDuringCall
  BY DEF CallOK, CallInv, FetchedDuringCall
<1> QED
  BY <1>1, TypeCorrect, CallInvariant, GroundInvariant, PTL DEF IInv

\* Every cached entry is what its URL served for that domain, with a lifetime
\* its header and some client's default give.
THEOREM CacheSoundness == Spec => []CacheGrounded
BY GroundInvariant, PTL

\* No check allows an action unless the domain's URLs have served a document
\* that grants it.
THEOREM AllowSoundness == Spec => []AllowIsGrounded
BY GroundInvariant, PTL

(***************************************************************************)
(* How long a call takes.  Left counts the steps a call may still take     *)
(* from each place.                                                        *)
(***************************************************************************)

Left(step) ==
  CASE step = "tag" -> 7
    [] step = "lookup" -> 6
    [] step = "well_known" -> 5
    [] step = "root" -> 4
    [] step = "registry" -> 3
    [] step = "stamp" -> 2
    [] step \in {"store", "evict", "flush", "hash"} -> 1
    [] OTHER -> 0

\* A step of the thread itself takes its call nearer its return.
LEMMA StepTakesOne ==
  ASSUME TypeOK, NEW t \in Threads, Step(t)
  PROVE  Left(pc'[t]) < Left(pc[t])
<1>1. CASE Tag(t)
  BY <1>1 DEF Tag, TypeOK, Left
<1>2. CASE LookupHit(t)
  BY <1>2 DEF LookupHit, Return, TypeOK, Left
<1>3. CASE LookupMiss(t)
  BY <1>3 DEF LookupMiss, TypeOK, Left
<1>4. CASE Receive(t)
  BY <1>4 DEF Receive, TypeOK, Left, Urls
<1>5. CASE TryNext(t)
  BY <1>5 DEF TryNext, NextUrl, TypeOK, Left, Urls
<1>6. CASE GiveUp(t)
  BY <1>6 DEF GiveUp, Return, TypeOK, Left, Urls
<1>7. CASE Stamp(t) \/ Store(t)
  BY <1>7 DEF Stamp, Store, Return, TypeOK, Left
<1>8. CASE Evict(t) \/ Flush(t) \/ Hash(t)
  BY <1>8 DEF Evict, Flush, Hash, TypeOK, Left
<1> QED
  BY <1>1, <1>2, <1>3, <1>4, <1>5, <1>6, <1>7, <1>8 DEF Step

\* Whatever is not a step of a thread inside a call leaves it where it is.
LEMMA OthersTakeNone ==
  ASSUME TypeOK, [Next]_vars, NEW t \in Threads, pc[t] # "idle", ~ Step(t)
  PROVE  pc'[t] = pc[t]
<1>1. ASSUME NEW s \in Threads, Step(s) PROVE pc'[t] = pc[t]
  <2>1. s # t
    BY <1>1
  <2> QED
    BY <1>1, <2>1 DEF TypeOK, Step, Tag, LookupHit, LookupMiss, Receive, TryNext, GiveUp,
       Stamp, Store, Evict, Flush, Hash, Return
<1>2. ASSUME NEW s \in Threads, NEW k \in Kinds, NEW d \in Domains, NEW a \in Actions,
             Begin(s, k, d, a)
      PROVE  pc'[t] = pc[t]
  BY <1>2 DEF Begin, TypeOK
<1>3. ASSUME ~ \E s \in Threads : Step(s),
             ~ \E s \in Threads, k \in Kinds, d \in Domains, a \in Actions : Begin(s, k, d, a)
      PROVE  pc' = pc
  BY <1>3 DEF Next, Configure, Publish, Tick, vars, threadVars
<1> QED
  BY <1>1, <1>2, <1>3

\* A call that has begun is never put back: until it returns, each of its steps
\* brings it nearer its return, at most seven of them, so that no URL is asked
\* twice in one call; and nothing another thread, configure, a site or the clock
\* does moves it (fetch, check, _fetch_raw's loop over its URLs).
THEOREM CallsRunOut ==
  Spec => [][\A t \in Threads :
               pc[t] # "idle" => IF Step(t) THEN Left(pc'[t]) < Left(pc[t])
                                 ELSE pc'[t] = pc[t]]_vars
<1>1. ASSUME TypeOK, [Next]_vars
      PROVE  [\A t \in Threads :
                pc[t] # "idle" => IF Step(t) THEN Left(pc'[t]) < Left(pc[t])
                                  ELSE pc'[t] = pc[t]]_vars
  BY <1>1, StepTakesOne, OthersTakeNone
<1> QED
  BY <1>1, TypeCorrect, PTL DEF Spec

(***************************************************************************)
(* What an undisturbed call answers.                                       *)
(***************************************************************************)

\* The domain's URLs have answered nothing during the call but what they
\* answer now.
Undisturbed(t) == during[t] = {<<u, site[call[t].domain][u]>> : u \in Urls}

\* Only a fetch or a check goes to the network; the registry is behind an entry
\* only where the client has one.
KindOK(t) ==
  /\ pc[t] \in {"evict", "flush", "hash"} => call[t].kind \notin {"fetch", "check"}
  /\ /\ hand[t] # NoEntry
     /\ hand[t].url = "registry"
     => call[t].client.registry

LEMMA KindStep ==
  ASSUME TypeOK, [Next]_vars, NEW t \in Threads, CallOK(t), KindOK(t)
  PROVE  KindOK(t)'
<1>1. CASE Receive(t)
  <2>1. hand'[t].url = pc[t] /\ pc'[t] = "stamp" /\ call' = call
    BY <1>1 DEF Receive, TypeOK
  <2> QED
    BY <2>1 DEF KindOK, CallOK
<1>2. CASE Tick
  <2>1. /\ hand[t] \in Entry \cup {NoEntry} /\ hand'[t] = Older(hand[t])
        /\ pc' = pc /\ call' = call
    BY <1>2 DEF Tick, TypeOK
  <2> QED
    BY <2>1, OlderSound DEF KindOK
<1>3. CASE Stamp(t)
  <2>1. /\ hand[t] \in Entry \cup {NoEntry} /\ hand'[t] = Stamped(hand[t])
        /\ pc'[t] = "store" /\ call' = call
    BY <1>3 DEF Stamp, TypeOK
  <2> QED
    BY <2>1, StampedSound DEF KindOK
<1>4. ASSUME NEW k \in Kinds, NEW d \in Domains, NEW a \in Actions, Begin(t, k, d, a)
      PROVE  KindOK(t)'
  <2>1. /\ pc'[t] = FirstStep(k) /\ call'[t].kind = k /\ hand' = hand
        /\ hand[t] = NoEntry
    BY <1>4 DEF Begin, TypeOK, CallOK
  <2>2. k \in {"fetch", "check"} => FirstStep(k) \notin {"evict", "flush", "hash"}
    BY DEF FirstStep
  <2> QED
    BY <2>1, <2>2 DEF KindOK
<1>5. CASE /\ ~ Receive(t) /\ ~ Tick /\ ~ Stamp(t)
           /\ ~ \E k \in Kinds, d \in Domains, a \in Actions : Begin(t, k, d, a)
  <2>1. hand'[t] \in {NoEntry, hand[t]} /\ call'[t] = call[t]
    BY <1>5 DEF Next, vars, threadVars, Step, Begin, Tag, LookupHit, LookupMiss, Receive,
       TryNext, GiveUp, Stamp, Store, Evict, Flush, Hash, Configure, Publish, Return, TypeOK
  <2>2. pc'[t] \in {"evict", "flush", "hash"} => pc'[t] = pc[t]
    BY <1>5 DEF Next, vars, threadVars, Step, Begin, Tag, LookupHit, LookupMiss, Receive,
       TryNext, GiveUp, Stamp, Store, Evict, Flush, Hash, Configure, Publish, Return, TypeOK,
       Urls
  <2> QED
    BY <2>1, <2>2 DEF KindOK
<1> QED
  BY <1>1, <1>2, <1>3, <1>4, <1>5

LEMMA KindInvariant == Spec => [](\A t \in Threads : KindOK(t))
<1> DEFINE Kind == \A t \in Threads : KindOK(t)
           Calling == \A t \in Threads : CallOK(t)
<1>1. Init => Kind
  BY DEF Init, KindOK, NoEntry
<1>2. TypeOK /\ Calling /\ Kind /\ [Next]_vars => Kind'
  BY KindStep
<1> QED
  BY <1>1, <1>2, TypeCorrect, CallInvariant, PTL DEF Spec

\* In an undisturbed call, a URL that refused during it refuses now.
LEMMA RefusesStill ==
  ASSUME NEW t \in Threads, Undisturbed(t), NEW u \in Urls, RefusedDuring(t, u)
  PROVE  ~ Accepted(u, site[call[t].domain][u])
BY DEF Undisturbed, RefusedDuring

\* The entry such a call has in hand is the one an empty cache would lead to.
LEMMA HandIsCurrent ==
  ASSUME TypeOK, NEW t \in Threads, CallOK(t), KindOK(t), Undisturbed(t), hand[t] # NoEntry
  PROVE  hand[t].doc = Current(call[t].domain, call[t].client)
<1> DEFINE d == call[t].domain
           c == call[t].client
           url == hand[t].url
           tried == IF c.registry THEN Urls ELSE Urls \ {"registry"}
           first == {u \in tried : /\ Accepted(u, site[d][u])
                                   /\ \A v \in Before(u) : ~ Accepted(v, site[d][v])}
<1>1. hand[t] \in Entry /\ url \in Urls
  BY DEF TypeOK, Entry
<1>2. PICK r \in Responses :
        /\ <<url, r>> \in during[t]
        /\ Accepted(url, r)
        /\ r.doc = hand[t].doc
  BY DEF CallOK, ServedDuring
<1>3. r = site[d][url]
  BY <1>2 DEF Undisturbed
<1>4. \A v \in Before(url) : ~ Accepted(v, site[d][v])
  <2>1. Before(url) \subseteq Urls
    BY <1>1 DEF Before, Urls
  <2> QED
    BY <2>1, RefusesStill DEF CallOK
<1>5. url \in tried
  BY <1>1 DEF KindOK
<1>6. \A u \in Urls : u = url \/ u \in Before(url) \/ url \in Before(u)
  BY <1>1 DEF Before, Urls
<1>7. first = {url}
  <2>1. url \in first
    BY <1>2, <1>3, <1>4, <1>5
  <2>2. ASSUME NEW u \in first PROVE u = url
    <3>1. /\ u \in Urls /\ Accepted(u, site[d][u])
          /\ \A v \in Before(u) : ~ Accepted(v, site[d][v])
      OBVIOUS
    <3> QED
      BY <1>2, <1>3, <1>4, <1>6, <3>1
  <2> QED
    BY <2>1, <2>2
<1>8. Current(d, c) = IF first = {} THEN NoDoc ELSE site[d][CHOOSE u \in first : TRUE].doc
  BY DEF Current
<1> HIDE DEF first
<1>9. (CHOOSE u \in first : TRUE) = url
  BY <1>7
<1> QED
  BY <1>2, <1>3, <1>7, <1>8, <1>9

\* Such a call that gives up does so where an empty cache would lead nowhere.
LEMMA NothingIsCurrent ==
  ASSUME TypeOK, NEW t \in Threads, CallOK(t), Undisturbed(t), GiveUp(t)
  PROVE  Current(call[t].domain, call[t].client) = NoDoc
<1> DEFINE d == call[t].domain
<1>1. \A u \in Before(pc[t]) \cup {pc[t]} : RefusedDuring(t, u)
  BY Refusal DEF GiveUp
<1>2. AllUrls(t) \subseteq Before(pc[t]) \cup {pc[t]} /\ AllUrls(t) \subseteq Urls
  BY DEF GiveUp, NextUrl, AllUrls, Before, Urls
<1>3. \A u \in AllUrls(t) : ~ Accepted(u, site[d][u])
  BY <1>1, <1>2, RefusesStill
<1> QED
  BY <1>3 DEF Current, AllUrls

\* An answer from the network comes from Store or GiveUp.
LEMMA NetworkAnswer ==
  ASSUME TypeOK, [Next]_vars, NEW t \in Threads, KindOK(t),
         Answering(t), answer'[t].from = "network"
  PROVE  Store(t) \/ GiveUp(t)
<1>1. Step(t)
  BY OthersTakeNone DEF Answering
<1>2. ~ LookupHit(t)
  BY DEF LookupHit, Return, AnswerFrom, TypeOK
<1>3. ~ Evict(t) /\ ~ Flush(t) /\ ~ Hash(t)
  BY DEF Evict, Flush, Hash, KindOK, Answering
<1>4. /\ ~ Tag(t) /\ ~ LookupMiss(t) /\ ~ Receive(t) /\ ~ TryNext(t) /\ ~ Stamp(t)
  BY DEF Tag, LookupMiss, Receive, TryNext, Stamp, Answering, TypeOK, Urls
<1> QED
  BY <1>1, <1>2, <1>3, <1>4 DEF Step

\* A fetch or a check that goes to the network while its domain's sites stay as
\* they are answers exactly what it would answer alone on an empty cache, whatever
\* the other threads store, evict, flush and configure meanwhile and however long
\* it waits between its requests (fetch, _fetch_raw).
THEOREM QuietCallsAreCurrent ==
  Spec => [][\A t \in Threads :
               /\ Answering(t)
               /\ answer'[t].from = "network"
               /\ Undisturbed(t)
               => answer'[t].doc = Current(call[t].domain, call[t].client)]_vars
<1> DEFINE Calling == \A t \in Threads : CallOK(t)
           Kind == \A t \in Threads : KindOK(t)
           Quiet == \A t \in Threads :
                      /\ Answering(t)
                      /\ answer'[t].from = "network"
                      /\ Undisturbed(t)
                      => answer'[t].doc = Current(call[t].domain, call[t].client)
<1>1. TypeOK /\ Calling /\ Kind /\ [Next]_vars => Quiet
  <2> SUFFICES ASSUME TypeOK, Calling, Kind, [Next]_vars, NEW t \in Threads,
                      Answering(t), answer'[t].from = "network", Undisturbed(t)
               PROVE  answer'[t].doc = Current(call[t].domain, call[t].client)
    OBVIOUS
  <2>1. CASE Store(t)
    <3>1. answer'[t] = AnswerFrom(t, hand[t], "network") /\ hand[t] # NoEntry
      BY <2>1 DEF Store, Return, TypeOK, CallOK
    <3>2. answer'[t].doc = hand[t].doc
      BY <3>1 DEF AnswerFrom, Answering
    <3> QED
      BY <3>1, <3>2, HandIsCurrent
  <2>2. CASE GiveUp(t)
    <3>1. answer'[t] = AnswerFrom(t, NoEntry, "network")
      BY <2>2 DEF GiveUp, Return, TypeOK
    <3>2. answer'[t].doc = NoDoc
      BY <3>1 DEF AnswerFrom, Answering, NoEntry
    <3> QED
      BY <2>2, <3>2, NothingIsCurrent
  <2> QED
    BY <2>1, <2>2, NetworkAnswer
<1> QED
  BY <1>1, TypeCorrect, CallInvariant, KindInvariant, PTL DEF Spec
=============================================================================

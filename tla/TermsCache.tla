------------------------------ MODULE TermsCache ------------------------------
(***************************************************************************)
(* permissions/cache.py: the store shared by every client, as a function   *)
(* from domains to entries.  Each operation runs under the cache's lock,   *)
(* so each is one operator on the whole store.  The clock is only ever     *)
(* compared with fetched_at, so an entry carries its age, which stops      *)
(* growing at MaxAge.                                                      *)
(***************************************************************************)
EXTENDS TermsDocument

CONSTANTS
  Domains,   \* normalised domain names
  MaxAge     \* bound: ages are exact below it, and every lifetime is

ASSUME CacheAssumption == Domains # {} /\ MaxAge \in Nat

Ages == 0 .. MaxAge
TTLs == Nat

\* data and content_hash together are the document; url is where it came from.
Entry == [doc: Docs, ttl: TTLs, age: Ages, url: Urls]

NoEntry == [doc |-> NoDoc, ttl |-> 0, age |-> 0, url |-> "well_known"]

IsExpired(entry) == entry.ttl > 0 /\ entry.age > entry.ttl

Present(store, d) == store[d] # NoEntry

\* get answers the entry exactly when this holds ...
Hit(store, d) == Present(store, d) /\ ~ IsExpired(store[d])

\* ... and evicts an expired entry on the way.
AfterGet(store, d) ==
  IF Present(store, d) /\ IsExpired(store[d])
  THEN [store EXCEPT ![d] = NoEntry]
  ELSE store

\* Slip: an overwritten entry keeps its old lifetime.
AfterSetKeepsTTL(store, d, entry) ==
  [store EXCEPT ![d] = [entry EXCEPT !.ttl = IF Present(store, d)
                                             THEN store[d].ttl ELSE @]]

AfterSet(store, d, entry) == [store EXCEPT ![d] = entry]

AfterDelete(store, d) == [store EXCEPT ![d] = NoEntry]

EmptyStore == [d \in Domains |-> NoEntry]

\* The entry as it is when fetched_at is set to now.
Stamped(entry) == [entry EXCEPT !.age = 0]

Older(entry) ==
  IF entry = NoEntry \/ entry.age = MaxAge
  THEN entry
  ELSE [entry EXCEPT !.age = @ + 1]
=============================================================================

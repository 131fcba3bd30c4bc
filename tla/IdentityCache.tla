--------------------------- MODULE IdentityCache ---------------------------
(***************************************************************************)
(* The LRU cache with expiry of pkg/resolver/cache.go, as operators.  A    *)
(* cache is the evictList, most recently used entry first; the map from    *)
(* keys to elements follows from it.  Every method runs under the mutex,   *)
(* so a call is one application of an operator.                            *)
(*                                                                         *)
(* Time is relative: `left` is what remains until expiresAt, negative once *)
(* the entry has expired.  `age` is not in the code: how long ago the      *)
(* value was read from where it is true.                                   *)
(***************************************************************************)
EXTENDS Integers, SequencesExt

KeysOf(c) == {c[i].key : i \in DOMAIN c}

PositionOf(c, k) == CHOOSE i \in DOMAIN c : c[i].key = k

(* removeElement. *)
Removed(c, k) == IF k \in KeysOf(c) THEN RemoveAt(c, PositionOf(c, k)) ELSE c

EntryOf(c, k) == c[PositionOf(c, k)]

(* time.Now().After(entry.expiresAt): not yet at the very moment.              *)
Expired(e) == e.left < 0

(* Fault: an expired entry is returned. *)
HitWhateverAge(c, k) == k \in KeysOf(c)

(* What Get asks for: present and not expired.                                 *)
Hit(c, k) == k \in KeysOf(c) /\ ~Expired(EntryOf(c, k))

(* Fault: a hit leaves the order alone. *)
GetInPlace(c, k) == IF Hit(c, k) THEN c ELSE Removed(c, k)

(* What Get leaves: a hit comes to the front, an expired entry goes.           *)
Get(c, k) == IF Hit(c, k) THEN <<EntryOf(c, k)>> \o Removed(c, k) ELSE Removed(c, k)

(* Fault: one entry too many. *)
SetOneTooMany(c, capacity, k, v, ttl, age) ==
  <<[key |-> k, val |-> v, left |-> ttl, age |-> age]>> \o
    (IF k \in KeysOf(c) THEN Removed(c, k)
     ELSE IF Len(c) > capacity THEN RemoveAt(c, Len(c))
     ELSE c)

(* Set with a fresh TTL: an entry for the key is replaced, and otherwise the   *)
(* last of a full list goes, expired or not.                                   *)
Set(c, capacity, k, v, ttl, age) ==
  <<[key |-> k, val |-> v, left |-> ttl, age |-> age]>> \o
    (IF k \in KeysOf(c) THEN Removed(c, k)
     ELSE IF Len(c) >= capacity THEN RemoveAt(c, Len(c))
     ELSE c)

(* A moment passes; an expired entry only waits for its removal.               *)
Older(e) == IF Expired(e) THEN e ELSE [e EXCEPT !.left = @ - 1, !.age = @ + 1]

Aged(c) == [i \in DOMAIN c |-> Older(c[i])]

CacheOK(c, capacity) ==
  /\ Len(c) <= capacity
  /\ \A i, j \in DOMAIN c : c[i].key = c[j].key => i = j
=============================================================================

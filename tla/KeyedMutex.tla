----------------------------- MODULE KeyedMutex -----------------------------
(***************************************************************************)
(* What photoProcessor.lock promises its callers: one mutex per photo key, *)
(* as if there were a mutex for every key that could ever exist.  A caller *)
(* either gets the key for itself, or gives up because its context ended.  *)
(***************************************************************************)
CONSTANTS Caller, Key, NoKey

VARIABLES asked,    \* asked[c]: the key caller c has asked for, or NoKey
          owner     \* owner[c]: the key caller c owns, or NoKey

kmVars == <<asked, owner>>

KMInit == /\ asked = [c \in Caller |-> NoKey]
          /\ owner = [c \in Caller |-> NoKey]

Ask(c, k) == /\ asked[c] = NoKey
             /\ asked' = [asked EXCEPT ![c] = k]
             /\ UNCHANGED owner

\* The key is granted only when nobody owns it.
Grant(c) == /\ asked[c] # NoKey
            /\ owner[c] = NoKey
            /\ \A d \in Caller : owner[d] # asked[c]
            /\ owner' = [owner EXCEPT ![c] = asked[c]]
            /\ UNCHANGED asked

\* Giving up while waiting and giving the key back look the same from outside,
\* except that an owner stops owning first.
Yield(c) == /\ owner[c] # NoKey
            /\ owner' = [owner EXCEPT ![c] = NoKey]
            /\ UNCHANGED asked

Forget(c) == /\ asked[c] # NoKey
             /\ owner[c] = NoKey
             /\ asked' = [asked EXCEPT ![c] = NoKey]
             /\ UNCHANGED owner

KMNext == \E c \in Caller : \/ \E k \in Key : Ask(c, k)
                            \/ Grant(c)
                            \/ Yield(c)
                            \/ Forget(c)

KMSpec == KMInit /\ [][KMNext]_kmVars
=============================================================================

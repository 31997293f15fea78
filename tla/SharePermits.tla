---------------------------- MODULE SharePermits ----------------------------
(***************************************************************************)
(* What sharing an original promises its owner: a link shows the bytes it  *)
(* was granted for and nothing else, only while its permit lasts, and a    *)
(* link that has ended never works again.                                  *)
(***************************************************************************)
CONSTANTS Photo, Token, Bytes, NoPermit

VARIABLES permit,   \* permit[p]: the token and bytes p is shared with, or NoPermit
          used,     \* tokens ever granted
          served    \* what visitors were shown: pairs of a token and bytes

spVars == <<permit, used, served>>

SPInit == /\ permit = [p \in Photo |-> NoPermit]
          /\ used = {}
          /\ served = {}

Grant(p, n, b) ==
  /\ permit[p] = NoPermit
  /\ n \notin used
  /\ permit' = [permit EXCEPT ![p] = [token |-> n, bytes |-> b]]
  /\ used' = used \cup {n}
  /\ UNCHANGED served

End(p) ==
  /\ permit[p] # NoPermit
  /\ permit' = [permit EXCEPT ![p] = NoPermit]
  /\ UNCHANGED <<used, served>>

Serve(p) ==
  /\ permit[p] # NoPermit
  /\ served' = served \cup {<<permit[p].token, permit[p].bytes>>}
  /\ UNCHANGED <<permit, used>>

SPNext == \E p \in Photo : \/ \E n \in Token, b \in Bytes : Grant(p, n, b)
                           \/ End(p)
                           \/ Serve(p)

SPSpec == SPInit /\ [][SPNext]_spVars
=============================================================================

----------------------------- MODULE MCMonitor -----------------------------
(* Small instances of Monitor for TLC.                                     *)
EXTENDS Monitor

\* Calls begin at the first reading of the clock: chirps made before matter to none that
\* begins later.  The clock shows no more readings than there are chirps to tell apart.
\* Users differ in nothing: the first who chirps is always the same.  No handler of
\* follow is at work after a registration has made the store forget somebody's latest
\* chirp: ids and lists have no key in common.
Forgotten(u) ==
  userId[u] = None /\ \E i \in DOMAIN chirps \ unpublished : chirps[i].username = u

Bound ==
  /\ (\E u \in User : Forgotten(u)) => extended = {}
  /\ clock > 1 \/ chirps # <<>> => \A c \in Caller : pc[c] # "idle"
  /\ clock <= Len(chirps) + 2
  /\ chirps # <<>> => chirps[1].username = CHOOSE u \in User : TRUE
=============================================================================

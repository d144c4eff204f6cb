------------------------------ MODULE SymbolFeed ------------------------------
(***************************************************************************)
(* What the Aggregator promises the Profile service about one symbol's     *)
(* price stream, without goroutines, retries or channels: who wants the    *)
(* symbol, and whether a feed for it is off, on, or told to close and not  *)
(* yet gone.  StreamManager implements this (StreamManager!RefinesFeed).   *)
(***************************************************************************)
CONSTANTS Symbols, Users

VARIABLES interest,  \* [Symbols -> SUBSET Users]
          feed       \* [Symbols -> {"off", "on", "closing"}]

feedVars == <<interest, feed>>

FeedInit == /\ interest = [s \in Symbols |-> {}]
            /\ feed = [s \in Symbols |-> "off"]

(* A user who did not want s now does; a feed is opened only when there is *)
(* none, not even one that is still closing.                               *)
Follow(s, u) ==
    /\ u \notin interest[s]
    /\ interest' = [interest EXCEPT ![s] = @ \cup {u}]
    /\ feed' = [feed EXCEPT ![s] = IF @ = "off" THEN "on" ELSE @]

(* The last user who leaves, and no other, closes the feed. *)
Unfollow(s, u) ==
    /\ interest' = [interest EXCEPT ![s] = @ \ {u}]
    /\ feed' = [feed EXCEPT ![s] = IF @ = "on" /\ interest'[s] = {} THEN "closing" ELSE @]

(* A feed ends because it was closed or because its source failed. *)
End(s) ==
    /\ feed[s] # "off"
    /\ feed' = [feed EXCEPT ![s] = "off"]
    /\ UNCHANGED interest

(* All feeds end with the process that has them. *)
EndAll ==
    /\ feed' = [s \in Symbols |-> "off"]
    /\ UNCHANGED interest

FeedNext ==
    \/ \E s \in Symbols : End(s) \/ \E u \in Users : Follow(s, u) \/ Unfollow(s, u)
    \/ EndAll

(* Only a feed that was told to close is sure to end. *)
FeedFairness == \A s \in Symbols : WF_feedVars(feed[s] = "closing" /\ End(s))

FeedSpec == FeedInit /\ [][FeedNext]_feedVars /\ FeedFairness
===============================================================================

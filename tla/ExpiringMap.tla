---------------------------- MODULE ExpiringMap ----------------------------
(***************************************************************************)
(* What a cache with a time to live promises: an entry can be read for as  *)
(* long as it has time left and never afterwards, though its key may still *)
(* be counted until somebody looks it up or has the map cleaned.           *)
(***************************************************************************)
EXTENDS Naturals

CONSTANTS
  Keys, Results, Ttls, None,
  Size(_)   \* how many keys a set has

VARIABLES
  entry,    \* entry[k]: None, or a result and the time it has left
  held,     \* the keys that are counted
  answer    \* what the last lookup or count returned

mapVars == <<entry, held, answer>>

Init == entry = [k \in Keys |-> None] /\ held = {} /\ answer = None

Put(k, r, ttl) ==
  /\ entry' = [entry EXCEPT ![k] = [result |-> r, left |-> ttl]]
  /\ held' = held \cup {k}
  /\ UNCHANGED answer

Lookup(k) ==
  /\ answer' = IF entry[k] = None THEN None ELSE entry[k].result
  /\ held' = IF entry[k] = None THEN held \ {k} ELSE held
  /\ UNCHANGED entry

Erase(S) ==
  /\ entry' = [k \in Keys |-> IF k \in S THEN None ELSE entry[k]]
  /\ held' = held \ S
  /\ UNCHANGED answer

Clean == held' = {k \in held : entry[k] # None} /\ UNCHANGED <<entry, answer>>

Count == answer' = Size(held) /\ UNCHANGED <<entry, held>>

Age ==
  /\ entry' = [k \in Keys |-> IF entry[k] = None \/ entry[k].left = 0 THEN None
                              ELSE [entry[k] EXCEPT !.left = @ - 1]]
  /\ UNCHANGED <<held, answer>>

Next ==
  \/ \E k \in Keys, r \in Results, ttl \in Ttls : Put(k, r, ttl)
  \/ \E k \in Keys : Lookup(k) \/ Erase({k})
  \/ Erase(Keys) \/ Clean \/ Count \/ Age

Spec == Init /\ [][Next]_mapVars

=============================================================================

--------------------------- MODULE StoreContract ---------------------------
(***************************************************************************)
(* What KV promises a Worker that loads a card store: some manifest can be *)
(* loaded from the first publish on, each one names a family whose chunks  *)
(* are all there, and the chunks of a published family never change while  *)
(* it is published.  The exceptions are counted: each slip to come, once,  *)
(* takes a published family and a rollback out of the promise, or puts an  *)
(* earlier store back over the one a key publishes.  StorePublish          *)
(* implements this.                                                        *)
(***************************************************************************)
CONSTANTS Keys,      \* Where a manifest can be published.
          Families,  \* The stores ever built.
          Parts,     \* The parts a whole store has.
          NoFamily   \* What a key that publishes nothing names.

VARIABLES store,     \* Family -> its parts present.
          live,      \* Manifest key -> the family it publishes.
          astray,    \* The families the promise no longer covers.
          toCome     \* The slips that may still happen.

contractVars == <<store, live, astray, toCome>>

Whole(f) == Parts \subseteq store[f]
LiveNow == {live[k] : k \in Keys} \ {NoFamily}

Init ==
    /\ store \in [Families -> SUBSET Parts]
    /\ live \in [Keys -> Families \cup {NoFamily}]
    /\ \A f \in LiveNow : Whole(f)
    /\ astray = {}

\* One write of a manifest key, or a retirement of several: each key keeps its
\* family, takes a whole one or goes, and never does the last one go.
Publish ==
    /\ live' \in [Keys -> Families \cup {NoFamily}]
    /\ \A k \in Keys :
          live'[k] \in {live[k], NoFamily} \cup {f \in Families : f \in astray \/ Whole(f)}
    /\ LiveNow # {} => \E k \in Keys : live'[k] # NoFamily
    /\ UNCHANGED <<store, astray>>

\* A writer adds parts, or a sweep takes them, of families nobody reads.
Store ==
    /\ store' \in [Families -> SUBSET Parts]
    /\ \A f \in LiveNow \ astray : store'[f] = store[f]
    /\ UNCHANGED <<live, astray>>

\* A sweep loses sight of one published family, of a rollback, or of both.
Overlook(f, g) ==
    /\ astray' = astray \cup {f, g}
    /\ UNCHANGED <<store, live>>

\* A key is put back to a store read earlier; the rollback of that one may be
\* gone with the one it covers.
PutBack(k, f, g) ==
    /\ live' = [live EXCEPT ![k] = f]
    /\ astray' = astray \cup ({live[k], f, g} \ {NoFamily})
    /\ UNCHANGED store

Slip ==
    /\ toCome' # toCome
    /\ \/ \E f, g \in Families : Overlook(f, g)
       \/ \E k \in Keys, f \in Families, g \in Families \cup {NoFamily} : PutBack(k, f, g)

Next == toCome' \subseteq toCome /\ (Publish \/ Store \/ Slip)

Spec == Init /\ [][Next]_contractVars
=============================================================================

------------------------------- MODULE PathStore -------------------------------
(***************************************************************************)
(* What the clients of a zipper head may observe: one mapping from paths   *)
(* to values, who may write which part of it, and for each reader or map   *)
(* taken out of it the contents that were below some path at one moment.   *)
(* A view never changes while it is held, and the mapping changes only by  *)
(* writes of writers below their own paths.  No nodes, no sharing, no      *)
(* preparing or pruning of paths.                                          *)
(***************************************************************************)
EXTENDS SequencesExt

CONSTANTS StorePath,  \* the paths that can carry a value
          StoreVal,   \* the values
          Client,     \* who can write or hold a view
          Nothing     \* state of a client that does not

VARIABLES store,      \* the values of the trie, by path
          view,       \* Client -> Nothing or the values it sees, by path
          writing     \* Client -> Nothing or the path it writes below

storeVars == <<store, view, writing>>

\* The part of w below p, with the paths it has as seen from p.
SubStore(w, p) == [q \in {r \in StorePath : p \o r \in DOMAIN w} |-> w[p \o q]]

\* w with everything below p replaced by x.
Replaced(w, p, x) ==
    LET kept == {q \in DOMAIN w : ~IsPrefix(p, q)}
    IN [q \in kept \cup {p \o r : r \in DOMAIN x} |->
            IF q \in kept THEN w[q] ELSE x[SubSeq(q, Len(p) + 1, Len(q))]]

With(w, p, v) == [q \in DOMAIN w \cup {p} |-> IF q = p THEN v ELSE w[q]]
Without(w, p) == Restrict(w, DOMAIN w \ {p})

\* The outcomes of one write at a path of P: a value is set or removed, or what is
\* seen by a client, or is elsewhere in the store, takes the place of all below.
Writes(w, P, views) ==
    {With(w, p, v) : p \in P, v \in StoreVal}
        \cup {Without(w, p) : p \in P}
        \cup {Replaced(w, p, x) : p \in P, x \in views \cup {SubStore(w, q) : q \in StorePath}}

StoreInit == /\ store = <<>>
             /\ view = [i \in Client |-> Nothing]
             /\ writing = [i \in Client |-> Nothing]

Write(i) ==
    /\ writing[i] # Nothing
    /\ store' \in Writes(store, {p \in StorePath : IsPrefix(writing[i], p)},
                         {view[j] : j \in Client} \ {Nothing})
    /\ UNCHANGED <<view, writing>>

Begin(i, p) ==
    /\ writing[i] = Nothing
    /\ \A j \in Client : writing[j] # Nothing
            => ~IsPrefix(p, writing[j]) /\ ~IsPrefix(writing[j], p)
    /\ writing' = [writing EXCEPT ![i] = p]
    /\ UNCHANGED <<store, view>>

End(i) ==
    /\ writing' = [writing EXCEPT ![i] = Nothing]
    /\ UNCHANGED <<store, view>>

\* One client starts to see the store below some path, or what another one sees.
Look(i) ==
    /\ view[i] = Nothing
    /\ \/ \E p \in StorePath : view' = [view EXCEPT ![i] = SubStore(store, p)]
       \/ \E j \in Client : view' = [view EXCEPT ![i] = view[j]]
    /\ UNCHANGED <<store, writing>>

\* A writer becomes a reader.
Downgrade(i) ==
    /\ writing[i] # Nothing
    /\ view' = [view EXCEPT ![i] = SubStore(store, writing[i])]
    /\ writing' = [writing EXCEPT ![i] = Nothing]
    /\ UNCHANGED store

Forget(i) ==
    /\ view' = [view EXCEPT ![i] = Nothing]
    /\ UNCHANGED <<store, writing>>

StoreNext ==
    \E i \in Client :
        \/ store' # store /\ Write(i)
        \/ writing' # writing /\ (End(i) \/ Downgrade(i) \/ \E p \in StorePath : Begin(i, p))
        \/ view' # view /\ (Look(i) \/ Forget(i))

StoreSpec == StoreInit /\ [][StoreNext]_storeVars
===============================================================================

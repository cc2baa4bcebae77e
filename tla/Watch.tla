-------------------------------- MODULE Watch --------------------------------
(***************************************************************************)
(* A kind of objects at the API server of kubernetes, and one process that *)
(* follows it with a shared informer of client-go.  All of it is external  *)
(* to the repository and modelled by how its operators and controllers use *)
(* it: listers read a cache, and each handler added to the informer gets   *)
(* every change, in order, on a goroutine of its own.                      *)
(*                                                                         *)
(* A watch is a record: base, the objects before everything in log; log,   *)
(* the changes that the slowest reader has not seen; pos, how much of log  *)
(* each reader has seen.  The cache is the reader "lister", and no other   *)
(* reader is ahead of it.                                                  *)
(***************************************************************************)
EXTENDS Naturals, Sequences, SequencesExt, FiniteSetsExt

CONSTANT Gone      \* the state of an object that does not exist

\* lost: a deletion found by listing, not by watching (cache.DeletedFinalStateUnknown)
Changes(keys, values) == [key : keys, val : values, lost : BOOLEAN]

Watches(keys, values, readers) ==
  [base : [keys -> values], log : Seq(Changes(keys, values)), pos : [readers -> Nat]]

StartWatch(objects, readers) ==
  [base |-> objects, log |-> <<>>, pos |-> [r \in readers |-> 0]]

\* An object after the first n changes of the log.
After(w, n, k) ==
  LET i == SelectLastInSubSeq(w.log, 1, n, LAMBDA c : c.key = k)
  IN IF i = 0 THEN w.base[k] ELSE w.log[i].val

\* What the API server has, what a lister shows, what a handler was told last.
Object(w, k)  == After(w, Len(w.log), k)
Seen(w, r, k) == After(w, w.pos[r], k)
Listed(w, k)  == Seen(w, "lister", k)

Change(w, k, v) == [w EXCEPT !.log = Append(@, [key |-> k, val |-> v, lost |-> FALSE])]

Reads(w, r)   == r \in DOMAIN w.pos
Behind(w, r)  == Reads(w, r) /\ w.pos[r] < Len(w.log)
CanRead(w, r) == Reads(w, r) /\ w.pos[r] < w.pos["lister"]
Synced(w, r)  == Reads(w, r) /\ w.pos[r] = Len(w.log)
Event(w, r)   == w.log[w.pos[r] + 1]

\* Changes that every reader has seen are folded into base.
Trim(w) ==
  LET n == Min({w.pos[r] : r \in DOMAIN w.pos})
  IN [base |-> [k \in DOMAIN w.base |-> After(w, n, k)],
      log  |-> SubSeq(w.log, n + 1, Len(w.log)),
      pos  |-> [r \in DOMAIN w.pos |-> w.pos[r] - n]]

Read(w, r) == Trim([w EXCEPT !.pos[r] = @ + 1])

\* The watch breaks and the informer lists: of the changes that it has not seen, it
\* learns the last one of each object, and a deletion only by the object's absence.  The
\* result is the only member of the set: the order is that of the log.
Relisted(w) ==
  LET n == w.pos["lister"]
      last == {i \in n + 1..Len(w.log) :
                 /\ \A j \in i + 1..Len(w.log) : w.log[j].key # w.log[i].key
                 /\ {w.log[i].val, Listed(w, w.log[i].key)} # {Gone}}
      told == [i \in last |-> [w.log[i] EXCEPT !.lost = @ \/ w.log[i].val = Gone]]
      orders == {f \in [1..Cardinality(last) -> last] :
                   \A i, j \in DOMAIN f : i < j => f[i] < f[j]}
  IN {[w EXCEPT !.log = SubSeq(@, 1, n) \o [i \in DOMAIN f |-> told[f[i]]]] : f \in orders}

\* The process starts again: the cache is filled before anything else happens, and
\* every object there is is added to every handler.
Restart(w) ==
  LET there == SetToSeq({k \in DOMAIN w.base : Object(w, k) # Gone})
  IN [base |-> [k \in DOMAIN w.base |-> Gone],
      log  |-> [i \in DOMAIN there |->
                  [key |-> there[i], val |-> Object(w, there[i]), lost |-> FALSE]],
      pos  |-> [r \in DOMAIN w.pos |-> IF r = "lister" THEN Len(there) ELSE 0]]
=============================================================================

--------------------------- MODULE OperatorProofs ---------------------------
(* What holds of the process of src/cmd/operator, for every set of         *)
(* funcinsts and of triggers, and any number of calls and of events.       *)
EXTENDS FuncinstOperator, WatchProofs

-----------------------------------------------------------------------------
(* CredSyncer has a copy of its own of the watch; both copies are of the   *)
(* same operations.                                                        *)

(* The operations of the syncer on a watch are those of the operator.      *)
LEMMA SameSyncer ==
  /\ \A w, k, v : Syncer!Change(w, k, v) = Change(w, k, v)
  /\ \A w, r : /\ Syncer!Event(w, r) = Event(w, r)
               /\ Syncer!Behind(w, r) = Behind(w, r)
               /\ Syncer!CanRead(w, r) = CanRead(w, r)
               /\ Syncer!Synced(w, r) = Synced(w, r)
  /\ \A w, r : Syncer!Read(w, r) = Read(w, r)
  /\ \A w, k : Syncer!Object(w, k) = Object(w, k)
  /\ \A w, r, k : Syncer!Seen(w, r, k) = Seen(w, r, k)
  /\ \A w : Syncer!Restart(w) = Restart(w)
  /\ \A w, r : Syncer!StartWatch(w, r) = StartWatch(w, r)
  /\ \A K, V, R : Syncer!Watches(K, V, R) = Watches(K, V, R)
<1>1. \A w, k, v : Syncer!Change(w, k, v) = Change(w, k, v)
  BY DEF Syncer!Change, Change
<1>2. \A w, r : /\ Syncer!Event(w, r) = Event(w, r)
                /\ Syncer!Behind(w, r) = Behind(w, r)
                /\ Syncer!CanRead(w, r) = CanRead(w, r)
                /\ Syncer!Synced(w, r) = Synced(w, r)
  BY DEF Syncer!Event, Event, Syncer!Reads, Reads, Syncer!Behind, Behind,
         Syncer!CanRead, CanRead, Syncer!Synced, Synced
<1>3. \A w, n, k : Syncer!After(w, n, k) = After(w, n, k)
  BY DEF Syncer!After, After, Syncer!SelectLastInSubSeq, SelectLastInSubSeq,
         Syncer!Max, Max
<1>4. \A w, k : Syncer!Object(w, k) = Object(w, k)
  BY <1>3 DEF Syncer!Object, Object
<1>5. \A w, r, k : Syncer!Seen(w, r, k) = Seen(w, r, k)
  BY <1>3 DEF Syncer!Seen, Seen
<1>6. ASSUME NEW w
      PROVE  Syncer!Trim(w) = Trim(w)
  <2> DEFINE n == Syncer!Min({w.pos[r] : r \in DOMAIN w.pos})
  <2>1. n = Min({w.pos[r] : r \in DOMAIN w.pos})
    BY DEF Syncer!Min, Min
  <2>2. Syncer!Trim(w) = [base |-> [k \in DOMAIN w.base |-> Syncer!After(w, n, k)],
                          log  |-> SubSeq(w.log, n + 1, Len(w.log)),
                          pos  |-> [r \in DOMAIN w.pos |-> w.pos[r] - n]]
    BY DEF Syncer!Trim
  <2>3. Trim(w) = [base |-> [k \in DOMAIN w.base |-> After(w, n, k)],
                   log  |-> SubSeq(w.log, n + 1, Len(w.log)),
                   pos  |-> [r \in DOMAIN w.pos |-> w.pos[r] - n]]
    BY <2>1 DEF Trim
  <2> HIDE DEF n
  <2> QED
    BY <1>3, <2>2, <2>3
<1>7. \A w, r : Syncer!Read(w, r) = Read(w, r)
  BY <1>6 DEF Syncer!Read, Read
<1>8. ASSUME NEW w
      PROVE  Syncer!Restart(w) = Restart(w)
  <2> DEFINE are == {k \in DOMAIN w.base : Object(w, k) # Gone}
             there == SetToSeq(are)
  <2>1. Syncer!SetToSeq({k \in DOMAIN w.base : Syncer!Object(w, k) # Gone}) = there
    <3>1. {k \in DOMAIN w.base : Syncer!Object(w, k) # Gone} = are
      BY <1>4
    <3>2. Syncer!SetToSeq(are) = SetToSeq(are)
      BY DEF Syncer!SetToSeq, SetToSeq, Syncer!IsInjective, IsInjective,
             Syncer!Cardinality, Cardinality
    <3> QED
      BY <3>1, <3>2
  <2>2. Syncer!Restart(w) = [base |-> [k \in DOMAIN w.base |-> Gone],
                             log  |-> [i \in DOMAIN there |->
                               [key |-> there[i], val |-> Syncer!Object(w, there[i]),
                                lost |-> FALSE]],
                             pos  |-> [r \in DOMAIN w.pos |->
                               IF r = "lister" THEN Len(there) ELSE 0]]
    BY <2>1 DEF Syncer!Restart
  <2>3. Restart(w) = [base |-> [k \in DOMAIN w.base |-> Gone],
                      log  |-> [i \in DOMAIN there |->
                        [key |-> there[i], val |-> Object(w, there[i]), lost |-> FALSE]],
                      pos  |-> [r \in DOMAIN w.pos |->
                        IF r = "lister" THEN Len(there) ELSE 0]]
    BY DEF Restart
  <2> HIDE DEF there
  <2>4. [i \in DOMAIN there |->
           [key |-> there[i], val |-> Syncer!Object(w, there[i]), lost |-> FALSE]]
        = [i \in DOMAIN there |->
             [key |-> there[i], val |-> Object(w, there[i]), lost |-> FALSE]]
    BY <1>4
  <2> QED
    BY <2>2, <2>3, <2>4
<1>9. /\ \A w, r : Syncer!StartWatch(w, r) = StartWatch(w, r)
      /\ \A K, V, R : Syncer!Watches(K, V, R) = Watches(K, V, R)
  BY DEF Syncer!StartWatch, StartWatch, Syncer!Watches, Watches, Syncer!Changes, Changes
<1> QED
  BY <1>1, <1>2, <1>4, <1>5, <1>7, <1>8, <1>9

-----------------------------------------------------------------------------
(* A watch whose log is about some of the objects only; of the others it   *)
(* knows that they are gone.                                               *)
About(w, keys, A, B) ==
  /\ \A k \in keys \ A : w.base[k] = Gone
  /\ w.log \in Seq(Changes(A, B))

(* No change was missed by watching.                                       *)
Honest(w) == \A i \in 1..Len(w.log) : ~w.log[i].lost

LEMMA IsTold ==
  ASSUME NEW w, NEW keys, NEW A, NEW B, About(w, keys, A, B)
  PROVE  \A i \in 1..Len(w.log) : w.log[i].key \in A /\ w.log[i].val \in B
<1> DEFINE S == Changes(A, B)
<1>1. w.log \in Seq(S)
  BY DEF About
<1> HIDE DEF S
<1>2. \A i \in 1..Len(w.log) : w.log[i] \in S
  BY <1>1
<1> QED
  BY <1>2 DEF S, Changes

LEMMA AboutOthers ==
  ASSUME NEW keys, NEW values, NEW readers, NEW w, Followed(w, keys, values, readers),
         NEW A, NEW B, About(w, keys, A, B)
  PROVE  /\ \A k \in keys \ A, n \in 0..Len(w.log) : After(w, n, k) = Gone
         /\ \A k \in keys \ A : Object(w, k) = Gone
         /\ \A k \in keys \ A, r \in readers : Seen(w, r, k) = Gone
<1>1. /\ Len(w.log) \in Nat /\ \A i \in 1..Len(w.log) : w.log[i].key \in A
      /\ \A r \in readers : w.pos[r] \in 0..Len(w.log)
  BY IsTold DEF Followed, Watches
<1>2. ASSUME NEW k \in keys \ A, NEW n \in 0..Len(w.log)
      PROVE  After(w, n, k) = Gone
  <2>1. n \in Nat /\ \A i \in 1..n : w.log[i].key # k
    BY <1>1
  <2> QED
    BY <2>1, AfterIs DEF About
<1> QED
  BY <1>1, <1>2 DEF Object, Seen

(* What there is, and what any reader knows, is gone or was told.          *)
LEMMA AboutKeeps ==
  ASSUME NEW keys, NEW values, NEW readers, NEW w, Followed(w, keys, values, readers),
         NEW A, NEW B, About(w, keys, A, B), Gone \notin B, NEW k
  PROVE  /\ \A m, n \in 0..Len(w.log) : n <= m /\ After(w, n, k) # Gone => After(w, m, k) # Gone
         /\ \A r \in readers : Seen(w, r, k) # Gone => Object(w, k) # Gone
<1>1. /\ Len(w.log) \in Nat
      /\ \A r \in readers : w.pos[r] \in 0..Len(w.log)
  BY DEF Followed, Watches
<1>2. \A i \in 1..Len(w.log) : w.log[i].val # Gone
  BY IsTold
<1>3. ASSUME NEW m \in 0..Len(w.log), NEW n \in 0..Len(w.log), n <= m, After(w, n, k) # Gone
      PROVE  After(w, m, k) # Gone
  <2>1. n \in 0..m
    BY <1>3
  <2> QED
    BY <1>2, <1>3, <2>1, EntriesKeep
<1>4. Len(w.log) \in 0..Len(w.log) /\ \A r \in readers : w.pos[r] <= Len(w.log)
  BY <1>1
<1> QED
  BY <1>1, <1>3, <1>4 DEF Object, Seen

LEMMA AboutRead ==
  ASSUME NEW keys, NEW values, NEW readers, NEW w, Followed(w, keys, values, readers),
         NEW r \in readers,
         IF r = "lister" THEN Behind(w, r) ELSE CanRead(w, r)
  PROVE  LET x == Read(w, r)
         IN /\ Followed(x, keys, values, readers)
            /\ \A A, B : About(w, keys, A, B) =>
                 /\ About(x, keys, A, B)
                 /\ Event(w, r) \in Changes(A, B)
            /\ Honest(w) => Honest(x) /\ ~Event(w, r).lost
            /\ Event(w, r) \in Changes(keys, values)
            /\ \A k \in keys : /\ Object(x, k) = Object(w, k)
                               /\ Seen(x, r, k) = IF Event(w, r).key = k THEN Event(w, r).val
                                                 ELSE Seen(w, r, k)
                               /\ \A q \in readers \ {r} : Seen(x, q, k) = Seen(w, q, k)
<1> DEFINE x == Read(w, r)
           pos == [q \in readers |-> IF q = r THEN w.pos[q] + 1 ELSE w.pos[q]]
           u == [w EXCEPT !.pos = pos]
<1>1. /\ w \in Watches(keys, values, readers)
      /\ w = [base |-> w.base, log |-> w.log, pos |-> w.pos]
      /\ w.pos \in [readers -> Nat] /\ Len(w.log) \in Nat
      /\ w.pos[r] < Len(w.log)
      /\ \A q \in readers : w.pos[q] <= Len(w.log)
      /\ w.log \in Seq(Changes(keys, values))
  BY DEF Followed, Watches, Behind, CanRead
<1>2. /\ u = [base |-> w.base, log |-> w.log, pos |-> pos]
      /\ \A q \in readers : pos[q] = IF q = r THEN w.pos[q] + 1 ELSE w.pos[q]
  <2>1. \A q \in readers : pos[q] = IF q = r THEN w.pos[q] + 1 ELSE w.pos[q]
    OBVIOUS
  <2> HIDE DEF pos
  <2> QED
    BY <1>1, <2>1
<1>3. Followed(x, keys, values, readers) /\ \E d \in Nat : RestOf(u, x, d, keys, readers)
  BY ReadStep
<1>4. PICK d \in Nat : RestOf(u, x, d, keys, readers)
  BY <1>3
<1> HIDE DEF x, u, pos
<1>5. /\ Len(x.log) = Len(w.log) - d
      /\ \A q \in readers : d <= pos[q] /\ x.pos[q] = pos[q] - d
      /\ \A k \in keys, m \in d..Len(w.log) : After(x, m - d, k) = After(w, m, k)
  <2>1. u.log = w.log /\ u.pos = pos
    BY <1>2
  <2>2. \A k, n : n \in Nat => After(u, n, k) = After(w, n, k)
    BY <1>2, AfterSame
  <2>3. \A m \in d..Len(w.log) : m \in Nat
    BY <1>1
  <2> QED
    BY <1>4, <2>1, <2>2, <2>3 DEF RestOf
<1>6. \A q \in readers : pos[q] \in d..Len(w.log)
  <2> TAKE q \in readers
  <2>1. w.pos[q] \in Nat /\ w.pos[q] <= Len(w.log) /\ d <= pos[q]
    BY <1>1, <1>5
  <2>2. pos[q] \in Nat /\ pos[q] <= Len(w.log)
    BY <1>1, <1>2, <2>1
  <2> QED
    BY <1>1, <2>1, <2>2
<1>7. \A q \in readers, k \in keys : Seen(x, q, k) = After(w, pos[q], k)
  BY <1>5, <1>6 DEF Seen
<1>8. ASSUME NEW k \in keys
      PROVE  /\ Object(x, k) = Object(w, k)
             /\ Seen(x, r, k) = IF Event(w, r).key = k THEN Event(w, r).val ELSE Seen(w, r, k)
             /\ \A q \in readers \ {r} : Seen(x, q, k) = Seen(w, q, k)
  <2>1. Len(w.log) \in d..Len(w.log)
    BY <1>1, <1>6
  <2>2. Seen(x, r, k) = After(w, w.pos[r] + 1, k)
    BY <1>2, <1>7
  <2>3. w.pos[r] \in Nat
    BY <1>1
  <2>4. Seen(x, r, k) = IF Event(w, r).key = k THEN Event(w, r).val ELSE Seen(w, r, k)
    BY <2>2, <2>3, AfterNext DEF Event, Seen
  <2>5. \A q \in readers \ {r} : Seen(x, q, k) = Seen(w, q, k)
    BY <1>2, <1>7 DEF Seen
  <2> QED
    BY <1>5, <2>1, <2>4, <2>5 DEF Object
<1>9. ASSUME NEW A, NEW B, About(w, keys, A, B)
      PROVE  About(x, keys, A, B) /\ Event(w, r) \in Changes(A, B)
  <2>1. w.log \in Seq(Changes(A, B))
    BY <1>9 DEF About
  <2>2. Event(w, r) \in Changes(A, B) /\ Read(w, r).log \in Seq(Changes(A, B))
    BY <2>1, EntriesRead
  <2>3. ASSUME NEW k \in keys \ A
        PROVE  x.base[k] = Gone
    <3>1. d \in 0..Len(w.log) /\ d \in d..Len(w.log) /\ d - d = 0
      BY <1>1, <1>6
    <3>2. After(x, 0, k) = After(w, d, k)
      BY <1>5, <3>1
    <3>3. After(w, d, k) = Gone
      BY <1>9, <3>1, AboutOthers
    <3> QED
      BY <3>2, <3>3, AfterZero
  <2> QED
    BY <2>2, <2>3 DEF About, x
<1>10. ASSUME Honest(w)
       PROVE  Honest(x) /\ ~Event(w, r).lost
  <2> DEFINE S == {w.log[i] : i \in 1..Len(w.log)}
  <2>1. w.log \in Seq(S)
    <3> DEFINE n == Len(w.log)
               l == w.log
               T == Changes(keys, values)
    <3>1. l \in Seq(T) /\ n = Len(l) /\ \A i \in 1..n : l[i] \in S
      BY <1>1
    <3> HIDE DEF S, n, l, T
    <3> QED
      BY <3>1 DEF l
  <2>2. \A c \in S : ~c.lost
    BY <1>10 DEF Honest
  <2> HIDE DEF S
  <2>3. Event(w, r) \in S /\ Read(w, r).log \in Seq(S)
    BY <2>1, EntriesRead
  <2>4. \A i \in 1..Len(x.log) : x.log[i] \in S
    BY <2>3 DEF x
  <2> QED
    BY <2>2, <2>3, <2>4 DEF Honest
<1>11. Event(w, r) \in Changes(keys, values)
  BY <1>1, EntriesRead
<1> QED
  BY <1>3, <1>8, <1>9, <1>10, <1>11 DEF x

LEMMA AboutChange ==
  ASSUME NEW keys, NEW values, NEW readers, NEW w, Followed(w, keys, values, readers),
         NEW k \in keys, NEW v \in values
  PROVE  LET x == Change(w, k, v)
         IN /\ Followed(x, keys, values, readers)
            /\ \A A, B : About(w, keys, A, B) /\ k \in A /\ v \in B => About(x, keys, A, B)
            /\ Honest(w) => Honest(x)
            /\ \A j : Object(x, j) = IF j = k THEN v ELSE Object(w, j)
            /\ \A j, r : r \in readers => Seen(x, r, j) = Seen(w, r, j)
<1> DEFINE x == Change(w, k, v)
<1>1. /\ w = [base |-> w.base, log |-> w.log, pos |-> w.pos]
      /\ Len(w.log) \in Nat /\ w.log \in Seq(Changes(keys, values))
      /\ \A r \in readers : w.pos[r] \in 0..Len(w.log)
  BY DEF Followed, Watches
<1>2. /\ Followed(x, keys, values, readers)
      /\ x.pos = w.pos
      /\ \A j, n : n \in 0..Len(w.log) => After(x, n, j) = After(w, n, j)
      /\ \A j : Object(x, j) = IF j = k THEN v ELSE Object(w, j)
  BY ChangeStep
<1>3. x.base = w.base
  BY <1>1 DEF Change
<1>4. PICK no : no = FALSE
  OBVIOUS
<1>5. x.log = Append(w.log, [key |-> k, val |-> v, lost |-> no])
  BY <1>1, <1>4 DEF Change
<1>6. ASSUME NEW A, NEW B, About(w, keys, A, B), k \in A, v \in B
      PROVE  About(x, keys, A, B)
  <2> DEFINE e == [key |-> k, val |-> v, lost |-> no]
  <2>1. e \in Changes(A, B) /\ w.log \in Seq(Changes(A, B))
    BY <1>4, <1>6 DEF Changes, About
  <2> HIDE DEF e
  <2>2. Append(w.log, e) \in Seq(Changes(A, B))
    BY <2>1
  <2> QED
    BY <1>3, <1>5, <1>6, <2>2 DEF About, e
<1>7. ASSUME Honest(w)
      PROVE  Honest(x)
  <2> SUFFICES ASSUME NEW i \in 1..Len(x.log)
               PROVE  ~x.log[i].lost
    BY DEF Honest
  <2> DEFINE e == [key |-> k, val |-> v, lost |-> no]
  <2>1. ~e.lost
    BY <1>4
  <2>2. x.log = Append(w.log, e)
    BY <1>5
  <2> HIDE DEF e, x
  <2>3. i \in 1..Len(w.log) \/ x.log[i] = e
    BY <1>1, <2>2
  <2>4. i \in 1..Len(w.log) => x.log[i] = w.log[i]
    BY <1>1, <2>2
  <2> QED
    BY <1>7, <2>1, <2>3, <2>4 DEF Honest
<1>8. \A j, r : r \in readers => Seen(x, r, j) = Seen(w, r, j)
  BY <1>1, <1>2 DEF Seen
<1> HIDE DEF x
<1> QED
  BY <1>2, <1>6, <1>7, <1>8 DEF x

LEMMA AboutRelist ==
  ASSUME NEW keys, NEW values, NEW readers, NEW w, Followed(w, keys, values, readers),
         NEW v \in Relisted(w)
  PROVE  /\ Followed(v, keys, values, readers)
         /\ \A A, B : About(w, keys, A, B) => About(v, keys, A, B)
         /\ \A k \in keys : Object(v, k) = Object(w, k)
         /\ \A k \in keys, r \in readers : Seen(v, r, k) = Seen(w, r, k)
<1>1. /\ Followed(v, keys, values, readers)
      /\ v.pos = w.pos
      /\ \A k \in keys, m \in 0..w.pos["lister"] : After(v, m, k) = After(w, m, k)
      /\ \A k \in keys : Object(v, k) = Object(w, k)
  BY RelistStep
<1>2. \A r \in readers : w.pos[r] \in 0..w.pos["lister"]
  BY DEF Followed, Watches
<1>3. \A A, B : About(w, keys, A, B) => About(v, keys, A, B)
  BY EntriesRelist DEF About
<1> QED
  BY <1>1, <1>2, <1>3 DEF Seen

LEMMA RestartShows ==
  ASSUME NEW keys, NEW values, NEW readers, NEW w, Followed(w, keys, values, readers),
         IsFiniteSet(keys), Gone \in values
  PROVE  \A k \in keys :
           /\ Object(Restart(w), k) = Object(w, k)
           /\ Listed(Restart(w), k) = Object(w, k)
           /\ \A r \in readers \ {"lister"} : Seen(Restart(w), r, k) = Gone
<1> DEFINE R == readers
<1>1. Followed(w, keys, values, R)
  OBVIOUS
<1> HIDE DEF R
<1>2. \A k \in keys : Object(Restart(w), k) = Object(w, k)
  BY <1>1, RestartStep
<1>3. \A k \in keys : Listed(Restart(w), k) = Object(w, k)
  BY <1>1, RestartStep
<1>4. ASSUME NEW r \in readers \ {"lister"}
      PROVE  \A k \in keys : Seen(Restart(w), r, k) = Gone
  BY RestartStep
<1> QED
  BY <1>2, <1>3, <1>4

LEMMA AboutRestart ==
  ASSUME NEW keys, NEW values, NEW readers, NEW w, Followed(w, keys, values, readers),
         IsFiniteSet(keys), Gone \in values
  PROVE  LET x == Restart(w)
         IN /\ Followed(x, keys, values, readers)
            /\ \A A, B : (\A k \in keys : Object(w, k) # Gone => k \in A /\ Object(w, k) \in B)
                        => About(x, keys, A, B)
            /\ Honest(x)
<1> DEFINE x == Restart(w)
<1>1. Followed(x, keys, values, readers)
  <2> DEFINE R == readers
  <2>1. Followed(w, keys, values, R)
    OBVIOUS
  <2> HIDE DEF R
  <2>2. Followed(Restart(w), keys, values, R)
    BY <2>1, RestartStep
  <2> QED
    BY <2>2 DEF R
<1>2. ASSUME NEW A, NEW B,
             \A k \in keys : Object(w, k) # Gone => k \in A /\ Object(w, k) \in B
      PROVE  About(x, keys, A, B)
  <2>1. /\ \A k \in keys : Restart(w).base[k] = Gone
        /\ Restart(w).log \in Seq(Changes(A, B))
    BY <1>2, RestartTells
  <2> QED
    BY <2>1 DEF About
<1>3. Honest(x)
  <2> DEFINE B == {Object(w, k) : k \in keys}
  <2>1. \A k \in keys : Object(w, k) # Gone => k \in keys /\ Object(w, k) \in B
    OBVIOUS
  <2> HIDE DEF B
  <2>2. \A i \in 1..Len(x.log) : ~x.log[i].lost
    BY <2>1, RestartTells
  <2> QED
    BY <2>2 DEF Honest
<1> HIDE DEF x
<1> QED
  BY <1>1, <1>2, <1>3 DEF x

-----------------------------------------------------------------------------
(* The function and its trigger.                                           *)

FnNames       == {Fn}
FnStates      == {"set", Gone}
TriggerValues == TriggerStates \cup {Gone}
NotRenamed    == TriggerValues \ {"moved"}
Followers     == {"lister", "operator"}

(* If h happened, w may be the watch of funcdefs: nothing tells of a       *)
(* deletion before there was one.                                          *)
FdsInv(w, h) ==
  /\ Followed(w, FnNames, FnStates, Followers)
  /\ "delete" \notin h => About(w, FnNames, FnNames, {"set"})
  /\ "delete" \in h /\ "apply" \notin h => Object(w, Fn) = Gone

(* And this the watch of triggers: there is none but the generated one,    *)
(* which is deleted with the function only and whose alias users change.   *)
TrsInv(w, h) ==
  /\ Followed(w, Triggers, TriggerValues, Followers)
  /\ About(w, Triggers, {Generated}, TriggerValues)
  /\ {"delete", "collect"} \cap h = {} => About(w, Triggers, {Generated}, TriggerStates)
  /\ "relist" \notin h => Honest(w)
  /\ "rename" \notin h => Followed(w, Triggers, NotRenamed, Followers)

LEMMA FdsKnows ==
  ASSUME NEW w, NEW h, FdsInv(w, h)
  PROVE  /\ Object(w, Fn) \in FnStates
         /\ \A r \in Followers :
              /\ Seen(w, r, Fn) \in FnStates
              /\ "delete" \notin h /\ Seen(w, r, Fn) # Gone => Object(w, Fn) # Gone
<1>1. Followed(w, FnNames, FnStates, Followers) /\ Fn \in FnNames
  BY DEF FdsInv, FnNames
<1>2. /\ Len(w.log) \in 0..Len(w.log) /\ \A r \in Followers : w.pos[r] \in 0..Len(w.log)
  BY <1>1 DEF Followed, Watches
<1>3. /\ Object(w, Fn) \in FnStates
      /\ \A r \in Followers : Seen(w, r, Fn) \in FnStates
  BY <1>1, <1>2, AfterIsTyped DEF Object, Seen
<1>4. ASSUME "delete" \notin h, NEW r \in Followers, Seen(w, r, Fn) # Gone
      PROVE  Object(w, Fn) # Gone
  <2>1. About(w, FnNames, FnNames, {"set"}) /\ Gone \notin {"set"}
    BY <1>4, ConstantsAssumption DEF FdsInv, TriggerStates
  <2> QED
    BY <1>1, <1>4, <2>1, AboutKeeps
<1> QED
  BY <1>3, <1>4

LEMMA FdsRead ==
  ASSUME NEW w, NEW h, FdsInv(w, h), NEW r \in Followers,
         IF r = "lister" THEN Behind(w, r) ELSE CanRead(w, r)
  PROVE  LET x == Read(w, r)
         IN /\ FdsInv(x, h)
            /\ Event(w, r).key = Fn /\ Event(w, r).val \in FnStates
            /\ "delete" \notin h => Event(w, r).val = "set"
            /\ Object(x, Fn) = Object(w, Fn)
            /\ Seen(x, r, Fn) = Event(w, r).val
            /\ \A q \in Followers \ {r} : Seen(x, q, Fn) = Seen(w, q, Fn)
<1>1. Followed(w, FnNames, FnStates, Followers) /\ Fn \in FnNames
  BY DEF FdsInv, FnNames
<1> DEFINE x == Read(w, r)
<1>2. /\ Followed(x, FnNames, FnStates, Followers)
      /\ \A A, B : About(w, FnNames, A, B) =>
           About(x, FnNames, A, B) /\ Event(w, r) \in Changes(A, B)
      /\ Event(w, r) \in Changes(FnNames, FnStates)
      /\ \A k \in FnNames :
           /\ Object(x, k) = Object(w, k)
           /\ Seen(x, r, k) = IF Event(w, r).key = k THEN Event(w, r).val ELSE Seen(w, r, k)
           /\ \A q \in Followers \ {r} : Seen(x, q, k) = Seen(w, q, k)
  BY <1>1, AboutRead
<1> HIDE DEF x
<1>3. Event(w, r).key = Fn /\ Event(w, r).val \in FnStates
  BY <1>2 DEF Changes, FnNames
<1>4. ASSUME "delete" \notin h
      PROVE  About(x, FnNames, FnNames, {"set"}) /\ Event(w, r).val = "set"
  <2>1. About(x, FnNames, FnNames, {"set"}) /\ Event(w, r) \in Changes(FnNames, {"set"})
    BY <1>2, <1>4 DEF FdsInv
  <2> QED
    BY <2>1 DEF Changes
<1>5. FdsInv(x, h)
  BY <1>1, <1>2, <1>4 DEF FdsInv
<1> QED
  BY <1>1, <1>2, <1>3, <1>4, <1>5 DEF x

LEMMA FdsChange ==
  ASSUME NEW w, NEW h, FdsInv(w, h), NEW v \in FnStates, NEW g, h \subseteq g,
         v = Gone => "delete" \in g,
         "delete" \in g /\ "apply" \notin g => v = Gone
  PROVE  LET x == Change(w, Fn, v)
         IN /\ FdsInv(x, g)
            /\ Object(x, Fn) = v
            /\ \A r \in Followers : Seen(x, r, Fn) = Seen(w, r, Fn)
<1>1. Followed(w, FnNames, FnStates, Followers) /\ Fn \in FnNames
  BY DEF FdsInv, FnNames
<1> DEFINE x == Change(w, Fn, v)
<1>2. /\ Followed(x, FnNames, FnStates, Followers)
      /\ \A A, B : About(w, FnNames, A, B) /\ Fn \in A /\ v \in B => About(x, FnNames, A, B)
      /\ \A j : Object(x, j) = IF j = Fn THEN v ELSE Object(w, j)
      /\ \A j, r : r \in Followers => Seen(x, r, j) = Seen(w, r, j)
  BY <1>1, AboutChange
<1> HIDE DEF x
<1>3. "delete" \notin g => About(x, FnNames, FnNames, {"set"})
  <2> HAVE "delete" \notin g
  <2>1. About(w, FnNames, FnNames, {"set"}) /\ v \in {"set"}
    BY DEF FdsInv, FnStates
  <2> QED
    BY <1>1, <1>2, <2>1
<1>4. FdsInv(x, g)
  BY <1>2, <1>3 DEF FdsInv
<1> QED
  BY <1>2, <1>4 DEF x

LEMMA FdsRelist ==
  ASSUME NEW w, NEW h, FdsInv(w, h), NEW x \in Relisted(w)
  PROVE  /\ FdsInv(x, h)
         /\ Object(x, Fn) = Object(w, Fn)
         /\ \A r \in Followers : Seen(x, r, Fn) = Seen(w, r, Fn)
<1>1. Followed(w, FnNames, FnStates, Followers) /\ Fn \in FnNames
  BY DEF FdsInv, FnNames
<1>2. /\ Followed(x, FnNames, FnStates, Followers)
      /\ \A A, B : About(w, FnNames, A, B) => About(x, FnNames, A, B)
      /\ \A k \in FnNames : Object(x, k) = Object(w, k)
      /\ \A k \in FnNames, r \in Followers : Seen(x, r, k) = Seen(w, r, k)
  BY <1>1, AboutRelist
<1> QED
  BY <1>1, <1>2 DEF FdsInv

LEMMA FdsRestart ==
  ASSUME NEW w, NEW h, FdsInv(w, h)
  PROVE  LET x == Restart(w)
         IN /\ FdsInv(x, h)
            /\ Object(x, Fn) = Object(w, Fn) /\ Seen(x, "operator", Fn) = Gone
<1>1. /\ Followed(w, FnNames, FnStates, Followers) /\ Fn \in FnNames
      /\ IsFiniteSet(FnNames) /\ Gone \in FnStates
      /\ "operator" \in Followers \ {"lister"}
  BY FS_Singleton DEF FdsInv, FnNames, FnStates, Followers
<1> DEFINE x == Restart(w)
<1>2. /\ Followed(x, FnNames, FnStates, Followers)
      /\ \A A, B : (\A k \in FnNames : Object(w, k) # Gone => k \in A /\ Object(w, k) \in B)
                  => About(x, FnNames, A, B)
  BY <1>1, AboutRestart
<1>4. /\ Object(x, Fn) = Object(w, Fn)
      /\ Seen(x, "operator", Fn) = Gone
  BY <1>1, RestartShows
<1> HIDE DEF x
<1>3. About(x, FnNames, FnNames, {"set"})
  <2>1. Object(w, Fn) \in FnStates
    BY FdsKnows
  <2>2. \A k \in FnNames : Object(w, k) # Gone => k \in FnNames /\ Object(w, k) \in {"set"}
    BY <2>1 DEF FnNames, FnStates
  <2> QED
    BY <1>2, <2>2
<1> QED
  BY <1>1, <1>2, <1>3, <1>4 DEF FdsInv, x

(* What else happens is not about the function.                            *)
LEMMA FdsMore ==
  ASSUME NEW w, NEW h, FdsInv(w, h), NEW g,
         "delete" \in g <=> "delete" \in h, "apply" \in h => "apply" \in g
  PROVE  FdsInv(w, g)
BY DEF FdsInv

LEMMA TrsKnows ==
  ASSUME NEW w, NEW h, TrsInv(w, h)
  PROVE  /\ \A t \in Triggers :
              /\ Object(w, t) \in TriggerValues
              /\ t # Generated => Object(w, t) = Gone
         /\ \A t \in Triggers, r \in Followers :
              /\ Seen(w, r, t) \in TriggerValues
              /\ t # Generated => Seen(w, r, t) = Gone
              /\ {"delete", "collect"} \cap h = {} /\ Seen(w, r, t) # Gone
                 => Object(w, t) # Gone
         /\ "rename" \notin h => \A t \in Triggers :
              Object(w, t) # "moved" /\ \A r \in Followers : Seen(w, r, t) # "moved"
<1>1. /\ Followed(w, Triggers, TriggerValues, Followers)
      /\ About(w, Triggers, {Generated}, TriggerValues)
  BY DEF TrsInv
<1>2. /\ Len(w.log) \in 0..Len(w.log) /\ \A r \in Followers : w.pos[r] \in 0..Len(w.log)
  BY <1>1 DEF Followed, Watches
<1>3. /\ \A t \in Triggers : Object(w, t) \in TriggerValues
      /\ \A t \in Triggers, r \in Followers : Seen(w, r, t) \in TriggerValues
  BY <1>1, <1>2, AfterIsTyped DEF Object, Seen
<1>4. /\ \A t \in Triggers \ {Generated} : Object(w, t) = Gone
      /\ \A t \in Triggers \ {Generated}, r \in Followers : Seen(w, r, t) = Gone
  BY <1>1, AboutOthers
<1>5. ASSUME {"delete", "collect"} \cap h = {}, NEW r \in Followers, NEW t,
             Seen(w, r, t) # Gone
      PROVE  Object(w, t) # Gone
  <2>1. About(w, Triggers, {Generated}, TriggerStates) /\ Gone \notin TriggerStates
    BY <1>5, ConstantsAssumption DEF TrsInv
  <2> QED
    BY <1>1, <1>5, <2>1, AboutKeeps
<1>6. ASSUME "rename" \notin h, NEW t \in Triggers
      PROVE  Object(w, t) # "moved" /\ \A r \in Followers : Seen(w, r, t) # "moved"
  <2>1. Followed(w, Triggers, NotRenamed, Followers)
    BY <1>6 DEF TrsInv
  <2>2. Object(w, t) \in NotRenamed /\ \A r \in Followers : Seen(w, r, t) \in NotRenamed
    BY <1>2, <2>1, AfterIsTyped DEF Object, Seen
  <2> QED
    BY <2>2 DEF NotRenamed
<1> QED
  BY <1>3, <1>4, <1>5, <1>6

LEMMA TrsRead ==
  ASSUME NEW w, NEW h, TrsInv(w, h), NEW r \in Followers,
         IF r = "lister" THEN Behind(w, r) ELSE CanRead(w, r)
  PROVE  LET x == Read(w, r)
         IN /\ TrsInv(x, h)
            /\ Event(w, r).key = Generated /\ Event(w, r).val \in TriggerValues
            /\ {"delete", "collect"} \cap h = {} => Event(w, r).val # Gone
            /\ "relist" \notin h => ~Event(w, r).lost
            /\ "rename" \notin h => Event(w, r).val # "moved"
            /\ Object(x, Generated) = Object(w, Generated)
            /\ Seen(x, r, Generated) = Event(w, r).val
            /\ \A q \in Followers \ {r} : Seen(x, q, Generated) = Seen(w, q, Generated)
<1>1. Followed(w, Triggers, TriggerValues, Followers) /\ Generated \in Triggers
  BY ConstantsAssumption DEF TrsInv
<1> DEFINE x == Read(w, r)
<1>2. /\ Followed(x, Triggers, TriggerValues, Followers)
      /\ \A A, B : About(w, Triggers, A, B) =>
           About(x, Triggers, A, B) /\ Event(w, r) \in Changes(A, B)
      /\ Honest(w) => Honest(x) /\ ~Event(w, r).lost
      /\ \A k \in Triggers :
           /\ Object(x, k) = Object(w, k)
           /\ Seen(x, r, k) = IF Event(w, r).key = k THEN Event(w, r).val ELSE Seen(w, r, k)
           /\ \A q \in Followers \ {r} : Seen(x, q, k) = Seen(w, q, k)
  BY <1>1, AboutRead
<1> HIDE DEF x
<1>3. /\ About(x, Triggers, {Generated}, TriggerValues)
      /\ Event(w, r).key = Generated /\ Event(w, r).val \in TriggerValues
  <2>1. /\ About(x, Triggers, {Generated}, TriggerValues)
        /\ Event(w, r) \in Changes({Generated}, TriggerValues)
    BY <1>2 DEF TrsInv
  <2> QED
    BY <2>1 DEF Changes
<1>4. ASSUME {"delete", "collect"} \cap h = {}
      PROVE  About(x, Triggers, {Generated}, TriggerStates) /\ Event(w, r).val # Gone
  <2>1. /\ About(x, Triggers, {Generated}, TriggerStates)
        /\ Event(w, r) \in Changes({Generated}, TriggerStates)
    BY <1>2, <1>4 DEF TrsInv
  <2>2. Event(w, r).val \in TriggerStates
    BY <2>1 DEF Changes
  <2> QED
    BY <2>1, <2>2, ConstantsAssumption
<1>5. ASSUME "rename" \notin h
      PROVE  Followed(x, Triggers, NotRenamed, Followers) /\ Event(w, r).val # "moved"
  <2>1. Followed(w, Triggers, NotRenamed, Followers)
    BY <1>5 DEF TrsInv
  <2>2. Followed(x, Triggers, NotRenamed, Followers) /\ Event(w, r) \in Changes(Triggers, NotRenamed)
    BY <2>1, AboutRead DEF x
  <2> QED
    BY <2>2 DEF Changes, NotRenamed
<1>6. TrsInv(x, h)
  BY <1>2, <1>3, <1>4, <1>5 DEF TrsInv
<1> QED
  BY <1>1, <1>2, <1>3, <1>4, <1>5, <1>6 DEF x, TrsInv

LEMMA TrsChange ==
  ASSUME NEW w, NEW h, TrsInv(w, h), NEW v \in TriggerValues, NEW g, h \subseteq g,
         v = Gone => {"delete", "collect"} \cap g # {},
         v = "moved" => "rename" \in g
  PROVE  LET x == Change(w, Generated, v)
         IN /\ TrsInv(x, g)
            /\ Object(x, Generated) = v
            /\ \A r \in Followers : Seen(x, r, Generated) = Seen(w, r, Generated)
<1>1. Followed(w, Triggers, TriggerValues, Followers) /\ Generated \in Triggers
  BY ConstantsAssumption DEF TrsInv
<1> DEFINE x == Change(w, Generated, v)
<1>2. /\ Followed(x, Triggers, TriggerValues, Followers)
      /\ \A A, B : About(w, Triggers, A, B) /\ Generated \in A /\ v \in B
                   => About(x, Triggers, A, B)
      /\ Honest(w) => Honest(x)
      /\ \A j : Object(x, j) = IF j = Generated THEN v ELSE Object(w, j)
      /\ \A j, r : r \in Followers => Seen(x, r, j) = Seen(w, r, j)
  BY <1>1, AboutChange
<1> HIDE DEF x
<1>3. About(x, Triggers, {Generated}, TriggerValues)
  BY <1>2 DEF TrsInv
<1>4. {"delete", "collect"} \cap g = {} => About(x, Triggers, {Generated}, TriggerStates)
  <2> HAVE {"delete", "collect"} \cap g = {}
  <2>1. {"delete", "collect"} \cap h = {}
    OBVIOUS
  <2>2. About(w, Triggers, {Generated}, TriggerStates) /\ v \in TriggerStates
    BY <2>1 DEF TrsInv, TriggerValues
  <2> QED
    BY <1>2, <2>2
<1>5. ASSUME "rename" \notin g
      PROVE  Followed(x, Triggers, NotRenamed, Followers)
  <2>1. Followed(w, Triggers, NotRenamed, Followers) /\ v \in NotRenamed
    BY <1>5 DEF TrsInv, NotRenamed
  <2> QED
    BY <1>1, <2>1, AboutChange DEF x
<1>6. TrsInv(x, g)
  BY <1>2, <1>3, <1>4, <1>5 DEF TrsInv
<1> QED
  BY <1>2, <1>6 DEF x

LEMMA TrsRelist ==
  ASSUME NEW w, NEW h, TrsInv(w, h), NEW x \in Relisted(w), NEW g, h \subseteq g, "relist" \in g
  PROVE  /\ TrsInv(x, g)
         /\ Object(x, Generated) = Object(w, Generated)
         /\ \A r \in Followers : Seen(x, r, Generated) = Seen(w, r, Generated)
<1>1. Followed(w, Triggers, TriggerValues, Followers) /\ Generated \in Triggers
  BY ConstantsAssumption DEF TrsInv
<1>2. /\ Followed(x, Triggers, TriggerValues, Followers)
      /\ \A A, B : About(w, Triggers, A, B) => About(x, Triggers, A, B)
      /\ \A k \in Triggers : Object(x, k) = Object(w, k)
      /\ \A k \in Triggers, r \in Followers : Seen(x, r, k) = Seen(w, r, k)
  BY <1>1, AboutRelist
<1>3. {"delete", "collect"} \cap g = {} => {"delete", "collect"} \cap h = {}
  OBVIOUS
<1>4. "rename" \notin g => Followed(x, Triggers, NotRenamed, Followers)
  <2> HAVE "rename" \notin g
  <2>1. Followed(w, Triggers, NotRenamed, Followers)
    BY DEF TrsInv
  <2> QED
    BY <2>1, AboutRelist
<1> QED
  BY <1>1, <1>2, <1>3, <1>4 DEF TrsInv

LEMMA TrsRestart ==
  ASSUME NEW w, NEW h, TrsInv(w, h)
  PROVE  LET x == Restart(w)
         IN /\ TrsInv(x, h)
            /\ Object(x, Generated) = Object(w, Generated) /\ Seen(x, "operator", Generated) = Gone
<1>1. /\ Followed(w, Triggers, TriggerValues, Followers) /\ Generated \in Triggers
      /\ IsFiniteSet(Triggers) /\ Gone \in TriggerValues
      /\ "operator" \in Followers \ {"lister"}
  BY ConstantsAssumption DEF TrsInv, TriggerValues, Followers
<1> DEFINE x == Restart(w)
<1>2. /\ Followed(x, Triggers, TriggerValues, Followers)
      /\ \A A, B : (\A k \in Triggers : Object(w, k) # Gone => k \in A /\ Object(w, k) \in B)
                  => About(x, Triggers, A, B)
      /\ Honest(x)
  BY <1>1, AboutRestart
<1>4. /\ Object(x, Generated) = Object(w, Generated)
      /\ Seen(x, "operator", Generated) = Gone
  BY <1>1, RestartShows
<1> HIDE DEF x
<1>3. /\ About(x, Triggers, {Generated}, TriggerStates)
      /\ About(x, Triggers, {Generated}, TriggerValues)
  <2>1. ASSUME NEW k \in Triggers
        PROVE  Object(w, k) \in TriggerValues /\ (k # Generated => Object(w, k) = Gone)
    BY TrsKnows
  <2>2. \A k \in Triggers : Object(w, k) # Gone =>
          k \in {Generated} /\ Object(w, k) \in TriggerStates /\ Object(w, k) \in TriggerValues
    BY <2>1 DEF TriggerValues
  <2> QED
    BY <1>2, <2>2
<1>5. "rename" \notin h => Followed(x, Triggers, NotRenamed, Followers)
  <2> HAVE "rename" \notin h
  <2>1. Followed(w, Triggers, NotRenamed, Followers) /\ Gone \in NotRenamed
    BY ConstantsAssumption DEF TrsInv, NotRenamed, TriggerValues, TriggerStates
  <2> QED
    BY <1>1, <2>1, AboutRestart DEF x
<1> QED
  BY <1>1, <1>2, <1>3, <1>4, <1>5 DEF TrsInv, x

LEMMA TrsMore ==
  ASSUME NEW w, NEW h, TrsInv(w, h), NEW g, h \subseteq g
  PROVE  TrsInv(w, g)
<1>1. {"delete", "collect"} \cap g = {} => {"delete", "collect"} \cap h = {}
  OBVIOUS
<1> QED
  BY <1>1 DEF TrsInv

-----------------------------------------------------------------------------
(* What FunctionsAreRouted depends on.                                     *)

(* Nothing happened that leaves a function without its trigger.            *)
Clean(h) == {"delete", "collect", "failure", "relist"} \cap h = {}

(* The generated trigger has its endpoint if the operator was told that it *)
(* is there, and is there if the operator was told of the function.        *)
RouteInv ==
  /\ FdsInv(fds, happened) /\ TrsInv(trs, happened)
  /\ happened \subseteq Events
  /\ endpoints \in [Endpoints -> {None, Generated}]
  /\ {"relist", "rename"} \cap happened = {} =>
       (endpoints[EndpointOf[Generated]] = Generated <=> Seen(trs, "operator", Generated) # Gone)
  /\ Clean(happened) => Object(trs, Generated) # Gone \/ Seen(fds, "operator", Fn) = Gone

LEMMA Both ==
  /\ "lister" \in Followers /\ "operator" \in Followers /\ "operator" # "lister"
  /\ Generated \in Triggers /\ EndpointOf[Generated] \in Endpoints
  /\ AliasOf[Generated] \in Endpoints
  /\ None # Generated /\ "set" # Gone /\ "orphan" # Gone /\ "moved" # Gone
  /\ "set" \in FnStates /\ Gone \in FnStates
  /\ "set" \in TriggerValues /\ "moved" \in TriggerValues /\ Gone \in TriggerValues
BY ConstantsAssumption DEF Followers, Endpoints, FnStates, TriggerValues, TriggerStates

(* The operator finds no trigger but the generated one.                    *)
LEMMA OneTrigger ==
  ASSUME RouteInv, NEW t \in Triggers, Listed(trs, t) # Gone
  PROVE  t = Generated
<1>1. TrsInv(trs, happened)
  BY DEF RouteInv
<1>2. \A r \in Followers : Seen(trs, r, t) # Gone => t = Generated
  BY <1>1, TrsKnows
<1> QED
  BY <1>2, Both DEF Listed

(* What is not about a function, a trigger or an endpoint.                 *)
LEMMA RouteKept ==
  ASSUME RouteInv, fds' = fds, trs' = trs, endpoints' = endpoints,
         NEW S \in SUBSET (Events \ {"apply", "delete"}), happened' = happened \cup S
  PROVE  RouteInv'
<1>1. "delete" \in happened' <=> "delete" \in happened
  OBVIOUS
<1>2. "apply" \in happened => "apply" \in happened'
  OBVIOUS
<1>3. happened \subseteq happened' /\ happened' \subseteq Events
  BY DEF RouteInv
<1>4. FdsInv(fds', happened')
  <2>1. FdsInv(fds, happened)
    BY DEF RouteInv
  <2> QED
    BY <1>1, <1>2, <2>1, FdsMore
<1>5. TrsInv(trs', happened')
  <2>1. TrsInv(trs, happened)
    BY DEF RouteInv
  <2> QED
    BY <1>3, <2>1, TrsMore
<1>6. Clean(happened') => Clean(happened)
  BY <1>3 DEF Clean
<1> QED
  BY <1>3, <1>4, <1>5, <1>6 DEF RouteInv

(* The function is changed.                                                *)
LEMMA RouteFuncdef ==
  ASSUME RouteInv, ApplyFuncdef \/ DeleteFuncdef
  PROVE  RouteInv'
<1>1. PICK v \in FnStates, e \in {"apply", "delete"} :
        /\ v = Gone <=> e = "delete"
        /\ fds' = Change(fds, Fn, v) /\ happened' = happened \cup {e}
        /\ trs' = trs /\ endpoints' = endpoints
  BY Both DEF ApplyFuncdef, DeleteFuncdef, May, process
<1>2. /\ FdsInv(fds, happened) /\ TrsInv(trs, happened)
      /\ happened \subseteq happened' /\ happened' \subseteq Events
  BY <1>1 DEF RouteInv, Events
<1>3. "delete" \in happened' /\ "apply" \notin happened' => v = Gone
  BY <1>1
<1>4. v = Gone => "delete" \in happened'
  BY <1>1
<1>5. /\ FdsInv(Change(fds, Fn, v), happened')
      /\ \A r \in Followers : Seen(Change(fds, Fn, v), r, Fn) = Seen(fds, r, Fn)
  BY <1>2, <1>3, <1>4, FdsChange
<1>6. TrsInv(trs', happened')
  BY <1>1, <1>2, TrsMore
<1>7. Clean(happened') => Clean(happened)
  BY <1>2 DEF Clean
<1>8. {"relist", "rename"} \cap happened' = {} => {"relist", "rename"} \cap happened = {}
  BY <1>2
<1> QED
  BY <1>1, <1>2, <1>5, <1>6, <1>7, <1>8, Both DEF RouteInv

(* The alias of the trigger is changed.                                    *)
LEMMA RouteRename ==
  ASSUME RouteInv, RenameTrigger
  PROVE  RouteInv'
<1>1. /\ trs' = Change(trs, Generated, "moved") /\ happened' = happened \cup {"rename"}
      /\ fds' = fds /\ endpoints' = endpoints
  BY DEF RenameTrigger, May, process
<1>2. /\ FdsInv(fds, happened) /\ TrsInv(trs, happened)
      /\ happened \subseteq happened' /\ happened' \subseteq Events
  BY <1>1 DEF RouteInv, Events
<1>3. /\ TrsInv(Change(trs, Generated, "moved"), happened')
      /\ Object(Change(trs, Generated, "moved"), Generated) = "moved"
  <2>1. "moved" = Gone => {"delete", "collect"} \cap happened' # {}
    BY Both
  <2>2. "rename" \in happened'
    BY <1>1
  <2> QED
    BY <1>2, <2>1, <2>2, Both, TrsChange
<1>4. FdsInv(fds', happened')
  <2>1. /\ "delete" \in happened' <=> "delete" \in happened
        /\ "apply" \in happened => "apply" \in happened'
    BY <1>1
  <2> QED
    BY <1>1, <1>2, <2>1, FdsMore
<1>5. {"relist", "rename"} \cap happened' # {}
  BY <1>1
<1> QED
  BY <1>1, <1>2, <1>3, <1>4, <1>5, Both DEF RouteInv

(* The trigger is collected.                                               *)
LEMMA RouteCascade ==
  ASSUME RouteInv, CascadeTrigger
  PROVE  RouteInv'
<1>1. /\ trs' = Change(trs, Generated, Gone) /\ happened' = happened \cup {"collect"}
      /\ fds' = fds /\ endpoints' = endpoints
  BY DEF CascadeTrigger, process
<1>2. /\ FdsInv(fds, happened) /\ TrsInv(trs, happened)
      /\ happened \subseteq happened' /\ happened' \subseteq Events
      /\ {"delete", "collect"} \cap happened' # {}
  BY <1>1 DEF RouteInv, Events
<1>3. /\ TrsInv(Change(trs, Generated, Gone), happened')
      /\ \A r \in Followers :
           Seen(Change(trs, Generated, Gone), r, Generated) = Seen(trs, r, Generated)
  BY <1>2, Both, TrsChange
<1>4. FdsInv(fds', happened')
  <2>1. /\ "delete" \in happened' <=> "delete" \in happened
        /\ "apply" \in happened => "apply" \in happened'
    BY <1>1
  <2> QED
    BY <1>1, <1>2, <2>1, FdsMore
<1>5. /\ ~Clean(happened')
      /\ {"relist", "rename"} \cap happened' = {} => {"relist", "rename"} \cap happened = {}
  BY <1>1 DEF Clean
<1> QED
  BY <1>1, <1>2, <1>3, <1>4, <1>5, Both DEF RouteInv

(* A cache is filled.                                                      *)
LEMMA RouteInformers ==
  ASSUME RouteInv, Informers
  PROVE  RouteInv'
<1>1. /\ FdsInv(fds, happened) /\ TrsInv(trs, happened)
      /\ happened' = happened /\ endpoints' = endpoints
  BY DEF RouteInv, Informers, process
<1>2. CASE Behind(fds, "lister") /\ fds' = Read(fds, "lister") /\ trs' = trs
  <2>1. /\ FdsInv(Read(fds, "lister"), happened)
        /\ \A q \in Followers \ {"lister"} : Seen(Read(fds, "lister"), q, Fn) = Seen(fds, q, Fn)
    BY <1>1, <1>2, Both, FdsRead
  <2> QED
    BY <1>1, <1>2, <2>1, Both DEF RouteInv
<1>3. CASE Behind(trs, "lister") /\ trs' = Read(trs, "lister") /\ fds' = fds
  <2>1. /\ TrsInv(Read(trs, "lister"), happened)
        /\ Object(Read(trs, "lister"), Generated) = Object(trs, Generated)
        /\ \A q \in Followers \ {"lister"} :
             Seen(Read(trs, "lister"), q, Generated) = Seen(trs, q, Generated)
    BY <1>1, <1>3, Both, TrsRead
  <2> QED
    BY <1>1, <1>3, <2>1, Both DEF RouteInv
<1>4. CASE fds' = fds /\ trs' = trs
  BY <1>1, <1>4 DEF RouteInv
<1> QED
  BY <1>2, <1>3, <1>4 DEF Informers

(* A watch breaks.                                                         *)
LEMMA RouteBreak ==
  ASSUME RouteInv, BreakWatch
  PROVE  RouteInv'
<1>1. /\ FdsInv(fds, happened) /\ TrsInv(trs, happened)
      /\ happened' = happened \cup {"relist"} /\ endpoints' = endpoints
      /\ happened \subseteq happened' /\ happened' \subseteq Events
  BY DEF RouteInv, BreakWatch, May, process, Events
<1>2. ASSUME NEW w, FdsInv(w, happened)
      PROVE  FdsInv(w, happened')
  <2>1. /\ "delete" \in happened' <=> "delete" \in happened
        /\ "apply" \in happened => "apply" \in happened'
    BY <1>1
  <2> QED
    BY <1>2, <2>1, FdsMore
<1>3. ~Clean(happened') /\ "relist" \in happened'
  BY <1>1 DEF Clean
<1>4. FdsInv(fds', happened') /\ TrsInv(trs', happened')
  <2>1. CASE fds' \in Relisted(fds) /\ trs' = trs
    <3>1. FdsInv(fds', happened)
      BY <1>1, <2>1, FdsRelist
    <3> QED
      BY <1>1, <1>2, <2>1, <3>1, TrsMore
  <2>2. CASE trs' \in Relisted(trs) /\ fds' = fds
    BY <1>1, <1>2, <1>3, <2>2, TrsRelist
  <2>3. CASE fds' = fds /\ trs' = trs
    BY <1>1, <1>2, <2>3, TrsMore
  <2> QED
    BY <2>1, <2>2, <2>3 DEF BreakWatch
<1> QED
  BY <1>1, <1>3, <1>4 DEF RouteInv

(* The process starts again.                                               *)
LEMMA RouteCrash ==
  ASSUME RouteInv, Crash,
         NEW S \in SUBSET (Events \ {"apply", "delete"}), happened' = happened \cup S
  PROVE  RouteInv'
<1>1. /\ fds' = Restart(fds) /\ trs' = Restart(trs)
      /\ endpoints' = [e \in Endpoints |-> None]
      /\ FdsInv(fds, happened) /\ TrsInv(trs, happened)
      /\ happened \subseteq happened' /\ happened' \subseteq Events
  BY DEF RouteInv, Crash
<1>2. FdsInv(fds', happened') /\ Seen(fds', "operator", Fn) = Gone
  <2>1. FdsInv(Restart(fds), happened) /\ Seen(Restart(fds), "operator", Fn) = Gone
    BY <1>1, FdsRestart
  <2>2. /\ "delete" \in happened' <=> "delete" \in happened
        /\ "apply" \in happened => "apply" \in happened'
    OBVIOUS
  <2> QED
    BY <1>1, <2>1, <2>2, FdsMore
<1>3. TrsInv(trs', happened') /\ Seen(trs', "operator", Generated) = Gone
  <2>1. TrsInv(Restart(trs), happened) /\ Seen(Restart(trs), "operator", Generated) = Gone
    BY <1>1, TrsRestart
  <2> QED
    BY <1>1, <2>1, TrsMore
<1> QED
  BY <1>1, <1>2, <1>3, Both DEF RouteInv

(* The function is handled.                                                *)
LEMMA RouteHandled ==
  ASSUME RouteInv, HandleFuncdefAdd \/ HandleFuncdefUpdate \/ HandleFuncdefDelete
  PROVE  RouteInv'
<1> DEFINE x == Read(fds, "operator")
           cur == Event(fds, "operator").val
<1>1. /\ FdsInv(fds, happened) /\ TrsInv(trs, happened) /\ CanRead(fds, "operator")
      /\ fds' = x /\ endpoints' = endpoints
  BY DEF RouteInv, HandleFuncdefAdd, HandleFuncdefUpdate, HandleFuncdefDelete, CanHandle
<1>2. /\ FdsInv(x, happened) /\ Seen(x, "operator", Fn) = cur
      /\ "delete" \notin happened => cur = "set"
  BY <1>1, Both, FdsRead
<1> HIDE DEF x, cur
<1>3. CASE HandleFuncdefAdd
  <2>1. ASSUME UNCHANGED <<trs, happened>>, NEW t \in ListedTriggers
        PROVE  RouteInv'
    <3>1. t = Generated /\ Listed(trs, Generated) # Gone
      BY <2>1, OneTrigger DEF ListedTriggers
    <3>2. Clean(happened) => {"delete", "collect"} \cap happened = {}
      BY DEF Clean
    <3>3. Clean(happened) => Object(trs, Generated) # Gone
      BY <1>1, <3>1, <3>2, Both, TrsKnows DEF Listed
    <3> QED
      BY <1>1, <1>2, <2>1, <3>3 DEF RouteInv
  <2>2. ASSUME UNCHANGED happened,
               trs' = IF Object(trs, Generated) = Gone THEN Change(trs, Generated, "set") ELSE trs
        PROVE  RouteInv'
    <3>1. /\ TrsInv(trs', happened') /\ Object(trs', Generated) # Gone
          /\ Seen(trs', "operator", Generated) = Seen(trs, "operator", Generated)
      <4>1. CASE Object(trs, Generated) = Gone
        <5>1. /\ TrsInv(Change(trs, Generated, "set"), happened)
              /\ Object(Change(trs, Generated, "set"), Generated) = "set"
              /\ \A r \in Followers :
                   Seen(Change(trs, Generated, "set"), r, Generated) = Seen(trs, r, Generated)
          BY <1>1, Both, TrsChange
        <5> QED
          BY <2>2, <4>1, <5>1, Both
      <4>2. CASE Object(trs, Generated) # Gone
        BY <1>1, <2>2, <4>2
      <4> QED
        BY <4>1, <4>2
    <3> QED
      BY <1>1, <1>2, <2>2, <3>1 DEF RouteInv
  <2>3. ASSUME UNCHANGED trs, May("failure")
        PROVE  RouteInv'
    <3>1. happened' = happened \cup {"failure"} /\ happened' \subseteq Events /\ ~Clean(happened')
      BY <2>3 DEF May, Clean, Events, RouteInv
    <3>2. /\ "delete" \in happened' <=> "delete" \in happened
          /\ "apply" \in happened => "apply" \in happened'
          /\ {"relist", "rename"} \cap happened' = {} => {"relist", "rename"} \cap happened = {}
          /\ happened \subseteq happened'
      BY <3>1
    <3>3. FdsInv(x, happened')
      BY <1>2, <3>2, FdsMore
    <3>4. TrsInv(trs, happened')
      BY <1>1, <3>2, TrsMore
    <3> QED
      BY <1>1, <2>3, <3>1, <3>2, <3>3, <3>4 DEF RouteInv
  <2> QED
    BY <1>3, <2>1, <2>2, <2>3 DEF HandleFuncdefAdd
<1>4. CASE HandleFuncdefUpdate
  <2>1. /\ Seen(fds, "operator", Fn) # Gone /\ UNCHANGED <<trs, happened>>
    BY <1>4 DEF HandleFuncdefUpdate
  <2> QED
    BY <1>1, <1>2, <2>1 DEF RouteInv
<1>5. CASE HandleFuncdefDelete
  <2>1. /\ cur = Gone /\ UNCHANGED happened
        /\ trs' = trs \/ trs' = Change(trs, Generated, Gone)
    BY <1>5 DEF HandleFuncdefDelete, cur
  <2>2. "delete" \in happened
    BY <1>2, <2>1, Both
  <2>3. /\ TrsInv(trs', happened)
        /\ Seen(trs', "operator", Generated) = Seen(trs, "operator", Generated)
    <3>1. CASE trs' = Change(trs, Generated, Gone)
      <4>1. happened \subseteq happened /\ {"delete", "collect"} \cap happened # {}
        BY <2>2
      <4>2. /\ TrsInv(Change(trs, Generated, Gone), happened)
            /\ \A r \in Followers :
                 Seen(Change(trs, Generated, Gone), r, Generated) = Seen(trs, r, Generated)
        BY <1>1, <4>1, Both, TrsChange
      <4> QED
        BY <3>1, <4>2, Both
    <3> QED
      BY <1>1, <2>1, <3>1
  <2> QED
    BY <1>1, <1>2, <2>1, <2>3 DEF RouteInv
<1> QED
  BY <1>3, <1>4, <1>5

(* The trigger is handled.                                                 *)
LEMMA RouteTrigger ==
  ASSUME RouteInv, HandleTrigger
  PROVE  RouteInv'
<1> DEFINE x == Read(trs, "operator")
           event == Event(trs, "operator")
           old == Seen(trs, "operator", Generated)
           e == EndpointOf[Generated]
<1>1. /\ FdsInv(fds, happened) /\ TrsInv(trs, happened) /\ CanRead(trs, "operator")
      /\ fds' = fds /\ happened' = happened /\ trs' = x
  BY DEF RouteInv, HandleTrigger
<1>2. /\ TrsInv(x, happened)
      /\ event.key = Generated
      /\ "relist" \notin happened => ~event.lost
      /\ "rename" \notin happened => event.val # "moved"
      /\ Object(x, Generated) = Object(trs, Generated)
      /\ Seen(x, "operator", Generated) = event.val
  BY <1>1, Both, TrsRead
<1>3. /\ endpoints \in [Endpoints -> {None, Generated}] /\ e \in Endpoints
      /\ None # Generated
      /\ \A v : EndpointFor(Generated, v) \in Endpoints
      /\ \A v : v # "moved" => EndpointFor(Generated, v) = e
  BY Both DEF RouteInv, EndpointFor
<1>5. "rename" \notin happened => old # "moved"
  BY <1>1, Both, TrsKnows
<1>6. endpoints' = IF old = Gone /\ event.val # Gone
                   THEN [endpoints EXCEPT ![EndpointFor(Generated, event.val)] = Generated]
                   ELSE IF old # Gone /\ event.val = Gone /\ ~event.lost
                   THEN [endpoints EXCEPT ![EndpointFor(Generated, old)] = None]
                   ELSE endpoints
  BY <1>2 DEF HandleTrigger
<1>7. {"relist", "rename"} \cap happened = {} => (endpoints[e] = Generated <=> old # Gone)
  BY DEF RouteInv
<1> HIDE DEF x, event, old, e
<1>4. /\ endpoints' \in [Endpoints -> {None, Generated}]
      /\ {"relist", "rename"} \cap happened = {} =>
           (endpoints'[e] = Generated <=> event.val # Gone)
  <2>1. endpoints' \in [Endpoints -> {None, Generated}]
    BY <1>3, <1>6
  <2>2. ASSUME {"relist", "rename"} \cap happened = {}
        PROVE  endpoints'[e] = Generated <=> event.val # Gone
    <3>1. /\ ~event.lost /\ EndpointFor(Generated, event.val) = e
          /\ EndpointFor(Generated, old) = e
      BY <1>2, <1>3, <1>5, <2>2
    <3> QED
      BY <1>3, <1>6, <1>7, <2>2, <3>1
  <2> QED
    BY <2>1, <2>2
<1> QED
  BY <1>1, <1>2, <1>4 DEF RouteInv, e

(* What leaves the function, its trigger and the endpoints alone.          *)
LEMMA OthersLeave ==
  ASSUME \/ HandleInst
         \/ \E c \in Callers : Steps(c)
         \/ \E c \in Requests, e \in Endpoints : Request(c, e)
         \/ \E i \in Insts : SetCondition(i) \/ DeleteInst(i) \/ CreateInst(i)
         \/ SyncerHandles
         \/ Syncer!ChangeConfig /\ UNCHANGED <<fds, trs, process, happened>>
         \/ UNCHANGED allVars
  PROVE  /\ fds' = fds /\ trs' = trs /\ endpoints' = endpoints
         /\ \/ happened' = happened
            \/ \E e \in {"failure", "request", "vanish"} : happened' = happened \cup {e}
<1>1. CASE HandleInst
  BY <1>1 DEF HandleInst
<1>2. CASE \E c \in Callers : Steps(c)
  <2>1. PICK c \in Callers : Steps(c)
    BY <1>2
  <2>2. Look(c) \/ Drop(c) \/ Allow(c) \/ Wait(c) \/ Store(c)
        => fds' = fds /\ trs' = trs /\ endpoints' = endpoints /\ happened' = happened
    BY DEF Look, Drop, Allow, Wait, Store, world
  <2>3. Create(c) => /\ fds' = fds /\ trs' = trs /\ endpoints' = endpoints
                     /\ happened' = happened \/ happened' = happened \cup {"failure"}
    BY DEF Create, May
  <2> QED
    BY <2>1, <2>2, <2>3 DEF Steps
<1>3. CASE \E c \in Requests, e \in Endpoints : Request(c, e)
  BY <1>3 DEF Request, May, world
<1>4. CASE \E i \in Insts : SetCondition(i) \/ DeleteInst(i) \/ CreateInst(i)
  BY <1>4 DEF SetCondition, DeleteInst, CreateInst, May, process
<1>5. CASE SyncerHandles
  BY <1>5 DEF SyncerHandles, process
<1>6. CASE Syncer!ChangeConfig /\ UNCHANGED <<fds, trs, process, happened>>
  BY <1>6 DEF process
<1>7. CASE UNCHANGED allVars
  BY <1>7 DEF allVars, vars, world, process
<1> QED
  BY <1>1, <1>2, <1>3, <1>4, <1>5, <1>6, <1>7

(* And so what is known of them.                                          *)
LEMMA RouteOthers ==
  ASSUME RouteInv,
         \/ HandleInst
         \/ \E c \in Callers : Steps(c)
         \/ \E c \in Requests, e \in Endpoints : Request(c, e)
         \/ \E i \in Insts : SetCondition(i) \/ DeleteInst(i) \/ CreateInst(i)
         \/ SyncerHandles
         \/ Syncer!ChangeConfig /\ UNCHANGED <<fds, trs, process, happened>>
         \/ UNCHANGED allVars
  PROVE  RouteInv'
<1>1. /\ fds' = fds /\ trs' = trs /\ endpoints' = endpoints
      /\ \/ happened' = happened
         \/ \E e \in {"failure", "request", "vanish"} : happened' = happened \cup {e}
  BY OthersLeave
<1>2. PICK S \in SUBSET (Events \ {"apply", "delete"}) : happened' = happened \cup S
  <2>1. /\ {} \in SUBSET (Events \ {"apply", "delete"})
        /\ \A e \in {"failure", "request", "vanish"} : {e} \in SUBSET (Events \ {"apply", "delete"})
    BY DEF Events
  <2>2. happened \cup {} = happened
    OBVIOUS
  <2> QED
    BY <1>1, <2>1, <2>2
<1> QED
  BY <1>1, <1>2, RouteKept

(* What a step of the process may be, in either of its parts.              *)
LEMMA NextIs ==
  ASSUME [Next]_allVars
  PROVE  \/ ApplyFuncdef \/ DeleteFuncdef
         \/ RenameTrigger \/ CascadeTrigger
         \/ Informers \/ BreakWatch
         \/ HandleFuncdefAdd \/ HandleFuncdefUpdate \/ HandleFuncdefDelete
         \/ HandleTrigger
         \/ HandleFuncdefPanic \/ Die
         \/ HandleInst
         \/ \E c \in Callers : Steps(c)
         \/ \E c \in Requests, e \in Endpoints : Request(c, e)
         \/ \E i \in Insts : SetCondition(i) \/ DeleteInst(i) \/ CreateInst(i)
         \/ SyncerHandles
         \/ Syncer!ChangeConfig /\ UNCHANGED <<fds, trs, process, happened>>
         \/ UNCHANGED allVars
BY DEF Next, OperatorNext, SyncerNext, OperatorStep, World, InstWorld, Handle, Panics

LEMMA RouteStep == RouteInv /\ [Next]_allVars => RouteInv'
<1> SUFFICES ASSUME RouteInv, [Next]_allVars
             PROVE  RouteInv'
  OBVIOUS
<1>1. CASE HandleFuncdefPanic
  <2>1. Crash /\ happened' = happened \cup {}
    BY <1>1 DEF HandleFuncdefPanic
  <2> QED
    BY <2>1, RouteCrash
<1>2. CASE Die
  <2>1. Crash /\ happened' = happened \cup {"crash"}
    BY <1>2 DEF Die, May
  <2>2. {"crash"} \in SUBSET (Events \ {"apply", "delete"})
    BY DEF Events
  <2> QED
    BY <2>1, <2>2, RouteCrash
<1> QED
  BY <1>1, <1>2, NextIs, RouteFuncdef, RouteRename, RouteCascade, RouteInformers, RouteBreak, RouteHandled,
     RouteTrigger, RouteOthers

(* A process that is started has been told of nothing.                     *)
LEMMA RouteStart == Init => RouteInv
<1> SUFFICES ASSUME Init
             PROVE  RouteInv
  OBVIOUS
<1>0. PICK fn \in FnStates, trigger \in NotRenamed :
        /\ trigger = "set" => fn # Gone
        /\ fds = Restart(StartWatch([f \in {Fn} |-> fn], {"lister", "operator"}))
        /\ trs = Restart(StartWatch([t \in Triggers |-> IF t = Generated THEN trigger ELSE Gone],
                                    {"lister", "operator"}))
        /\ happened = {}
  <2>1. CASE \E fn \in {"set", Gone}, trigger \in {"set", "orphan", Gone} :
               /\ trigger = "set" => fn # Gone
               /\ trigger = "orphan" => fn = Gone
               /\ InitWorld(fn, [t \in Triggers |-> IF t = Generated THEN trigger ELSE Gone],
                            "operator")
    <3>1. {"set", "orphan", Gone} \subseteq NotRenamed
      BY Both DEF NotRenamed, TriggerValues, TriggerStates
    <3> QED
      BY <2>1, <3>1 DEF InitWorld, FnStates
  <2>2. CASE InitWorld(Gone, [t \in Triggers |-> Gone], "creds")
    <3>1. [t \in Triggers |-> Gone] = [t \in Triggers |-> IF t = Generated THEN Gone ELSE Gone]
      OBVIOUS
    <3>2. Gone \in FnStates /\ Gone \in NotRenamed /\ Gone # "set"
      BY Both DEF NotRenamed
    <3> QED
      BY <2>2, <3>1, <3>2 DEF InitWorld
  <2> QED
    BY <2>1, <2>2 DEF Init
<1>1. PICK objects : /\ objects = [t \in Triggers |-> IF t = Generated THEN trigger ELSE Gone]
                     /\ trs = Restart(StartWatch(objects, {"lister", "operator"}))
  BY <1>0
<1> DEFINE f == StartWatch([g \in {Fn} |-> fn], Followers)
           t == StartWatch(objects, Followers)
<1>2. fds = Restart(f) /\ trs = Restart(t)
  BY <1>0, <1>1 DEF Followers
<1>3. FdsInv(f, {})
  <2>1. [g \in {Fn} |-> fn] \in [FnNames -> FnStates]
    BY DEF FnNames
  <2>2. Followed(f, FnNames, FnStates, Followers)
    BY <2>1, Both, StartIsFollowed
  <2>3. About(f, FnNames, FnNames, {"set"})
    BY DEF About, StartWatch
  <2> QED
    BY <2>2, <2>3 DEF FdsInv
<1>4. TrsInv(t, {})
  <2>1. /\ objects \in [Triggers -> TriggerValues] /\ objects \in [Triggers -> NotRenamed]
        /\ Gone \in NotRenamed
    BY <1>1, Both DEF NotRenamed
  <2>2. /\ Followed(t, Triggers, TriggerValues, Followers)
        /\ Followed(t, Triggers, NotRenamed, Followers)
    BY <2>1, Both, StartIsFollowed
  <2>3. t.base = objects /\ t.log = <<>>
    BY DEF StartWatch
  <2>4. \A k \in Triggers \ {Generated} : objects[k] = Gone
    BY <1>1
  <2> HIDE DEF t
  <2>5. /\ About(t, Triggers, {Generated}, TriggerValues)
        /\ About(t, Triggers, {Generated}, TriggerStates)
        /\ Honest(t)
    BY <2>3, <2>4 DEF About, Honest
  <2> QED
    BY <2>2, <2>5 DEF TrsInv
<1> HIDE DEF f, t
<1>5. FdsInv(fds, {}) /\ Seen(fds, "operator", Fn) = Gone
  BY <1>2, <1>3, FdsRestart
<1>6. TrsInv(trs, {}) /\ Seen(trs, "operator", Generated) = Gone
  BY <1>2, <1>4, TrsRestart
<1>7. endpoints = [e \in Endpoints |-> None]
  BY DEF Init, InitProcess
<1> QED
  BY <1>0, <1>5, <1>6, <1>7, Both DEF RouteInv

LEMMA RouteHolds == Spec => []RouteInv
<1>1. Init => RouteInv
  BY RouteStart
<1>2. RouteInv /\ [Next]_allVars => RouteInv'
  BY RouteStep
<1> QED
  BY <1>1, <1>2, PTL DEF Spec

(* TriggerForEndpoint (funcinsts.go): once everything is handled, an       *)
(* endpoint leads to a trigger exactly if it is there, and a function that *)
(* is there has an endpoint, through any number of starts of the process;  *)
(* unless creating its trigger failed, a watch broke, a user changed the   *)
(* alias, or the trigger of an older function was taken for its own.       *)
THEOREM Routed == Spec => []FunctionsAreRouted
<1>1. RouteInv => FunctionsAreRouted
  <2> SUFFICES ASSUME RouteInv, Quiet, {"failure", "relist", "rename"} \cap happened = {}
               PROVE  /\ \A t \in Triggers : Object(trs, t) # Gone <=> endpoints[EndpointOf[t]] = t
                      /\ \/ "collect" \in happened \/ {"delete", "apply"} \subseteq happened
                         \/ Object(fds, Fn) = Gone
                         \/ endpoints[EndpointOf[Generated]] = Generated
    BY DEF FunctionsAreRouted
  <2>1. /\ FdsInv(fds, happened) /\ TrsInv(trs, happened)
        /\ endpoints \in [Endpoints -> {None, Generated}]
        /\ {"failure", "relist", "rename"} \cap happened = {}
        /\ Synced(fds, "operator") /\ Synced(trs, "operator")
    BY DEF RouteInv, Quiet
  <2>2. Seen(fds, "operator", Fn) = Object(fds, Fn)
    <3>1. Followed(fds, FnNames, FnStates, Followers)
      BY <2>1 DEF FdsInv
    <3> QED
      BY <2>1, <3>1, Both, SyncedKnows
  <2>3. Seen(trs, "operator", Generated) = Object(trs, Generated)
    <3>1. Followed(trs, Triggers, TriggerValues, Followers)
      BY <2>1 DEF TrsInv
    <3> QED
      BY <2>1, <3>1, Both, SyncedKnows
  <2>4. Object(trs, Generated) # Gone <=> endpoints[EndpointOf[Generated]] = Generated
    BY <2>1, <2>3 DEF RouteInv
  <2>5. ASSUME NEW t \in Triggers, t # Generated
        PROVE  Object(trs, t) = Gone /\ endpoints[EndpointOf[t]] # t
    <3>1. Object(trs, t) = Gone
      BY <2>1, <2>5, TrsKnows
    <3>2. EndpointOf[t] \in Endpoints /\ t # None
      BY ConstantsAssumption DEF Endpoints
    <3> QED
      BY <2>1, <2>5, <3>1, <3>2
  <2>6. ASSUME "collect" \notin happened, ~({"delete", "apply"} \subseteq happened),
               Object(fds, Fn) # Gone
        PROVE  endpoints[EndpointOf[Generated]] = Generated
    <3>1. "delete" \notin happened
      BY <2>1, <2>6 DEF FdsInv
    <3>2. Clean(happened)
      BY <2>6, <3>1 DEF Clean
    <3> QED
      BY <2>2, <2>4, <2>6, <3>2 DEF RouteInv
  <2> QED
    BY <2>4, <2>5, <2>6
<1> QED
  BY <1>1, RouteHolds, PTL

-----------------------------------------------------------------------------
(* Types.                                                                  *)

InstsOf(T)  == [of : T, cond : Conditions] \cup {Gone}
OwnInsts    == InstsOf({Generated})
SyncReaders == {"lister", "creds"}

PCs   == {"idle", "look", "drop", "wait", "again", "dropAgain", "create", "store"}
Calls == [pc : PCs, of : Triggers \cup {None}, inst : Insts \cup {None}]

(* A call is for the generated trigger, and stores what it created.        *)
Calling(x) ==
  /\ x.pc # "idle" => x.of = Generated
  /\ x.pc = "store" => x.inst \in Insts

CallInv == call \in [Callers -> Calls] /\ \A c \in Callers : Calling(call[c])

(* The operator follows the funcinsts of its trigger, or the syncer those  *)
(* of all of them, and nobody calls.                                       *)
ProcessInv ==
  /\ index \in [Triggers -> SUBSET Insts]
  /\ CallInv
  /\ provided \in BOOLEAN
  /\ \/ Followed(fnis, Insts, OwnInsts, Followers)
     \/ /\ Followed(fnis, Insts, Funcinsts, SyncReaders)
        /\ \A c \in Callers : call[c].pc = "idle"
        /\ provided = FALSE

LEMMA NoCallIs == NoCall \in Calls /\ Calling(NoCall) /\ NoCall.pc = "idle"
BY DEF NoCall, Calls, PCs, Calling

LEMMA CallMoves ==
  ASSUME CallInv, NEW c \in Callers, NEW x \in Calls, Calling(x),
         call' = [call EXCEPT ![c] = x]
  PROVE  /\ CallInv'
         /\ call'[c] = x /\ \A d \in Callers : d # c => call'[d] = call[d]
<1>1. /\ call' \in [Callers -> Calls]
      /\ call'[c] = x /\ \A d \in Callers : d # c => call'[d] = call[d]
  BY DEF CallInv
<1>2. \A d \in Callers : Calling(call'[d])
  <2> TAKE d \in Callers
  <2> QED
    BY <1>1 DEF CallInv
<1>3. \A d \in Callers : Calling(call[d])'
  BY <1>2 DEF Calling
<1> QED
  BY <1>1, <1>3 DEF CallInv

(* How a step of a call moves it: it goes on for the same trigger, or it   *)
(* returns.                                                                *)
Moves(c, pc, inst) ==
  /\ call'[c] = [pc |-> pc, of |-> call[c].of, inst |-> inst]
  /\ \A d \in Callers : d # c => call'[d] = call[d]

LEMMA GoesOn ==
  ASSUME CallInv, NEW c \in Callers, call[c].pc # "idle",
         NEW pc \in PCs, NEW inst \in Insts \cup {None}, pc = "store" => inst \in Insts,
         call' = [call EXCEPT ![c] = [pc |-> pc, of |-> call[c].of, inst |-> inst]]
  PROVE  CallInv' /\ Moves(c, pc, inst)
<1> DEFINE x == [pc |-> pc, of |-> call[c].of, inst |-> inst]
<1>1. call[c] \in Calls /\ Calling(call[c])
  BY DEF CallInv
<1>2. x \in Calls /\ Calling(x)
  BY <1>1 DEF Calls, Calling
<1> HIDE DEF x
<1>3. /\ CallInv'
      /\ call'[c] = x /\ \A d \in Callers : d # c => call'[d] = call[d]
  BY <1>2, CallMoves DEF x
<1> QED
  BY <1>3 DEF Moves, x

LEMMA Returns ==
  ASSUME CallInv, NEW c \in Callers, Return(c)
  PROVE  /\ CallInv'
         /\ call'[c] = NoCall /\ \A d \in Callers : d # c => call'[d] = call[d]
BY NoCallIs, CallMoves DEF Return

LEMMA Begins ==
  ASSUME CallInv, NEW c \in Callers, Begin(c, Generated)
  PROVE  /\ CallInv'
         /\ call'[c].pc = "look" /\ \A d \in Callers : d # c => call'[d] = call[d]
<1> DEFINE x == [pc |-> "look", of |-> Generated, inst |-> None]
<1>1. x \in Calls /\ Calling(x) /\ x.pc = "look"
  BY Both DEF Calls, PCs, Calling
<1>2. call' = [call EXCEPT ![c] = x]
  BY DEF Begin
<1> HIDE DEF x
<1> QED
  BY <1>1, <1>2, CallMoves

(* A caller that looks for an instance.                                    *)
LEMMA LookStep ==
  ASSUME CallInv, NEW c \in Callers, Look(c), index \in [Triggers -> SUBSET Insts]
  PROVE  /\ CallInv'
         /\ \A d \in Callers : d # c => call'[d] = call[d]
         /\ call[c].pc \in {"look", "again"}
         /\ \/ call'[c].pc = "idle" /\ \E i \in Insts : Live(Listed(fnis, i))
            \/ call'[c].pc \in {"drop", "dropAgain"}
<1>1. /\ call[c].pc \in {"look", "again"} /\ call[c].pc # "idle"
      /\ call[c] \in Calls /\ call[c].of = Generated
  BY DEF Look, CallInv, Calling
<1>2. index[call[c].of] \in SUBSET Insts
  BY <1>1, Both
<1>3. PICK i \in Insts :
        \/ Live(Listed(fnis, i)) /\ Return(c)
        \/ call' = [call EXCEPT ![c].inst = i,
                      ![c].pc = IF @ = "look" THEN "drop" ELSE "dropAgain"]
  BY <1>2 DEF Look
<1>4. CASE Live(Listed(fnis, i)) /\ Return(c)
  BY <1>1, <1>4, Returns, NoCallIs
<1>5. CASE call' = [call EXCEPT ![c].inst = i,
                      ![c].pc = IF @ = "look" THEN "drop" ELSE "dropAgain"]
  <2> DEFINE pc == IF call[c].pc = "look" THEN "drop" ELSE "dropAgain"
  <2>1. call' = [call EXCEPT ![c] = [pc |-> pc, of |-> call[c].of, inst |-> i]]
    BY <1>1, <1>5 DEF Calls, CallInv
  <2>2. pc \in {"drop", "dropAgain"} /\ pc \in PCs /\ pc # "store"
    BY DEF PCs
  <2> HIDE DEF pc
  <2>3. CallInv' /\ Moves(c, pc, i)
    BY <1>1, <2>1, <2>2, GoesOn
  <2> QED
    BY <1>1, <2>2, <2>3 DEF Moves
<1> QED
  BY <1>3, <1>4, <1>5

LEMMA DropStep ==
  ASSUME CallInv, NEW c \in Callers, Drop(c), index \in [Triggers -> SUBSET Insts]
  PROVE  /\ CallInv' /\ index' \in [Triggers -> SUBSET Insts]
         /\ \A d \in Callers : d # c => call'[d] = call[d]
         /\ call[c].pc \in {"drop", "dropAgain"} /\ call'[c].pc \in {"look", "again"}
<1>1. /\ call[c].pc \in {"drop", "dropAgain"} /\ call[c].pc # "idle"
      /\ call[c] \in Calls /\ call[c].of = Generated
  BY DEF Drop, CallInv, Calling
<1> DEFINE pc == IF call[c].pc = "drop" THEN "look" ELSE "again"
<1>2. call' = [call EXCEPT ![c] = [pc |-> pc, of |-> call[c].of, inst |-> None]]
  BY <1>1 DEF Drop, Calls, CallInv
<1>3. pc \in {"look", "again"} /\ pc \in PCs /\ pc # "store"
  BY DEF PCs
<1> HIDE DEF pc
<1>4. CallInv' /\ Moves(c, pc, None)
  BY <1>1, <1>2, <1>3, GoesOn
<1>5. index' \in [Triggers -> SUBSET Insts]
  BY <1>1, Both DEF Drop
<1> QED
  BY <1>1, <1>3, <1>4, <1>5 DEF Moves

LEMMA WaitStep ==
  ASSUME CallInv, NEW c \in Callers, Allow(c) \/ Wait(c)
  PROVE  /\ CallInv'
         /\ \A d \in Callers : d # c => call'[d] = call[d]
         /\ call[c].pc \in {"look", "wait"} /\ call'[c].pc \in {"create", "wait", "again"}
<1>1. /\ call[c].pc \in {"look", "wait"} /\ call[c].pc # "idle"
      /\ call[c] \in Calls
  BY DEF Allow, Wait, CallInv
<1>2. PICK pc \in {"create", "wait", "again"} : call' = [call EXCEPT ![c].pc = pc]
  BY DEF Allow, Wait
<1>3. call' = [call EXCEPT ![c] = [pc |-> pc, of |-> call[c].of, inst |-> call[c].inst]]
  <2>1. [call[c] EXCEPT !.pc = pc] = [pc |-> pc, of |-> call[c].of, inst |-> call[c].inst]
    BY <1>1 DEF Calls
  <2>2. call' = [call EXCEPT ![c] = [call[c] EXCEPT !.pc = pc]]
    BY <1>2
  <2> QED
    BY <2>1, <2>2
<1>4. pc \in PCs /\ pc # "store" /\ call[c].inst \in Insts \cup {None}
  BY <1>1, <1>2 DEF PCs, Calls
<1>5. CallInv' /\ Moves(c, pc, call[c].inst)
  BY <1>1, <1>3, <1>4, GoesOn
<1> QED
  BY <1>1, <1>2, <1>5 DEF Moves

LEMMA StoreStep ==
  ASSUME CallInv, NEW c \in Callers, Store(c), index \in [Triggers -> SUBSET Insts]
  PROVE  /\ CallInv' /\ index' \in [Triggers -> SUBSET Insts]
         /\ \A d \in Callers : d # c => call'[d] = call[d]
         /\ call[c].pc = "store" /\ call'[c].pc = "idle"
<1>1. /\ call[c].pc = "store" /\ call[c].inst \in Insts /\ call[c].of = Generated
  BY DEF Store, CallInv, Calling
<1>2. index' \in [Triggers -> SUBSET Insts]
  BY <1>1, Both DEF Store
<1> QED
  BY <1>1, <1>2, Returns, NoCallIs DEF Store

(* An instance is created, or the caller returns: it no longer finds the   *)
(* function or its trigger, or the API server fails.                       *)
LEMMA CreateStep ==
  ASSUME CallInv, NEW c \in Callers, Create(c)
  PROVE  /\ CallInv'
         /\ \A d \in Callers : d # c => call'[d] = call[d]
         /\ call[c].pc \in {"create", "again"}
         /\ \/ /\ \E i \in Insts : fnis' = Change(fnis, i, [of |-> Generated, cond |-> "fresh"])
               /\ call'[c].pc = "store" /\ Listed(fds, Fn) # Gone
               /\ happened' = happened
            \/ /\ call'[c].pc = "idle" /\ fnis' = fnis
               /\ \/ Listed(fds, Fn) = Gone \/ Listed(trs, Generated) = Gone
                  \/ "failure" \in happened'
<1>1. /\ call[c].pc \in {"create", "again"} /\ call[c].pc # "idle"
      /\ call[c] \in Calls /\ call[c].of = Generated
  BY DEF Create, CallInv, Calling
<1>2. \/ \E i \in Insts :
           /\ fnis' = Change(fnis, i, [of |-> call[c].of, cond |-> "fresh"])
           /\ call' = [call EXCEPT ![c].pc = "store", ![c].inst = i]
           /\ Listed(fds, Fn) # Gone /\ happened' = happened
      \/ /\ Return(c) /\ fnis' = fnis
         /\ \/ Listed(fds, Fn) = Gone \/ Listed(trs, call[c].of) = Gone
            \/ "failure" \in happened'
  BY DEF Create, May
<1>3. CASE /\ Return(c) /\ fnis' = fnis
           /\ \/ Listed(fds, Fn) = Gone \/ Listed(trs, call[c].of) = Gone
              \/ "failure" \in happened'
  <2>1. CallInv' /\ call'[c].pc = "idle" /\ \A d \in Callers : d # c => call'[d] = call[d]
    BY <1>3, Returns, NoCallIs
  <2> QED
    BY <1>1, <1>3, <2>1
<1>4. ASSUME NEW i \in Insts,
             fnis' = Change(fnis, i, [of |-> call[c].of, cond |-> "fresh"]),
             call' = [call EXCEPT ![c].pc = "store", ![c].inst = i],
             Listed(fds, Fn) # Gone, happened' = happened
      PROVE  /\ CallInv'
             /\ \A d \in Callers : d # c => call'[d] = call[d]
             /\ fnis' = Change(fnis, i, [of |-> Generated, cond |-> "fresh"])
             /\ call'[c].pc = "store"
  <2>1. /\ \A x \in Calls : [x EXCEPT !.pc = "store"]
                            = [pc |-> "store", of |-> x.of, inst |-> x.inst]
        /\ \A x \in Calls : [x EXCEPT !.inst = i] = [pc |-> x.pc, of |-> x.of, inst |-> i]
    BY DEF Calls
  <2>2. /\ [call[c] EXCEPT !.pc = "store"]
           = [pc |-> "store", of |-> call[c].of, inst |-> call[c].inst]
        /\ [pc |-> "store", of |-> call[c].of, inst |-> call[c].inst] \in Calls
    <3>1. "store" \in PCs /\ call[c].of \in Triggers \cup {None}
          /\ call[c].inst \in Insts \cup {None}
      BY <1>1 DEF Calls, PCs
    <3> QED
      BY <1>1, <2>1, <3>1 DEF Calls
  <2>3. call' = [call EXCEPT ![c] = [pc |-> "store", of |-> call[c].of, inst |-> i]]
    <3> DEFINE x == [call[c] EXCEPT !.pc = "store"]
               f == [call EXCEPT ![c] = x]
    <3>1. call' = [f EXCEPT ![c] = [f[c] EXCEPT !.inst = i]]
      BY <1>4
    <3>2. f[c] = x /\ call \in [Callers -> Calls]
      BY DEF CallInv
    <3>3. x \in Calls /\ x.pc = "store" /\ x.of = call[c].of
      BY <2>2
    <3> HIDE DEF x
    <3>4. [f EXCEPT ![c] = [x EXCEPT !.inst = i]] = [call EXCEPT ![c] = [x EXCEPT !.inst = i]]
      BY <3>2
    <3>5. [x EXCEPT !.inst = i] = [pc |-> "store", of |-> call[c].of, inst |-> i]
      BY <2>1, <3>3
    <3> QED
      BY <3>1, <3>2, <3>4, <3>5
  <2>4. CallInv' /\ Moves(c, "store", i)
    BY <1>1, <2>3, GoesOn DEF PCs
  <2>5. fnis' = Change(fnis, i, [of |-> Generated, cond |-> "fresh"])
    BY <1>1, <1>4
  <2>6. \A p, t, j : [pc |-> p, of |-> t, inst |-> j].pc = p
    OBVIOUS
  <2> QED
    BY <2>4, <2>5, <2>6 DEF Moves
<1> QED
  <2>1. CASE \E i \in Insts :
               /\ fnis' = Change(fnis, i, [of |-> call[c].of, cond |-> "fresh"])
               /\ call' = [call EXCEPT ![c].pc = "store", ![c].inst = i]
               /\ Listed(fds, Fn) # Gone /\ happened' = happened
    BY <1>1, <1>4, <2>1
  <2> QED
    BY <1>1, <1>2, <1>3, <2>1

(* A handler of the function gives it an instance, or calls nobody.        *)
CallsBy(c) ==
  /\ Begin(c, Generated) /\ provided' = TRUE
  /\ Provisioned /\ Listed(fds, Fn) # Gone /\ Listed(trs, Generated) # Gone

LEMMA FuncdefCalls ==
  ASSUME RouteInv, HandleFuncdefAdd \/ HandleFuncdefUpdate \/ HandleFuncdefDelete
  PROVE  /\ fnis' = fnis /\ index' = index
         /\ provided \in BOOLEAN => provided' \in BOOLEAN
         /\ CallsBy("fndefs") \/ (call' = call /\ (provided' => provided))
         /\ HandleFuncdefAdd \/ HandleFuncdefUpdate => CallsBy("fndefs") \/ provided' = provided
<1>1. /\ fnis' = fnis /\ index' = index
      /\ \/ \E t \in ListedTriggers : SetProvisioned("fndefs", t)
         \/ call' = call /\ provided' = provided
         \/ call' = call /\ ~provided' /\ provided' \in BOOLEAN
  BY DEF HandleFuncdefAdd, HandleFuncdefUpdate, HandleFuncdefDelete
<1>2. HandleFuncdefAdd \/ HandleFuncdefUpdate =>
        (\E t \in ListedTriggers : SetProvisioned("fndefs", t)) \/ provided' = provided
  BY DEF HandleFuncdefAdd, HandleFuncdefUpdate
<1>3. ASSUME NEW t \in ListedTriggers, SetProvisioned("fndefs", t)
      PROVE  CallsBy("fndefs") \/ (call' = call /\ provided' = provided)
  <2>1. t = Generated /\ Listed(trs, Generated) # Gone
    BY OneTrigger DEF ListedTriggers
  <2> QED
    BY <1>3, <2>1 DEF SetProvisioned, CallsBy
<1>4. CallsBy("fndefs") => provided' \in BOOLEAN
  BY DEF CallsBy
<1> QED
  BY <1>1, <1>2, <1>3, <1>4

(* A funcinst of the trigger that is there has conditions.                 *)
LEMMA InstIs ==
  ASSUME NEW T \in SUBSET Triggers, NEW x \in InstsOf(T), x # Gone
  PROVE  /\ x = [of |-> x.of, cond |-> x.cond] /\ x.of \in T /\ x.cond \in Conditions
         /\ \A c \in Conditions : [x EXCEPT !.cond = c] \in InstsOf(T)
<1>1. x \in [of : T, cond : Conditions]
  BY DEF InstsOf
<1> QED
  BY <1>1 DEF InstsOf

(* What the handler of funcinsts does.                                     *)
LEMMA InstHandled ==
  ASSUME RouteInv, ProcessInv, Followed(fnis, Insts, OwnInsts, Followers), HandleInst
  PROVE  LET event == Event(fnis, "operator")
             old == Seen(fnis, "operator", event.key)
             cur == event.val
         IN /\ CanRead(fnis, "operator") /\ fnis' = Read(fnis, "operator")
            /\ event.key \in Insts /\ cur \in OwnInsts /\ old \in OwnInsts
            /\ index' \in [Triggers -> SUBSET Insts]
            /\ CallsBy("insts") \/ (call' = call /\ provided' = provided)
            /\ /\ Live(old) /\ cur # Gone /\ ~Live(cur)
               /\ Provisioned /\ Listed(fds, Fn) # Gone /\ Listed(trs, Generated) # Gone
               => CallsBy("insts")
<1> DEFINE event == Event(fnis, "operator")
           old == Seen(fnis, "operator", event.key)
           cur == event.val
<1>1. CanRead(fnis, "operator") /\ fnis' = Read(fnis, "operator")
  BY DEF HandleInst, CanHandle
<1>2. event \in Changes(Insts, OwnInsts)
  BY <1>1, Both, AboutRead
<1>3. event.key \in Insts /\ cur \in OwnInsts
  BY <1>2 DEF Changes
<1>4. old \in OwnInsts
  <2>1. fnis.pos["operator"] \in 0..Len(fnis.log)
    BY Both DEF Followed, Watches
  <2> QED
    BY <1>3, <2>1, AfterIsTyped DEF Seen
<1>5. /\ old # Gone => old.of = Generated /\ old.cond \in Conditions
      /\ cur # Gone => cur.of = Generated /\ cur.cond \in Conditions
  BY <1>3, <1>4, Both, InstIs DEF OwnInsts
<1>6. index \in [Triggers -> SUBSET Insts]
  BY DEF ProcessInv
<1>7. \/ /\ old = Gone \/ cur = Gone
         /\ call' = call /\ provided' = provided
         /\ \/ cur # Gone /\ index' = IndexOf(event.key, cur)
            \/ index' = index
            \/ old # Gone /\ index' = [index EXCEPT ![old.of] = @ \ {event.key}]
      \/ /\ OnlyLastActivityChanged(old, cur) /\ old # Gone /\ cur # Gone
         /\ index' = index /\ call' = call /\ provided' = provided
      \/ /\ ~OnlyLastActivityChanged(old, cur) /\ old # Gone /\ cur # Gone
         /\ index' = IndexOf(event.key, cur)
         /\ IF cur.cond # "fresh" /\ Listed(trs, cur.of) # Gone
            THEN SetProvisioned("insts", cur.of)
            ELSE call' = call /\ provided' = provided
  BY DEF HandleInst
<1>8. index' \in [Triggers -> SUBSET Insts]
  <2> HIDE DEF event, old, cur
  <2>1. cur # Gone => IndexOf(event.key, cur) \in [Triggers -> SUBSET Insts]
    BY <1>3, <1>5, <1>6, Both DEF IndexOf
  <2>2. old # Gone => [index EXCEPT ![old.of] = @ \ {event.key}] \in [Triggers -> SUBSET Insts]
    BY <1>3, <1>5, <1>6, Both
  <2> QED
    BY <1>6, <1>7, <2>1, <2>2
<1>9. CallsBy("insts") \/ (call' = call /\ provided' = provided)
  <2> HIDE DEF event, old, cur
  <2> QED
    BY <1>5, <1>7 DEF SetProvisioned, CallsBy
<1>10. ASSUME Live(old), cur # Gone, ~Live(cur),
              Provisioned, Listed(fds, Fn) # Gone, Listed(trs, Generated) # Gone
       PROVE  CallsBy("insts")
  <2> HIDE DEF event, old, cur
  <2>1. old # Gone /\ cur.cond = "inactive"
    BY <1>10 DEF Live
  <2>2. ~OnlyLastActivityChanged(old, cur)
    BY <2>1 DEF OnlyLastActivityChanged
  <2> QED
    BY <1>5, <1>7, <1>10, <2>1, <2>2 DEF SetProvisioned, CallsBy
<1> QED
  BY <1>1, <1>3, <1>4, <1>8, <1>9, <1>10

-----------------------------------------------------------------------------
(* The scenes: the operator, or the syncer.                                *)

OperatorScene == Followed(fnis, Insts, OwnInsts, Followers)
SyncerScene   == Followed(fnis, Insts, Funcinsts, SyncReaders)

CredsTypes ==
  /\ Followed(cms, {Config}, Keys \cup {None, Gone}, SyncReaders)
  /\ creds \in SUBSET (Insts \cup Keys) /\ lost \in SUBSET Insts

TypesInv == RouteInv /\ ProcessInv /\ CredsTypes

LEMMA SceneIs ==
  /\ OperatorScene => Reads(fnis, "operator") /\ ~Reads(fnis, "creds")
  /\ SyncerScene => Reads(fnis, "creds") /\ ~Reads(fnis, "operator")
  /\ Funcinsts = InstsOf(Triggers)
<1>1. OperatorScene => Reads(fnis, "operator") /\ ~Reads(fnis, "creds")
  BY DEF OperatorScene, Followed, Watches, Reads, Followers
<1>2. SyncerScene => Reads(fnis, "creds") /\ ~Reads(fnis, "operator")
  BY DEF SyncerScene, Followed, Watches, Reads, SyncReaders
<1> QED
  BY <1>1, <1>2 DEF Funcinsts, InstsOf

(* The steps of a process that has the operator alone.                     *)
LEMMA OperatorMoves ==
  ASSUME ~Reads(fnis, "creds"), [Next]_allVars
  PROVE  \/ /\ cms' = cms /\ creds' = creds /\ lost' = lost
            /\ \/ ApplyFuncdef \/ DeleteFuncdef \/ RenameTrigger \/ CascadeTrigger
               \/ Informers \/ BreakWatch
               \/ HandleFuncdefAdd \/ HandleFuncdefUpdate \/ HandleFuncdefDelete
               \/ HandleTrigger \/ HandleInst
               \/ HandleFuncdefPanic \/ Die
               \/ \E c \in Callers : Steps(c)
               \/ \E c \in Requests, e \in Endpoints : Request(c, e)
               \/ \E i \in Insts : SetCondition(i) \/ DeleteInst(i)
         \/ UNCHANGED allVars
BY DEF Next, OperatorNext, SyncerNext, OperatorStep, World, InstWorld, Handle, Panics

(* The steps of one that has the syncer alone.                             *)
LEMMA SyncerMoves ==
  ASSUME ~Reads(fnis, "operator"), [Next]_allVars
  PROVE  \/ /\ cms' = cms /\ creds' = creds /\ lost' = lost
            /\ \/ Informers \/ BreakWatch
               \/ \E i \in Insts : SetCondition(i) \/ DeleteInst(i)
               \/ \E i \in Insts \ creds : CreateInst(i)
         \/ Die /\ Syncer!Lose
         \/ SyncerHandles
         \/ Syncer!ChangeConfig /\ UNCHANGED <<fds, trs, process, happened>>
         \/ UNCHANGED allVars
BY DEF Next, OperatorNext, SyncerNext, InstWorld

(* What is done to funcinsts by others.                                    *)
Move(w, x, V) ==
  \/ x = w
  \/ Behind(w, "lister") /\ x = Read(w, "lister")
  \/ x \in Relisted(w)
  \/ \E i \in Insts, v \in V : x = Change(w, i, v)

LEMMA InstsMove ==
  ASSUME NEW T \in SUBSET Triggers, NEW R, Followed(fnis, Insts, InstsOf(T), R),
         \/ Informers \/ BreakWatch
         \/ \E i \in Insts : SetCondition(i) \/ DeleteInst(i)
  PROVE  Move(fnis, fnis', InstsOf(T))
<1> DEFINE V == InstsOf(T)
<1>1. Gone \in V
  BY DEF InstsOf
<1>2. ASSUME NEW i \in Insts, Object(fnis, i) # Gone
      PROVE  \A c \in Conditions : [Object(fnis, i) EXCEPT !.cond = c] \in V
  <2>1. Len(fnis.log) \in 0..Len(fnis.log)
    BY DEF Followed, Watches
  <2>2. Object(fnis, i) \in V
    BY <2>1, AfterIsTyped DEF Object
  <2> QED
    BY <1>2, <2>2, InstIs
<1> HIDE DEF V
<1>3. \/ fnis' = fnis
      \/ Behind(fnis, "lister") /\ fnis' = Read(fnis, "lister")
      \/ fnis' \in Relisted(fnis)
      \/ \E i \in Insts, v \in V : fnis' = Change(fnis, i, v)
  <2>1. CASE Informers
    BY <2>1 DEF Informers
  <2>2. CASE BreakWatch
    BY <2>2 DEF BreakWatch
  <2>3. CASE \E i \in Insts : DeleteInst(i)
    BY <1>1, <2>3 DEF DeleteInst
  <2>4. ASSUME NEW i \in Insts, SetCondition(i)
        PROVE  \E v \in V : fnis' = Change(fnis, i, v)
    <3>1. Object(fnis, i) # Gone /\ {"idle", "active", "inactive"} \subseteq Conditions
      BY <2>4 DEF SetCondition, Live, Conditions
    <3>2. \E c \in {"idle", "active", "inactive"} :
            fnis' = Change(fnis, i, [Object(fnis, i) EXCEPT !.cond = c])
      BY <2>4 DEF SetCondition
    <3> QED
      BY <1>2, <3>1, <3>2
  <2> QED
    BY <2>1, <2>2, <2>3, <2>4
<1> QED
  BY <1>3 DEF Move, V

(* It leaves them such, and what a handler was told before.                *)
LEMMA MoveIsFollowed ==
  ASSUME NEW V, Gone \in V, NEW R, NEW w, Followed(w, Insts, V, R), NEW x, Move(w, x, V)
  PROVE  /\ Followed(x, Insts, V, R)
         /\ \A r \in R \ {"lister"}, i \in Insts : Seen(x, r, i) = Seen(w, r, i)
<1>1. "lister" \in R
  BY DEF Followed
<1>2. CASE Behind(w, "lister") /\ x = Read(w, "lister")
  BY <1>1, <1>2, AboutRead
<1>3. CASE x \in Relisted(w)
  BY <1>1, <1>3, AboutRelist
<1>4. CASE \E i \in Insts, v \in V : x = Change(w, i, v)
  BY <1>4, AboutChange
<1> QED
  BY <1>2, <1>3, <1>4 DEF Move

LEMMA InstsFollowed ==
  ASSUME NEW T \in SUBSET Triggers, NEW R, Followed(fnis, Insts, InstsOf(T), R),
         \/ Informers \/ BreakWatch
         \/ \E i \in Insts : SetCondition(i) \/ DeleteInst(i)
  PROVE  /\ Followed(fnis', Insts, InstsOf(T), R)
         /\ \A r \in R \ {"lister"}, i \in Insts : Seen(fnis', r, i) = Seen(fnis, r, i)
<1>1. Move(fnis, fnis', InstsOf(T)) /\ Gone \in InstsOf(T)
  BY InstsMove DEF InstsOf
<1> QED
  BY <1>1, MoveIsFollowed

LEMMA InstsRestart ==
  ASSUME NEW T \in SUBSET Triggers, NEW R, Followed(fnis, Insts, InstsOf(T), R), Crash
  PROVE  /\ Followed(fnis', Insts, InstsOf(T), R)
         /\ \A r \in R \ {"lister"}, i \in Insts : Seen(fnis', r, i) = Gone
<1> DEFINE V == InstsOf(T)
<1>1. Followed(fnis, Insts, V, R) /\ Gone \in V /\ IsFiniteSet(Insts) /\ fnis' = Restart(fnis)
  BY ConstantsAssumption DEF InstsOf, Crash
<1> HIDE DEF V
<1>2. Followed(Restart(fnis), Insts, V, R)
  BY <1>1, AboutRestart
<1>3. \A r \in R \ {"lister"}, i \in Insts : Seen(Restart(fnis), r, i) = Gone
  BY <1>1, RestartShows
<1> QED
  BY <1>1, <1>2, <1>3 DEF V

(* After a crash nobody calls.                                             *)
LEMMA CrashForgets ==
  ASSUME Crash
  PROVE  /\ index' \in [Triggers -> SUBSET Insts] /\ CallInv'
         /\ \A c \in Callers : call'[c] = NoCall
         /\ provided' \in BOOLEAN /\ ~provided'
<1>1. /\ index' \in [Triggers -> SUBSET Insts] /\ provided' \in BOOLEAN /\ ~provided'
      /\ call' \in [Callers -> Calls] /\ \A c \in Callers : call'[c] = NoCall
  BY NoCallIs DEF Crash
<1>2. \A c \in Callers : Calling(call[c])'
  BY <1>1, NoCallIs DEF Calling
<1> QED
  BY <1>1, <1>2 DEF CallInv

(* A handler that calls looks for an instance.                             *)
LEMMA CallBegins ==
  ASSUME CallInv, NEW c \in Callers, CallsBy(c)
  PROVE  /\ CallInv' /\ provided' \in BOOLEAN /\ provided'
         /\ call'[c].pc = "look" /\ \A d \in Callers : d # c => call'[d] = call[d]
BY Begins DEF CallsBy

LEMMA CallsKept ==
  ASSUME CallInv, call' = call
  PROVE  CallInv'
BY DEF CallInv, Calling

(* The operator's state stays what it is.                                  *)
LEMMA OperatorTypes ==
  ASSUME RouteInv, ProcessInv, OperatorScene, [Next]_allVars
  PROVE  ProcessInv' /\ OperatorScene'
<1>1. /\ index \in [Triggers -> SUBSET Insts] /\ CallInv /\ provided \in BOOLEAN
      /\ Followed(fnis, Insts, OwnInsts, Followers)
      /\ OwnInsts = InstsOf({Generated}) /\ {Generated} \in SUBSET Triggers
  BY Both DEF ProcessInv, OperatorScene, OwnInsts
<1>2. ASSUME CallInv', index' \in [Triggers -> SUBSET Insts], provided' \in BOOLEAN,
             Followed(fnis', Insts, OwnInsts, Followers)
      PROVE  ProcessInv' /\ OperatorScene'
  BY <1>2 DEF ProcessInv, OperatorScene
<1>3. CASE \/ ApplyFuncdef \/ DeleteFuncdef \/ RenameTrigger \/ CascadeTrigger
           \/ HandleTrigger \/ UNCHANGED allVars
  <2>1. fnis' = fnis /\ index' = index /\ call' = call /\ provided' = provided
    BY <1>3 DEF ApplyFuncdef, DeleteFuncdef, RenameTrigger, CascadeTrigger, HandleTrigger,
                process, world, vars, allVars
  <2> QED
    BY <1>1, <1>2, <2>1, CallsKept
<1>4. CASE Informers \/ BreakWatch \/ \E i \in Insts : SetCondition(i) \/ DeleteInst(i)
  <2>1. index' = index /\ call' = call /\ provided' = provided
    BY <1>4 DEF Informers, BreakWatch, SetCondition, DeleteInst, process
  <2> QED
    BY <1>1, <1>2, <1>4, <2>1, CallsKept, InstsFollowed
<1>5. CASE HandleFuncdefAdd \/ HandleFuncdefUpdate \/ HandleFuncdefDelete
  <2>1. /\ fnis' = fnis /\ index' = index /\ provided' \in BOOLEAN
        /\ CallsBy("fndefs") \/ (call' = call /\ (provided' => provided))
    BY <1>1, <1>5, FuncdefCalls
  <2>2. CallInv' /\ provided' \in BOOLEAN
    BY <1>1, <2>1, CallsKept, CallBegins DEF Callers, Handlers
  <2> QED
    BY <1>1, <1>2, <2>1, <2>2
<1>6. CASE HandleInst
  <2>1. /\ CanRead(fnis, "operator") /\ fnis' = Read(fnis, "operator")
        /\ index' \in [Triggers -> SUBSET Insts]
        /\ CallsBy("insts") \/ (call' = call /\ provided' = provided)
    BY <1>1, <1>6, InstHandled
  <2>2. CallInv' /\ provided' \in BOOLEAN
    BY <1>1, <2>1, CallsKept, CallBegins DEF Callers, Handlers
  <2>3. Followed(Read(fnis, "operator"), Insts, OwnInsts, Followers)
    BY <1>1, <2>1, Both, AboutRead
  <2> QED
    BY <1>2, <2>1, <2>2, <2>3
<1>7. CASE HandleFuncdefPanic \/ Die
  <2>1. Crash
    BY <1>7 DEF HandleFuncdefPanic, Die
  <2> QED
    BY <1>1, <1>2, <2>1, CrashForgets, InstsRestart
<1>8. ASSUME NEW c \in Callers, Steps(c)
      PROVE  ProcessInv' /\ OperatorScene'
  <2>1. provided' = provided
    BY <1>8 DEF Steps, Look, Drop, Allow, Wait, Create, Store
  <2>2. CASE Look(c) \/ Drop(c) \/ Allow(c) \/ Wait(c) \/ Store(c)
    <3>1. CallInv' /\ (index' \in [Triggers -> SUBSET Insts] \/ index' = index)
      BY <1>1, <2>2, LookStep, DropStep, WaitStep, StoreStep DEF Look, Allow, Wait
    <3>2. fnis' = fnis
      BY <2>2 DEF Look, Drop, Allow, Wait, Store, world
    <3> QED
      BY <1>1, <1>2, <2>1, <3>1, <3>2
  <2>3. CASE Create(c)
    <3>1. /\ CallInv' /\ index' = index
          /\ \/ fnis' = fnis
             \/ \E i \in Insts : fnis' = Change(fnis, i, [of |-> Generated, cond |-> "fresh"])
      BY <1>1, <2>3, CreateStep DEF Create
    <3>2. [of |-> Generated, cond |-> "fresh"] \in OwnInsts
      BY DEF OwnInsts, InstsOf, Conditions
    <3>3. \A i \in Insts :
            Followed(Change(fnis, i, [of |-> Generated, cond |-> "fresh"]),
                     Insts, OwnInsts, Followers)
      BY <1>1, <3>2, AboutChange
    <3> QED
      BY <1>1, <1>2, <2>1, <3>1, <3>3
  <2> QED
    BY <1>8, <2>2, <2>3 DEF Steps
<1>9. ASSUME NEW c \in Requests, NEW e \in Endpoints, Request(c, e)
      PROVE  ProcessInv' /\ OperatorScene'
  <2>1. /\ fnis' = fnis /\ index' = index /\ provided' = provided
        /\ Begin(c, endpoints[e]) /\ endpoints[e] # None
    BY <1>9 DEF Request, world
  <2>2. endpoints[e] = Generated /\ c \in Callers
    BY <2>1 DEF RouteInv, Callers
  <2> QED
    BY <1>1, <1>2, <2>1, <2>2, Begins
<1> QED
  BY <1>3, <1>4, <1>5, <1>6, <1>7, <1>8, <1>9, SceneIs, OperatorMoves

-----------------------------------------------------------------------------
(* The syncer.                                                             *)

(* The store has the key of the configmap that the syncer was told of and  *)
(* of the funcinsts that it was told are active, but of those whose        *)
(* deletion was hidden from it.                                            *)
CredsInv ==
  /\ Seen(cms, "creds", Config) \in Keys => Seen(cms, "creds", Config) \in creds
  /\ SyncerScene =>
       \A i \in Insts \ lost : i \in creds <=> Syncer!Active(Seen(fnis, "creds", i))

LEMMA KeysAre ==
  /\ \A k \in Keys : k \notin Insts /\ k # None /\ k # Gone
  /\ None \notin Insts /\ Gone \in Funcinsts /\ IsFiniteSet(Insts)
  /\ "creds" \in SyncReaders \ {"lister"} /\ "creds" \in SyncReaders /\ "lister" \in SyncReaders
  /\ Triggers \in SUBSET Triggers /\ Funcinsts = InstsOf(Triggers)
BY KeysAssumption, ConstantsAssumption, SceneIs DEF Funcinsts, SyncReaders

(* The configmap is at the same watch whatever else happens.               *)
LEMMA CredsKept ==
  ASSUME CredsInv, CredsTypes, cms' = cms, creds' = creds, lost' = lost,
         SyncerScene' => /\ SyncerScene
                         /\ \A i \in Insts : Seen(fnis', "creds", i) = Seen(fnis, "creds", i)
  PROVE  CredsInv' /\ CredsTypes'
BY DEF CredsInv, CredsTypes

(* A funcinst is handled.                                                  *)
LEMMA CredsFuncinst ==
  ASSUME CredsInv, CredsTypes, SyncerScene, Syncer!HandleFuncinst
  PROVE  CredsInv' /\ CredsTypes' /\ SyncerScene'
<1> DEFINE event == Event(fnis, "creds")
           i == event.key
           old == Seen(fnis, "creds", i)
           cur == event.val
<1>1. /\ CanRead(fnis, "creds") /\ fnis' = Read(fnis, "creds") /\ cms' = cms
      /\ \/ /\ cur # Gone /\ ~Syncer!OnlyLastActivityChanged(old, cur)
            /\ creds' = IF Syncer!Active(cur) THEN creds \cup {i}
                        ELSE IF old = Gone THEN creds ELSE creds \ {i}
         \/ Syncer!OnlyLastActivityChanged(old, cur) /\ creds' = creds
         \/ /\ cur = Gone
            /\ creds' = IF event.lost THEN creds ELSE creds \ {i}
      /\ lost' = IF event.lost THEN lost \cup {i} ELSE lost
  BY SameSyncer DEF Syncer!HandleFuncinst
<1>2. /\ Followed(Read(fnis, "creds"), Insts, Funcinsts, SyncReaders)
      /\ event \in Changes(Insts, Funcinsts)
      /\ \A j \in Insts : Seen(Read(fnis, "creds"), "creds", j)
                            = IF event.key = j THEN event.val ELSE Seen(fnis, "creds", j)
  BY <1>1, KeysAre, AboutRead DEF SyncerScene
<1>3. i \in Insts
  BY <1>2 DEF Changes
<1>4. SyncerScene'
  BY <1>1, <1>2 DEF SyncerScene
<1>5. \A j \in Insts : Seen(fnis', "creds", j) = IF i = j THEN cur ELSE Seen(fnis, "creds", j)
  BY <1>1, <1>2
<1>6. \A j \in Insts \ lost : j \in creds <=> Syncer!Active(Seen(fnis, "creds", j))
  BY DEF CredsInv
<1> DEFINE gone == event.lost
<1>7. /\ creds \in SUBSET (Insts \cup Keys) /\ lost \in SUBSET Insts
      /\ lost' = IF gone THEN lost \cup {i} ELSE lost
  BY <1>1 DEF CredsTypes
<1> HIDE DEF event, i, old, cur, gone
<1>8. /\ creds' \in SUBSET (Insts \cup Keys) /\ lost' \in SUBSET Insts
      /\ \A k : k # i => (k \in creds' <=> k \in creds)
  BY <1>1, <1>3, <1>7
<1>9. CredsTypes'
  BY <1>1, <1>8 DEF CredsTypes
<1>10. Seen(cms', "creds", Config) \in Keys => Seen(cms', "creds", Config) \in creds'
  BY <1>1, <1>3, <1>8, KeysAre DEF CredsInv
<1>11. i \notin lost' => (i \in creds' <=> Syncer!Active(cur))
  <2> HAVE i \notin lost'
  <2>1. ~gone /\ i \notin lost
    BY <1>7
  <2>2. i \in creds <=> Syncer!Active(old)
    BY <1>3, <1>6, <2>1 DEF old
  <2>3. CASE cur = Gone /\ creds' = creds \ {i}
    BY <2>3 DEF Syncer!Active
  <2>4. CASE Syncer!OnlyLastActivityChanged(old, cur) /\ creds' = creds
    BY <2>2, <2>4 DEF Syncer!OnlyLastActivityChanged, Syncer!Active
  <2>5. CASE /\ cur # Gone
             /\ creds' = IF Syncer!Active(cur) THEN creds \cup {i}
                         ELSE IF old = Gone THEN creds ELSE creds \ {i}
    BY <2>2, <2>5 DEF Syncer!Active
  <2> QED
    BY <1>1, <2>1, <2>3, <2>4, <2>5 DEF gone
<1>12. \A j \in Insts \ lost' : j \in creds' <=> Syncer!Active(Seen(fnis', "creds", j))
  <2> TAKE j \in Insts \ lost'
  <2>1. CASE j = i
    BY <1>3, <1>5, <1>11, <2>1
  <2>2. CASE j # i
    BY <1>5, <1>6, <1>7, <1>8, <2>2
  <2> QED
    BY <2>1, <2>2
<1> QED
  BY <1>4, <1>9, <1>10, <1>12 DEF CredsInv

(* The configmap is handled.                                               *)
LEMMA CredsConfig ==
  ASSUME CredsInv, CredsTypes, SyncerScene, Syncer!HandleConfig
  PROVE  CredsInv' /\ CredsTypes' /\ SyncerScene'
<1> DEFINE old == Seen(cms, "creds", Config)
           cur == Event(cms, "creds").val
           V == Keys \cup {None, Gone}
<1>1. /\ CanRead(cms, "creds") /\ cms' = Read(cms, "creds")
      /\ creds' = (IF old \in {Gone, cur} THEN creds ELSE Syncer!DropConfig(old))
                   \cup ({cur} \cap Keys)
      /\ fnis' = fnis /\ lost' = lost
  BY SameSyncer DEF Syncer!HandleConfig
<1>2. /\ Followed(Read(cms, "creds"), {Config}, V, SyncReaders)
      /\ Event(cms, "creds") \in Changes({Config}, V)
      /\ Seen(Read(cms, "creds"), "creds", Config)
           = IF Event(cms, "creds").key = Config THEN Event(cms, "creds").val
             ELSE Seen(cms, "creds", Config)
  <2>1. Followed(cms, {Config}, V, SyncReaders) /\ Config \in {Config}
    BY DEF CredsTypes
  <2> HIDE DEF V
  <2> QED
    BY <1>1, <2>1, KeysAre, AboutRead
<1>3. Seen(cms', "creds", Config) = cur
  BY <1>1, <1>2 DEF Changes
<1>4. creds \in SUBSET (Insts \cup Keys) /\ lost \in SUBSET Insts
  BY DEF CredsTypes
<1>5. Syncer!DropConfig(old) = creds
  <2>1. None \notin creds
    BY <1>4, KeysAre
  <2> QED
    BY <2>1 DEF Syncer!DropConfig
<1>6. creds' = creds \cup ({cur} \cap Keys)
  BY <1>1, <1>5
<1> HIDE DEF cur, old
<1>7. SyncerScene'
  BY <1>1 DEF SyncerScene
<1>8. CredsTypes'
  BY <1>1, <1>2, <1>4, <1>6 DEF CredsTypes
<1>9. \A i \in Insts : i \in creds' <=> i \in creds
  BY <1>6, KeysAre
<1> QED
  BY <1>1, <1>3, <1>6, <1>7, <1>8, <1>9 DEF CredsInv

(* The configmap is changed, or the cache tells of it.                     *)
LEMMA CredsElse ==
  ASSUME CredsInv, CredsTypes, SyncerScene, Syncer!ChangeConfig \/ Syncer!ConfigInformer
  PROVE  CredsInv' /\ CredsTypes' /\ SyncerScene'
<1> DEFINE V == Keys \cup {None, Gone}
<1>1. Followed(cms, {Config}, V, SyncReaders) /\ Config \in {Config}
  BY DEF CredsTypes
<1> HIDE DEF V
<1>2. /\ fnis' = fnis /\ creds' = creds /\ lost' = lost
      /\ \/ Behind(cms, "lister") /\ cms' = Read(cms, "lister")
         \/ \E v \in V : cms' = Change(cms, Config, v)
  BY SameSyncer DEF Syncer!ChangeConfig, Syncer!ConfigInformer, V
<1>3. /\ Followed(cms', {Config}, V, SyncReaders)
      /\ Seen(cms', "creds", Config) = Seen(cms, "creds", Config)
  <2>1. CASE Behind(cms, "lister") /\ cms' = Read(cms, "lister")
    <3>1. /\ Followed(Read(cms, "lister"), {Config}, V, SyncReaders)
          /\ \A q \in SyncReaders \ {"lister"} :
               Seen(Read(cms, "lister"), q, Config) = Seen(cms, q, Config)
      BY <1>1, <2>1, KeysAre, AboutRead
    <3> QED
      BY <2>1, <3>1, KeysAre
  <2>2. ASSUME NEW v \in V, cms' = Change(cms, Config, v)
        PROVE  /\ Followed(cms', {Config}, V, SyncReaders)
               /\ Seen(cms', "creds", Config) = Seen(cms, "creds", Config)
    <3>1. /\ Followed(Change(cms, Config, v), {Config}, V, SyncReaders)
          /\ \A r \in SyncReaders : Seen(Change(cms, Config, v), r, Config) = Seen(cms, r, Config)
      BY <1>1, AboutChange
    <3> QED
      BY <2>2, <3>1, KeysAre
  <2> QED
    BY <1>2, <2>1, <2>2
<1> QED
  BY <1>2, <1>3 DEF CredsInv, CredsTypes, SyncerScene, V

(* The process starts again, and the store is empty.                       *)
LEMMA CredsCrash ==
  ASSUME CredsTypes, SyncerScene, Crash, Syncer!Lose
  PROVE  CredsInv' /\ CredsTypes' /\ SyncerScene'
<1> DEFINE V == Keys \cup {None, Gone}
           one == {Config}
<1>1. /\ Followed(cms, one, V, SyncReaders) /\ Config \in one
      /\ IsFiniteSet(one) /\ Gone \in V
  BY FS_Singleton DEF CredsTypes
<1> HIDE DEF V, one
<1>2. cms' = Restart(cms) /\ creds' = {} /\ lost' = {}
  BY SameSyncer DEF Syncer!Lose
<1>3. Followed(Restart(cms), one, V, SyncReaders)
  BY <1>1, AboutRestart
<1>4. Seen(Restart(cms), "creds", Config) = Gone
  BY <1>1, KeysAre, RestartShows
<1>5. /\ Followed(fnis', Insts, Funcinsts, SyncReaders)
      /\ \A i \in Insts : Seen(fnis', "creds", i) = Gone
  BY KeysAre, InstsRestart DEF SyncerScene
<1>6. CredsTypes' /\ SyncerScene'
  BY <1>2, <1>3, <1>5 DEF CredsTypes, SyncerScene, V, one
<1> QED
  BY <1>2, <1>4, <1>5, <1>6, KeysAre DEF CredsInv, Syncer!Active

(* A watch has the readers of one scene.                                   *)
LEMMA OneScene ==
  ASSUME NEW w, NEW U, NEW V, Followed(w, Insts, U, Followers)
  PROVE  ~Followed(w, Insts, V, SyncReaders)
BY DEF Followed, Watches, Followers, SyncReaders

(* What holds of a process with either of its parts.                       *)
SceneInv == TypesInv /\ CredsInv

LEMMA OperatorCreds ==
  ASSUME SceneInv, OperatorScene, [Next]_allVars
  PROVE  SceneInv' /\ OperatorScene'
<1>1. ProcessInv' /\ OperatorScene' /\ RouteInv'
  BY OperatorTypes, RouteStep DEF SceneInv, TypesInv
<1>2. cms' = cms /\ creds' = creds /\ lost' = lost
  BY SceneIs, OperatorMoves DEF allVars
<1>3. ~SyncerScene'
  BY <1>1, OneScene DEF OperatorScene, SyncerScene
<1>4. CredsInv' /\ CredsTypes'
  BY <1>2, <1>3, CredsKept DEF SceneInv, TypesInv
<1> QED
  BY <1>1, <1>4 DEF SceneInv, TypesInv

LEMMA SyncerCreds ==
  ASSUME SceneInv, SyncerScene, [Next]_allVars
  PROVE  SceneInv' /\ SyncerScene'
<1>1. /\ CredsInv /\ CredsTypes /\ RouteInv' /\ index \in [Triggers -> SUBSET Insts]
      /\ CallInv /\ (\A c \in Callers : call[c].pc = "idle")
      /\ provided \in BOOLEAN /\ ~provided
  <2>1. ~OperatorScene
    BY SceneIs
  <2>2. CredsInv /\ CredsTypes /\ RouteInv' /\ ProcessInv
    BY RouteStep DEF SceneInv, TypesInv
  <2>3. provided \in BOOLEAN /\ ~provided
    BY <2>1, <2>2 DEF ProcessInv, OperatorScene
  <2> QED
    BY <2>1, <2>2, <2>3 DEF ProcessInv, OperatorScene
<1>2. ASSUME CredsInv', CredsTypes', SyncerScene',
             \/ index' = index /\ call' = call /\ provided' = provided
             \/ Crash
      PROVE  SceneInv' /\ SyncerScene'
  <2>1. CASE Crash
    <3>1. /\ index' \in [Triggers -> SUBSET Insts] /\ CallInv'
          /\ (\A c \in Callers : call'[c].pc = "idle")
          /\ provided' \in BOOLEAN /\ ~provided'
      BY <2>1, CrashForgets, NoCallIs
    <3>2. ProcessInv'
      BY <1>2, <3>1 DEF ProcessInv, SyncerScene
    <3> QED
      BY <1>1, <1>2, <3>2 DEF SceneInv, TypesInv
  <2>2. CASE index' = index /\ call' = call /\ provided' = provided
    <3>1. CallInv'
      BY <1>1, <2>2, CallsKept
    <3>2. ProcessInv'
      BY <1>1, <1>2, <2>2, <3>1 DEF ProcessInv, SyncerScene
    <3> QED
      BY <1>1, <1>2, <3>2 DEF SceneInv, TypesInv
  <2> QED
    BY <1>2, <2>1, <2>2
<1>3. CASE /\ cms' = cms /\ creds' = creds /\ lost' = lost
           /\ \/ Informers \/ BreakWatch
              \/ \E i \in Insts : SetCondition(i) \/ DeleteInst(i)
  <2>1. /\ Followed(fnis', Insts, Funcinsts, SyncReaders)
        /\ \A r \in SyncReaders \ {"lister"}, i \in Insts : Seen(fnis', r, i) = Seen(fnis, r, i)
    BY <1>3, KeysAre, InstsFollowed DEF SyncerScene
  <2>2. index' = index /\ call' = call /\ provided' = provided
    BY <1>3 DEF Informers, BreakWatch, SetCondition, DeleteInst, process
  <2>3. CredsInv' /\ CredsTypes' /\ SyncerScene'
    BY <1>1, <1>3, <2>1, KeysAre, CredsKept DEF SyncerScene
  <2> QED
    BY <1>2, <2>2, <2>3
<1>4. ASSUME NEW i \in Insts, CreateInst(i), cms' = cms, creds' = creds, lost' = lost
      PROVE  SceneInv' /\ SyncerScene'
  <2>1. PICK t \in Triggers : fnis' = Change(fnis, i, [of |-> t, cond |-> "fresh"])
    BY <1>4 DEF CreateInst
  <2>2. [of |-> t, cond |-> "fresh"] \in Funcinsts
    BY DEF Funcinsts, Conditions
  <2>3. Move(fnis, fnis', Funcinsts)
    BY <2>1, <2>2 DEF Move
  <2>4. /\ Followed(fnis', Insts, Funcinsts, SyncReaders)
        /\ \A r \in SyncReaders \ {"lister"}, j \in Insts : Seen(fnis', r, j) = Seen(fnis, r, j)
    BY <2>3, KeysAre, MoveIsFollowed DEF SyncerScene
  <2>5. index' = index /\ call' = call /\ provided' = provided
    BY <1>4 DEF CreateInst, process
  <2>6. CredsInv' /\ CredsTypes' /\ SyncerScene'
    BY <1>1, <1>4, <2>4, KeysAre, CredsKept DEF SyncerScene
  <2> QED
    BY <1>2, <2>5, <2>6
<1>5. CASE Die /\ Syncer!Lose
  <2>1. Crash
    BY <1>5 DEF Die
  <2> QED
    BY <1>1, <1>2, <1>5, <2>1, CredsCrash
<1>6. CASE SyncerHandles \/ (Syncer!ChangeConfig /\ UNCHANGED <<fds, trs, process, happened>>)
  <2>1. index' = index /\ call' = call /\ provided' = provided
    BY <1>6 DEF SyncerHandles, process
  <2> QED
    BY <1>1, <1>2, <1>6, <2>1, CredsFuncinst, CredsConfig, CredsElse DEF SyncerHandles
<1>7. CASE UNCHANGED allVars
  <2>1. /\ index' = index /\ call' = call /\ provided' = provided
        /\ fnis' = fnis /\ cms' = cms /\ creds' = creds /\ lost' = lost
    BY <1>7 DEF allVars, vars, world, process
  <2>2. CredsInv' /\ CredsTypes' /\ SyncerScene'
    BY <1>1, <2>1, CredsKept DEF SyncerScene
  <2> QED
    BY <1>2, <2>1, <2>2
<1> QED
  BY <1>3, <1>4, <1>5, <1>6, <1>7, SceneIs, SyncerMoves

LEMMA SceneStart == Init => SceneInv
<1> SUFFICES ASSUME Init
             PROVE  SceneInv
  OBVIOUS
<1> DEFINE objects == [i \in Insts |-> Gone]
<1>1. objects \in [Insts -> OwnInsts] /\ objects \in [Insts -> Funcinsts]
  BY KeysAre DEF OwnInsts, InstsOf
<1>2. fnis = StartWatch(objects, Followers) \/ fnis = StartWatch(objects, SyncReaders)
  BY DEF Init, InitWorld, Followers, SyncReaders
<1>3. /\ OperatorScene \/ SyncerScene
      /\ \A i \in Insts : SyncerScene => Seen(fnis, "creds", i) = Gone
  <2>1. /\ Followed(StartWatch(objects, Followers), Insts, OwnInsts, Followers)
        /\ Followed(StartWatch(objects, SyncReaders), Insts, Funcinsts, SyncReaders)
    BY <1>1, Both, KeysAre, StartIsFollowed
  <2>2. /\ StartWatch(objects, SyncReaders).base = objects
        /\ StartWatch(objects, SyncReaders).pos["creds"] = 0
    BY KeysAre DEF StartWatch
  <2>3. \A i \in Insts : objects[i] = Gone
    OBVIOUS
  <2> HIDE DEF objects
  <2>4. \A i \in Insts : Seen(StartWatch(objects, SyncReaders), "creds", i) = Gone
    BY <2>2, <2>3, AfterZero DEF Seen
  <2>5. CASE fnis = StartWatch(objects, Followers)
    BY <2>1, <2>5, OneScene DEF OperatorScene, SyncerScene
  <2>6. CASE fnis = StartWatch(objects, SyncReaders)
    BY <2>1, <2>4, <2>6 DEF SyncerScene
  <2> QED
    BY <1>2, <2>5, <2>6
<1>4. /\ index \in [Triggers -> SUBSET Insts] /\ call \in [Callers -> Calls]
      /\ \A c \in Callers : call[c] = NoCall
      /\ provided = FALSE
  BY NoCallIs DEF Init, InitProcess
<1>5. CallInv /\ \A c \in Callers : call[c].pc = "idle"
  BY <1>4, NoCallIs DEF CallInv
<1>6. ProcessInv
  BY <1>3, <1>4, <1>5 DEF ProcessInv, OperatorScene, SyncerScene
<1>7. creds = {} /\ lost = {} /\ cms = StartWatch([c \in {Config} |-> Gone], SyncReaders)
  BY SameSyncer DEF Init, Syncer!Init, SyncReaders
<1>8. CredsTypes
  <2> DEFINE V == Keys \cup {None, Gone}
             one == {Config}
             configs == [c \in one |-> Gone]
  <2>1. configs \in [one -> V] /\ "lister" \in SyncReaders
    BY KeysAre
  <2> HIDE DEF V, one
  <2>2. Followed(StartWatch(configs, SyncReaders), one, V, SyncReaders)
    BY <2>1, StartIsFollowed
  <2> QED
    BY <1>7, <2>2 DEF CredsTypes, V, one
<1>9. Seen(cms, "creds", Config) = Gone
  <2> DEFINE configs == [c \in {Config} |-> Gone]
  <2>1. /\ StartWatch(configs, SyncReaders).base = configs
        /\ StartWatch(configs, SyncReaders).pos["creds"] = 0
        /\ configs[Config] = Gone
    BY KeysAre DEF StartWatch
  <2> HIDE DEF configs
  <2>2. Seen(StartWatch(configs, SyncReaders), "creds", Config) = Gone
    BY <2>1, AfterZero DEF Seen
  <2> QED
    BY <1>7, <2>2 DEF configs
<1>10. CredsInv
  BY <1>3, <1>7, <1>9, KeysAre DEF CredsInv, Syncer!Active
<1> QED
  BY <1>6, <1>8, <1>10, RouteStart DEF SceneInv, TypesInv

LEMMA SceneHolds == Spec => []SceneInv
<1>1. SceneInv /\ [Next]_allVars => SceneInv'
  <2> SUFFICES ASSUME SceneInv, [Next]_allVars
               PROVE  SceneInv'
    OBVIOUS
  <2>1. OperatorScene \/ SyncerScene
    BY DEF SceneInv, TypesInv, ProcessInv, OperatorScene, SyncerScene
  <2> QED
    BY <2>1, OperatorCreds, SyncerCreds
<1> QED
  BY <1>1, SceneStart, PTL DEF Spec

(* Every variable has its type: the watches hold known states of known     *)
(* objects, calls are at a program point, and the store holds keys.        *)
THEOREM OperatorTyped == Spec => []Sound
<1>1. SceneInv => Sound
  <2> SUFFICES ASSUME SceneInv
               PROVE  TypeOK /\ Syncer!TypeOK
    BY DEF Sound
  <2>1. /\ RouteInv /\ FdsInv(fds, happened) /\ TrsInv(trs, happened)
        /\ ProcessInv /\ CallInv /\ CredsTypes
    BY DEF SceneInv, TypesInv, RouteInv, ProcessInv
  <2>2. /\ fds \in Watches({Fn}, {"set", Gone}, {"lister", "operator"})
        /\ trs \in Watches(Triggers, TriggerStates \cup {Gone}, {"lister", "operator"})
    BY <2>1 DEF FdsInv, TrsInv, Followed, FnNames, FnStates, TriggerValues, Followers
  <2>3. fnis.base \in [Insts -> Funcinsts] /\ fnis.log \in Seq(Changes(Insts, Funcinsts))
    <3>1. CASE SyncerScene
      BY <3>1 DEF SyncerScene, Followed, Watches
    <3>2. CASE OperatorScene
      <4>1. OwnInsts \subseteq Funcinsts
        BY Both DEF OwnInsts, InstsOf, Funcinsts
      <4>2. Changes(Insts, OwnInsts) \subseteq Changes(Insts, Funcinsts)
        BY <4>1 DEF Changes
      <4>3. /\ fnis.base \in [Insts -> OwnInsts]
            /\ fnis.log \in Seq(Changes(Insts, OwnInsts))
        BY <3>2 DEF OperatorScene, Followed, Watches
      <4> DEFINE S == Changes(Insts, OwnInsts)
                 T == Changes(Insts, Funcinsts)
                 log == fnis.log
      <4>4. log \in Seq(S) /\ S \subseteq T
        BY <4>2, <4>3
      <4> HIDE DEF S, T, log
      <4>5. log \in Seq(T)
        BY <4>4
      <4> QED
        BY <4>1, <4>3, <4>5 DEF T, log
    <3> QED
      BY <2>1, <3>1, <3>2 DEF ProcessInv, OperatorScene, SyncerScene
  <2>4. endpoints \in [Endpoints -> Triggers \cup {None}] /\ happened \in SUBSET Events
    <3>1. endpoints \in [Endpoints -> {None, Generated}] /\ happened \subseteq Events
      BY <2>1 DEF RouteInv
    <3> QED
      BY <3>1, Both
  <2>5. index \in [Triggers -> SUBSET Insts] /\ provided \in BOOLEAN
    BY <2>1 DEF ProcessInv
  <2>6. call \in [Callers -> [pc : {"idle", "look", "drop", "wait", "again", "dropAgain",
                                    "create", "store"},
                              of : Triggers \cup {None},
                              inst : Insts \cup {None}]]
    BY <2>1 DEF CallInv, Calls, PCs
  <2>7. TypeOK
    BY <2>2, <2>3, <2>4, <2>5, <2>6 DEF TypeOK
  <2>8. Syncer!TypeOK
    <3>1. cms \in Watches({Config}, Keys \cup {None, Gone}, {"lister", "creds"})
      BY <2>1 DEF CredsTypes, Followed, SyncReaders
    <3>2. cms \in Syncer!Watches({Config}, Keys \cup {None, Gone}, {"lister", "creds"})
      BY <3>1, SameSyncer
    <3> QED
      BY <2>1, <3>2 DEF CredsTypes, Syncer!TypeOK
  <2> QED
    BY <2>7, <2>8
<1> QED
  BY <1>1, SceneHolds, PTL

(* handleFuncinstAdd, -Update and -Delete (credsyncer.go): a syncer that   *)
(* handled every change verifies exactly the keys of active funcinsts, but *)
(* those whose deletion a broken watch hid.                                *)
THEOREM CredsExact == Spec => []SyncedCredsAreExact
<1>1. SceneInv => SyncedCredsAreExact
  <2> SUFFICES ASSUME SceneInv, Synced(fnis, "creds"), NEW i \in Insts \ lost
               PROVE  i \in creds <=> Syncer!Active(Object(fnis, i))
    BY SameSyncer DEF SyncedCredsAreExact, Syncer!SyncedCredsAreExact, Syncer!Verifies
  <2>1. Reads(fnis, "creds") /\ (OperatorScene \/ SyncerScene)
    BY DEF Synced, SceneInv, TypesInv, ProcessInv, OperatorScene, SyncerScene
  <2>2. SyncerScene
    BY <2>1, SceneIs
  <2>3. Seen(fnis, "creds", i) = Object(fnis, i)
    BY <2>2, KeysAre, SyncedKnows DEF SyncerScene
  <2> QED
    BY <2>2, <2>3 DEF SceneInv, CredsInv
<1> QED
  BY <1>1, SceneHolds, PTL

(* handleConfigAdd and -Update (credsyncer.go): the current key of a       *)
(* configmap is verified when every change was handled.                    *)
THEOREM ConfigVerified == Spec => []ConfigIsVerified
<1>1. SceneInv => ConfigIsVerified
  <2> SUFFICES ASSUME SceneInv, Synced(cms, "creds"), Object(cms, Config) \in Keys
               PROVE  Object(cms, Config) \in creds
    BY SameSyncer DEF ConfigIsVerified, Syncer!ConfigIsVerified, Syncer!Verifies
  <2>1. Followed(cms, {Config}, Keys \cup {None, Gone}, SyncReaders)
    BY DEF SceneInv, TypesInv, CredsTypes
  <2>2. Seen(cms, "creds", Config) = Object(cms, Config)
    BY <2>1, KeysAre, SyncedKnows
  <2> QED
    BY <2>2 DEF SceneInv, CredsInv
<1> QED
  BY <1>1, SceneHolds, PTL

-----------------------------------------------------------------------------
(* What ProvisionedIsReplaced depends on.                                  *)

(* A live funcinst is put into inactive before it is deleted.              *)
Keeps == {x \in OwnInsts \X OwnInsts : Live(x[1]) => x[2] # Gone}
Ends  == {x \in OwnInsts \X OwnInsts : Live(x[1]) /\ x[2] # Gone /\ ~Live(x[2])}

Paths(w) == \A i \in Insts : Path(w, i, Keeps)

(* There is a live one, or the operator is going to be told that one ended. *)
Has(w) == \E i \in Insts : Live(Object(w, i)) \/ Ahead(w, "operator", i, Ends)

LEMMA HasRead ==
  ASSUME NEW w, Followed(w, Insts, OwnInsts, Followers), NEW q \in Followers,
         IF q = "lister" THEN Behind(w, q) ELSE CanRead(w, q)
  PROVE  LET x == Read(w, q)
             e == Event(w, q)
         IN /\ \A i \in Insts : Object(x, i) = Object(w, i)
            /\ Paths(w) => Paths(x)
            /\ Has(w) => \/ Has(x)
                         \/ /\ q = "operator"
                            /\ Live(Seen(w, q, e.key)) /\ e.val # Gone /\ ~Live(e.val)
<1> DEFINE x == Read(w, q)
           e == Event(w, q)
<1>1. \A i \in Insts : Object(x, i) = Object(w, i)
  BY AboutRead
<1>2. ASSUME NEW i \in Insts
      PROVE  /\ Path(w, i, Keeps) => Path(x, i, Keeps)
             /\ \A r \in Followers \ {q} : Ahead(w, r, i, Ends) => Ahead(x, r, i, Ends)
             /\ Ahead(w, q, i, Ends) =>
                  Ahead(x, q, i, Ends) \/ <<Seen(w, q, i), Seen(x, q, i)>> \in Ends
             /\ Seen(x, q, i) = IF e.key = i THEN e.val ELSE Seen(w, q, i)
  BY PathRead
<1> HIDE DEF x, e
<1>3. Paths(w) => Paths(x)
  BY <1>2 DEF Paths
<1>4. ASSUME Has(w)
      PROVE  \/ Has(x)
             \/ q = "operator" /\ Live(Seen(w, q, e.key)) /\ e.val # Gone /\ ~Live(e.val)
  <2>1. PICK i \in Insts : Live(Object(w, i)) \/ Ahead(w, "operator", i, Ends)
    BY <1>4 DEF Has
  <2>2. CASE Live(Object(w, i))
    BY <1>1, <2>2 DEF Has
  <2>3. CASE Ahead(w, "operator", i, Ends) /\ q # "operator"
    BY <1>2, <2>3, Both DEF Has
  <2>4. CASE Ahead(w, "operator", i, Ends) /\ q = "operator"
    <3>1. CASE Ahead(x, q, i, Ends)
      BY <2>4, <3>1 DEF Has
    <3>2. CASE <<Seen(w, q, i), Seen(x, q, i)>> \in Ends
      <4>1. Live(Seen(w, q, i)) /\ Seen(x, q, i) # Gone /\ ~Live(Seen(x, q, i))
        BY <3>2 DEF Ends
      <4>2. e.key = i /\ Seen(x, q, i) = e.val
        BY <1>2, <4>1
      <4> QED
        BY <2>4, <4>1, <4>2
    <3> QED
      BY <1>2, <2>4, <3>1, <3>2
  <2> QED
    BY <2>1, <2>2, <2>3, <2>4
<1> QED
  BY <1>1, <1>3, <1>4 DEF x, e

LEMMA HasChange ==
  ASSUME NEW w, Followed(w, Insts, OwnInsts, Followers), NEW i \in Insts, NEW v \in OwnInsts,
         Live(Object(w, i)) => v # Gone
  PROVE  LET x == Change(w, i, v)
         IN /\ Paths(w) => Paths(x)
            /\ Has(w) \/ Live(v) => Has(x)
<1> DEFINE x == Change(w, i, v)
<1>1. \A j : Object(x, j) = IF j = i THEN v ELSE Object(w, j)
  BY AboutChange
<1>2. ASSUME NEW j \in Insts
      PROVE  /\ \A step : Path(w, j, step) /\ <<Object(w, j), Object(x, j)>> \in step
                          => Path(x, j, step)
             /\ \A step : \/ Ahead(w, "operator", j, step)
                          \/ <<Object(w, j), Object(x, j)>> \in step
                          => Ahead(x, "operator", j, step)
  BY Both, PathChange
<1> HIDE DEF x
<1>3. \A j \in Insts : Object(w, j) \in OwnInsts /\ Object(x, j) \in OwnInsts
  <2>1. Len(w.log) \in 0..Len(w.log)
    BY DEF Followed, Watches
  <2>2. \A j \in Insts : Object(w, j) \in OwnInsts
    BY <2>1, AfterIsTyped DEF Object
  <2> QED
    BY <1>1, <2>2
<1>4. \A j \in Insts : <<Object(w, j), Object(x, j)>> \in Keeps
  <2> TAKE j \in Insts
  <2>1. Live(Object(w, j)) => Object(x, j) # Gone
    BY <1>1 DEF Live
  <2> QED
    BY <1>3, <2>1 DEF Keeps
<1>5. Paths(w) => Paths(x)
  BY <1>2, <1>4 DEF Paths
<1>6. Live(v) => Has(x)
  BY <1>1 DEF Has
<1>7. ASSUME Has(w)
      PROVE  Has(x)
  <2>1. PICK j \in Insts : Live(Object(w, j)) \/ Ahead(w, "operator", j, Ends)
    BY <1>7 DEF Has
  <2>2. CASE Ahead(w, "operator", j, Ends)
    BY <1>2, <2>2 DEF Has
  <2>3. CASE Live(Object(w, j)) /\ Live(Object(x, j))
    BY <2>3 DEF Has
  <2>4. CASE Live(Object(w, j)) /\ ~Live(Object(x, j))
    <3>1. Object(x, j) # Gone
      BY <1>1, <2>4 DEF Live
    <3>2. <<Object(w, j), Object(x, j)>> \in Ends
      BY <1>3, <2>4, <3>1 DEF Ends
    <3> QED
      BY <1>2, <3>2 DEF Has
  <2> QED
    BY <2>1, <2>2, <2>3, <2>4
<1> QED
  BY <1>5, <1>6, <1>7 DEF x

LEMMA HasRestart ==
  ASSUME NEW w, Followed(w, Insts, OwnInsts, Followers)
  PROVE  /\ Paths(Restart(w))
         /\ \A i \in Insts : Object(Restart(w), i) = Object(w, i)
<1>1. IsFiniteSet(Insts) /\ Gone \in OwnInsts
  BY KeysAre DEF OwnInsts, InstsOf
<1>2. ASSUME NEW i \in Insts
      PROVE  Path(Restart(w), i, Keeps)
  <2>1. Object(w, i) \in OwnInsts
    <3>1. Len(w.log) \in 0..Len(w.log)
      BY DEF Followed, Watches
    <3> QED
      BY <3>1, AfterIsTyped DEF Object
  <2>2. /\ <<Gone, Gone>> \in Keeps /\ <<Gone, Object(w, i)>> \in Keeps
        /\ <<Object(w, i), Object(w, i)>> \in Keeps
    BY <1>1, <2>1 DEF Keeps, Live
  <2> QED
    BY <1>1, <2>2, PathRestart
<1>3. \A i \in Insts : Object(Restart(w), i) = Object(w, i)
  BY <1>1, RestartShows
<1> QED
  BY <1>2, <1>3 DEF Paths

(* If the lister shows a live one, then there is one or it was put into    *)
(* inactive after what the operator was told.                              *)
LEMMA HasListed ==
  ASSUME NEW w, Followed(w, Insts, OwnInsts, Followers), Paths(w),
         NEW i \in Insts, Live(Listed(w, i))
  PROVE  Has(w)
<1> SUFFICES ASSUME ~Live(Object(w, i))
             PROVE  Ahead(w, "operator", i, Ends)
  BY DEF Has
<1> DEFINE good == {x \in OwnInsts : Live(x)}
<1>1. /\ \A r \in Followers : w.pos[r] \in 0..Len(w.log)
      /\ Len(w.log) \in Nat
      /\ w.pos["operator"] <= w.pos["lister"]
  BY Both DEF Followed, Watches
<1>2. \A n \in 0..Len(w.log) : After(w, n, i) \in OwnInsts
  BY AfterIsTyped
<1>3. Listed(w, i) \in good /\ Object(w, i) \notin good
  BY <1>1, <1>2, Both DEF Listed, Seen
<1> HIDE DEF good
<1>4. PICK n \in w.pos["lister"]..Len(w.log) :
        n < Len(w.log) /\ After(w, n, i) \in good /\ After(w, n + 1, i) \notin good
  BY <1>3, ListedAhead
<1>5. /\ n \in w.pos["operator"]..Len(w.log) /\ n \in 0..Len(w.log) /\ n + 1 \in 0..Len(w.log)
  BY <1>1, <1>4, Both
<1>6. <<After(w, n, i), After(w, n + 1, i)>> \in Keeps
  BY <1>4, <1>5 DEF Paths, Path
<1>7. <<After(w, n, i), After(w, n + 1, i)>> \in Ends
  BY <1>2, <1>4, <1>5, <1>6 DEF Keeps, Ends, good
<1> QED
  BY <1>4, <1>5, <1>7 DEF Ahead

(* And nothing that leaves it without its funcinst.                        *)
Undisturbed(h) == Clean(h) /\ "vanish" \notin h

(* Events are not forgotten.                                               *)
LEMMA CleanBefore ==
  ASSUME [Next]_allVars
  PROVE  /\ Clean(happened') => Clean(happened)
         /\ Undisturbed(happened') => Undisturbed(happened)
<1>1. happened \subseteq happened'
  <2>1. CASE \/ ApplyFuncdef \/ DeleteFuncdef \/ RenameTrigger \/ CascadeTrigger
             \/ Informers \/ BreakWatch
             \/ HandleFuncdefAdd \/ HandleFuncdefUpdate \/ HandleFuncdefDelete
             \/ HandleTrigger \/ HandleFuncdefPanic \/ Die
    BY <2>1 DEF ApplyFuncdef, DeleteFuncdef, RenameTrigger, CascadeTrigger,
                Informers, BreakWatch, HandleFuncdefAdd, HandleFuncdefUpdate, HandleFuncdefDelete,
                HandleTrigger, HandleFuncdefPanic, Die, May
  <2>2. CASE \/ HandleInst
             \/ \E c \in Callers : Steps(c)
             \/ \E c \in Requests, e \in Endpoints : Request(c, e)
             \/ \E i \in Insts : SetCondition(i) \/ DeleteInst(i) \/ CreateInst(i)
             \/ SyncerHandles
             \/ Syncer!ChangeConfig /\ UNCHANGED <<fds, trs, process, happened>>
             \/ UNCHANGED allVars
    <3>1. \/ happened' = happened
          \/ \E e \in {"failure", "request", "vanish"} : happened' = happened \cup {e}
      BY <2>2, OthersLeave
    <3> QED
      BY <3>1
  <2> QED
    BY <2>1, <2>2, NextIs
<1> QED
  BY <1>1 DEF Clean, Undisturbed

(* As long as nothing bad happens, the function and its trigger stay, and  *)
(* the lister, but for a crash, goes on showing them.                      *)
LEMMA WorldStays ==
  ASSUME RouteInv, [Next]_allVars, Clean(happened')
  PROVE  /\ Object(fds, Fn) # Gone => Object(fds', Fn) # Gone
         /\ \/ Crash
            \/ /\ Listed(fds, Fn) # Gone => Listed(fds', Fn) # Gone
               /\ Listed(trs, Generated) # Gone => Listed(trs', Generated) # Gone
<1>1. /\ FdsInv(fds, happened) /\ TrsInv(trs, happened)
      /\ "delete" \notin happened /\ "collect" \notin happened /\ "relist" \notin happened
      /\ "delete" \notin happened' /\ "collect" \notin happened' /\ "relist" \notin happened'
  BY CleanBefore DEF RouteInv, Clean
<1>2. CASE ApplyFuncdef \/ DeleteFuncdef
  <2>1. /\ fds' = Change(fds, Fn, "set") /\ trs' = trs /\ happened' = happened \cup {"apply"}
    BY <1>1, <1>2 DEF ApplyFuncdef, DeleteFuncdef, May
  <2>2. /\ Object(Change(fds, Fn, "set"), Fn) = "set"
        /\ \A r \in Followers : Seen(Change(fds, Fn, "set"), r, Fn) = Seen(fds, r, Fn)
    <3>1. /\ happened \subseteq happened' /\ "set" \in FnStates /\ "set" # Gone
          /\ ~("delete" \in happened' /\ "apply" \notin happened')
      BY <1>1, <2>1, Both
    <3> QED
      BY <1>1, <3>1, FdsChange
  <2> QED
    BY <2>1, <2>2, Both DEF Listed
<1>3. CASE CascadeTrigger \/ BreakWatch
  BY <1>1, <1>3 DEF CascadeTrigger, BreakWatch, May
<1>9. CASE RenameTrigger
  <2>1. trs' = Change(trs, Generated, "moved") /\ fds' = fds
    BY <1>9 DEF RenameTrigger
  <2>2. \A r \in Followers :
          Seen(Change(trs, Generated, "moved"), r, Generated) = Seen(trs, r, Generated)
    <3>1. trs = trs /\ Followed(trs, Triggers, TriggerValues, Followers)
      BY <1>1 DEF TrsInv
    <3> QED
      BY <3>1, Both, AboutChange
  <2> QED
    BY <2>1, <2>2, Both DEF Listed
<1>4. CASE Informers
  <2>1. CASE Behind(fds, "lister") /\ fds' = Read(fds, "lister") /\ trs' = trs
    <3>1. /\ Event(fds, "lister").val = "set"
          /\ Object(Read(fds, "lister"), Fn) = Object(fds, Fn)
          /\ Seen(Read(fds, "lister"), "lister", Fn) = Event(fds, "lister").val
      BY <1>1, <2>1, Both, FdsRead
    <3> QED
      BY <2>1, <3>1, Both DEF Listed
  <2>2. CASE Behind(trs, "lister") /\ trs' = Read(trs, "lister") /\ fds' = fds
    <3>1. {"delete", "collect"} \cap happened = {}
      BY <1>1
    <3>2. /\ Event(trs, "lister").val # Gone
          /\ Seen(Read(trs, "lister"), "lister", Generated) = Event(trs, "lister").val
      BY <1>1, <2>2, <3>1, Both, TrsRead
    <3> QED
      BY <2>2, <3>2 DEF Listed
  <2>3. CASE fds' = fds /\ trs' = trs
    BY <2>3
  <2> QED
    BY <1>4, <2>1, <2>2, <2>3 DEF Informers
<1>5. CASE HandleFuncdefAdd \/ HandleFuncdefUpdate \/ HandleFuncdefDelete
  <2>1. /\ CanRead(fds, "operator") /\ fds' = Read(fds, "operator")
        /\ \/ trs' = trs
           \/ trs' = Change(trs, Generated, "set")
           \/ Event(fds, "operator").val = Gone
    BY <1>5 DEF HandleFuncdefAdd, HandleFuncdefUpdate, HandleFuncdefDelete, CanHandle
  <2>2. /\ Event(fds, "operator").val = "set"
        /\ Object(Read(fds, "operator"), Fn) = Object(fds, Fn)
        /\ \A q \in Followers \ {"operator"} : Seen(Read(fds, "operator"), q, Fn) = Seen(fds, q, Fn)
    BY <1>1, <2>1, Both, FdsRead
  <2>3. \A r \in Followers :
          Seen(Change(trs, Generated, "set"), r, Generated) = Seen(trs, r, Generated)
    <3>1. happened \subseteq happened
      OBVIOUS
    <3> QED
      BY <1>1, <3>1, Both, TrsChange
  <2> QED
    BY <2>1, <2>2, <2>3, Both DEF Listed
<1>6. CASE HandleTrigger
  <2>1. CanRead(trs, "operator") /\ trs' = Read(trs, "operator") /\ fds' = fds
    BY <1>6 DEF HandleTrigger
  <2>2. \A q \in Followers \ {"operator"} :
          Seen(Read(trs, "operator"), q, Generated) = Seen(trs, q, Generated)
    BY <1>1, <2>1, Both, TrsRead
  <2> QED
    BY <2>1, <2>2, Both DEF Listed
<1>7. CASE HandleFuncdefPanic \/ Die
  <2>1. Crash /\ fds' = Restart(fds)
    BY <1>7 DEF HandleFuncdefPanic, Die, Crash
  <2>2. Object(Restart(fds), Fn) = Object(fds, Fn)
    BY <1>1, FdsRestart
  <2> QED
    BY <2>1, <2>2
<1>8. CASE \/ HandleInst
           \/ \E c \in Callers : Steps(c)
           \/ \E c \in Requests, e \in Endpoints : Request(c, e)
           \/ \E i \in Insts : SetCondition(i) \/ DeleteInst(i) \/ CreateInst(i)
           \/ SyncerHandles
           \/ Syncer!ChangeConfig /\ UNCHANGED <<fds, trs, process, happened>>
           \/ UNCHANGED allVars
  BY <1>8, OthersLeave
<1> QED
  BY <1>2, <1>3, <1>4, <1>5, <1>6, <1>7, <1>8, <1>9, NextIs

Looking == {"look", "drop", "wait", "again", "dropAgain", "create"}

(* A process that calls, or has called, was shown the function and its     *)
(* trigger; a funcinst has a function; and one that was given an instance  *)
(* looks for another, has one, or is going to be told that it ended.       *)
ReplacedInv ==
  /\ provided => Provisioned
  /\ Undisturbed(happened) =>
       /\ provided \/ (\E c \in Callers : call[c].pc # "idle") =>
            Listed(fds, Fn) # Gone /\ Listed(trs, Generated) # Gone
       /\ (\E i \in Insts : Object(fnis, i) # Gone) => Object(fds, Fn) # Gone
       /\ Paths(fnis)
       /\ provided => (\E c \in Callers : call[c].pc \in Looking) \/ Has(fnis)

(* The steps, by what they do to calls and funcinsts.                      *)

Quietly ==
  /\ call' = call /\ (provided' => provided)
  /\ \/ fnis' = fnis
     \/ Behind(fnis, "lister") /\ fnis' = Read(fnis, "lister")
     \/ "relist" \in happened'

Written(i, v) ==
  /\ call' = call /\ provided' = provided
  /\ fnis' = Change(fnis, i, v)
  /\ Object(fnis, i) # Gone
  /\ Live(Object(fnis, i)) /\ v = Gone => Object(fds, Fn) = Gone \/ "vanish" \in happened'

Told ==
  LET event == Event(fnis, "operator")
  IN /\ CanRead(fnis, "operator") /\ fnis' = Read(fnis, "operator")
     /\ call' = call /\ provided' = provided
     /\ ~(/\ Live(Seen(fnis, "operator", event.key)) /\ event.val # Gone /\ ~Live(event.val)
          /\ Provisioned /\ Listed(fds, Fn) # Gone /\ Listed(trs, Generated) # Gone)

HandlerCalls(c) ==
  /\ CallsBy(c) /\ call'[c].pc = "look"
  /\ fnis' = fnis \/ (CanRead(fnis, "operator") /\ fnis' = Read(fnis, "operator"))

Requested(c) ==
  /\ provided' = provided /\ fnis' = fnis
  /\ Listed(fds, Fn) # Gone /\ Listed(trs, Generated) # Gone
  /\ call'[c].pc = "look" /\ \A d \in Callers : d # c => call'[d] = call[d]

Steady(c) ==
  /\ call[c].pc # "idle" /\ provided' = provided
  /\ \A d \in Callers : d # c => call'[d] = call[d]
  /\ \/ fnis' = fnis /\ call'[c].pc \in Looking
     \/ fnis' = fnis /\ call[c].pc = "store"
     \/ fnis' = fnis /\ \E i \in Insts : Live(Listed(fnis, i))
     \/ fnis' = fnis /\ (Listed(fds, Fn) = Gone \/ Listed(trs, Generated) = Gone)
     \/ fnis' = fnis /\ "failure" \in happened'
     \/ /\ \E i \in Insts : fnis' = Change(fnis, i, [of |-> Generated, cond |-> "fresh"])
        /\ Listed(fds, Fn) # Gone

LEMMA StepIsSteady ==
  ASSUME CallInv, index \in [Triggers -> SUBSET Insts], NEW c \in Callers, Steps(c)
  PROVE  Steady(c)
<1>1. provided' = provided
  BY DEF Steps, Look, Drop, Allow, Wait, Create, Store
<1>2. CASE Look(c)
  <2>1. /\ \A d \in Callers : d # c => call'[d] = call[d]
        /\ call[c].pc \in {"look", "again"}
        /\ \/ call'[c].pc = "idle" /\ \E i \in Insts : Live(Listed(fnis, i))
           \/ call'[c].pc \in {"drop", "dropAgain"}
    BY <1>2, LookStep
  <2>2. fnis' = fnis
    BY <1>2 DEF Look, world
  <2> QED
    BY <1>1, <2>1, <2>2 DEF Steady, Looking
<1>3. CASE Drop(c)
  <2>1. /\ \A d \in Callers : d # c => call'[d] = call[d]
        /\ call[c].pc \in {"drop", "dropAgain"} /\ call'[c].pc \in {"look", "again"}
    BY <1>3, DropStep
  <2>2. fnis' = fnis
    BY <1>3 DEF Drop, world
  <2> QED
    BY <1>1, <2>1, <2>2 DEF Steady, Looking
<1>4. CASE Allow(c) \/ Wait(c)
  <2>1. /\ \A d \in Callers : d # c => call'[d] = call[d]
        /\ call[c].pc \in {"look", "wait"} /\ call'[c].pc \in {"create", "wait", "again"}
    BY <1>4, WaitStep
  <2>2. fnis' = fnis
    BY <1>4 DEF Allow, Wait, world
  <2> QED
    BY <1>1, <2>1, <2>2 DEF Steady, Looking
<1>5. CASE Store(c)
  <2>1. (\A d \in Callers : d # c => call'[d] = call[d]) /\ call[c].pc = "store"
    BY <1>5, StoreStep
  <2>2. fnis' = fnis
    BY <1>5 DEF Store, world
  <2> QED
    BY <1>1, <2>1, <2>2 DEF Steady
<1>6. CASE Create(c)
  <2>1. /\ \A d \in Callers : d # c => call'[d] = call[d]
        /\ call[c].pc \in {"create", "again"}
        /\ \/ /\ \E i \in Insts : fnis' = Change(fnis, i, [of |-> Generated, cond |-> "fresh"])
              /\ Listed(fds, Fn) # Gone
           \/ /\ fnis' = fnis
              /\ \/ Listed(fds, Fn) = Gone \/ Listed(trs, Generated) = Gone
                 \/ "failure" \in happened'
    BY <1>6, CreateStep
  <2> QED
    BY <1>1, <2>1 DEF Steady
<1> QED
  BY <1>2, <1>3, <1>4, <1>5, <1>6 DEF Steps

LEMMA StepIs ==
  ASSUME RouteInv, ProcessInv, OperatorScene, [Next]_allVars
  PROVE  \/ Crash \/ Quietly \/ Told
         \/ \E i \in Insts, v \in OwnInsts : Written(i, v)
         \/ \E c \in Callers : HandlerCalls(c) \/ Requested(c) \/ Steady(c)
<1>1. /\ index \in [Triggers -> SUBSET Insts] /\ CallInv
      /\ Followed(fnis, Insts, OwnInsts, Followers)
      /\ "fndefs" \in Callers /\ "insts" \in Callers
  BY DEF ProcessInv, OperatorScene, Callers, Handlers
<1>2. CASE \/ ApplyFuncdef \/ DeleteFuncdef \/ RenameTrigger \/ CascadeTrigger
           \/ HandleTrigger \/ UNCHANGED allVars
  BY <1>2 DEF ApplyFuncdef, DeleteFuncdef, RenameTrigger, CascadeTrigger, HandleTrigger,
              process, world, vars, allVars, Quietly
<1>3. CASE Informers \/ BreakWatch
  BY <1>3 DEF Informers, BreakWatch, May, process, Quietly
<1>4. ASSUME HandleFuncdefAdd \/ HandleFuncdefUpdate \/ HandleFuncdefDelete
      PROVE  Quietly \/ HandlerCalls("fndefs")
  <2>1. fnis' = fnis /\ (CallsBy("fndefs") \/ (call' = call /\ (provided' => provided)))
    BY <1>4, FuncdefCalls
  <2>2. CallsBy("fndefs") => call'["fndefs"].pc = "look"
    BY <1>1, CallBegins
  <2> QED
    BY <2>1, <2>2 DEF Quietly, HandlerCalls
<1>5. ASSUME HandleInst
      PROVE  Told \/ HandlerCalls("insts")
  <2> DEFINE event == Event(fnis, "operator")
             old == Seen(fnis, "operator", event.key)
  <2>1. /\ CanRead(fnis, "operator") /\ fnis' = Read(fnis, "operator")
        /\ CallsBy("insts") \/ (call' = call /\ provided' = provided)
        /\ /\ Live(old) /\ event.val # Gone /\ ~Live(event.val)
           /\ Provisioned /\ Listed(fds, Fn) # Gone /\ Listed(trs, Generated) # Gone
           => CallsBy("insts")
    BY <1>1, <1>5, InstHandled
  <2>2. CallsBy("insts") => call'["insts"].pc = "look"
    BY <1>1, CallBegins
  <2>3. CASE CallsBy("insts")
    BY <2>1, <2>2, <2>3 DEF HandlerCalls
  <2>4. CASE ~CallsBy("insts")
    BY <2>1, <2>4 DEF Told
  <2> QED
    BY <2>3, <2>4
<1>6. CASE HandleFuncdefPanic \/ Die
  BY <1>6 DEF HandleFuncdefPanic, Die
<1>7. ASSUME NEW c \in Callers, Steps(c)
      PROVE  Steady(c)
  BY <1>1, <1>7, StepIsSteady
<1>8. ASSUME NEW c \in Requests, NEW e \in Endpoints, Request(c, e)
      PROVE  c \in Callers /\ Requested(c)
  <2>1. /\ fnis' = fnis /\ provided' = provided
        /\ Begin(c, endpoints[e]) /\ endpoints[e] # None
        /\ Listed(trs, endpoints[e]) # Gone /\ Listed(fds, Fn) # Gone
    BY <1>8 DEF Request, world
  <2>2. endpoints[e] = Generated /\ c \in Callers
    BY <2>1 DEF RouteInv, Callers
  <2>3. call'[c].pc = "look" /\ \A d \in Callers : d # c => call'[d] = call[d]
    BY <1>1, <2>1, <2>2, Begins
  <2> QED
    BY <2>1, <2>2, <2>3 DEF Requested
<1>9. ASSUME NEW i \in Insts, SetCondition(i) \/ DeleteInst(i)
      PROVE  \E v \in OwnInsts : Written(i, v)
  <2>1. Object(fnis, i) # Gone /\ call' = call /\ provided' = provided
    BY <1>9 DEF SetCondition, DeleteInst, Live, process
  <2>2. CASE DeleteInst(i)
    <3>1. /\ fnis' = Change(fnis, i, Gone) /\ Gone \in OwnInsts
          /\ Live(Object(fnis, i)) => Object(fds, Fn) = Gone \/ "vanish" \in happened'
      BY <2>2 DEF DeleteInst, May, OwnInsts, InstsOf, Live
    <3> QED
      BY <2>1, <3>1 DEF Written
  <2>3. CASE SetCondition(i)
    <3>1. {"idle", "active", "inactive"} \subseteq Conditions
      BY DEF Conditions
    <3>2. PICK c \in {"idle", "active", "inactive"} :
            fnis' = Change(fnis, i, [Object(fnis, i) EXCEPT !.cond = c])
      BY <2>3 DEF SetCondition
    <3>3. Object(fnis, i) \in OwnInsts
      <4>1. Len(fnis.log) \in 0..Len(fnis.log)
        BY <1>1 DEF Followed, Watches
      <4> QED
        BY <1>1, <4>1, AfterIsTyped DEF Object
    <3>4. [Object(fnis, i) EXCEPT !.cond = c] \in OwnInsts
      BY <2>1, <3>1, <3>3, Both, InstIs DEF OwnInsts
    <3>5. [Object(fnis, i) EXCEPT !.cond = c] # Gone
      <4>1. Object(fnis, i) \in [of : Triggers, cond : Conditions]
        BY <2>1, <3>3, Both DEF OwnInsts, InstsOf
      <4>2. [Object(fnis, i) EXCEPT !.cond = c] \in [of : Triggers, cond : Conditions]
        BY <3>1, <4>1
      <4> QED
        BY <4>2, ConstantsAssumption
    <3> QED
      BY <2>1, <3>2, <3>4, <3>5 DEF Written
  <2> QED
    BY <1>9, <2>2, <2>3
<1> QED
  BY <1>1, <1>2, <1>3, <1>4, <1>5, <1>6, <1>7, <1>8, <1>9, SceneIs, OperatorMoves

(* Whatever a step is, it leaves this.                                     *)
LEMMA ReplacedStep ==
  ASSUME SceneInv, OperatorScene, ReplacedInv, [Next]_allVars
  PROVE  ReplacedInv'
<1>1. /\ RouteInv /\ ProcessInv /\ CallInv /\ Followed(fnis, Insts, OwnInsts, Followers)
      /\ \/ Crash \/ Quietly \/ Told
         \/ \E i \in Insts, v \in OwnInsts : Written(i, v)
         \/ \E c \in Callers : HandlerCalls(c) \/ Requested(c) \/ Steady(c)
  BY StepIs DEF SceneInv, TypesInv, OperatorScene, ProcessInv
<1>2. provided' => Provisioned
  BY <1>1, CrashForgets DEF Quietly, Told, Written, HandlerCalls, CallsBy, Requested, Steady,
                            ReplacedInv
<1> SUFFICES ASSUME Undisturbed(happened')
             PROVE  /\ provided' \/ (\E c \in Callers : call'[c].pc # "idle") =>
                         Listed(fds', Fn) # Gone /\ Listed(trs', Generated) # Gone
                    /\ (\E i \in Insts : Object(fnis', i) # Gone) => Object(fds', Fn) # Gone
                    /\ Paths(fnis')
                    /\ provided' => (\E c \in Callers : call'[c].pc \in Looking) \/ Has(fnis')
  BY <1>2 DEF ReplacedInv
<1>3. /\ Clean(happened') /\ "vanish" \notin happened'
      /\ "relist" \notin happened' /\ "failure" \notin happened' /\ "delete" \notin happened
      /\ provided => Provisioned
      /\ provided \/ (\E c \in Callers : call[c].pc # "idle") =>
           Listed(fds, Fn) # Gone /\ Listed(trs, Generated) # Gone
      /\ (\E i \in Insts : Object(fnis, i) # Gone) => Object(fds, Fn) # Gone
      /\ Paths(fnis)
      /\ provided => (\E c \in Callers : call[c].pc \in Looking) \/ Has(fnis)
  BY CleanBefore DEF ReplacedInv, Undisturbed, Clean
<1>4. /\ Object(fds, Fn) # Gone => Object(fds', Fn) # Gone
      /\ \/ Crash
         \/ /\ Listed(fds, Fn) # Gone => Listed(fds', Fn) # Gone
            /\ Listed(trs, Generated) # Gone => Listed(trs', Generated) # Gone
  BY <1>1, <1>3, WorldStays
<1>5. Listed(fds, Fn) # Gone => Object(fds, Fn) # Gone
  <2>1. FdsInv(fds, happened)
    BY <1>1 DEF RouteInv
  <2> QED
    BY <1>3, <2>1, Both, FdsKnows DEF Listed
<1>6. \A c \in Looking : c # "idle"
  BY DEF Looking
<1>7. "look" \in Looking
  BY DEF Looking
<1>8. \A i, v : Live(v) => v # Gone
  BY DEF Live
<1>9. CASE Crash
  <2>1. /\ fnis' = Restart(fnis) /\ ~provided'
        /\ \A c \in Callers : call'[c].pc = "idle"
    BY <1>9, CrashForgets, NoCallIs DEF Crash
  <2>2. /\ Paths(Restart(fnis))
        /\ \A i \in Insts : Object(Restart(fnis), i) = Object(fnis, i)
    BY <1>1, HasRestart
  <2> QED
    BY <1>3, <1>4, <2>1, <2>2
<1>10. CASE Quietly
  <2>1. /\ call' = call /\ (provided' => provided)
        /\ fnis' = fnis \/ (Behind(fnis, "lister") /\ fnis' = Read(fnis, "lister"))
    BY <1>3, <1>10 DEF Quietly
  <2>2. /\ \A i \in Insts : Object(fnis', i) = Object(fnis, i)
        /\ Paths(fnis') /\ (Has(fnis) => Has(fnis'))
    <3>1. CASE Behind(fnis, "lister") /\ fnis' = Read(fnis, "lister")
      <4>1. /\ \A i \in Insts : Object(Read(fnis, "lister"), i) = Object(fnis, i)
            /\ Paths(fnis) => Paths(Read(fnis, "lister"))
            /\ Has(fnis) => Has(Read(fnis, "lister"))
        BY <1>1, <3>1, Both, HasRead
      <4> QED
        BY <1>3, <3>1, <4>1
    <3> QED
      BY <1>3, <2>1, <3>1
  <2> QED
    BY <1>3, <1>4, <1>9, <2>1, <2>2
<1>11. CASE Told
  <2> DEFINE event == Event(fnis, "operator")
             old == Seen(fnis, "operator", event.key)
             ended == Live(old) /\ event.val # Gone /\ ~Live(event.val)
  <2>1. /\ CanRead(fnis, "operator") /\ fnis' = Read(fnis, "operator")
        /\ call' = call /\ provided' = provided
        /\ ~(/\ ended
             /\ Provisioned /\ Listed(fds, Fn) # Gone /\ Listed(trs, Generated) # Gone)
    BY <1>11 DEF Told
  <2>2. /\ \A i \in Insts : Object(Read(fnis, "operator"), i) = Object(fnis, i)
        /\ Paths(fnis) => Paths(Read(fnis, "operator"))
        /\ Has(fnis) => Has(Read(fnis, "operator")) \/ ended
    BY <1>1, <2>1, Both, HasRead
  <2> HIDE DEF ended
  <2>3. provided => (\E c \in Callers : call[c].pc \in Looking) \/ Has(fnis')
    BY <1>3, <2>1, <2>2
  <2> QED
    BY <1>3, <1>4, <1>9, <2>1, <2>2, <2>3
<1>12. ASSUME NEW i \in Insts, NEW v \in OwnInsts, Written(i, v)
       PROVE  ReplacedInv'
  <2>1. /\ fnis' = Change(fnis, i, v) /\ call' = call /\ provided' = provided
        /\ Object(fnis, i) # Gone /\ Object(fds, Fn) # Gone
        /\ Live(Object(fnis, i)) => v # Gone
    BY <1>3, <1>12 DEF Written
  <2>2. Paths(fnis') /\ (Has(fnis) => Has(fnis'))
    <3>1. /\ Paths(fnis) => Paths(Change(fnis, i, v))
          /\ Has(fnis) => Has(Change(fnis, i, v))
      BY <1>1, <2>1, HasChange
    <3> QED
      BY <1>3, <2>1, <3>1
  <2> QED
    BY <1>2, <1>3, <1>4, <1>9, <2>1, <2>2 DEF ReplacedInv
<1>13. ASSUME NEW c \in Callers, HandlerCalls(c) \/ Requested(c)
       PROVE  ReplacedInv'
  <2>1. /\ Listed(fds, Fn) # Gone /\ Listed(trs, Generated) # Gone /\ call'[c].pc = "look"
        /\ fnis' = fnis \/ (CanRead(fnis, "operator") /\ fnis' = Read(fnis, "operator"))
    BY <1>13 DEF HandlerCalls, CallsBy, Requested
  <2>2. Paths(fnis')
    <3>1. CASE CanRead(fnis, "operator") /\ fnis' = Read(fnis, "operator")
      <4>1. Paths(fnis) => Paths(Read(fnis, "operator"))
        BY <1>1, <3>1, Both, HasRead
      <4> QED
        BY <1>3, <3>1, <4>1
    <3> QED
      BY <1>3, <2>1, <3>1
  <2> QED
    BY <1>2, <1>4, <1>5, <1>7, <1>9, <2>1, <2>2 DEF ReplacedInv
<1>14. ASSUME NEW c \in Callers, Steady(c)
       PROVE  ReplacedInv'
  <2>1. /\ call[c].pc # "idle" /\ provided' = provided
        /\ \A d \in Callers : d # c => call'[d] = call[d]
        /\ Listed(fds, Fn) # Gone /\ Listed(trs, Generated) # Gone
    BY <1>3, <1>14 DEF Steady
  <2>2. CASE fnis' = fnis /\ call'[c].pc \in Looking
    BY <1>2, <1>3, <1>4, <1>5, <1>9, <2>1, <2>2 DEF ReplacedInv
  <2>3. CASE fnis' = fnis /\ call[c].pc = "store"
    <3>1. "store" \notin Looking
      BY DEF Looking
    <3> QED
      BY <1>2, <1>3, <1>4, <1>5, <1>9, <2>1, <2>3, <3>1 DEF ReplacedInv
  <2>4. CASE fnis' = fnis /\ \E i \in Insts : Live(Listed(fnis, i))
    <3>1. Has(fnis)
      BY <1>1, <1>3, <2>4, HasListed
    <3> QED
      BY <1>2, <1>3, <1>4, <1>5, <1>9, <2>1, <2>4, <3>1 DEF ReplacedInv
  <2>5. ASSUME NEW i \in Insts, fnis' = Change(fnis, i, [of |-> Generated, cond |-> "fresh"])
        PROVE  ReplacedInv'
    <3> DEFINE v == [of |-> Generated, cond |-> "fresh"]
    <3>1. v \in OwnInsts /\ v # Gone /\ Live(v)
      BY ConstantsAssumption DEF OwnInsts, InstsOf, Conditions, Live
    <3> HIDE DEF v
    <3>2. Paths(fnis') /\ Has(fnis')
      <4>1. Paths(fnis) => Paths(Change(fnis, i, v))
        BY <1>1, <3>1, HasChange
      <4>2. Has(Change(fnis, i, v))
        BY <1>1, <3>1, HasChange
      <4> QED
        BY <1>3, <2>5, <4>1, <4>2 DEF v
    <3> QED
      BY <1>2, <1>4, <1>5, <1>9, <2>1, <3>2 DEF ReplacedInv
  <2> QED
    BY <1>3, <1>14, <2>1, <2>2, <2>3, <2>4, <2>5 DEF Steady
<1> QED
  BY <1>1, <1>9, <1>10, <1>11, <1>12, <1>13, <1>14 DEF ReplacedInv

(* At first there is no funcinst, and nobody calls.                        *)
LEMMA ReplacedStart == Init => ReplacedInv
<1> SUFFICES ASSUME Init
             PROVE  ReplacedInv
  OBVIOUS
<1> DEFINE objects == [i \in Insts |-> Gone]
<1>1. /\ provided \in BOOLEAN /\ ~provided
      /\ \A c \in Callers : call[c].pc = "idle"
  BY NoCallIs DEF Init, InitProcess
<1>2. PICK readers : fnis = StartWatch(objects, readers)
  BY DEF Init, InitWorld
<1>3. fnis.log = <<>> /\ fnis.base = objects
  BY <1>2 DEF StartWatch
<1>4. \A i \in Insts : Object(fnis, i) = Gone
  <2>1. \A i \in Insts : objects[i] = Gone
    OBVIOUS
  <2> HIDE DEF objects
  <2>2. Len(fnis.log) = 0
    BY <1>3
  <2> QED
    BY <1>3, <2>1, <2>2, AfterZero DEF Object
<1>5. Paths(fnis)
  <2>1. Len(fnis.log) = 0
    BY <1>3
  <2>2. \A n \in 0..Len(fnis.log) : ~(n < Len(fnis.log))
    BY <2>1
  <2> QED
    BY <2>2 DEF Paths, Path
<1> QED
  BY <1>1, <1>4, <1>5 DEF ReplacedInv

LEMMA ReplacedHolds == Spec => [](SceneInv /\ (SyncerScene \/ ReplacedInv))
<1>1. Init => SceneInv /\ (SyncerScene \/ ReplacedInv)
  BY SceneStart, ReplacedStart
<1>2. SceneInv /\ (SyncerScene \/ ReplacedInv) /\ [Next]_allVars
      => (SceneInv /\ (SyncerScene \/ ReplacedInv))'
  <2> SUFFICES ASSUME SceneInv, SyncerScene \/ ReplacedInv, [Next]_allVars
               PROVE  SceneInv' /\ (SyncerScene' \/ ReplacedInv')
    OBVIOUS
  <2>1. OperatorScene \/ SyncerScene
    BY DEF SceneInv, TypesInv, ProcessInv, OperatorScene, SyncerScene
  <2>2. CASE SyncerScene
    BY <2>2, SyncerCreds
  <2>3. CASE OperatorScene /\ ReplacedInv
    BY <2>3, OperatorCreds, ReplacedStep
  <2> QED
    BY <2>1, <2>2, <2>3
<1> QED
  BY <1>1, <1>2, PTL DEF Spec

(* The handler of funcinsts (funcinsts.go): a function that was given an   *)
(* instance is not left without when that is put into inactive, although   *)
(* the operator looks for a live one in a cache that may lag, and requests *)
(* do so at the same time; unless a function or its trigger is deleted,    *)
(* the API server fails, a watch breaks, or a funcinst is deleted that was *)
(* not inactive.                                                           *)
THEOREM Replaced == Spec => []ProvisionedIsReplaced
<1>1. SceneInv /\ (SyncerScene \/ ReplacedInv) => ProvisionedIsReplaced
  <2> SUFFICES ASSUME SceneInv, SyncerScene \/ ReplacedInv, Quiet, provided,
                      {"delete", "collect", "failure", "relist", "vanish"} \cap happened = {}
               PROVE  \E i \in Insts : Live(Object(fnis, i))
    BY DEF ProvisionedIsReplaced
  <2>1. Undisturbed(happened) /\ Synced(fnis, "operator") /\ \A c \in Callers : call[c] = NoCall
    BY DEF Undisturbed, Clean, Quiet
  <2>2. OperatorScene /\ ReplacedInv
    <3>1. ~SyncerScene
      BY <2>1, SceneIs DEF Synced
    <3> QED
      BY <3>1 DEF SceneInv, TypesInv, ProcessInv, OperatorScene, SyncerScene
  <2>3. \A c \in Callers : call[c].pc \notin Looking
    BY <2>1, NoCallIs DEF Looking
  <2>4. Has(fnis)
    BY <2>1, <2>2, <2>3 DEF ReplacedInv
  <2>5. ASSUME NEW i \in Insts
        PROVE  ~Ahead(fnis, "operator", i, Ends)
    <3>1. fnis.pos["operator"] = Len(fnis.log) /\ Len(fnis.log) \in Nat
      BY <2>1, <2>2 DEF Synced, OperatorScene, Followed, Watches
    <3>2. \A n \in fnis.pos["operator"]..Len(fnis.log) : ~(n < Len(fnis.log))
      BY <3>1
    <3> QED
      BY <3>2 DEF Ahead
  <2> QED
    BY <2>4, <2>5 DEF Has
<1> QED
  BY <1>1, ReplacedHolds, PTL
=============================================================================

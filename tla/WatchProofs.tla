------------------------------ MODULE WatchProofs ------------------------------
(***************************************************************************)
(* Lemmas about a watch, for the proofs of the processes that follow one.  *)
(***************************************************************************)
EXTENDS Watch, FiniteSetTheorems, WellFoundedInduction, TLAPS

(* The natural numbers are well-ordered.                                   *)
LEMMA Least ==
  ASSUME NEW S \in SUBSET Nat, S # {}
  PROVE  \E m \in S : \A n \in S : m <= n
<1> DEFINE R == {pair \in Nat \X Nat : pair[1] < pair[2]}
<1>1. IsWellFoundedOn(R, Nat)
  BY NatLessThanWellFounded DEF OpToRel
<1>2. PICK m \in S : \A n \in S : <<n, m>> \notin R
  BY <1>1, WFMin
<1>3. \A n \in S : ~(n < m)
  BY <1>2
<1> QED
  BY <1>3

(* What Min is of a set of natural numbers that is not empty.              *)
LEMMA MinIsLeast ==
  ASSUME NEW S \in SUBSET Nat, S # {}
  PROVE  Min(S) \in S /\ \A n \in S : Min(S) <= n
BY Least DEF Min

(* What Max is of a set of numbers up to n that is not empty.              *)
LEMMA MaxIsGreatest ==
  ASSUME NEW n \in Nat, NEW S \in SUBSET (1..n), S # {}
  PROVE  Max(S) \in S /\ \A i \in S : i <= Max(S)
<1> DEFINE T == {n - i : i \in S}
<1>1. T \in SUBSET Nat /\ T # {}
  <2>1. \A i \in S : n - i \in Nat
    OBVIOUS
  <2> QED
    BY <2>1
<1>2. PICK m \in T : \A d \in T : m <= d
  BY <1>1, Least
<1>3. PICK i \in S : m = n - i
  BY <1>2
<1>4. \A j \in S : j <= i
  <2> TAKE j \in S
  <2>1. n - i <= n - j
    BY <1>2, <1>3
  <2> QED
    BY <2>1
<1> QED
  BY <1>4 DEF Max

-----------------------------------------------------------------------------
(* An object after a part of the log.                                      *)

(* It is as its last change left it.                                       *)
LEMMA AfterIs ==
  ASSUME NEW w, NEW k, NEW n \in Nat
  PROVE  \/ /\ \A i \in 1..n : w.log[i].key # k
            /\ After(w, n, k) = w.base[k]
         \/ \E i \in 1..n : /\ w.log[i].key = k
                            /\ \A j \in i + 1..n : w.log[j].key # k
                            /\ After(w, n, k) = w.log[i].val
<1> DEFINE I == {i \in 1..n : w.log[i].key = k}
<1>1. After(w, n, k) = LET i == IF I # {} THEN Max(I) ELSE 0
                       IN IF i = 0 THEN w.base[k] ELSE w.log[i].val
  BY DEF After, SelectLastInSubSeq
<1>2. CASE I = {}
  BY <1>1, <1>2
<1>3. CASE I # {}
  <2>1. Max(I) \in I /\ \A i \in I : i <= Max(I)
    BY <1>3, MaxIsGreatest
  <2>2. Max(I) # 0 /\ After(w, n, k) = w.log[Max(I)].val
    BY <1>1, <1>3, <2>1
  <2>3. PICK i \in 1..n : i = Max(I)
    BY <2>1
  <2>4. w.log[i].key = k /\ After(w, n, k) = w.log[i].val
    BY <2>1, <2>2, <2>3
  <2>5. \A j \in i + 1..n : w.log[j].key # k
    <3> SUFFICES ASSUME NEW j \in i + 1..n, w.log[j].key = k PROVE FALSE
      OBVIOUS
    <3>1. j \in I /\ ~(j <= i)
      OBVIOUS
    <3> QED
      BY <2>1, <2>3, <3>1
  <2> QED
    BY <2>4, <2>5
<1> QED
  BY <1>2, <1>3

(* Nothing changed it at the beginning.                                    *)
LEMMA AfterZero ==
  ASSUME NEW w, NEW k
  PROVE  After(w, 0, k) = w.base[k]
BY AfterIs

(* The last change of an object is the one that tells how it is.           *)
LEMMA AfterLast ==
  ASSUME NEW w, NEW k, NEW n \in Nat,
         NEW i \in 1..n, w.log[i].key = k, \A j \in i + 1..n : w.log[j].key # k
  PROVE  After(w, n, k) = w.log[i].val
<1>1. PICK h \in 1..n : /\ w.log[h].key = k
                        /\ \A j \in h + 1..n : w.log[j].key # k
                        /\ After(w, n, k) = w.log[h].val
  BY AfterIs
<1>2. ~(h < i) /\ ~(i < h)
  <2>1. ASSUME h < i PROVE i \in h + 1..n
    BY <2>1
  <2>2. ASSUME i < h PROVE h \in i + 1..n
    BY <2>2
  <2> QED
    BY <1>1, <2>1, <2>2
<1>3. h = i
  BY <1>2
<1> QED
  BY <1>1, <1>3

(* Changes of other objects do not change it.                              *)
LEMMA AfterQuiet ==
  ASSUME NEW w, NEW k, NEW n \in Nat, NEW m \in Nat, n <= m,
         \A i \in n + 1..m : w.log[i].key # k
  PROVE  After(w, m, k) = After(w, n, k)
<1>1. CASE \A i \in 1..n : w.log[i].key # k
  <2>1. \A i \in 1..m : w.log[i].key # k
    BY <1>1
  <2> QED
    BY <1>1, <2>1, AfterIs
<1>2. ASSUME NEW i \in 1..n, w.log[i].key = k, \A j \in i + 1..n : w.log[j].key # k
      PROVE  After(w, m, k) = After(w, n, k)
  <2>1. i \in 1..m /\ \A j \in i + 1..m : w.log[j].key # k
    BY <1>2
  <2> QED
    BY <1>2, <2>1, AfterLast
<1> QED
  BY <1>1, <1>2, AfterIs

(* One more change is told of it or of another object.                     *)
LEMMA AfterNext ==
  ASSUME NEW w, NEW k, NEW n \in Nat
  PROVE  After(w, n + 1, k) = IF w.log[n + 1].key = k THEN w.log[n + 1].val ELSE After(w, n, k)
<1>1. CASE w.log[n + 1].key = k
  <2>1. n + 1 \in 1..(n + 1) /\ \A j \in (n + 1) + 1..(n + 1) : w.log[j].key # k
    OBVIOUS
  <2> QED
    BY <1>1, <2>1, AfterLast
<1>2. CASE w.log[n + 1].key # k
  <2>1. \A i \in n + 1..(n + 1) : w.log[i].key # k
    BY <1>2
  <2> QED
    BY <1>2, <2>1, AfterQuiet
<1> QED
  BY <1>1, <1>2

(* Watches that agree on a part of the log agree on the object after it.   *)
LEMMA AfterSame ==
  ASSUME NEW w, NEW v, NEW k, NEW n \in Nat,
         v.base[k] = w.base[k], \A i \in 1..n : v.log[i] = w.log[i]
  PROVE  After(v, n, k) = After(w, n, k)
<1> DEFINE I(x) == {i \in 1..n : x.log[i].key = k}
<1>1. ASSUME NEW x
      PROVE  After(x, n, k) = LET i == IF I(x) # {} THEN Max(I(x)) ELSE 0
                              IN IF i = 0 THEN x.base[k] ELSE x.log[i].val
  BY DEF After, SelectLastInSubSeq
<1>2. I(v) = I(w)
  OBVIOUS
<1>3. I(w) # {} => Max(I(w)) \in 1..n
  BY MaxIsGreatest
<1> HIDE DEF I
<1>4. CASE I(w) = {}
  BY <1>1, <1>2, <1>4
<1>5. CASE I(w) # {}
  <2>1. PICK i \in 1..n : i = Max(I(w))
    BY <1>3, <1>5
  <2>2. After(v, n, k) = v.log[i].val /\ After(w, n, k) = w.log[i].val
    BY <1>1, <1>2, <1>5, <2>1
  <2> QED
    BY <2>2
<1> QED
  BY <1>4, <1>5

-----------------------------------------------------------------------------
(* A watch that is followed by some readers: none of them is ahead of the  *)
(* lister.                                                                 *)
Followed(w, keys, values, readers) ==
  /\ w \in Watches(keys, values, readers)
  /\ "lister" \in readers
  /\ \A r \in readers : w.pos[r] <= w.pos["lister"]
  /\ w.pos["lister"] <= Len(w.log)

(* An object is in one of its states after any part of the log.            *)
LEMMA AfterIsTyped ==
  ASSUME NEW keys, NEW values, NEW readers, NEW w, Followed(w, keys, values, readers),
         NEW k \in keys, NEW n \in 0..Len(w.log)
  PROVE  After(w, n, k) \in values
<1>1. w.base[k] \in values /\ w.log \in Seq(Changes(keys, values))
  BY DEF Followed, Watches
<1>2. \A i \in 1..n : w.log[i].val \in values
  <2>1. \A i \in 1..n : i \in 1..Len(w.log)
    BY <1>1
  <2>2. \A i \in 1..Len(w.log) : w.log[i] \in Changes(keys, values)
    BY <1>1
  <2> QED
    BY <2>1, <2>2 DEF Changes
<1> QED
  BY <1>1, <1>2, AfterIs

(* A watch starts with what there is.                                      *)
LEMMA StartIsFollowed ==
  ASSUME NEW keys, NEW values, NEW readers, "lister" \in readers,
         NEW objects \in [keys -> values]
  PROVE  Followed(StartWatch(objects, readers), keys, values, readers)
BY DEF Followed, StartWatch, Watches

(* A change is at the end of the log, and nobody has seen it.              *)
LEMMA ChangeStep ==
  ASSUME NEW keys, NEW values, NEW readers, NEW w, Followed(w, keys, values, readers),
         NEW k \in keys, NEW v \in values
  PROVE  /\ Followed(Change(w, k, v), keys, values, readers)
         /\ Change(w, k, v).pos = w.pos
         /\ Len(Change(w, k, v).log) = Len(w.log) + 1
         /\ \A j, n : n \in 0..Len(w.log) => After(Change(w, k, v), n, j) = After(w, n, j)
         /\ \A j : Object(Change(w, k, v), j) = IF j = k THEN v ELSE Object(w, j)
<1> DEFINE e == [key |-> k, val |-> v, lost |-> FALSE]
           x == Change(w, k, v)
<1>1. w \in Watches(keys, values, readers) /\ w.log \in Seq(Changes(keys, values))
  BY DEF Followed, Watches
<1>2. e \in Changes(keys, values)
  BY DEF Changes
<1>3. x.base = w.base /\ x.pos = w.pos /\ x.log = Append(w.log, e)
  BY <1>1 DEF Watches, Change
<1>4. x \in Watches(keys, values, readers)
  <2>1. Append(w.log, e) \in Seq(Changes(keys, values))
    BY <1>1, <1>2
  <2>2. w = [base |-> w.base, log |-> w.log, pos |-> w.pos]
    BY <1>1 DEF Watches
  <2> DEFINE l == Append(w.log, e)
  <2>3. x = [w EXCEPT !.log = l]
    BY DEF Change
  <2> HIDE DEF x, e, l
  <2>4. x = [base |-> w.base, log |-> l, pos |-> w.pos]
    BY <2>2, <2>3
  <2> QED
    BY <1>1, <2>1, <2>4 DEF Watches, l
<1> HIDE DEF x, e
<1>5. /\ Len(x.log) = Len(w.log) + 1 /\ Len(w.log) \in Nat
      /\ x.log[Len(w.log) + 1] = e
      /\ \A i \in 1..Len(w.log) : x.log[i] = w.log[i]
  BY <1>1, <1>2, <1>3
<1>6. Followed(x, keys, values, readers)
  <2>1. \A r \in readers : w.pos[r] \in Nat
    BY <1>1 DEF Watches
  <2> QED
    BY <1>3, <1>4, <1>5, <2>1 DEF Followed
<1>7. ASSUME NEW j, NEW n \in 0..Len(w.log)
      PROVE  After(x, n, j) = After(w, n, j)
  BY <1>3, <1>5, AfterSame
<1>8. ASSUME NEW j
      PROVE  Object(x, j) = IF j = k THEN v ELSE Object(w, j)
  <2>1. e.key = k /\ e.val = v
    BY DEF e
  <2>2. After(x, Len(w.log), j) = After(w, Len(w.log), j)
    BY <1>5, <1>7
  <2>3. After(x, Len(w.log) + 1, j) = IF x.log[Len(w.log) + 1].key = j
                                      THEN x.log[Len(w.log) + 1].val
                                      ELSE After(x, Len(w.log), j)
    BY <1>5, AfterNext
  <2> QED
    BY <1>5, <2>1, <2>2, <2>3 DEF Object
<1> QED
  BY <1>3, <1>5, <1>6, <1>7, <1>8 DEF x

(* What is left of a watch without the first n changes of its log: an      *)
(* object after the rest of the log is what it was.                        *)
RestOf(w, x, n, keys, readers) ==
  /\ \A r \in readers : n <= w.pos[r] /\ x.pos[r] = w.pos[r] - n
  /\ Len(x.log) = Len(w.log) - n
  /\ \A k \in keys, m \in n..Len(w.log) : After(x, m - n, k) = After(w, m, k)

(* What every reader has seen is cut off.                                  *)
LEMMA TrimStep ==
  ASSUME NEW keys, NEW values, NEW readers, NEW w, Followed(w, keys, values, readers)
  PROVE  /\ Followed(Trim(w), keys, values, readers)
         /\ \E n \in Nat : RestOf(w, Trim(w), n, keys, readers)
<1> DEFINE P == {w.pos[r] : r \in DOMAIN w.pos}
           n == Min(P)
           x == Trim(w)
<1>1. /\ w \in Watches(keys, values, readers) /\ w.log \in Seq(Changes(keys, values))
      /\ DOMAIN w.base = keys /\ DOMAIN w.pos = readers
      /\ \A r \in readers : w.pos[r] \in Nat
      /\ Len(w.log) \in Nat
  BY DEF Followed, Watches
<1>2. n \in P /\ \A i \in P : n <= i
  <2>1. P \in SUBSET Nat /\ P # {}
    BY <1>1 DEF Followed
  <2> QED
    BY <2>1, MinIsLeast
<1>3. x = [base |-> [k \in keys |-> After(w, n, k)],
           log  |-> SubSeq(w.log, n + 1, Len(w.log)),
           pos  |-> [r \in readers |-> w.pos[r] - n]]
  BY <1>1 DEF Trim
<1> HIDE DEF n, x
<1>4. /\ n \in Nat /\ n <= Len(w.log)
      /\ \A r \in readers : n <= w.pos[r] /\ w.pos[r] - n \in Nat
  <2>1. \A r \in readers : n <= w.pos[r]
    BY <1>1, <1>2
  <2>2. n \in Nat
    BY <1>1, <1>2
  <2>3. n <= w.pos["lister"] /\ w.pos["lister"] \in Nat
    BY <1>1, <2>1 DEF Followed
  <2> QED
    BY <1>1, <2>1, <2>2, <2>3 DEF Followed
<1>5. /\ SubSeq(w.log, n + 1, Len(w.log)) \in Seq(Changes(keys, values))
      /\ Len(SubSeq(w.log, n + 1, Len(w.log))) = Len(w.log) - n
      /\ \A i \in 1..(Len(w.log) - n) : SubSeq(w.log, n + 1, Len(w.log))[i] = w.log[n + i]
  BY <1>1, <1>4
<1>6. /\ x.log \in Seq(Changes(keys, values))
      /\ Len(x.log) = Len(w.log) - n
      /\ \A i \in 1..(Len(w.log) - n) : x.log[i] = w.log[n + i]
      /\ \A k \in keys : x.base[k] = After(w, n, k)
      /\ \A r \in readers : x.pos[r] = w.pos[r] - n
  BY <1>3, <1>5
<1>7. Followed(x, keys, values, readers)
  <2>1. [k \in keys |-> After(w, n, k)] \in [keys -> values]
    <3>1. n \in 0..Len(w.log)
      BY <1>1, <1>4
    <3> QED
      BY <3>1, AfterIsTyped
  <2>2. x \in Watches(keys, values, readers)
    BY <1>3, <1>4, <1>5, <2>1 DEF Watches
  <2> QED
    BY <1>1, <1>4, <1>6, <2>2 DEF Followed
<1>8. ASSUME NEW k \in keys, NEW m \in n..Len(w.log)
      PROVE  After(x, m - n, k) = After(w, m, k)
  <2>1. m \in Nat /\ m - n \in Nat /\ m - n <= Len(w.log) - n
    BY <1>1, <1>4
  <2>2. CASE \A i \in 1..(m - n) : x.log[i].key # k
    <3>1. After(x, m - n, k) = After(w, n, k)
      BY <1>6, <2>1, <2>2, AfterIs
    <3>2. \A i \in n + 1..m : w.log[i].key # k
      <4> TAKE i \in n + 1..m
      <4>1. i - n \in 1..(m - n) /\ i = n + (i - n)
        BY <1>4, <2>1
      <4>2. x.log[i - n] = w.log[i]
        BY <1>6, <2>1, <4>1
      <4> QED
        BY <2>2, <4>1, <4>2
    <3> QED
      BY <1>4, <2>1, <3>1, <3>2, AfterQuiet
  <2>3. ASSUME NEW i \in 1..(m - n), x.log[i].key = k,
               \A j \in i + 1..(m - n) : x.log[j].key # k
        PROVE  After(x, m - n, k) = After(w, m, k)
    <3>1. x.log[i] = w.log[n + i] /\ n + i \in 1..m
      BY <1>4, <1>6, <2>1
    <3>2. \A j \in (n + i) + 1..m : w.log[j].key # k
      <4> TAKE j \in (n + i) + 1..m
      <4>1. j - n \in i + 1..(m - n) /\ j - n \in 1..(Len(w.log) - n) /\ j = n + (j - n)
        BY <1>4, <2>1
      <4>2. x.log[j - n] = w.log[j]
        BY <1>6, <4>1
      <4> QED
        BY <2>3, <4>1, <4>2
    <3>3. After(x, m - n, k) = x.log[i].val
      BY <2>1, <2>3, AfterLast
    <3>4. After(w, m, k) = w.log[n + i].val
      <4>1. PICK h \in 1..m : h = n + i
        BY <3>1
      <4>2. w.log[h].key = k /\ \A j \in h + 1..m : w.log[j].key # k
        BY <2>3, <3>1, <3>2, <4>1
      <4>3. After(w, m, k) = w.log[h].val
        BY <2>1, <4>2, AfterLast
      <4> QED
        BY <4>1, <4>3
    <3> QED
      BY <3>1, <3>3, <3>4
  <2> QED
    BY <2>1, <2>2, <2>3, AfterIs
<1>9. RestOf(w, x, n, keys, readers)
  BY <1>4, <1>6, <1>8 DEF RestOf
<1> QED
  BY <1>4, <1>7, <1>9 DEF x

(* A reader that reads is told of the next change; nothing else changes.   *)
LEMMA ReadStep ==
  ASSUME NEW keys, NEW values, NEW readers, NEW w, Followed(w, keys, values, readers),
         NEW r \in readers,
         IF r = "lister" THEN Behind(w, r) ELSE CanRead(w, r)
  PROVE  /\ Followed(Read(w, r), keys, values, readers)
         /\ \E n \in Nat :
              RestOf([w EXCEPT !.pos = [q \in readers |-> IF q = r THEN w.pos[q] + 1
                                                          ELSE w.pos[q]]],
                     Read(w, r), n, keys, readers)
<1> DEFINE x == [w EXCEPT !.pos[r] = @ + 1]
           pos == [q \in readers |-> IF q = r THEN w.pos[q] + 1 ELSE w.pos[q]]
<1>1. /\ w \in Watches(keys, values, readers)
      /\ w = [base |-> w.base, log |-> w.log, pos |-> w.pos]
      /\ w.pos \in [readers -> Nat] /\ Len(w.log) \in Nat
  BY DEF Followed, Watches
<1>2. pos \in [readers -> Nat] /\ [w.pos EXCEPT ![r] = @ + 1] = pos
  BY <1>1
<1>3. x = [w EXCEPT !.pos = pos] /\ x = [base |-> w.base, log |-> w.log, pos |-> pos]
  <2> DEFINE p == [w.pos EXCEPT ![r] = @ + 1]
  <2>0. x = [w EXCEPT !.pos = p]
    OBVIOUS
  <2> HIDE DEF x, pos, p
  <2>1. x = [base |-> w.base, log |-> w.log, pos |-> p]
    BY <1>1, <2>0
  <2>2. [w EXCEPT !.pos = pos] = [base |-> w.base, log |-> w.log, pos |-> pos]
    BY <1>1
  <2> QED
    BY <1>2, <2>1, <2>2 DEF p
<1>4. \A q \in readers : pos[q] = IF q = r THEN w.pos[q] + 1 ELSE w.pos[q]
  OBVIOUS
<1> HIDE DEF x, pos
<1>5. x \in Watches(keys, values, readers)
  BY <1>1, <1>2, <1>3 DEF Watches
<1>6. Followed(x, keys, values, readers)
  BY <1>1, <1>3, <1>4, <1>5 DEF Followed, Behind, CanRead, Reads
<1>7. Read(w, r) = Trim(x)
  BY DEF Read, x
<1>8. [w EXCEPT !.pos = [q \in readers |-> IF q = r THEN w.pos[q] + 1 ELSE w.pos[q]]] = x
  BY <1>3 DEF pos
<1>9. Followed(Trim(x), keys, values, readers)
  BY <1>6, TrimStep
<1>10. \E n \in Nat : RestOf(x, Trim(x), n, keys, readers)
  BY <1>6, TrimStep
<1> QED
  BY <1>7, <1>8, <1>9, <1>10

(* What is told was in the log.                                            *)
Retells(v, w) ==
  /\ v.base = w.base
  /\ \A i \in 1..Len(v.log) : \E j \in 1..Len(w.log) :
       v.log[i].key = w.log[j].key /\ v.log[i].val = w.log[j].val

(* Listing again leaves what was seen, and what there is.                  *)
LEMMA RelistStep ==
  ASSUME NEW keys, NEW values, NEW readers, NEW w, Followed(w, keys, values, readers),
         NEW v \in Relisted(w)
  PROVE  /\ Followed(v, keys, values, readers)
         /\ v.pos = w.pos
         /\ \A k \in keys, m \in 0..w.pos["lister"] : After(v, m, k) = After(w, m, k)
         /\ \A k \in keys : Object(v, k) = Object(w, k)
         /\ Retells(v, w)
<1> DEFINE n == w.pos["lister"]
           len == Len(w.log)
           last == {i \in n + 1..len :
                      /\ \A j \in i + 1..len : w.log[j].key # w.log[i].key
                      /\ {w.log[i].val, Listed(w, w.log[i].key)} # {Gone}}
           told == [i \in last |-> [w.log[i] EXCEPT !.lost = @ \/ w.log[i].val = Gone]]
           c == Cardinality(last)
<1>1. /\ w \in Watches(keys, values, readers)
      /\ w = [base |-> w.base, log |-> w.log, pos |-> w.pos]
      /\ w.log \in Seq(Changes(keys, values))
      /\ n \in Nat /\ len \in Nat /\ n <= len
      /\ \A i \in 1..len : w.log[i] \in Changes(keys, values)
  BY DEF Followed, Watches
<1>2. IsFiniteSet(last) /\ c \in Nat
  <2>1. n + 1 \in Int /\ len \in Int
    BY <1>1
  <2>2. IsFiniteSet(n + 1..len)
    BY <2>1, FS_Interval
  <2>3. last \in SUBSET (n + 1..len)
    OBVIOUS
  <2> HIDE DEF last
  <2> QED
    BY <2>2, <2>3, FS_Subset, FS_CardinalityType
<1>3. PICK f \in [1..c -> last] :
        /\ \A i, j \in DOMAIN f : i < j => f[i] < f[j]
        /\ v = [w EXCEPT !.log = SubSeq(@, 1, n) \o [i \in DOMAIN f |-> told[f[i]]]]
  BY DEF Relisted
<1> DEFINE new == [i \in 1..c |-> told[f[i]]]
<1>4. \A i \in last : i \in 1..len /\ i > n
  BY <1>1
<1>5. \A i \in last : /\ told[i] \in Changes(keys, values)
                      /\ told[i].key = w.log[i].key /\ told[i].val = w.log[i].val
  BY <1>1, <1>4 DEF Changes
<1>6. /\ new \in Seq(Changes(keys, values)) /\ Len(new) = c
      /\ \A i \in 1..c : /\ new[i].key = w.log[f[i]].key
                         /\ new[i].val = w.log[f[i]].val
  <2>1. new \in [1..c -> Changes(keys, values)]
    BY <1>5
  <2> HIDE DEF told, last, c
  <2> QED
    BY <1>2, <1>5, <2>1
<1> DEFINE seen == SubSeq(w.log, 1, n)
<1>7. /\ seen \in Seq(Changes(keys, values)) /\ Len(seen) = n
      /\ \A i \in 1..n : seen[i] = w.log[i]
  BY <1>1
<1>8. v = [base |-> w.base, log |-> seen \o new, pos |-> w.pos]
  BY <1>1, <1>3
<1> HIDE DEF n, len, last, told, c, new, seen
<1>9. /\ v.log \in Seq(Changes(keys, values)) /\ Len(v.log) = n + c
      /\ \A i \in 1..n : v.log[i] = w.log[i]
      /\ \A i \in 1..c : v.log[n + i] = new[i]
      /\ v.base = w.base /\ v.pos = w.pos
  <2> DEFINE S == Changes(keys, values)
  <2>1. seen \in Seq(S) /\ new \in Seq(S) /\ Len(seen) = n /\ Len(new) = c
    BY <1>6, <1>7
  <2>2. v.log = seen \o new /\ v.base = w.base /\ v.pos = w.pos
    BY <1>8
  <2> HIDE DEF S
  <2>3. seen \o new \in Seq(S) /\ Len(seen \o new) = n + c
    BY <2>1
  <2>4. \A i \in 1..n : (seen \o new)[i] = seen[i]
    BY <1>1, <1>2, <2>1
  <2>5. \A i \in 1..c : (seen \o new)[n + i] = new[i]
    BY <1>1, <1>2, <2>1
  <2> QED
    BY <1>7, <2>2, <2>3, <2>4, <2>5 DEF S
<1>10. Followed(v, keys, values, readers)
  <2>1. v \in Watches(keys, values, readers)
    BY <1>1, <1>8, <1>9 DEF Watches
  <2> QED
    BY <1>1, <1>2, <1>9, <2>1 DEF Followed, n
<1>11. ASSUME NEW k \in keys, NEW m \in 0..n
       PROVE  After(v, m, k) = After(w, m, k)
  BY <1>1, <1>9, AfterSame
<1>12. ASSUME NEW k \in keys
       PROVE  After(v, n + c, k) = After(w, len, k)
  <2>1. After(v, n, k) = After(w, n, k)
    BY <1>1, <1>11
  <2>2. After(w, n, k) = Listed(w, k)
    BY DEF Listed, Seen, n
  <2>3. n + c \in Nat /\ n <= n + c
    BY <1>1, <1>2
  <2>4. ASSUME NEW j \in n + 1..(n + c)
        PROVE  /\ j - n \in 1..c /\ f[j - n] \in last
               /\ v.log[j].key = w.log[f[j - n]].key /\ v.log[j].val = w.log[f[j - n]].val
    <3>1. j - n \in 1..c /\ j = n + (j - n)
      BY <1>1, <1>2
    <3> QED
      BY <1>6, <1>9, <3>1
  <2>5. CASE \A i \in last : w.log[i].key # k
    <3>1. \A j \in n + 1..(n + c) : v.log[j].key # k
      BY <2>4, <2>5
    <3>2. After(v, n + c, k) = Listed(w, k)
      BY <1>1, <2>1, <2>2, <2>3, <3>1, AfterQuiet
    <3>3. CASE \A i \in n + 1..len : w.log[i].key # k
      BY <1>1, <2>2, <3>2, <3>3, AfterQuiet
    <3>4. CASE \E i \in n + 1..len : w.log[i].key = k
      <4>1. PICK i \in 1..len : /\ w.log[i].key = k
                                /\ \A j \in i + 1..len : w.log[j].key # k
                                /\ After(w, len, k) = w.log[i].val
        <5>1. PICK h \in n + 1..len : w.log[h].key = k
          BY <3>4
        <5>2. h \in 1..len
          BY <1>1
        <5>3. ~ \A i \in 1..len : w.log[i].key # k
          BY <5>1, <5>2
        <5>4. len \in Nat
          BY <1>1
        <5> QED
          BY <5>3, <5>4, AfterIs
      <4>2. i \in n + 1..len
        <5>1. PICK h \in n + 1..len : w.log[h].key = k
          BY <3>4
        <5>2. ~(i < h)
          BY <1>1, <4>1, <5>1
        <5> QED
          BY <1>1, <5>2
      <4>3. i \notin last
        BY <2>5, <4>1
      <4>4. {w.log[i].val, Listed(w, k)} = {Gone}
        BY <4>1, <4>2, <4>3 DEF last
      <4> QED
        BY <3>2, <4>1, <4>4
    <3> QED
      BY <3>3, <3>4
  <2>6. ASSUME NEW i \in last, w.log[i].key = k
        PROVE  After(v, n + c, k) = After(w, len, k)
    <3>1. i \in 1..len /\ \A j \in i + 1..len : w.log[j].key # k
      BY <1>4, <2>6 DEF last
    <3>2. After(w, len, k) = w.log[i].val
      BY <1>1, <2>6, <3>1, AfterLast
    <3>3. \A x, y \in 1..c : f[x] = f[y] => x = y
      <4> TAKE x, y \in 1..c
      <4>1. x \in Nat /\ y \in Nat /\ f[x] \in Nat /\ f[y] \in Nat
        BY <1>2, <1>3, <1>4
      <4>2. x < y => f[x] < f[y]
        BY <1>3
      <4>3. y < x => f[y] < f[x]
        BY <1>3
      <4> QED
        BY <4>1, <4>2, <4>3
    <3>4. PICK h \in 1..c : f[h] = i
      <4>1. f \in Injection(1..c, last)
        BY <1>3, <3>3 DEF Injection, IsInjective
      <4>2. Cardinality(1..c) = Cardinality(last)
        BY <1>2, FS_Interval DEF c
      <4>3. f \in Surjection(1..c, last)
        BY <1>2, <4>1, <4>2, FS_Injection
      <4> QED
        BY <4>3 DEF Surjection
    <3>5. n + h \in 1..(n + c) /\ v.log[n + h].key = k /\ v.log[n + h].val = w.log[i].val
      <4>1. n + h \in 1..(n + c)
        BY <1>1, <1>2
      <4>2. v.log[n + h] = new[h]
        BY <1>9
      <4>3. new[h].key = w.log[i].key /\ new[h].val = w.log[i].val
        BY <1>6, <3>4
      <4> QED
        BY <2>6, <4>1, <4>2, <4>3
    <3>6. ASSUME NEW j \in (n + h) + 1..(n + c), v.log[j].key = k
          PROVE  FALSE
      <4>1. j \in n + 1..(n + c) /\ h < j - n
        BY <1>1, <1>2, <3>5
      <4>2. j - n \in 1..c /\ f[j - n] \in last /\ w.log[f[j - n]].key = k
        BY <2>4, <3>6, <4>1
      <4>3. i < f[j - n]
        BY <1>3, <3>4, <4>1, <4>2
      <4>4. f[j - n] \in i + 1..len
        BY <1>4, <4>2, <4>3
      <4> QED
        BY <3>1, <4>2, <4>4
    <3> QED
      BY <2>3, <3>2, <3>5, <3>6, AfterLast
  <2> QED
    BY <2>5, <2>6
<1>13. \A k \in keys : Object(v, k) = Object(w, k)
  BY <1>9, <1>12 DEF Object, len
<1>14. Retells(v, w)
  <2> SUFFICES ASSUME NEW i \in 1..Len(v.log)
               PROVE  \E j \in 1..len : v.log[i].key = w.log[j].key /\ v.log[i].val = w.log[j].val
    BY <1>9 DEF Retells, len
  <2>1. CASE i \in 1..n
    <3>1. i \in 1..len
      BY <1>1, <2>1
    <3> QED
      BY <1>9, <2>1, <3>1
  <2>2. CASE i \notin 1..n
    <3>1. i - n \in 1..c /\ n + (i - n) = i
      BY <1>1, <1>2, <1>9, <2>2
    <3>2. f[i - n] \in 1..len
      BY <1>3, <1>4, <3>1
    <3> QED
      BY <1>6, <1>9, <3>1, <3>2
  <2> QED
    BY <2>1, <2>2
<1> QED
  BY <1>9, <1>10, <1>11, <1>13, <1>14 DEF n

(* A process that starts again is told of every object there is, once.     *)
LEMMA RestartStep ==
  ASSUME NEW keys, IsFiniteSet(keys), NEW values, Gone \in values, NEW readers, NEW w,
         Followed(w, keys, values, readers)
  PROVE  /\ Followed(Restart(w), keys, values, readers)
         /\ \A k \in keys : Object(Restart(w), k) = Object(w, k)
         /\ \A k \in keys : Listed(Restart(w), k) = Object(w, k)
         /\ Restart(w).pos["lister"] = Len(Restart(w).log)
         /\ \A r \in readers \ {"lister"} :
              /\ Restart(w).pos[r] = 0
              /\ \A k \in keys : Seen(Restart(w), r, k) = Gone
<1> DEFINE are == {k \in keys : Object(w, k) # Gone}
           there == SetToSeq(are)
           log == [i \in DOMAIN there |->
                     [key |-> there[i], val |-> Object(w, there[i]), lost |-> FALSE]]
           x == Restart(w)
           c == Cardinality(are)
<1>1. /\ w \in Watches(keys, values, readers) /\ w.pos \in [readers -> Nat]
      /\ DOMAIN w.base = keys /\ DOMAIN w.pos = readers /\ Len(w.log) \in Nat
  BY DEF Followed, Watches
<1>2. IsFiniteSet(are) /\ c \in Nat
  BY FS_Subset, FS_CardinalityType
<1>3. there \in [1..c -> are] /\ IsInjective(there)
  <2>1. ExistsBijection(1..c, are)
    BY <1>2, FS_CardinalityType
  <2>2. \E f \in [1..c -> are] : IsInjective(f)
    BY <2>1 DEF ExistsBijection, Bijection, Injection
  <2> QED
    BY <2>2 DEF SetToSeq
<1>4. \A k \in are : \E i \in 1..c : there[i] = k
  <2>1. there \in Injection(1..c, are)
    BY <1>3 DEF Injection
  <2>2. Cardinality(1..c) = c
    BY <1>2, FS_Interval
  <2>3. there \in Surjection(1..c, are)
    BY <1>2, <2>1, <2>2, FS_Injection
  <2> QED
    BY <2>3 DEF Surjection
<1>5. \A k \in keys : Object(w, k) \in values
  BY <1>1, AfterIsTyped DEF Object
<1>6. Len(there) = c
  <2>1. there \in Seq(are)
    BY <1>2, <1>3
  <2> QED
    BY <1>2, <1>3, <2>1
<1>7. x = [base |-> [k \in keys |-> Gone], log |-> log,
           pos |-> [r \in readers |-> IF r = "lister" THEN c ELSE 0]]
  BY <1>1, <1>6 DEF Restart
<1>8. /\ log \in [1..c -> Changes(keys, values)]
      /\ \A i \in 1..c : log[i].key = there[i] /\ log[i].val = Object(w, there[i])
  BY <1>3, <1>5 DEF Changes
<1> HIDE DEF are, there, log, x, c
<1>9. /\ log \in Seq(Changes(keys, values)) /\ Len(log) = c
  <2>1. log \in Seq(Changes(keys, values))
    BY <1>2, <1>8
  <2> QED
    BY <1>2, <1>8, <2>1
<1>10. /\ x.log = log /\ \A k \in keys : x.base[k] = Gone
       /\ \A r \in readers : x.pos[r] = IF r = "lister" THEN c ELSE 0
  BY <1>7
<1>11. Followed(x, keys, values, readers)
  <2>1. x \in Watches(keys, values, readers)
    BY <1>2, <1>7, <1>9 DEF Watches
  <2> QED
    BY <1>2, <1>9, <1>10, <2>1 DEF Followed
<1>12. ASSUME NEW k \in keys
       PROVE  After(x, c, k) = Object(w, k)
  <2>1. CASE k \in are
    <3>1. PICK i \in 1..c : there[i] = k
      BY <1>4, <2>1
    <3>2. x.log[i].key = k /\ x.log[i].val = Object(w, k)
      BY <1>8, <1>10, <3>1
    <3>3. \A j \in i + 1..c : x.log[j].key # k
      <4> SUFFICES ASSUME NEW j \in i + 1..c, x.log[j].key = k
                   PROVE  FALSE
        OBVIOUS
      <4>1. j \in 1..c /\ j # i
        BY <1>2
      <4>2. there[j] = k
        BY <1>8, <1>10, <4>1
      <4> QED
        BY <1>3, <3>1, <4>1, <4>2 DEF IsInjective
    <3> QED
      BY <1>2, <3>2, <3>3, AfterLast
  <2>2. CASE k \notin are
    <3>1. \A i \in 1..c : x.log[i].key # k
      BY <1>3, <1>8, <1>10, <2>2
    <3>2. Object(w, k) = Gone
      BY <2>2 DEF are
    <3> QED
      BY <1>2, <1>10, <3>1, <3>2, AfterIs
  <2> QED
    BY <2>1, <2>2
<1>13. \A k \in keys : Object(x, k) = Object(w, k) /\ Listed(x, k) = Object(w, k)
  BY <1>9, <1>10, <1>11, <1>12 DEF Object, Listed, Seen, Followed
<1>14. \A r \in readers \ {"lister"} : x.pos[r] = 0 /\ \A k \in keys : Seen(x, r, k) = Gone
  BY <1>10, AfterZero DEF Seen
<1>15. x.pos["lister"] = Len(x.log)
  BY <1>9, <1>10 DEF Followed
<1> QED
  BY <1>11, <1>13, <1>14, <1>15 DEF x

-----------------------------------------------------------------------------
(* What a reader knows of an object.                                       *)

(* Nothing that the lister is ahead of r with is about k, or all of it     *)
(* leaves k as r knows it.                                                 *)
Unmoved(w, r, k) ==
  \A m \in w.pos[r]..w.pos["lister"] : After(w, m, k) = Seen(w, r, k)

(* Then the lister shows k as r knows it.                                  *)
LEMMA UnmovedIsListed ==
  ASSUME NEW keys, NEW values, NEW readers, NEW w, Followed(w, keys, values, readers),
         NEW r \in readers, NEW k, Unmoved(w, r, k)
  PROVE  Listed(w, k) = Seen(w, r, k)
<1>1. /\ w.pos[r] \in Nat /\ w.pos["lister"] \in Nat
      /\ w.pos[r] <= w.pos["lister"]
  BY DEF Followed, Watches
<1>2. w.pos["lister"] \in w.pos[r]..w.pos["lister"]
  BY <1>1
<1> QED
  BY <1>2 DEF Unmoved, Listed, Seen

(* A reader that has seen the whole log knows what there is, and so does   *)
(* the lister.                                                             *)
LEMMA SyncedKnows ==
  ASSUME NEW keys, NEW values, NEW readers, NEW w, Followed(w, keys, values, readers),
         NEW r \in readers, Synced(w, r), NEW k
  PROVE  Seen(w, r, k) = Object(w, k) /\ Unmoved(w, r, k)
<1>1. /\ w.pos[r] \in Nat /\ w.pos["lister"] = w.pos[r]
      /\ w.pos[r] = Len(w.log)
  BY DEF Followed, Watches, Synced
<1>2. \A m \in w.pos[r]..w.pos["lister"] : m = w.pos[r]
  BY <1>1
<1> QED
  BY <1>1, <1>2 DEF Seen, Object, Unmoved

(* A handler that is told of a change knows the object as it tells; what   *)
(* is ahead of it then was ahead of it before.                             *)
LEMMA HandlerReads ==
  ASSUME NEW keys, NEW values, NEW readers, NEW w, Followed(w, keys, values, readers),
         NEW r \in readers \ {"lister"}, CanRead(w, r)
  PROVE  /\ Event(w, r) \in Changes(keys, values)
         /\ Followed(Read(w, r), keys, values, readers)
         /\ \A k \in keys :
              /\ Seen(Read(w, r), r, k) = IF Event(w, r).key = k THEN Event(w, r).val
                                          ELSE Seen(w, r, k)
              /\ Listed(Read(w, r), k) = Listed(w, k)
              /\ Object(Read(w, r), k) = Object(w, k)
              /\ /\ Unmoved(Read(w, r), r, k)
                 /\ Seen(Read(w, r), r, k) = Seen(w, r, k)
                 => Unmoved(w, r, k)
<1> DEFINE x == Read(w, r)
           pos == [q \in readers |-> IF q = r THEN w.pos[q] + 1 ELSE w.pos[q]]
           y == [w EXCEPT !.pos = pos]
<1>1. /\ w \in Watches(keys, values, readers)
      /\ w = [base |-> w.base, log |-> w.log, pos |-> w.pos]
      /\ w.log \in Seq(Changes(keys, values))
      /\ w.pos[r] \in Nat /\ w.pos["lister"] \in Nat /\ Len(w.log) \in Nat
      /\ w.pos[r] < w.pos["lister"] /\ w.pos["lister"] <= Len(w.log)
      /\ "lister" \in readers
  BY DEF Followed, Watches, CanRead
<1>2. Event(w, r) \in Changes(keys, values)
  <2>1. w.pos[r] + 1 \in 1..Len(w.log)
    BY <1>1
  <2> QED
    BY <1>1, <2>1 DEF Event
<1>3. /\ Followed(x, keys, values, readers)
      /\ \E n \in Nat : RestOf(y, x, n, keys, readers)
  BY ReadStep
<1>4. PICK n \in Nat : RestOf(y, x, n, keys, readers)
  BY <1>3
<1>5. /\ y.base = w.base /\ y.log = w.log
      /\ y.pos[r] = w.pos[r] + 1 /\ y.pos["lister"] = w.pos["lister"]
  BY <1>1
<1> HIDE DEF x, y
<1>6. /\ n <= w.pos[r] + 1 /\ x.pos[r] = (w.pos[r] + 1) - n
      /\ n <= w.pos["lister"] /\ x.pos["lister"] = w.pos["lister"] - n
      /\ Len(x.log) = Len(w.log) - n
  BY <1>1, <1>4, <1>5 DEF RestOf
<1>7. ASSUME NEW k \in keys, NEW m \in n..Len(w.log)
      PROVE  After(x, m - n, k) = After(w, m, k)
  <2>1. m \in Nat /\ m \in n..Len(y.log)
    BY <1>5
  <2>2. After(y, m, k) = After(w, m, k)
    BY <1>5, <2>1, AfterSame
  <2> QED
    BY <1>4, <2>1, <2>2 DEF RestOf
<1>8. ASSUME NEW k \in keys
      PROVE  /\ Seen(x, r, k) = IF Event(w, r).key = k THEN Event(w, r).val ELSE Seen(w, r, k)
             /\ Listed(x, k) = Listed(w, k)
             /\ Object(x, k) = Object(w, k)
  <2>1. /\ w.pos[r] + 1 \in n..Len(w.log) /\ w.pos["lister"] \in n..Len(w.log)
        /\ Len(w.log) \in n..Len(w.log)
    BY <1>1, <1>6
  <2>2. Seen(x, r, k) = After(w, w.pos[r] + 1, k)
    <3>1. PICK m \in n..Len(w.log) : m = w.pos[r] + 1
      BY <2>1
    <3>2. After(x, m - n, k) = After(w, m, k)
      BY <1>7
    <3>3. x.pos[r] = m - n
      BY <1>1, <1>6, <3>1
    <3> QED
      BY <3>1, <3>2, <3>3 DEF Seen
  <2>3. After(w, w.pos[r] + 1, k) = IF w.log[w.pos[r] + 1].key = k
                                    THEN w.log[w.pos[r] + 1].val
                                    ELSE After(w, w.pos[r], k)
    BY <1>1, AfterNext
  <2>4. Listed(x, k) = Listed(w, k)
    BY <1>6, <1>7, <2>1 DEF Listed, Seen
  <2>5. Object(x, k) = Object(w, k)
    BY <1>6, <1>7, <2>1 DEF Object
  <2> QED
    BY <2>2, <2>3, <2>4, <2>5 DEF Event, Seen
<1>9. ASSUME NEW k \in keys, Unmoved(x, r, k), Seen(x, r, k) = Seen(w, r, k)
      PROVE  Unmoved(w, r, k)
  <2> SUFFICES ASSUME NEW m \in w.pos[r]..w.pos["lister"]
               PROVE  After(w, m, k) = Seen(w, r, k)
    BY DEF Unmoved
  <2>1. CASE m = w.pos[r]
    BY <2>1 DEF Seen
  <2>2. CASE m # w.pos[r]
    <3>1. m \in n..Len(w.log) /\ m - n \in x.pos[r]..x.pos["lister"]
      <4>1. /\ m \in Int /\ w.pos[r] + 1 <= m /\ m <= w.pos["lister"] /\ m <= Len(w.log)
            /\ n <= m
        BY <1>1, <1>6, <2>2
      <4>2. x.pos[r] = (w.pos[r] + 1) - n /\ x.pos["lister"] = w.pos["lister"] - n
        BY <1>1, <1>6
      <4>3. PICK a, b \in Int : a = w.pos[r] + 1 /\ b = w.pos["lister"]
        BY <1>1
      <4>4. m - n \in a - n..b - n
        BY <4>1, <4>3
      <4> QED
        BY <1>1, <4>1, <4>2, <4>3, <4>4
    <3>2. After(x, m - n, k) = Seen(x, r, k)
      BY <1>9, <3>1 DEF Unmoved
    <3> QED
      BY <1>7, <1>9, <3>1, <3>2
  <2> QED
    BY <2>1, <2>2
<1> QED
  BY <1>2, <1>3, <1>8, <1>9 DEF x

(* When the cache takes a change, no handler is told of anything yet.      *)
LEMMA ListerReads ==
  ASSUME NEW keys, NEW values, NEW readers, NEW w, Followed(w, keys, values, readers),
         Behind(w, "lister")
  PROVE  /\ Followed(Read(w, "lister"), keys, values, readers)
         /\ \A k \in keys : Object(Read(w, "lister"), k) = Object(w, k)
         /\ \A r \in readers \ {"lister"}, k \in keys :
              /\ Seen(Read(w, "lister"), r, k) = Seen(w, r, k)
              /\ Unmoved(Read(w, "lister"), r, k) => Unmoved(w, r, k)
<1> DEFINE x == Read(w, "lister")
           pos == [q \in readers |-> IF q = "lister" THEN w.pos[q] + 1 ELSE w.pos[q]]
           y == [w EXCEPT !.pos = pos]
<1>1. /\ w \in Watches(keys, values, readers)
      /\ w = [base |-> w.base, log |-> w.log, pos |-> w.pos]
      /\ w.pos["lister"] \in Nat /\ Len(w.log) \in Nat
      /\ w.pos["lister"] < Len(w.log)
      /\ \A r \in readers : w.pos[r] \in Nat /\ w.pos[r] <= w.pos["lister"]
      /\ "lister" \in readers
  BY DEF Followed, Watches, Behind
<1>2. /\ Followed(x, keys, values, readers)
      /\ \E n \in Nat : RestOf(y, x, n, keys, readers)
  BY <1>1, ReadStep
<1>3. PICK n \in Nat : RestOf(y, x, n, keys, readers)
  BY <1>2
<1>4. /\ y.base = w.base /\ y.log = w.log
      /\ \A r \in readers : y.pos[r] = IF r = "lister" THEN w.pos[r] + 1 ELSE w.pos[r]
  BY <1>1
<1> HIDE DEF x, y
<1>5. /\ x.pos["lister"] = (w.pos["lister"] + 1) - n /\ n <= w.pos["lister"] + 1
      /\ \A r \in readers \ {"lister"} : n <= w.pos[r] /\ x.pos[r] = w.pos[r] - n
      /\ Len(x.log) = Len(w.log) - n
  BY <1>1, <1>3, <1>4 DEF RestOf
<1>6. ASSUME NEW k \in keys, NEW m \in n..Len(w.log)
      PROVE  After(x, m - n, k) = After(w, m, k)
  <2>1. m \in Nat /\ m \in n..Len(y.log)
    BY <1>4
  <2>2. After(y, m, k) = After(w, m, k)
    BY <1>4, <2>1, AfterSame
  <2> QED
    BY <1>3, <2>1, <2>2 DEF RestOf
<1>7. ASSUME NEW k \in keys
      PROVE  Object(x, k) = Object(w, k)
  <2>1. Len(w.log) \in n..Len(w.log)
    BY <1>1, <1>5
  <2> QED
    BY <1>5, <1>6, <2>1 DEF Object
<1>8. ASSUME NEW r \in readers \ {"lister"}, NEW k \in keys
      PROVE  Seen(x, r, k) = Seen(w, r, k) /\ (Unmoved(x, r, k) => Unmoved(w, r, k))
  <2>1. w.pos[r] \in n..Len(w.log)
    BY <1>1, <1>5
  <2>2. Seen(x, r, k) = Seen(w, r, k)
    BY <1>5, <1>6, <2>1 DEF Seen
  <2>3. ASSUME Unmoved(x, r, k), NEW m \in w.pos[r]..w.pos["lister"]
        PROVE  After(w, m, k) = Seen(w, r, k)
    <3>1. m \in n..Len(w.log) /\ m - n \in x.pos[r]..x.pos["lister"]
      <4>1. /\ m \in Int /\ w.pos[r] <= m /\ m <= w.pos["lister"] + 1 /\ m <= Len(w.log)
            /\ n <= m
        BY <1>1, <1>5, <2>1
      <4>2. x.pos[r] = w.pos[r] - n
        BY <1>5
      <4>3. PICK a, b \in Int : a = w.pos[r] /\ b = w.pos["lister"] + 1
        BY <1>1
      <4>4. x.pos["lister"] = b - n
        BY <1>1, <1>5, <4>3
      <4>5. m - n \in a - n..b - n
        BY <4>1, <4>3
      <4> QED
        BY <1>1, <4>1, <4>2, <4>3, <4>4, <4>5
    <3> QED
      BY <1>6, <2>2, <2>3, <3>1 DEF Unmoved
  <2> QED
    BY <2>2, <2>3 DEF Unmoved
<1> QED
  BY <1>2, <1>7, <1>8 DEF x

(* Neither a change at the server nor listing again tells a handler.       *)
LEMMA NobodyReads ==
  ASSUME NEW keys, NEW values, NEW readers, NEW w, Followed(w, keys, values, readers),
         NEW v, \/ v \in Relisted(w)
                \/ \E k \in keys, val \in values : v = Change(w, k, val)
  PROVE  /\ Followed(v, keys, values, readers)
         /\ \A r \in readers, k \in keys :
              /\ Seen(v, r, k) = Seen(w, r, k)
              /\ Listed(v, k) = Listed(w, k)
              /\ Unmoved(v, r, k) <=> Unmoved(w, r, k)
<1>1. /\ \A r \in readers : w.pos[r] \in Nat /\ w.pos[r] <= w.pos["lister"]
      /\ w.pos["lister"] \in Nat /\ Len(w.log) \in Nat /\ w.pos["lister"] <= Len(w.log)
  BY DEF Followed, Watches
<1>2. /\ Followed(v, keys, values, readers) /\ v.pos = w.pos
      /\ \A k \in keys, m \in 0..w.pos["lister"] : After(v, m, k) = After(w, m, k)
  <2>1. CASE v \in Relisted(w)
    BY <2>1, RelistStep
  <2>2. ASSUME NEW k \in keys, NEW val \in values, v = Change(w, k, val)
        PROVE  /\ Followed(v, keys, values, readers) /\ v.pos = w.pos
               /\ \A j \in keys, m \in 0..w.pos["lister"] : After(v, m, j) = After(w, m, j)
    <3>1. \A m \in 0..w.pos["lister"] : m \in 0..Len(w.log)
      BY <1>1
    <3> QED
      BY <2>2, <3>1, ChangeStep
  <2> QED
    BY <2>1, <2>2
<1>3. ASSUME NEW r \in readers, NEW k \in keys
      PROVE  /\ Seen(v, r, k) = Seen(w, r, k)
             /\ Listed(v, k) = Listed(w, k)
             /\ Unmoved(v, r, k) <=> Unmoved(w, r, k)
  <2>1. w.pos[r] \in 0..w.pos["lister"] /\ w.pos["lister"] \in 0..w.pos["lister"]
    BY <1>1
  <2>2. Seen(v, r, k) = Seen(w, r, k) /\ Listed(v, k) = Listed(w, k)
    BY <1>2, <2>1 DEF Seen, Listed
  <2>3. \A m \in w.pos[r]..w.pos["lister"] : m \in 0..w.pos["lister"]
    BY <1>1
  <2>4. \A m \in w.pos[r]..w.pos["lister"] : After(v, m, k) = After(w, m, k)
    BY <1>2, <2>3
  <2> QED
    BY <1>2, <2>2, <2>4 DEF Unmoved
<1> QED
  BY <1>2, <1>3

-----------------------------------------------------------------------------
(* What the lister shows, and is going to show if nothing else happens.    *)

(* The objects after the first m changes.                                  *)
Shows(w, m) == [k \in DOMAIN w.base |-> After(w, m, k)]

Shown(w)   == Shows(w, w.pos["lister"])
Objects(w) == Shows(w, Len(w.log))

(* The lister shows s, now or when it has read on, and then t, or s still. *)
Later(w, s, t) ==
  \E m, n \in w.pos["lister"]..Len(w.log) : m <= n /\ s = Shows(w, m) /\ t = Shows(w, n)

(* The first of all that it shows, and the last.                           *)
LEMMA LaterEnds ==
  ASSUME NEW keys, NEW values, NEW readers, NEW w, Followed(w, keys, values, readers)
  PROVE  /\ Later(w, Shown(w), Shown(w)) /\ Later(w, Objects(w), Objects(w))
         /\ Shown(w) \in [keys -> values] /\ Objects(w) \in [keys -> values]
         /\ \A k \in keys : Shown(w)[k] = Listed(w, k) /\ Objects(w)[k] = Object(w, k)
<1>1. /\ DOMAIN w.base = keys /\ w.pos["lister"] \in Nat /\ Len(w.log) \in Nat
      /\ w.pos["lister"] <= Len(w.log)
  BY DEF Followed, Watches
<1>2. /\ w.pos["lister"] \in w.pos["lister"]..Len(w.log)
      /\ Len(w.log) \in w.pos["lister"]..Len(w.log)
      /\ w.pos["lister"] \in 0..Len(w.log) /\ Len(w.log) \in 0..Len(w.log)
  BY <1>1
<1>3. Later(w, Shown(w), Shown(w)) /\ Later(w, Objects(w), Objects(w))
  BY <1>1, <1>2 DEF Later, Shown, Objects
<1>4. Shown(w) \in [keys -> values] /\ Objects(w) \in [keys -> values]
  BY <1>1, <1>2, AfterIsTyped DEF Shown, Objects, Shows
<1>5. \A k \in keys : Shown(w)[k] = Listed(w, k) /\ Objects(w)[k] = Object(w, k)
  BY <1>1 DEF Shown, Objects, Shows, Listed, Seen, Object
<1> QED
  BY <1>3, <1>4, <1>5

(* All that it shows is between the first and the last.                    *)
LEMMA LaterBetween ==
  ASSUME NEW keys, NEW values, NEW readers, NEW w, Followed(w, keys, values, readers),
         NEW s, NEW t, Later(w, s, t)
  PROVE  /\ Later(w, s, s) /\ Later(w, t, t)
         /\ Later(w, Shown(w), s) /\ Later(w, s, Objects(w))
         /\ s \in [keys -> values] /\ t \in [keys -> values]
<1>1. /\ DOMAIN w.base = keys /\ w.pos["lister"] \in Nat /\ Len(w.log) \in Nat
      /\ w.pos["lister"] <= Len(w.log)
  BY DEF Followed, Watches
<1>2. PICK m, n \in w.pos["lister"]..Len(w.log) : m <= n /\ s = Shows(w, m) /\ t = Shows(w, n)
  BY DEF Later
<1>3. /\ w.pos["lister"] \in w.pos["lister"]..Len(w.log)
      /\ Len(w.log) \in w.pos["lister"]..Len(w.log)
      /\ w.pos["lister"] <= m /\ m <= Len(w.log) /\ m <= m /\ n <= n
      /\ m \in 0..Len(w.log) /\ n \in 0..Len(w.log)
  BY <1>1
<1>4. Later(w, s, s) /\ Later(w, t, t)
  BY <1>2, <1>3 DEF Later
<1>5. Later(w, Shown(w), s) /\ Later(w, s, Objects(w))
  BY <1>2, <1>3 DEF Later, Shown, Objects
<1>6. \A k \in keys : After(w, m, k) \in values /\ After(w, n, k) \in values
  BY <1>3, AfterIsTyped
<1>7. s \in [keys -> values] /\ t \in [keys -> values]
  BY <1>1, <1>2, <1>6 DEF Shows
<1> QED
  BY <1>4, <1>5, <1>7

(* At the start there is nothing to come.                                  *)
LEMMA LaterStart ==
  ASSUME NEW keys, NEW values, NEW objects \in [keys -> values]
  PROVE  LET w == StartWatch(objects, {"lister"})
         IN /\ Shown(w) = objects /\ Objects(w) = objects
            /\ \A s, t : Later(w, s, t) => s = objects /\ t = objects
<1> DEFINE w == StartWatch(objects, {"lister"})
<1>1. w.base = objects /\ DOMAIN w.base = keys /\ w.pos["lister"] = 0 /\ Len(w.log) = 0
  BY DEF StartWatch
<1> HIDE DEF w
<1>2. Shows(w, 0) = objects
  <2>1. Shows(w, 0) = [k \in keys |-> objects[k]]
    BY <1>1, AfterZero DEF Shows
  <2> QED
    BY <2>1
<1>3. \A m \in 0..0 : m = 0
  OBVIOUS
<1>4. Shown(w) = objects /\ Objects(w) = objects
  BY <1>1, <1>2 DEF Shown, Objects
<1>5. \A s, t : Later(w, s, t) => s = objects /\ t = objects
  BY <1>1, <1>2, <1>3 DEF Later
<1> QED
  BY <1>4, <1>5 DEF w

(* A change is shown in the end, after all that was to come before it.     *)
LEMMA LaterChange ==
  ASSUME NEW keys, NEW values, NEW readers, NEW w, Followed(w, keys, values, readers),
         NEW k \in keys, NEW v \in values
  PROVE  LET x == Change(w, k, v)
         IN /\ Shown(x) = Shown(w)
            /\ Objects(x) = [Objects(w) EXCEPT ![k] = v]
            /\ \A s, t : Later(w, s, t) => Later(x, s, t)
            /\ \A s, t : Later(x, s, t) =>
                 \/ Later(w, s, t)
                 \/ t = Objects(x) /\ (s = Objects(x) \/ Later(w, s, Objects(w)))
<1> DEFINE x == Change(w, k, v)
           c == Len(w.log)
           f == w.pos["lister"]
<1>1. DOMAIN w.base = keys /\ f \in Nat /\ c \in Nat /\ f <= c
  BY DEF Followed, Watches
<1>2. /\ x.pos = w.pos /\ Len(x.log) = c + 1
      /\ \A j, n : n \in 0..c => After(x, n, j) = After(w, n, j)
      /\ \A j : Object(x, j) = IF j = k THEN v ELSE Object(w, j)
  BY ChangeStep
<1>3. DOMAIN x.base = keys
  BY <1>1 DEF Change
<1> HIDE DEF x
<1>4. \A n \in f..c : Shows(x, n) = Shows(w, n)
  <2> SUFFICES ASSUME NEW n \in f..c
               PROVE  Shows(x, n) = Shows(w, n)
    OBVIOUS
  <2>1. n \in 0..c
    BY <1>1
  <2> QED
    BY <1>1, <1>2, <1>3, <2>1 DEF Shows
<1>5. Objects(x) = Shows(x, c + 1) /\ Objects(w) = Shows(w, c)
  BY <1>2 DEF Objects
<1>6. Objects(x) = [Objects(w) EXCEPT ![k] = v]
  <2>1. Objects(x) = [j \in keys |-> Object(x, j)]
    BY <1>3 DEF Objects, Shows, Object
  <2>2. Objects(w) = [j \in keys |-> Object(w, j)]
    BY <1>1 DEF Objects, Shows, Object
  <2> QED
    BY <1>2, <2>1, <2>2
<1>7. Shown(x) = Shown(w)
  <2>1. f \in f..c
    BY <1>1
  <2> QED
    BY <1>2, <1>4, <2>1 DEF Shown
<1>8. ASSUME NEW s, NEW t, Later(w, s, t)
      PROVE  Later(x, s, t)
  <2>1. PICK m, n \in f..c : m <= n /\ s = Shows(w, m) /\ t = Shows(w, n)
    BY <1>8 DEF Later
  <2>2. m \in f..c + 1 /\ n \in f..c + 1
    BY <1>1
  <2>3. s = Shows(x, m) /\ t = Shows(x, n)
    BY <1>4, <2>1
  <2> QED
    BY <1>2, <2>1, <2>2, <2>3 DEF Later
<1>9. ASSUME NEW s, NEW t, Later(x, s, t)
      PROVE  \/ Later(w, s, t)
             \/ t = Objects(x) /\ (s = Objects(x) \/ Later(w, s, Objects(w)))
  <2>1. PICK m, n \in f..c + 1 : m <= n /\ s = Shows(x, m) /\ t = Shows(x, n)
    BY <1>2, <1>9 DEF Later
  <2>2. CASE n # c + 1
    <3>1. m \in f..c /\ n \in f..c
      BY <1>1, <2>1, <2>2
    <3> QED
      BY <1>4, <2>1, <3>1 DEF Later
  <2>3. CASE n = c + 1 /\ m = c + 1
    BY <1>5, <2>1, <2>3
  <2>4. CASE n = c + 1 /\ m # c + 1
    <3>1. m \in f..c /\ c \in f..c /\ m <= c
      BY <1>1, <2>1, <2>4
    <3>2. Later(w, s, Objects(w))
      BY <1>4, <1>5, <2>1, <3>1 DEF Later
    <3> QED
      BY <1>5, <2>1, <2>4, <3>2
  <2> QED
    BY <2>2, <2>3, <2>4
<1> QED
  BY <1>6, <1>7, <1>8, <1>9 DEF x

(* When the lister reads on, it shows what the event tells, and leaves     *)
(* Numbers of the log, counted from a later start, and back.               *)
LEMMA Shifted ==
  ASSUME NEW f \in Int, NEW c \in Int, NEW d \in Int, d <= f + 1,
         NEW h \in Int, h >= (f + 1) - d, h <= c - d
  PROVE  h + d \in f..c /\ h + d \in d..c /\ (h + d) - d = h
OBVIOUS

LEMMA Unshifted ==
  ASSUME NEW m \in Int, NEW n \in Int, NEW d \in Int, NEW c \in Int,
         d <= m + d, n + d <= c, NEW i \in m + d..n + d
  PROVE  i \in d..c /\ i - d \in m..n
OBVIOUS

(* nothing out but what it showed.                                         *)
LEMMA LaterRead ==
  ASSUME NEW keys, NEW values, NEW w, Followed(w, keys, values, {"lister"}),
         Behind(w, "lister")
  PROVE  LET x == Read(w, "lister")
         IN /\ Event(w, "lister") \in Changes(keys, values)
            /\ Followed(x, keys, values, {"lister"})
            /\ \A k \in keys : /\ Object(x, k) = Object(w, k)
                               /\ Listed(x, k) = IF Event(w, "lister").key = k
                                                 THEN Event(w, "lister").val ELSE Listed(w, k)
            /\ Objects(x) = Objects(w)
            /\ Later(w, Shown(w), Shown(x))
            /\ \A s, t : Later(x, s, t) => Later(w, s, t)
            /\ \A s : Later(w, s, s) => Later(x, s, s) \/ s = Shown(w)
<1> DEFINE x == Read(w, "lister")
           f == w.pos["lister"]
           c == Len(w.log)
           pos == [q \in {"lister"} |-> IF q = "lister" THEN w.pos[q] + 1 ELSE w.pos[q]]
           y == [w EXCEPT !.pos = pos]
<1>1. /\ w \in Watches(keys, values, {"lister"}) /\ DOMAIN w.base = keys
      /\ w = [base |-> w.base, log |-> w.log, pos |-> w.pos]
      /\ w.log \in Seq(Changes(keys, values))
      /\ f \in Nat /\ c \in Nat /\ f < c
  BY DEF Followed, Watches, Behind
<1>2. /\ Followed(x, keys, values, {"lister"})
      /\ \E n \in Nat : RestOf(y, x, n, keys, {"lister"})
  BY ReadStep
<1>3. PICK d \in Nat : RestOf(y, x, d, keys, {"lister"})
  BY <1>2
<1>4. y.base = w.base /\ y.log = w.log /\ y.pos["lister"] = f + 1
  BY <1>1
<1>5. f + 1 \in 1..c /\ Event(w, "lister") \in Changes(keys, values)
  BY <1>1 DEF Event
<1> HIDE DEF x, y
<1>6. DOMAIN x.base = keys
  BY <1>2 DEF Followed, Watches
<1>7. d <= f + 1 /\ x.pos["lister"] = (f + 1) - d /\ Len(x.log) = c - d
  BY <1>1, <1>3, <1>4 DEF RestOf
<1>8. ASSUME NEW m \in d..c
      PROVE  Shows(x, m - d) = Shows(w, m)
  <2>1. m \in d..Len(y.log) /\ m \in Nat
    BY <1>4
  <2>2. \A k \in keys : After(x, m - d, k) = After(y, m, k)
    BY <1>3, <2>1 DEF RestOf
  <2>3. \A k \in keys : After(y, m, k) = After(w, m, k)
    BY <1>4, <2>1, AfterSame
  <2> QED
    BY <1>1, <1>6, <2>2, <2>3 DEF Shows
<1>9. Objects(x) = Objects(w) /\ Shown(x) = Shows(w, f + 1)
  <2>1. c \in d..c /\ f + 1 \in d..c
    BY <1>1, <1>7
  <2>2. Shows(x, c - d) = Shows(w, c) /\ Shows(x, (f + 1) - d) = Shows(w, f + 1)
    BY <1>8, <2>1
  <2>3. Objects(x) = Shows(x, c - d)
    BY <1>7 DEF Objects
  <2>4. Shown(x) = Shows(x, x.pos["lister"])
    BY DEF Shown
  <2>5. x.pos["lister"] = (f + 1) - d
    BY <1>1, <1>7
  <2> QED
    BY <2>2, <2>3, <2>4, <2>5 DEF Objects
<1>10. ASSUME NEW k \in keys
       PROVE  /\ Object(x, k) = Object(w, k)
              /\ Listed(x, k) = IF Event(w, "lister").key = k
                                THEN Event(w, "lister").val ELSE Listed(w, k)
  <2>1. Object(x, k) = Objects(x)[k] /\ Listed(x, k) = Shown(x)[k]
    BY <1>2, LaterEnds
  <2>2. Objects(w)[k] = Object(w, k) /\ Shows(w, f + 1)[k] = After(w, f + 1, k)
    BY <1>1, LaterEnds DEF Shows
  <2>3. After(w, f + 1, k) = IF w.log[f + 1].key = k THEN w.log[f + 1].val ELSE After(w, f, k)
    BY <1>1, AfterNext
  <2> QED
    BY <1>9, <2>1, <2>2, <2>3 DEF Event, Listed, Seen
<1>11. Later(w, Shown(w), Shown(x))
  <2>1. f \in f..c /\ f + 1 \in f..c /\ f <= f + 1
    BY <1>1
  <2> QED
    BY <1>9, <2>1 DEF Later, Shown
<1>12. ASSUME NEW s, NEW t, Later(x, s, t)
       PROVE  Later(w, s, t)
  <2>1. PICK m, n \in (f + 1) - d..c - d : m <= n /\ s = Shows(x, m) /\ t = Shows(x, n)
    BY <1>7, <1>12 DEF Later
  <2>2. /\ m \in Int /\ n \in Int /\ (f + 1) - d >= 0 /\ m >= (f + 1) - d /\ n >= (f + 1) - d
        /\ m <= c - d /\ n <= c - d
    BY <1>1, <1>7, <2>1
  <2>3. /\ m + d \in f..c /\ n + d \in f..c /\ m + d <= n + d
        /\ m + d \in d..c /\ n + d \in d..c /\ (m + d) - d = m /\ (n + d) - d = n
    <3>1. ASSUME NEW h \in Int, h >= (f + 1) - d, h <= c - d
          PROVE  h + d \in f..c /\ h + d \in d..c /\ (h + d) - d = h
      <4>1. f \in Int /\ c \in Int /\ d \in Int /\ d <= f + 1
        BY <1>1, <1>7
      <4> QED
        BY <3>1, <4>1, Shifted
    <3>2. m + d <= n + d
      BY <2>1, <2>2
    <3> QED
      BY <2>2, <3>1, <3>2
  <2>4. s = Shows(w, m + d) /\ t = Shows(w, n + d)
    BY <1>8, <2>1, <2>3
  <2> QED
    BY <2>3, <2>4 DEF Later
<1>13. ASSUME NEW s, Later(w, s, s)
       PROVE  Later(x, s, s) \/ s = Shown(w)
  <2>1. PICK m \in f..c : s = Shows(w, m)
    BY <1>13 DEF Later
  <2>2. CASE m = f
    BY <2>1, <2>2 DEF Shown
  <2>3. CASE m # f
    <3>1. /\ m \in d..c /\ m - d \in x.pos["lister"]..Len(x.log) /\ m - d <= m - d
      BY <1>1, <1>7, <2>3
    <3>2. s = Shows(x, m - d)
      BY <1>8, <2>1, <3>1
    <3> QED
      BY <3>1, <3>2 DEF Later
  <2> QED
    BY <2>2, <2>3
<1> QED
  BY <1>2, <1>5, <1>9, <1>10, <1>11, <1>12, <1>13 DEF x

(* A process that starts again shows what there is.                        *)
LEMMA LaterRestart ==
  ASSUME NEW keys, IsFiniteSet(keys), NEW values, Gone \in values, NEW w,
         Followed(w, keys, values, {"lister"})
  PROVE  LET x == Restart(w)
         IN /\ Followed(x, keys, values, {"lister"})
            /\ \A k \in keys : Object(x, k) = Object(w, k) /\ Listed(x, k) = Object(w, k)
            /\ Objects(x) = Objects(w) /\ Shown(x) = Objects(w)
            /\ \A s, t : Later(x, s, t) => s = Objects(w) /\ t = Objects(w)
<1> DEFINE x == Restart(w)
<1>1. /\ Followed(x, keys, values, {"lister"})
      /\ \A k \in keys : Object(x, k) = Object(w, k) /\ Listed(x, k) = Object(w, k)
      /\ x.pos["lister"] = Len(x.log)
  <2> DEFINE readers == {"lister"}
  <2>1. Followed(w, keys, values, readers)
    OBVIOUS
  <2> HIDE DEF x, readers
  <2>2. /\ Followed(Restart(w), keys, values, readers)
        /\ \A k \in keys : Object(Restart(w), k) = Object(w, k)
        /\ \A k \in keys : Listed(Restart(w), k) = Object(w, k)
        /\ Restart(w).pos["lister"] = Len(Restart(w).log)
    BY <2>1, RestartStep
  <2> QED
    BY <2>2 DEF x, readers
<1> HIDE DEF x
<1>2. DOMAIN x.base = keys /\ DOMAIN w.base = keys /\ Len(x.log) \in Nat
  BY <1>1 DEF Followed, Watches
<1>3. Objects(x) = Objects(w)
  <2>1. Objects(x) = [k \in keys |-> Object(x, k)]
    BY <1>2 DEF Objects, Shows, Object
  <2>2. Objects(w) = [k \in keys |-> Object(w, k)]
    BY <1>2 DEF Objects, Shows, Object
  <2> QED
    BY <1>1, <2>1, <2>2
<1>4. Shown(x) = Objects(x)
  BY <1>1 DEF Shown, Objects
<1>5. \A m \in x.pos["lister"]..Len(x.log) : m = Len(x.log)
  BY <1>1, <1>2
<1>6. \A s, t : Later(x, s, t) => s = Objects(x) /\ t = Objects(x)
  BY <1>5 DEF Later, Objects
<1> QED
  BY <1>1, <1>3, <1>4, <1>6 DEF x

-----------------------------------------------------------------------------
(* The watch of one object, followed by the lister only.                   *)

(* The lister is going to be told that the object is gone, or that it is   *)
(* there after it was gone.                                                *)
Turns(w, k) ==
  /\ Behind(w, "lister")
  /\ \E n \in w.pos["lister"]..Len(w.log) : After(w, n, k) = Gone

(* As long as the object is there it stays the same, by some relation, in  *)
(* all that the lister shows and is going to show.                         *)
Linked(w, k, same) ==
  \A m, n \in w.pos["lister"]..Len(w.log) :
    /\ m <= n
    /\ \A i \in m..n : After(w, i, k) # Gone
    => <<After(w, m, k), After(w, n, k)>> \in same

(* The relations that are meant.                                           *)
Sameness(values, same) ==
  /\ \A x \in values : <<x, x>> \in same
  /\ \A x, y, z \in values : <<x, y>> \in same /\ <<y, z>> \in same => <<x, z>> \in same

(* What the lister shows is the same as what there is, unless it is going  *)
(* to be told.                                                             *)
LEMMA LinkedEnds ==
  ASSUME NEW k, NEW values, NEW same, NEW w, Followed(w, {k}, values, {"lister"}),
         Linked(w, k, same)
  PROVE  \/ Turns(w, k)
         \/ Listed(w, k) = Gone /\ Object(w, k) = Gone
         \/ /\ Listed(w, k) # Gone /\ Object(w, k) # Gone
            /\ <<Listed(w, k), Object(w, k)>> \in same
<1>1. /\ w.pos["lister"] \in Nat /\ Len(w.log) \in Nat /\ w.pos["lister"] <= Len(w.log)
  BY DEF Followed, Watches
<1>2. /\ w.pos["lister"] \in w.pos["lister"]..Len(w.log)
      /\ Len(w.log) \in w.pos["lister"]..Len(w.log)
  BY <1>1
<1>3. Listed(w, k) = After(w, w.pos["lister"], k) /\ Object(w, k) = After(w, Len(w.log), k)
  BY DEF Listed, Seen, Object
<1>4. CASE \A n \in w.pos["lister"]..Len(w.log) : After(w, n, k) # Gone
  BY <1>1, <1>2, <1>3, <1>4 DEF Linked
<1>5. CASE \E n \in w.pos["lister"]..Len(w.log) : After(w, n, k) = Gone
  <2>1. CASE w.pos["lister"] < Len(w.log)
    BY <1>5, <2>1 DEF Turns, Behind, Reads, Followed, Watches
  <2>2. CASE w.pos["lister"] = Len(w.log)
    <3>1. \A n \in w.pos["lister"]..Len(w.log) : n = Len(w.log)
      BY <1>1, <2>2
    <3> QED
      BY <1>3, <1>5, <2>2, <3>1
  <2> QED
    BY <1>1, <2>1, <2>2
<1> QED
  BY <1>4, <1>5

(* A change, after which the object is gone, is there again, or is the     *)
(* same.                                                                   *)
LEMMA LinkedChange ==
  ASSUME NEW k, NEW values, NEW same, Sameness(values, same), NEW w,
         Followed(w, {k}, values, {"lister"}), NEW v \in values,
         Object(w, k) = Gone \/ v = Gone \/ <<Object(w, k), v>> \in same
  PROVE  LET x == Change(w, k, v)
         IN /\ Followed(x, {k}, values, {"lister"})
            /\ Listed(x, k) = Listed(w, k) /\ Object(x, k) = v
            /\ Linked(w, k, same) => Linked(x, k, same)
            /\ Turns(w, k) \/ v = Gone \/ Object(w, k) = Gone => Turns(x, k)
<1> DEFINE x == Change(w, k, v)
           f == w.pos["lister"]
           c == Len(w.log)
<1>1. /\ f \in Nat /\ c \in Nat /\ f <= c
      /\ k \in {k}
  BY DEF Followed, Watches
<1>2. /\ Followed(x, {k}, values, {"lister"})
      /\ x.pos["lister"] = f /\ Len(x.log) = c + 1
      /\ \A n \in 0..c : After(x, n, k) = After(w, n, k)
      /\ After(x, c + 1, k) = v
  <2> DEFINE keys == {k}
             readers == {"lister"}
  <2>1. Followed(w, keys, values, readers) /\ k \in keys
    OBVIOUS
  <2> HIDE DEF keys, readers
  <2>2. /\ Followed(Change(w, k, v), keys, values, readers)
        /\ Change(w, k, v).pos = w.pos
        /\ Len(Change(w, k, v).log) = Len(w.log) + 1
        /\ \A n \in 0..Len(w.log) : After(Change(w, k, v), n, k) = After(w, n, k)
        /\ Object(Change(w, k, v), k) = v
    BY <2>1, ChangeStep
  <2> QED
    BY <2>2 DEF Object, keys, readers
<1>3. \A n \in f..c : n \in 0..c
  BY <1>1
<1>4. \A n \in f..c : After(w, n, k) \in values
  BY <1>1, <1>3, AfterIsTyped
<1>5. After(w, c, k) = Object(w, k)
  BY DEF Object
<1> HIDE DEF x
<1>6. ASSUME Linked(w, k, same), NEW m \in f..c + 1, NEW n \in f..c + 1, m <= n,
             \A i \in m..n : After(x, i, k) # Gone
      PROVE  <<After(x, m, k), After(x, n, k)>> \in same
  <2>1. CASE n <= c
    <3>1. m \in f..c /\ n \in f..c /\ \A i \in m..n : i \in 0..c
      BY <1>1, <2>1, <1>6
    <3> QED
      BY <1>2, <1>3, <1>6, <3>1 DEF Linked
  <2>2. CASE m = c + 1
    <3>1. n = c + 1
      BY <1>1, <1>6, <2>2
    <3> QED
      BY <1>2, <2>2, <3>1 DEF Sameness
  <2>3. CASE m <= c /\ n = c + 1
    <3>1. /\ m \in f..c /\ c \in f..c /\ m <= c /\ c \in m..n /\ n \in m..n
          /\ \A i \in m..c : i \in m..n /\ i \in 0..c
      BY <1>1, <1>6, <2>3
    <3>2. \A i \in m..c : After(w, i, k) # Gone
      BY <1>2, <1>6, <3>1
    <3>3. <<After(w, m, k), After(w, c, k)>> \in same
      BY <1>6, <3>1, <3>2 DEF Linked
    <3>4. After(w, c, k) # Gone /\ v # Gone
      BY <1>2, <1>6, <2>3, <3>1, <3>2
    <3>5. <<After(w, c, k), v>> \in same
      BY <1>5, <3>4
    <3>6. <<After(w, m, k), v>> \in same
      BY <1>4, <3>1, <3>3, <3>5 DEF Sameness
    <3> QED
      BY <1>2, <1>3, <2>3, <3>1, <3>6
  <2> QED
    BY <1>1, <2>1, <2>2, <2>3
<1>7. ASSUME Turns(w, k) \/ v = Gone \/ Object(w, k) = Gone
      PROVE  Turns(x, k)
  <2>1. Behind(x, "lister")
    BY <1>1, <1>2 DEF Behind, Reads, Followed, Watches
  <2>2. c + 1 \in f..c + 1 /\ c \in f..c /\ \A n \in f..c : n \in f..c + 1
    BY <1>1
  <2>3. \E n \in f..c + 1 : After(x, n, k) = Gone
    BY <1>2, <1>3, <1>5, <1>7, <2>2 DEF Turns
  <2> QED
    BY <1>2, <2>1, <2>3 DEF Turns
<1>8. Linked(w, k, same) => Linked(x, k, same)
  BY <1>2, <1>6 DEF Linked
<1>9. Listed(x, k) = Listed(w, k) /\ Object(x, k) = v
  BY <1>1, <1>2 DEF Listed, Seen, Object
<1> QED
  BY <1>2, <1>7, <1>8, <1>9 DEF x

(* When the lister reads on, it shows what the event tells.                *)
LEMMA LinkedRead ==
  ASSUME NEW k, NEW values, NEW same, NEW w, Followed(w, {k}, values, {"lister"}),
         Behind(w, "lister")
  PROVE  LET x == Read(w, "lister")
         IN /\ Followed(x, {k}, values, {"lister"})
            /\ Object(x, k) = Object(w, k)
            /\ Event(w, "lister").key = k
            /\ Listed(x, k) = Event(w, "lister").val
            /\ Linked(w, k, same) => Linked(x, k, same)
            /\ /\ Linked(w, k, same) /\ Gone \notin {Listed(w, k), Listed(x, k)}
               => /\ <<Listed(w, k), Listed(x, k)>> \in same
                  /\ Turns(w, k) => Turns(x, k)
<1> DEFINE x == Read(w, "lister")
           f == w.pos["lister"]
           c == Len(w.log)
           keys == {k}
           readers == {"lister"}
           pos == [q \in readers |-> IF q = "lister" THEN w.pos[q] + 1 ELSE w.pos[q]]
           y == [w EXCEPT !.pos = pos]
<1>1. /\ w = [base |-> w.base, log |-> w.log, pos |-> w.pos]
      /\ f \in Nat /\ c \in Nat /\ f < c
      /\ k \in {k} /\ k \in keys
  BY DEF Followed, Watches, Behind
<1>2. /\ Followed(x, keys, values, readers)
      /\ \E n \in Nat : RestOf(y, x, n, keys, readers)
  <2> DEFINE r == "lister"
  <2>1. Followed(w, keys, values, readers) /\ r \in readers /\ Behind(w, r)
    OBVIOUS
  <2> HIDE DEF keys
  <2> QED
    BY <2>1, ReadStep
<1>3. PICK d \in Nat : RestOf(y, x, d, keys, readers)
  BY <1>2
<1>4. y.base = w.base /\ y.log = w.log /\ y.pos["lister"] = f + 1
  BY <1>1
<1> HIDE DEF x, y
<1>5. d <= f + 1 /\ x.pos["lister"] = (f + 1) - d /\ Len(x.log) = c - d
  BY <1>1, <1>3, <1>4 DEF RestOf
<1>6. ASSUME NEW m \in d..c
      PROVE  After(x, m - d, k) = After(w, m, k)
  <2>1. m \in d..Len(y.log) /\ m \in Nat
    BY <1>4
  <2>2. After(x, m - d, k) = After(y, m, k)
    BY <1>1, <1>3, <2>1 DEF RestOf
  <2>3. After(y, m, k) = After(w, m, k)
    BY <1>4, <2>1, AfterSame
  <2> QED
    BY <2>2, <2>3
<1>7. Event(w, "lister").key = k /\ Event(w, "lister").val = After(w, f + 1, k)
  <2>1. w.log \in Seq(Changes({k}, values)) /\ f + 1 \in 1..c
    BY <1>1 DEF Followed, Watches
  <2>2. w.log[f + 1] \in Changes({k}, values)
    BY <2>1
  <2>3. w.log[f + 1].key = k
    BY <2>2 DEF Changes
  <2> QED
    BY <1>1, <2>3, AfterNext DEF Event
<1>8. Object(x, k) = Object(w, k) /\ Listed(x, k) = After(w, f + 1, k)
  <2>1. c \in d..c /\ f + 1 \in d..c
    BY <1>1, <1>5
  <2>2. After(x, c - d, k) = After(w, c, k) /\ After(x, (f + 1) - d, k) = After(w, f + 1, k)
    BY <1>6, <2>1
  <2>3. Listed(x, k) = After(x, x.pos["lister"], k)
    BY DEF Listed, Seen
  <2>4. x.pos["lister"] = (f + 1) - d
    BY <1>1, <1>5
  <2>5. Object(x, k) = After(x, c - d, k) /\ Object(w, k) = After(w, c, k)
    BY <1>5 DEF Object
  <2> QED
    BY <2>2, <2>3, <2>4, <2>5
<1>9. ASSUME Linked(w, k, same)
      PROVE  Linked(x, k, same)
  <2> SUFFICES ASSUME NEW m \in (f + 1) - d..c - d, NEW n \in (f + 1) - d..c - d, m <= n,
                      \A i \in m..n : After(x, i, k) # Gone
               PROVE  <<After(x, m, k), After(x, n, k)>> \in same
    BY <1>5 DEF Linked
  <2>1. /\ m \in Int /\ n \in Int /\ m >= (f + 1) - d /\ m <= c - d
        /\ n >= (f + 1) - d /\ n <= c - d
    BY <1>1
  <2>2. /\ m + d \in f..c /\ n + d \in f..c /\ m + d <= n + d
        /\ m + d \in d..c /\ n + d \in d..c /\ (m + d) - d = m /\ (n + d) - d = n
    <3>1. f \in Int /\ c \in Int /\ d \in Int /\ d <= f + 1
      BY <1>1, <1>5
    <3> HIDE DEF f, c
    <3>2. m + d \in f..c /\ m + d \in d..c /\ (m + d) - d = m
      BY <2>1, <3>1, Shifted
    <3>4. n + d \in f..c /\ n + d \in d..c /\ (n + d) - d = n
      BY <2>1, <3>1, Shifted
    <3>3. m + d <= n + d
      BY <2>1, <3>1
    <3> QED
      BY <3>2, <3>3, <3>4
  <2>3. ASSUME NEW i \in m + d..n + d
        PROVE  After(w, i, k) # Gone
    <3> HIDE DEF f, c
    <3>0. c \in Int /\ d \in Int /\ d <= m + d /\ n + d <= c
      BY <1>1, <1>5, <2>1, <2>2
    <3>1. i \in d..c /\ i - d \in m..n
      BY <2>1, <3>0, Unshifted
    <3> USE DEF f, c
    <3> QED
      BY <1>6, <3>1
  <2>4. <<After(w, m + d, k), After(w, n + d, k)>> \in same
    BY <1>9, <2>2, <2>3 DEF Linked
  <2> QED
    BY <1>6, <2>2, <2>4
<1>10. ASSUME Linked(w, k, same), Gone \notin {Listed(w, k), Listed(x, k)}
       PROVE  /\ <<Listed(w, k), Listed(x, k)>> \in same
              /\ Turns(w, k) => Turns(x, k)
  <2>1. Listed(w, k) = After(w, f, k)
    BY DEF Listed, Seen
  <2>2. f \in f..c /\ f + 1 \in f..c /\ f <= f + 1 /\ \A i \in f..f + 1 : i = f \/ i = f + 1
    BY <1>1
  <2>3. <<After(w, f, k), After(w, f + 1, k)>> \in same
    BY <1>8, <1>10, <2>1, <2>2 DEF Linked
  <2>4. ASSUME Turns(w, k)
        PROVE  Turns(x, k)
    <3>1. PICK n \in f..c : After(w, n, k) = Gone
      BY <2>4 DEF Turns
    <3>2. n # f /\ n # f + 1
      BY <1>8, <1>10, <2>1, <3>1
    <3>3. n \in d..c /\ n - d \in (f + 1) - d..c - d /\ (f + 1) - d < c - d
      BY <1>1, <1>5, <3>2
    <3>4. After(x, n - d, k) = Gone
      BY <1>6, <3>1, <3>3
    <3>5. Behind(x, "lister")
      BY <1>2, <1>5, <3>3 DEF Behind, Reads, Followed, Watches
    <3> QED
      BY <1>5, <3>3, <3>4, <3>5 DEF Turns
  <2> QED
    BY <1>8, <2>1, <2>3, <2>4
<1> QED
  BY <1>2, <1>7, <1>8, <1>9, <1>10 DEF x

(* What is so of a lister that reads on, for whatever relation.            *)
LEMMA OneRead ==
  ASSUME NEW k, NEW values, NEW w, Followed(w, {k}, values, {"lister"}), Behind(w, "lister")
  PROVE  /\ Followed(Read(w, "lister"), {k}, values, {"lister"})
         /\ Object(Read(w, "lister"), k) = Object(w, k)
         /\ Listed(Read(w, "lister"), k) = Event(w, "lister").val
<1> DEFINE same == {}
<1> HIDE DEF same
<1>1. LET x == Read(w, "lister")
      IN /\ Followed(x, {k}, values, {"lister"})
         /\ Object(x, k) = Object(w, k)
         /\ Event(w, "lister").key = k
         /\ Listed(x, k) = Event(w, "lister").val
         /\ Linked(w, k, same) => Linked(x, k, same)
         /\ /\ Linked(w, k, same) /\ Gone \notin {Listed(w, k), Listed(x, k)}
            => /\ <<Listed(w, k), Listed(x, k)>> \in same
               /\ Turns(w, k) => Turns(x, k)
  BY LinkedRead
<1> QED
  BY <1>1

(* Listing leaves what the lister shows, and what there is.                *)
LEMMA OneRelisted ==
  ASSUME NEW k, NEW values, NEW w, Followed(w, {k}, values, {"lister"}), NEW v \in Relisted(w)
  PROVE  /\ Followed(v, {k}, values, {"lister"}) /\ v.pos = w.pos
         /\ Listed(v, k) = Listed(w, k) /\ Object(v, k) = Object(w, k)
<1> DEFINE keys == {k}
           readers == {"lister"}
<1>1. Followed(w, keys, values, readers) /\ k \in keys
  OBVIOUS
<1>2. w.pos["lister"] \in 0..w.pos["lister"]
  BY DEF Followed, Watches
<1> HIDE DEF keys, readers
<1>3. /\ Followed(v, keys, values, readers) /\ v.pos = w.pos
      /\ \A m \in 0..w.pos["lister"] : After(v, m, k) = After(w, m, k)
      /\ Object(v, k) = Object(w, k)
  BY <1>1, RelistStep
<1>4. Listed(v, k) = Listed(w, k)
  BY <1>2, <1>3 DEF Listed, Seen
<1> QED
  BY <1>3, <1>4 DEF keys, readers

(* A change leaves what the lister shows.                                  *)
LEMMA OneChanged ==
  ASSUME NEW k, NEW values, NEW w, Followed(w, {k}, values, {"lister"}), NEW v \in values
  PROVE  LET x == Change(w, k, v)
         IN /\ Followed(x, {k}, values, {"lister"})
            /\ Listed(x, k) = Listed(w, k) /\ Object(x, k) = v
<1> DEFINE same == values \X values
<1>1. Sameness(values, same)
  BY DEF Sameness
<1>2. Object(w, k) = Gone \/ v = Gone \/ <<Object(w, k), v>> \in same
  <2>1. Len(w.log) \in 0..Len(w.log) /\ k \in {k}
    BY DEF Followed, Watches
  <2> QED
    BY <2>1, AfterIsTyped DEF Object
<1> HIDE DEF same
<1> QED
  BY <1>1, <1>2, LinkedChange

(* Listing tells the last of the changes.  None of the others was a        *)
(* deletion, or the object is gone.                                        *)
LEMMA LinkedRelist ==
  ASSUME NEW k, NEW values, NEW same, Sameness(values, same), NEW w,
         Followed(w, {k}, values, {"lister"}), NEW v \in Relisted(w),
         \/ \A i \in 1..Len(w.log) : w.log[i].val # Gone
         \/ Object(w, k) = Gone /\ Listed(w, k) # Gone
  PROVE  /\ Linked(w, k, same) => Linked(v, k, same)
         /\ Turns(w, k) => Turns(v, k)
<1> DEFINE f == w.pos["lister"]
           c == Len(w.log)
<1>1. /\ f \in Nat /\ c \in Nat /\ f <= c
      /\ w.log \in Seq(Changes({k}, values)) /\ k \in {k}
  BY DEF Followed, Watches
<1>2. \A i \in 1..c : w.log[i].key = k
  <2>1. \A i \in 1..c : w.log[i] \in Changes({k}, values)
    BY <1>1
  <2> QED
    BY <2>1 DEF Changes
<1>3. /\ Followed(v, {k}, values, {"lister"}) /\ v.pos = w.pos
      /\ Listed(v, k) = Listed(w, k) /\ Object(v, k) = Object(w, k)
  BY OneRelisted
<1>4. /\ Len(v.log) = f \/ Len(v.log) = f + 1
      /\ Len(v.log) = f => f = c \/ (Listed(w, k) = Gone /\ Object(w, k) = Gone)
  <2> DEFINE last == {i \in f + 1..c :
                        /\ \A j \in i + 1..c : w.log[j].key # w.log[i].key
                        /\ {w.log[i].val, Listed(w, w.log[i].key)} # {Gone}}
             told == [i \in last |-> [w.log[i] EXCEPT !.lost = @ \/ w.log[i].val = Gone]]
  <2>1. PICK g \in [1..Cardinality(last) -> last] :
          v = [w EXCEPT !.log = SubSeq(@, 1, f) \o [i \in DOMAIN g |-> told[g[i]]]]
    BY DEF Relisted
  <2>2. last \subseteq {c}
    <3> SUFFICES ASSUME NEW i \in f + 1..c, i < c, \A j \in i + 1..c : w.log[j].key # w.log[i].key
                 PROVE  FALSE
      BY <1>1
    <3>1. c \in i + 1..c /\ c \in 1..c /\ i \in 1..c
      BY <1>1
    <3> QED
      BY <1>2, <3>1
  <2>3. (last = {} /\ Cardinality(last) = 0) \/ (last = {c} /\ Cardinality(last) = 1)
    <3>1. last = {} \/ last = {c}
      BY <2>2
    <3> HIDE DEF last
    <3>2. CASE last = {}
      BY <3>2, FS_EmptySet
    <3>3. CASE last = {c}
      BY <3>3, FS_Singleton
    <3> QED
      BY <3>1, <3>2, <3>3
  <2>4. last = {} => f = c \/ (Listed(w, k) = Gone /\ Object(w, k) = Gone)
    <3> SUFFICES ASSUME last = {}, f # c
                 PROVE  Listed(w, k) = Gone /\ Object(w, k) = Gone
      OBVIOUS
    <3>1. c \in f + 1..c /\ c \in 1..c /\ \A j \in c + 1..c : FALSE
      BY <1>1
    <3>2. {w.log[c].val, Listed(w, w.log[c].key)} = {Gone}
      BY <3>1
    <3>3. After(w, c, k) = w.log[c].val
      BY <1>1, <1>2, <3>1, AfterLast
    <3> QED
      BY <1>2, <3>1, <3>2, <3>3 DEF Object
  <2>5. Len(v.log) = f + Cardinality(last)
    <3> DEFINE new == [i \in DOMAIN g |-> told[g[i]]]
               seen == SubSeq(w.log, 1, f)
    <3>1. v.log = seen \o new
      <4>1. w \in Watches({k}, values, {"lister"})
        BY DEF Followed
      <4> HIDE DEF last, told
      <4> QED
        BY <2>1, <4>1 DEF Watches
    <3>2. Len(seen) = f /\ seen \in Seq(Changes({k}, values))
      BY <1>1
    <3>3. Len(new) = Cardinality(last) /\ \E S : new \in Seq(S)
      <4> HIDE DEF last
      <4>1. DOMAIN new = 1..Cardinality(last) /\ Cardinality(last) \in Nat
        BY <2>3
      <4> DEFINE S == {new[i] : i \in DOMAIN new}
                 n == Cardinality(last)
      <4>2. new \in [1..n -> S] /\ n \in Nat
        BY <4>1
      <4> HIDE DEF new, S, n
      <4>3. new \in Seq(S) /\ Len(new) = n
        BY <4>2
      <4> QED
        BY <4>3 DEF n
    <3>4. PICK S : new \in Seq(S)
      BY <3>3
    <3>5. seen \in Seq(S \cup Changes({k}, values)) /\ new \in Seq(S \cup Changes({k}, values))
      <4> DEFINE C == Changes({k}, values)
      <4> HIDE DEF seen, new, C
      <4>1. seen \in Seq(C) /\ new \in Seq(S)
        BY <3>2, <3>4 DEF C
      <4>2. seen \in Seq(S \cup C) /\ new \in Seq(S \cup C)
        BY <4>1
      <4> QED
        BY <4>2 DEF C
    <3> HIDE DEF seen, new, last
    <3> QED
      BY <3>1, <3>2, <3>3, <3>5
  <2> HIDE DEF last, told
  <2> QED
    BY <1>1, <2>3, <2>4, <2>5
<1>5. After(v, f, k) = Listed(w, k) /\ After(v, Len(v.log), k) = Object(w, k)
  BY <1>3 DEF Listed, Seen, Object
<1>6. Listed(w, k) = After(w, f, k) /\ Object(w, k) = After(w, c, k)
  BY DEF Listed, Seen, Object
<1>7. \A n \in f..Len(v.log) : n = f \/ n = Len(v.log)
  BY <1>1, <1>4
<1>8. ASSUME NEW n \in f..c, After(w, n, k) = Gone
      PROVE  Listed(w, k) = Gone \/ Object(w, k) = Gone
  <2>1. CASE \A i \in 1..c : w.log[i].val # Gone
    <3>1. \A i \in f + 1..n : i \in 1..c
      BY <1>1
    <3>2. CASE n = f
      BY <1>6, <1>8, <3>2
    <3>3. CASE n # f
      <4>1. n \in 1..c /\ n \in Nat
        BY <1>1, <3>3
      <4>2. After(w, n, k) = w.log[n].val
        <5>1. \A j \in n + 1..n : w.log[j].key # k
          BY <4>1
        <5>2. n \in 1..n /\ w.log[n].key = k
          BY <1>2, <4>1
        <5> QED
          BY <4>1, <5>1, <5>2, AfterLast
      <4> QED
        BY <1>8, <2>1, <4>1, <4>2
    <3> QED
      BY <3>2, <3>3
  <2> QED
    BY <2>1
<1>9. ASSUME Turns(w, k)
      PROVE  Turns(v, k)
  <2>1. Listed(w, k) = Gone \/ Object(w, k) = Gone
    BY <1>8, <1>9 DEF Turns
  <2>2. f # c
    BY <1>1, <1>9 DEF Turns, Behind
  <2>3. Listed(w, k) # Gone \/ Object(w, k) # Gone
    <3>1. c \in 1..c /\ \A j \in c + 1..c : FALSE
      BY <1>1, <2>2
    <3>2. After(w, c, k) = w.log[c].val
      BY <1>1, <1>2, <3>1, AfterLast
    <3> QED
      BY <1>6, <3>1, <3>2
  <2>4. Len(v.log) = f + 1
    BY <1>4, <2>2, <2>3
  <2>5. f \in f..f + 1 /\ f + 1 \in f..f + 1 /\ f < f + 1
    BY <1>1
  <2> QED
    BY <1>3, <1>5, <2>1, <2>4, <2>5 DEF Turns, Behind, Reads, Followed, Watches
<1>10. ASSUME Linked(w, k, same)
       PROVE  Linked(v, k, same)
  <2> SUFFICES ASSUME NEW m \in f..Len(v.log), NEW n \in f..Len(v.log), m <= n,
                      \A i \in m..n : After(v, i, k) # Gone
               PROVE  <<After(v, m, k), After(v, n, k)>> \in same
    BY <1>3 DEF Linked
  <2>1. (m = f \/ m = Len(v.log)) /\ (n = f \/ n = Len(v.log)) /\ m \in m..n /\ n \in m..n
    BY <1>1, <1>4
  <2>2. Listed(v, k) \in values /\ Object(v, k) \in values
    <3>1. f \in 0..Len(v.log) /\ Len(v.log) \in 0..Len(v.log) /\ k \in {k}
      BY <1>1, <1>4
    <3>2. After(v, f, k) \in values /\ After(v, Len(v.log), k) \in values
      BY <1>3, <3>1, AfterIsTyped
    <3> QED
      BY <1>3, <1>5, <3>2
  <2>3. CASE m = n
    BY <1>3, <1>5, <2>1, <2>2, <2>3 DEF Sameness
  <2>4. CASE m = f /\ n = Len(v.log)
    <3>1. Listed(w, k) # Gone /\ Object(w, k) # Gone
      BY <1>5, <2>1, <2>4
    <3>2. \A i \in f..c : After(w, i, k) # Gone
      BY <1>8, <3>1
    <3>3. f \in f..c /\ c \in f..c /\ f <= c
      BY <1>1
    <3> QED
      BY <1>5, <1>6, <1>10, <2>4, <3>2, <3>3 DEF Linked
  <2> QED
    BY <1>1, <1>4, <2>1, <2>3, <2>4
<1> QED
  BY <1>9, <1>10

(* At first, and when the process starts again, the lister shows what there *)
(* is.                                                                     *)
LEMMA LinkedStart ==
  ASSUME NEW k, NEW values, NEW same, Sameness(values, same), NEW objects \in [{k} -> values]
  PROVE  LET w == StartWatch(objects, {"lister"})
         IN /\ Followed(w, {k}, values, {"lister"})
            /\ Linked(w, k, same)
            /\ Listed(w, k) = objects[k] /\ Object(w, k) = objects[k]
<1> DEFINE w == StartWatch(objects, {"lister"})
<1>1. Followed(w, {k}, values, {"lister"})
  BY StartIsFollowed
<1>2. w.base = objects /\ w.pos["lister"] = 0 /\ Len(w.log) = 0 /\ objects[k] \in values
  BY DEF StartWatch
<1> HIDE DEF w
<1>3. \A n \in w.pos["lister"]..Len(w.log) : n = 0
  BY <1>2
<1>4. After(w, 0, k) = objects[k]
  BY <1>2, AfterZero
<1>5. Linked(w, k, same)
  BY <1>2, <1>3, <1>4 DEF Linked, Sameness
<1> QED
  BY <1>1, <1>2, <1>4, <1>5 DEF w, Listed, Seen, Object

LEMMA LinkedRestart ==
  ASSUME NEW k, NEW values, Gone \in values, NEW same, Sameness(values, same), NEW w,
         Followed(w, {k}, values, {"lister"})
  PROVE  LET x == Restart(w)
         IN /\ Followed(x, {k}, values, {"lister"})
            /\ Linked(x, k, same)
            /\ Listed(x, k) = Object(w, k) /\ Object(x, k) = Object(w, k)
<1> DEFINE x == Restart(w)
<1>1. IsFiniteSet({k}) /\ k \in {k}
  BY FS_Singleton
<1>2. /\ Followed(x, {k}, values, {"lister"})
      /\ Listed(x, k) = Object(w, k) /\ Object(x, k) = Object(w, k)
      /\ \A s, t : Later(x, s, t) => s = Objects(w) /\ t = Objects(w)
  <2> DEFINE keys == {k}
  <2>1. Followed(w, keys, values, {"lister"}) /\ IsFiniteSet(keys) /\ k \in keys
    BY <1>1
  <2> HIDE DEF keys, x
  <2>2. /\ Followed(Restart(w), keys, values, {"lister"})
        /\ \A j \in keys : /\ Object(Restart(w), j) = Object(w, j)
                           /\ Listed(Restart(w), j) = Object(w, j)
        /\ \A s, t : Later(Restart(w), s, t) => s = Objects(w) /\ t = Objects(w)
    BY <2>1, LaterRestart
  <2> QED
    BY <2>1, <2>2 DEF keys, x
<1> HIDE DEF x
<1>3. /\ DOMAIN w.base = {k} /\ DOMAIN x.base = {k} /\ Len(w.log) \in Nat /\ Len(x.log) \in Nat
      /\ x.pos["lister"] \in Nat
  BY <1>2 DEF Followed, Watches
<1>4. ASSUME NEW n \in x.pos["lister"]..Len(x.log)
      PROVE  After(x, n, k) = Object(w, k)
  <2>1. Shows(x, n) = Objects(w)
    BY <1>2, <1>3 DEF Later
  <2>2. Shows(x, n)[k] = After(x, n, k) /\ Objects(w)[k] = Object(w, k)
    BY <1>3 DEF Shows, Objects, Object
  <2> QED
    BY <2>1, <2>2
<1>5. Object(w, k) \in values
  <2>1. Len(w.log) \in 0..Len(w.log)
    BY <1>3
  <2> QED
    BY <1>1, <2>1, AfterIsTyped DEF Object
<1>6. Linked(x, k, same)
  BY <1>4, <1>5 DEF Linked, Sameness
<1> QED
  BY <1>2, <1>6 DEF x


-----------------------------------------------------------------------------
(* What all the changes of a log are like.                                 *)

(* A change that is read was in the log, and so is what is left.           *)
LEMMA EntriesRead ==
  ASSUME NEW keys, NEW values, NEW readers, NEW w, Followed(w, keys, values, readers),
         NEW r \in readers,
         IF r = "lister" THEN Behind(w, r) ELSE CanRead(w, r),
         NEW S, w.log \in Seq(S)
  PROVE  /\ Event(w, r) \in S
         /\ Read(w, r).log \in Seq(S)
<1> DEFINE pos == [w.pos EXCEPT ![r] = @ + 1]
           x == [w EXCEPT !.pos = pos]
           n == Min({x.pos[q] : q \in DOMAIN x.pos})
<1>1. /\ w \in Watches(keys, values, readers)
      /\ w = [base |-> w.base, log |-> w.log, pos |-> w.pos]
      /\ w.pos \in [readers -> Nat] /\ Len(w.log) \in Nat
      /\ w.pos[r] < Len(w.log)
  BY DEF Followed, Watches, Behind, CanRead
<1>2. Event(w, r) \in S
  BY <1>1 DEF Event
<1>3. pos \in [readers -> Nat] /\ x = [base |-> w.base, log |-> w.log, pos |-> pos]
  <2>1. pos \in [readers -> Nat]
    BY <1>1
  <2> HIDE DEF pos
  <2> QED
    BY <1>1, <2>1
<1> HIDE DEF pos, x
<1>4. n \in Nat
  <2>1. {x.pos[q] : q \in DOMAIN x.pos} \in SUBSET Nat /\ {x.pos[q] : q \in DOMAIN x.pos} # {}
    BY <1>3
  <2> QED
    BY <2>1, MinIsLeast
<1>5. Read(w, r).log = SubSeq(w.log, n + 1, Len(w.log))
  <2>1. Read(w, r) = Trim(x)
    BY DEF Read, x, pos
  <2>2. Trim(x).log = SubSeq(x.log, n + 1, Len(x.log))
    BY DEF Trim
  <2> QED
    BY <1>3, <2>1, <2>2
<1> HIDE DEF n
<1>6. SubSeq(w.log, n + 1, Len(w.log)) \in Seq(S)
  BY <1>1, <1>4
<1> QED
  BY <1>2, <1>5, <1>6

(* A change is appended.                                                   *)
LEMMA EntriesChange ==
  ASSUME NEW keys, NEW values, NEW readers, NEW w, Followed(w, keys, values, readers),
         NEW k, NEW v, NEW S, w.log \in Seq(S), [key |-> k, val |-> v, lost |-> FALSE] \in S
  PROVE  Change(w, k, v).log \in Seq(S)
<1> DEFINE c == [key |-> k, val |-> v, lost |-> FALSE]
<1>1. w = [base |-> w.base, log |-> w.log, pos |-> w.pos]
  BY DEF Followed, Watches
<1>2. Change(w, k, v).log = Append(w.log, c)
  BY <1>1 DEF Change
<1> HIDE DEF c
<1>3. c \in S
  BY DEF c
<1> QED
  BY <1>2, <1>3

(* After a restart the log tells of what there is.                         *)
LEMMA RestartTells ==
  ASSUME NEW keys, IsFiniteSet(keys), NEW values, NEW readers, NEW w,
         Followed(w, keys, values, readers),
         NEW A, NEW B, \A k \in keys : Object(w, k) # Gone => k \in A /\ Object(w, k) \in B
  PROVE  /\ \A k \in keys : Restart(w).base[k] = Gone
         /\ Restart(w).log \in Seq(Changes(A, B))
         /\ \A i \in 1..Len(Restart(w).log) :
              /\ ~Restart(w).log[i].lost
              /\ Restart(w).log[i].key \in keys
              /\ Restart(w).log[i].val = Object(w, Restart(w).log[i].key)
              /\ Restart(w).log[i].val # Gone
<1> DEFINE are == {k \in keys : Object(w, k) # Gone}
           there == SetToSeq(are)
           log == [i \in DOMAIN there |->
                     [key |-> there[i], val |-> Object(w, there[i]), lost |-> FALSE]]
           c == Cardinality(are)
           S == Changes(A, B)
<1>1. DOMAIN w.base = keys
  BY DEF Followed, Watches
<1>2. IsFiniteSet(are) /\ c \in Nat
  BY FS_Subset, FS_CardinalityType
<1>3. there \in [1..c -> are]
  <2>1. ExistsBijection(1..c, are)
    BY <1>2, FS_CardinalityType
  <2>2. \E f \in [1..c -> are] : IsInjective(f)
    BY <2>1 DEF ExistsBijection, Bijection, Injection
  <2> QED
    BY <2>2 DEF SetToSeq
<1>4. Restart(w).log = log /\ \A k \in keys : Restart(w).base[k] = Gone
  BY <1>1 DEF Restart
<1>5. log \in [1..c -> S]
  <2>1. \A i \in 1..c : there[i] \in A /\ Object(w, there[i]) \in B
    BY <1>3
  <2> QED
    BY <1>3, <2>1 DEF Changes
<1>6. \A i \in 1..c : /\ ~log[i].lost
                      /\ log[i].key \in keys
                      /\ log[i].val = Object(w, log[i].key)
                      /\ log[i].val # Gone
  BY <1>3
<1>7. log \in Seq(S) /\ Len(log) = c
  <2> HIDE DEF log, S, c
  <2> QED
    BY <1>2, <1>5
<1> HIDE DEF log, c, there
<1> QED
  BY <1>4, <1>6, <1>7

(* A watch that breaks tells what was in the log.                          *)
LEMMA EntriesRelist ==
  ASSUME NEW keys, NEW values, NEW readers, NEW w, Followed(w, keys, values, readers),
         NEW A, NEW B, w.log \in Seq(Changes(A, B)),
         NEW v \in Relisted(w)
  PROVE  v.base = w.base /\ v.log \in Seq(Changes(A, B))
<1>1. Followed(v, keys, values, readers) /\ Retells(v, w)
  BY RelistStep
<1>2. /\ v.log \in Seq(Changes(keys, values)) /\ Len(v.log) \in Nat
      /\ v.base = w.base
  BY <1>1 DEF Followed, Watches, Retells
<1>3. ASSUME NEW i \in 1..Len(v.log)
      PROVE  v.log[i] \in Changes(A, B)
  <2>1. PICK j \in 1..Len(w.log) : v.log[i].key = w.log[j].key /\ v.log[i].val = w.log[j].val
    BY <1>1 DEF Retells
  <2>2. v.log[i] \in Changes(keys, values) /\ w.log[j] \in Changes(A, B)
    BY <1>2
  <2> QED
    BY <2>1, <2>2 DEF Changes
<1> DEFINE S == Changes(A, B)
           T == Changes(keys, values)
           log == v.log
           n == Len(log)
<1>4. log \in Seq(T) /\ n \in Nat /\ \A i \in 1..n : log[i] \in S
  BY <1>2, <1>3
<1>5. log = [i \in 1..n |-> log[i]]
  <2> HIDE DEF log, S, T
  <2> QED
    BY <1>4
<1> HIDE DEF log, S, T, n
<1>6. log \in Seq(S)
  BY <1>4, <1>5
<1> QED
  BY <1>2, <1>6 DEF log, S

(* If none of them is a deletion, what is there stays.                     *)
LEMMA EntriesKeep ==
  ASSUME NEW keys, NEW values, NEW readers, NEW w, Followed(w, keys, values, readers),
         \A i \in 1..Len(w.log) : w.log[i].val # Gone,
         NEW k, NEW m \in 0..Len(w.log), NEW n \in 0..m, After(w, n, k) # Gone
  PROVE  After(w, m, k) # Gone
<1>1. Len(w.log) \in Nat
  BY DEF Followed, Watches
<1>2. CASE \E i \in 1..m : w.log[i].key = k
  <2>1. \E i \in 1..m : After(w, m, k) = w.log[i].val
    BY <1>1, <1>2, AfterIs
  <2> QED
    BY <1>1, <2>1
<1>3. CASE \A i \in 1..m : w.log[i].key # k
  <2>1. /\ m \in Nat /\ n \in Nat /\ n <= m
        /\ \A i \in n + 1..m : w.log[i].key # k
    BY <1>1, <1>3
  <2>2. After(w, m, k) = After(w, n, k)
    BY <2>1, AfterQuiet
  <2> QED
    BY <2>2
<1> QED
  BY <1>2, <1>3

-----------------------------------------------------------------------------
(* How an object changes, from one change of the log to the next.          *)

(* In all of the log.                                                      *)
Path(w, k, step) ==
  \A n \in 0..Len(w.log) : n < Len(w.log) => <<After(w, n, k), After(w, n + 1, k)>> \in step

(* In what a reader is going to be told.                                   *)
Ahead(w, r, k, step) ==
  \E n \in w.pos[r]..Len(w.log) :
    n < Len(w.log) /\ <<After(w, n, k), After(w, n + 1, k)>> \in step

(* A change is the last step.                                              *)
LEMMA PathChange ==
  ASSUME NEW keys, NEW values, NEW readers, NEW w, Followed(w, keys, values, readers),
         NEW k \in keys, NEW v \in values, NEW j \in keys, NEW step
  PROVE  LET x == Change(w, k, v)
             last == <<Object(w, j), Object(x, j)>>
         IN /\ Path(w, j, step) /\ last \in step => Path(x, j, step)
            /\ \A r \in readers : \/ Ahead(w, r, j, step)
                                  \/ last \in step
                                  => Ahead(x, r, j, step)
<1> DEFINE x == Change(w, k, v)
<1>1. /\ Len(x.log) = Len(w.log) + 1 /\ Len(w.log) \in Nat
      /\ x.pos = w.pos
      /\ \A n \in 0..Len(w.log) : After(x, n, j) = After(w, n, j)
  BY ChangeStep DEF Followed, Watches
<1>2. After(x, Len(w.log), j) = Object(w, j) /\ After(x, Len(w.log) + 1, j) = Object(x, j)
  <2>1. Len(w.log) \in 0..Len(w.log)
    BY <1>1
  <2> QED
    BY <1>1, <2>1 DEF Object
<1> HIDE DEF x
<1>3. ASSUME Path(w, j, step), <<Object(w, j), Object(x, j)>> \in step
      PROVE  Path(x, j, step)
  <2> SUFFICES ASSUME NEW n \in 0..Len(x.log), n < Len(x.log)
               PROVE  <<After(x, n, j), After(x, n + 1, j)>> \in step
    BY DEF Path
  <2>1. CASE n = Len(w.log)
    BY <1>2, <1>3, <2>1
  <2>2. CASE n # Len(w.log)
    <3>1. n \in 0..Len(w.log) /\ n + 1 \in 0..Len(w.log) /\ n < Len(w.log)
      BY <1>1, <2>2
    <3> QED
      BY <1>1, <1>3, <3>1 DEF Path
  <2> QED
    BY <2>1, <2>2
<1>4. ASSUME NEW r \in readers, Ahead(w, r, j, step)
      PROVE  Ahead(x, r, j, step)
  <2>1. PICK n \in w.pos[r]..Len(w.log) :
          n < Len(w.log) /\ <<After(w, n, j), After(w, n + 1, j)>> \in step
    BY <1>4 DEF Ahead
  <2>2. w.pos[r] \in Nat
    BY DEF Followed, Watches
  <2>3. /\ n \in 0..Len(w.log) /\ n + 1 \in 0..Len(w.log)
        /\ n \in x.pos[r]..Len(x.log) /\ n < Len(x.log)
    BY <1>1, <2>1, <2>2
  <2> QED
    BY <1>1, <2>1, <2>3 DEF Ahead
<1>5. ASSUME NEW r \in readers, <<Object(w, j), Object(x, j)>> \in step
      PROVE  Ahead(x, r, j, step)
  <2>1. w.pos[r] \in Nat /\ w.pos[r] <= Len(w.log)
    BY <1>1 DEF Followed, Watches
  <2>2. Len(w.log) \in x.pos[r]..Len(x.log) /\ Len(w.log) < Len(x.log)
    BY <1>1, <2>1
  <2> QED
    BY <1>2, <1>5, <2>2 DEF Ahead
<1> QED
  BY <1>3, <1>4, <1>5 DEF x

(* Reading leaves the steps that are ahead; but a reader takes the next.   *)
LEMMA PathRead ==
  ASSUME NEW keys, NEW values, NEW readers, NEW w, Followed(w, keys, values, readers),
         NEW q \in readers,
         IF q = "lister" THEN Behind(w, q) ELSE CanRead(w, q),
         NEW k \in keys, NEW step
  PROVE  LET x == Read(w, q)
         IN /\ Path(w, k, step) => Path(x, k, step)
            /\ \A r \in readers \ {q} : Ahead(w, r, k, step) => Ahead(x, r, k, step)
            /\ Ahead(w, q, k, step) =>
                 \/ Ahead(x, q, k, step)
                 \/ <<Seen(w, q, k), Seen(x, q, k)>> \in step
            /\ Seen(x, q, k) = IF Event(w, q).key = k THEN Event(w, q).val ELSE Seen(w, q, k)
<1> DEFINE x == Read(w, q)
           pos == [r \in readers |-> IF r = q THEN w.pos[r] + 1 ELSE w.pos[r]]
           u == [w EXCEPT !.pos = pos]
<1>1. /\ w \in Watches(keys, values, readers)
      /\ w = [base |-> w.base, log |-> w.log, pos |-> w.pos]
      /\ w.pos \in [readers -> Nat] /\ Len(w.log) \in Nat
      /\ w.pos[q] < Len(w.log)
      /\ \A r \in readers : w.pos[r] <= Len(w.log)
  BY DEF Followed, Watches, Behind, CanRead
<1>2. /\ u = [base |-> w.base, log |-> w.log, pos |-> pos]
      /\ \A r \in readers : pos[r] = IF r = q THEN w.pos[r] + 1 ELSE w.pos[r]
  <2>1. \A r \in readers : pos[r] = IF r = q THEN w.pos[r] + 1 ELSE w.pos[r]
    OBVIOUS
  <2> HIDE DEF pos
  <2> QED
    BY <1>1, <2>1
<1>3. PICK d \in Nat : RestOf(u, x, d, keys, readers)
  BY ReadStep
<1> HIDE DEF x, u, pos
<1>4. \A n \in Nat : After(u, n, k) = After(w, n, k)
  BY <1>2, AfterSame
<1>5. /\ Len(x.log) = Len(w.log) - d
      /\ \A r \in readers : d <= pos[r] /\ x.pos[r] = pos[r] - d
      /\ \A m \in d..Len(w.log) : After(x, m - d, k) = After(w, m, k)
  <2>1. u.log = w.log /\ u.pos = pos
    BY <1>2
  <2> QED
    BY <1>1, <1>3, <1>4, <2>1 DEF RestOf
<1>6. ASSUME NEW n \in d..Len(w.log), n < Len(w.log)
      PROVE  /\ n - d \in 0..Len(x.log) /\ n - d < Len(x.log)
             /\ After(x, n - d, k) = After(w, n, k)
             /\ After(x, (n - d) + 1, k) = After(w, n + 1, k)
  <2>1. n + 1 \in d..Len(w.log) /\ (n + 1) - d = (n - d) + 1
    BY <1>1, <1>6
  <2> QED
    BY <1>1, <1>5, <1>6, <2>1
<1>7. ASSUME Path(w, k, step)
      PROVE  Path(x, k, step)
  <2> SUFFICES ASSUME NEW n \in 0..Len(x.log), n < Len(x.log)
               PROVE  <<After(x, n, k), After(x, n + 1, k)>> \in step
    BY DEF Path
  <2>1. n + d \in d..Len(w.log) /\ n + d < Len(w.log) /\ (n + d) - d = n
        /\ n + d \in 0..Len(w.log)
    BY <1>1, <1>5
  <2>2. <<After(w, n + d, k), After(w, (n + d) + 1, k)>> \in step
    BY <1>7, <2>1 DEF Path
  <2>3. After(x, (n + d) - d, k) = After(w, n + d, k)
        /\ After(x, ((n + d) - d) + 1, k) = After(w, (n + d) + 1, k)
    BY <1>6, <2>1
  <2> QED
    BY <2>1, <2>2, <2>3
<1>8. ASSUME NEW r \in readers, NEW n \in pos[r]..Len(w.log), n < Len(w.log),
             <<After(w, n, k), After(w, n + 1, k)>> \in step
      PROVE  Ahead(x, r, k, step)
  <2>1. pos[r] \in Nat
    BY <1>1, <1>2
  <2>2. n \in d..Len(w.log) /\ n - d \in x.pos[r]..Len(x.log)
    BY <1>1, <1>5, <1>8, <2>1
  <2>3. /\ n - d < Len(x.log)
        /\ <<After(x, n - d, k), After(x, (n - d) + 1, k)>> \in step
    BY <1>6, <1>8, <2>2
  <2> QED
    BY <2>2, <2>3 DEF Ahead
<1>9. \A r \in readers \ {q} : Ahead(w, r, k, step) => Ahead(x, r, k, step)
  BY <1>2, <1>8 DEF Ahead
<1>10. Seen(w, q, k) = After(w, w.pos[q], k) /\ Seen(x, q, k) = After(w, w.pos[q] + 1, k)
  <2>1. /\ w.pos[q] + 1 \in d..Len(w.log)
        /\ x.pos[q] = (w.pos[q] + 1) - d
    BY <1>1, <1>2, <1>5
  <2> QED
    BY <1>5, <2>1 DEF Seen
<1>11. ASSUME Ahead(w, q, k, step)
       PROVE  Ahead(x, q, k, step) \/ <<Seen(w, q, k), Seen(x, q, k)>> \in step
  <2>1. PICK n \in w.pos[q]..Len(w.log) :
          n < Len(w.log) /\ <<After(w, n, k), After(w, n + 1, k)>> \in step
    BY <1>11 DEF Ahead
  <2>2. CASE n = w.pos[q]
    BY <1>10, <2>1, <2>2
  <2>3. CASE n # w.pos[q]
    <3>1. n \in pos[q]..Len(w.log)
      BY <1>1, <1>2, <2>1, <2>3
    <3> QED
      BY <1>8, <2>1, <3>1
  <2> QED
    BY <2>2, <2>3
<1>12. Seen(x, q, k) = IF Event(w, q).key = k THEN Event(w, q).val ELSE Seen(w, q, k)
  BY <1>1, <1>10, AfterNext DEF Event
<1> QED
  BY <1>7, <1>9, <1>11, <1>12 DEF x

(* After a restart an object appears once, as it is.                       *)
LEMMA PathRestart ==
  ASSUME NEW keys, IsFiniteSet(keys), NEW values, NEW readers, NEW w,
         Followed(w, keys, values, readers), NEW k \in keys, NEW step,
         <<Gone, Gone>> \in step,
         <<Gone, Object(w, k)>> \in step, <<Object(w, k), Object(w, k)>> \in step
  PROVE  Path(Restart(w), k, step)
<1> DEFINE x == Restart(w)
<1>1. /\ \A i \in 1..Len(x.log) : x.log[i].val = Object(w, x.log[i].key)
      /\ x.base[k] = Gone
      /\ Len(x.log) \in Nat
  <2> DEFINE B == {Object(w, j) : j \in keys}
  <2>1. \A j \in keys : Object(w, j) # Gone => j \in keys /\ Object(w, j) \in B
    OBVIOUS
  <2> HIDE DEF B
  <2>2. /\ \A j \in keys : x.base[j] = Gone
        /\ x.log \in Seq(Changes(keys, B))
        /\ \A i \in 1..Len(x.log) : x.log[i].val = Object(w, x.log[i].key)
    BY <2>1, RestartTells
  <2> QED
    BY <2>2
<1> HIDE DEF x
<1>2. \A n \in 0..Len(x.log) : After(x, n, k) \in {Gone, Object(w, k)}
  <2> TAKE n \in 0..Len(x.log)
  <2>1. n \in Nat /\ \A i \in 1..n : i \in 1..Len(x.log)
    BY <1>1
  <2> QED
    BY <1>1, <2>1, AfterIs
<1> SUFFICES ASSUME NEW n \in 0..Len(x.log), n < Len(x.log)
             PROVE  <<After(x, n, k), After(x, n + 1, k)>> \in step
  BY DEF Path, x
<1>3. n \in Nat /\ n + 1 \in 1..Len(x.log)
  BY <1>1
<1>4. After(x, n + 1, k) \in {Object(w, k), After(x, n, k)}
  BY <1>1, <1>3, AfterNext
<1> QED
  BY <1>2, <1>4

(* What the lister shows differs from what there is by a step that it is   *)
(* going to be told of.                                                    *)
LEMMA ListedAhead ==
  ASSUME NEW keys, NEW values, NEW readers, NEW w, Followed(w, keys, values, readers),
         NEW k, NEW good, Listed(w, k) \in good, Object(w, k) \notin good
  PROVE  \E n \in w.pos["lister"]..Len(w.log) :
           /\ n < Len(w.log)
           /\ After(w, n, k) \in good /\ After(w, n + 1, k) \notin good
<1> DEFINE l == w.pos["lister"]
           S == {n \in l..Len(w.log) : After(w, n, k) \notin good}
<1>1. l \in Nat /\ Len(w.log) \in Nat /\ l <= Len(w.log)
  BY DEF Followed, Watches
<1>2. Len(w.log) \in S
  BY <1>1 DEF Object
<1>3. PICK m \in S : \A n \in S : m <= n
  <2>1. S \in SUBSET Nat /\ S # {}
    BY <1>1, <1>2
  <2> QED
    BY <2>1, Least
<1>4. m # l
  BY DEF Listed, Seen
<1>5. m - 1 \in l..Len(w.log) /\ m - 1 < Len(w.log) /\ (m - 1) + 1 = m
  BY <1>1, <1>4
<1>6. After(w, m - 1, k) \in good
  <2>1. ~(m <= m - 1)
    BY <1>1
  <2> QED
    BY <1>3, <1>5, <2>1
<1> QED
  BY <1>5, <1>6
=============================================================================

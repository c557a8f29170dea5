-------------------------- MODULE SessionBuildProofs --------------------------
(***************************************************************************)
(* The invariants of SessionBuild for every list of entries, every option  *)
(* object and every model.  What the recursive definitions compute is      *)
(* proved by induction over the naturals, which the theorem WFMin gives in *)
(* a form the provers can use: a set of naturals that is not empty has a   *)
(* least element.                                                          *)
(***************************************************************************)
EXTENDS SessionBuild, SequenceTheorems, WellFoundedInduction, TLAPS

-----------------------------------------------------------------------------
(* Induction. *)

\* A set of naturals that is not empty has a least element.
LEMMA LeastNumber ==
  ASSUME NEW T \in SUBSET Nat, T # {}
  PROVE  \E m \in T : \A k \in T : m <= k
<1> DEFINE R == OpToRel(<, Nat)
<1>1. IsWellFoundedOn(R, Nat)
  BY NatLessThanWellFounded
<1> HIDE DEF R
<1>2. PICK m \in T : \A k \in T : <<k, m>> \notin R
  BY <1>1, WFMin, Zenon
<1>3. ASSUME NEW k \in T PROVE m <= k
  <2>1. k \in Nat /\ m \in Nat
    OBVIOUS
  <2>2. k < m => <<k, m>> \in R
    BY <2>1 DEF R, OpToRel
  <2> QED BY <1>2, <2>1, <2>2
<1> QED BY <1>3

\* A set that holds 0 and with every number below n the next one holds 0..n.
LEMMA Induction ==
  ASSUME NEW n \in Nat, NEW T, 0 \in T, \A k \in 0..n - 1 : k \in T => k + 1 \in T
  PROVE  \A k \in 0..n : k \in T
<1> DEFINE Out == {k \in 0..n : k \notin T}
<1> SUFFICES ASSUME Out # {} PROVE FALSE
  OBVIOUS
<1>1. PICK m \in Out : \A k \in Out : m <= k
  <2>1. Out \in SUBSET Nat
    OBVIOUS
  <2> HIDE DEF Out
  <2> QED BY <2>1, LeastNumber
<1>2. m # 0 /\ m - 1 \in 0..n - 1 /\ m - 1 \in 0..n
  OBVIOUS
<1>3. m - 1 \in T
  BY <1>1, <1>2
<1>4. (m - 1) + 1 \in T /\ (m - 1) + 1 = m
  BY <1>2, <1>3
<1> QED BY <1>4

-----------------------------------------------------------------------------
(* JSON objects, and the value put under a dotted key. *)

\* Put sets one field and keeps the others.
LEMMA PutFields ==
  ASSUME NEW json, NEW key, NEW v
  PROVE  /\ IsObject(Put(json, key, v)) /\ Has(Put(json, key, v), key) /\ Get(Put(json, key, v), key) = v
         /\ \A k : k # key => /\ Has(Put(json, key, v), k) <=> k \in DOMAIN json.fields
                              /\ Has(Put(json, key, v), k) => Get(Put(json, key, v), k) = json.fields[k]
BY DEF Put, IsObject, Has, Get, Object

\* The way down a path: the object itself, then group by group.
LEMMA GroupsUnfold ==
  ASSUME NEW json, NEW path \in Seq(STRING)
  PROVE  /\ Len(path) >= 1 => Groups(json, path)[1] = json
         /\ Len(path) >= 2 => Groups(json, path)[2] = Group(json, path[1])
<1> DEFINE n == Len(path)
           Is(g, m) == g = [k \in 1..m |-> IF k = 1 THEN json ELSE Group(g[k - 1], path[k - 1])]
           T == {m \in 0..n : \E g : Is(g, m)}
<1>1. n \in Nat
  OBVIOUS
<1>2. 0 \in T
  <2>1. 1..0 = {}
    OBVIOUS
  <2>2. Is([k \in 1..0 |-> json], 0)
    BY <2>1
  <2>3. \E g : Is(g, 0)
    BY <2>2
  <2>4. 0 \in 0..n
    BY <1>1
  <2> QED BY <2>3, <2>4
<1>3. ASSUME NEW m \in 0..n - 1, m \in T PROVE m + 1 \in T
  <2>1. PICK g : Is(g, m)
    BY <1>3
  <2> DEFINE h == [k \in 1..m + 1 |->
                     IF k <= m THEN g[k] ELSE IF k = 1 THEN json ELSE Group(g[k - 1], path[k - 1])]
  <2>2. ASSUME NEW k \in 1..m + 1
        PROVE  h[k] = IF k = 1 THEN json ELSE Group(h[k - 1], path[k - 1])
    <3>1. k # 1 => k - 1 \in 1..m + 1 /\ k - 1 <= m
      BY <1>1
    <3>2. k <= m => k \in 1..m
      BY <1>1
    <3> HIDE DEF n
    <3> QED BY <2>1, <3>1, <3>2
  <2>3. Is(h, m + 1)
    BY <2>2
  <2>4. m + 1 \in 0..n
    BY <1>1
  <2> QED BY <2>3, <2>4
<1>4. n \in T
  <2> HIDE DEF T, n
  <2>1. \A k \in 0..n : k \in T
    BY <1>1, <1>2, <1>3, Induction
  <2> QED BY <1>1, <2>1
<1>5. PICK g : Is(g, n)
  BY <1>4
<1>6. Groups(json, path) = CHOOSE at : Is(at, n)
  BY DEF Groups
<1>7. Is(Groups(json, path), n)
  BY <1>5, <1>6
<1> DEFINE f == Groups(json, path)
<1> HIDE DEF f
<1>8. f = [k \in 1..n |-> IF k = 1 THEN json ELSE Group(f[k - 1], path[k - 1])]
  BY <1>7 DEF f
<1>9. \A k \in 1..n : f[k] = IF k = 1 THEN json ELSE Group(f[k - 1], path[k - 1])
  BY <1>8
<1>10. (n >= 1 => 1 \in 1..n) /\ (n >= 2 => 2 \in 1..n /\ 2 - 1 = 1)
  BY <1>1
<1> HIDE DEF n
<1>11. n >= 1 => f[1] = json
  BY <1>9, <1>10
<1>12. n >= 2 => f[2] = Group(f[2 - 1], path[2 - 1])
  BY <1>9, <1>10
<1>13. (n >= 1 => f[1] = json) /\ (n >= 2 => f[2] = Group(json, path[1]))
  BY <1>1, <1>10, <1>11, <1>12
<1> QED BY <1>13 DEF f, n
\* The way up: every object holds the one built before it.
LEMMA PutAlongUnfold ==
  ASSUME NEW at, NEW path \in Seq(STRING), NEW v
  PROVE  LET n == Len(path) IN
         /\ n = 1 => PutAlong(at, path, v) = Put(at[1], path[1], v)
         /\ n = 2 => PutAlong(at, path, v) = Put(at[1], path[1], Put(at[2], path[2], v))
         /\ n > 2 => \E w : PutAlong(at, path, v) =
                              Put(at[1], path[1], Put(at[2], path[2], Put(at[3], path[3], w)))
<1> DEFINE n == Len(path)
           Is(g, m) == g = [k \in 0..m |->
                              IF k = 0 THEN v ELSE Put(at[n + 1 - k], path[n + 1 - k], g[k - 1])]
           T == {m \in 0..n : \E g : Is(g, m)}
<1>1. n \in Nat
  OBVIOUS
<1>2. 0 \in T
  <2>1. \A k \in 0..0 : k = 0
    OBVIOUS
  <2>2. Is([k \in 0..0 |-> v], 0)
    BY <2>1
  <2>3. \E g : Is(g, 0)
    BY <2>2
  <2>4. 0 \in 0..n
    BY <1>1
  <2> QED BY <2>3, <2>4
<1>3. ASSUME NEW m \in 0..n - 1, m \in T PROVE m + 1 \in T
  <2>1. PICK g : Is(g, m)
    BY <1>3
  <2> DEFINE h == [k \in 0..m + 1 |-> IF k <= m THEN g[k]
                     ELSE Put(at[n + 1 - k], path[n + 1 - k], g[k - 1])]
  <2>2. ASSUME NEW k \in 0..m + 1
        PROVE  h[k] = IF k = 0 THEN v ELSE Put(at[n + 1 - k], path[n + 1 - k], h[k - 1])
    <3>1. k # 0 => k - 1 \in 0..m + 1 /\ k - 1 <= m
      BY <1>1
    <3>2. k <= m => k \in 0..m
      BY <1>1
    <3>3. k = 0 => k <= m
      BY <1>1
    <3> HIDE DEF n
    <3> QED BY <2>1, <3>1, <3>2, <3>3
  <2>3. Is(h, m + 1)
    BY <2>2
  <2>4. m + 1 \in 0..n
    BY <1>1
  <2> QED BY <2>3, <2>4
<1>4. n \in T
  <2> HIDE DEF T, n
  <2>1. \A k \in 0..n : k \in T
    BY <1>1, <1>2, <1>3, Induction
  <2> QED BY <1>1, <2>1
<1> DEFINE f == CHOOSE g : Is(g, n)
<1>5. Is(f, n)
  <2>1. PICK g : Is(g, n)
    BY <1>4
  <2> HIDE DEF n
  <2> QED BY <2>1
<1>6. PutAlong(at, path, v) = f[n]
  BY DEF PutAlong
<1> HIDE DEF f
<1>7. \A k \in 0..n : f[k] = IF k = 0 THEN v ELSE Put(at[n + 1 - k], path[n + 1 - k], f[k - 1])
  BY <1>5
<1> HIDE DEF n
<1>8. /\ 0 \in 0..n /\ n \in 0..n
      /\ n >= 1 => n # 0 /\ n + 1 - n = 1
      /\ n >= 2 => n - 1 \in 0..n /\ n - 1 # 0 /\ n + 1 - (n - 1) = 2
      /\ n >= 3 => n - 2 \in 0..n /\ n - 2 # 0 /\ n + 1 - (n - 2) = 3 /\ n - 1 - 1 = n - 2
  BY <1>1
<1>9. /\ f[0] = v
      /\ n >= 1 => f[n] = Put(at[1], path[1], f[n - 1])
  BY <1>7, <1>8
<1>10. n >= 2 => f[n - 1] = Put(at[2], path[2], f[n - 1 - 1])
  BY <1>7, <1>8
<1>11. n >= 3 => f[n - 2] = Put(at[3], path[3], f[n - 2 - 1])
  BY <1>7, <1>8
<1>12. n = 1 => f[n] = Put(at[1], path[1], v)
  BY <1>9
<1>13. n = 2 => f[n] = Put(at[1], path[1], Put(at[2], path[2], v))
  <2>1. n = 2 => n - 1 - 1 = 0 /\ n >= 1 /\ n >= 2
    OBVIOUS
  <2> QED BY <1>9, <1>10, <2>1
<1>14. n > 2 => f[n] = Put(at[1], path[1], Put(at[2], path[2], Put(at[3], path[3], f[n - 2 - 1])))
  <2>1. n > 2 => n >= 1 /\ n >= 2 /\ n >= 3
    BY <1>1
  <2> QED BY <1>8, <1>9, <1>10, <1>11, <2>1
<1> QED BY <1>6, <1>12, <1>13, <1>14 DEF n
\* A group is an object.
LEMMA GroupIsObject == \A json, key : IsObject(Group(json, key))
BY DEF Group, EmptyObject, Object, IsObject

\* What set_nested does to the key a path begins with and to the one below it;
\* it leaves their siblings alone.
LEMMA SetNested ==
  ASSUME NEW json, IsObject(json), NEW path \in Seq(STRING) \ {<<>>}, NEW v
  PROVE  LET new == set_nested(json, path, v)
             below == Get(new, path[1])
             old == Group(json, path[1])
         IN  /\ IsObject(new) /\ Has(new, path[1])
             /\ \A k : k # path[1] => /\ Has(new, k) <=> Has(json, k)
                                      /\ Has(new, k) => Get(new, k) = Get(json, k)
             /\ Len(path) = 1 => below = v
             /\ Len(path) > 1 =>
                  /\ IsObject(below) /\ Has(below, path[2])
                  /\ \A k : k # path[2] => /\ Has(below, k) <=> Has(old, k)
                                           /\ Has(below, k) => Get(below, k) = Get(old, k)
                  /\ Len(path) = 2 => Get(below, path[2]) = v
                  /\ Len(path) > 2 => IsObject(Get(below, path[2]))
<1> DEFINE at == Groups(json, path)
           n == Len(path)
           new == set_nested(json, path, v)
           below == Get(new, path[1])
           old == Group(json, path[1])
<1>1. n \in Nat /\ n >= 1
  OBVIOUS
<1>2. at[1] = json /\ (n >= 2 => at[2] = old)
  BY <1>1, GroupsUnfold
<1>3. new = PutAlong(at, path, v)
  BY DEF set_nested
<1>4. /\ n = 1 => new = Put(at[1], path[1], v)
      /\ n = 2 => new = Put(at[1], path[1], Put(at[2], path[2], v))
      /\ n > 2 => \E w : new = Put(at[1], path[1], Put(at[2], path[2], Put(at[3], path[3], w)))
  BY <1>3, PutAlongUnfold
<1> HIDE DEF at, new
<1>5. PICK x : new = Put(json, path[1], x) /\ (n = 1 => x = v)
               /\ (n > 1 => \E y : x = Put(old, path[2], y) /\ (n = 2 => y = v) /\ (n > 2 => IsObject(y)))
  <2>1. CASE n = 1
    BY <1>2, <1>4, <2>1
  <2>2. CASE n = 2
    BY <1>2, <1>4, <2>2
  <2>3. CASE n > 2
    <3>1. PICK w : new = Put(at[1], path[1], Put(at[2], path[2], Put(at[3], path[3], w)))
      BY <1>4, <2>3
    <3>2. new = Put(json, path[1], Put(old, path[2], Put(at[3], path[3], w))) /\ ~(n = 1) /\ ~(n = 2)
      BY <1>1, <1>2, <2>3, <3>1
    <3>3. IsObject(Put(at[3], path[3], w))
      BY PutFields
    <3> QED BY <3>2, <3>3
  <2>4. n = 1 \/ n = 2 \/ n > 2
    <3> HIDE DEF n
    <3> QED BY <1>1
  <2> QED BY <2>1, <2>2, <2>3, <2>4
<1>6. /\ IsObject(new) /\ Has(new, path[1]) /\ below = x
      /\ \A k : k # path[1] => /\ Has(new, k) <=> Has(json, k)
                               /\ Has(new, k) => Get(new, k) = Get(json, k)
  BY <1>5, PutFields DEF Has, Get
<1>7. ASSUME n > 1
      PROVE  /\ IsObject(below) /\ Has(below, path[2])
             /\ \A k : k # path[2] => /\ Has(below, k) <=> Has(old, k)
                                      /\ Has(below, k) => Get(below, k) = Get(old, k)
             /\ n = 2 => Get(below, path[2]) = v
             /\ n > 2 => IsObject(Get(below, path[2]))
  <2>1. PICK y : x = Put(old, path[2], y) /\ (n = 2 => y = v) /\ (n > 2 => IsObject(y))
    BY <1>5, <1>7
  <2>2. IsObject(old)
    BY GroupIsObject
  <2> HIDE DEF old, n, below
  <2>3. /\ IsObject(below) /\ Has(below, path[2]) /\ Get(below, path[2]) = y
        /\ \A k : k # path[2] => /\ Has(below, k) <=> Has(old, k)
                                 /\ Has(below, k) => Get(below, k) = Get(old, k)
    BY <1>6, <2>1, <2>2, PutFields DEF Has, Get
  <2> QED BY <2>1, <2>3
<1> QED BY <1>5, <1>6, <1>7 DEF new
-----------------------------------------------------------------------------
(* The libraries collected. *)

\* The list grows by the items one after the other.
LEMMA CollectedUnfold ==
  ASSUME NEW V, NEW items \in Seq(V)
  PROVE  LET p == Collected(items) IN
         /\ p[0] = <<>>
         /\ \A k \in 1..Len(items) :
              p[k] = IF items[k].kind = "string" /\ ~Contains(p[k - 1], items[k])
                     THEN Append(p[k - 1], items[k]) ELSE p[k - 1]
<1> DEFINE n == Len(items)
           Next1(s, v) == IF v.kind = "string" /\ ~Contains(s, v) THEN Append(s, v) ELSE s
           Is(g, m) == g = [k \in 0..m |-> IF k = 0 THEN <<>> ELSE Next1(g[k - 1], items[k])]
           T == {m \in 0..n : \E g : Is(g, m)}
<1>1. n \in Nat
  OBVIOUS
<1> DEFINE f == CHOOSE g : Is(g, n)
<1>2. Collected(items) = f
  BY DEF Collected
<1> HIDE DEF n, Next1, f
<1>3. 0 \in T
  <2>1. \A k \in 0..0 : k = 0
    OBVIOUS
  <2>2. Is([k \in 0..0 |-> <<>>], 0)
    BY <2>1
  <2>3. \E g : Is(g, 0)
    BY <2>2
  <2>4. 0 \in 0..n
    BY <1>1
  <2> QED BY <2>3, <2>4
<1>4. ASSUME NEW m \in 0..n - 1, m \in T PROVE m + 1 \in T
  <2>1. PICK g : Is(g, m)
    BY <1>4
  <2> DEFINE h == [k \in 0..m + 1 |-> IF k <= m THEN g[k] ELSE Next1(g[k - 1], items[k])]
  <2>2. ASSUME NEW k \in 0..m + 1
        PROVE  h[k] = IF k = 0 THEN <<>> ELSE Next1(h[k - 1], items[k])
    <3>1. k # 0 => k - 1 \in 0..m + 1 /\ k - 1 <= m
      BY <1>1
    <3>2. k <= m => k \in 0..m
      BY <1>1
    <3>3. k = 0 => k <= m
      BY <1>1
    <3> QED BY <2>1, <3>1, <3>2, <3>3
  <2>3. Is(h, m + 1)
    BY <2>2
  <2>4. m + 1 \in 0..n
    BY <1>1
  <2> QED BY <2>3, <2>4
<1>5. n \in T
  <2> HIDE DEF T
  <2>1. \A k \in 0..n : k \in T
    BY <1>1, <1>3, <1>4, Induction
  <2> QED BY <1>1, <2>1
<1>6. Is(f, n)
  <2>1. PICK g : Is(g, n)
    BY <1>5
  <2> QED BY <2>1 DEF f
<1>7. f[0] = <<>> /\ \A k \in 1..n : f[k] = Next1(f[k - 1], items[k])
  <2>1. 0 \in 0..n /\ \A k \in 1..n : k \in 0..n /\ k # 0
    BY <1>1
  <2> QED BY <1>6, <2>1
<1> QED BY <1>2, <1>7 DEF n, Next1

\* collect_extensions keeps every string once, in the order of its first place.
LEMMA CollectsOnceInOrder ==
  ASSUME NEW V, NEW items \in Seq(V)
  PROVE  LET r == Collected(items)[Len(items)]
         IN  r \in Seq(V) /\ OnceInOrder(r, [k \in RequestNames(items) |-> items[k]])
<1> DEFINE n == Len(items)
           p == Collected(items)
           names == [k \in RequestNames(items) |-> items[k]]
           Ordered(s) == \A j, k \in DOMAIN s : j < k =>
             \E a \in DOMAIN names : names[a] = s[j] /\ \A b \in DOMAIN names : names[b] = s[k] => a < b
           T == {m \in 0..n : /\ p[m] \in Seq(V) /\ Ordered(p[m])
                              /\ Range(p[m]) = {items[k] : k \in {k \in DOMAIN names : k <= m}}}
<1>1. n \in Nat /\ DOMAIN names \subseteq 1..n /\ \A k \in DOMAIN names : names[k] = items[k]
  BY DEF RequestNames
<1>2. /\ p[0] = <<>>
      /\ \A k \in 1..n : p[k] = IF items[k].kind = "string" /\ ~Contains(p[k - 1], items[k])
                                THEN Append(p[k - 1], items[k]) ELSE p[k - 1]
  BY CollectedUnfold
<1>3. \A k \in 1..n : items[k] \in V /\ (items[k].kind = "string" <=> k \in DOMAIN names)
  BY DEF RequestNames
<1> HIDE DEF n, p, names
<1>4. 0 \in T
  <2>1. <<>> \in Seq(V) /\ DOMAIN <<>> = {}
    OBVIOUS
  <2>2. {k \in DOMAIN names : k <= 0} = {}
    BY <1>1
  <2>3. Ordered(p[0]) /\ Range(p[0]) = {}
    BY <1>2, <2>1 DEF Range
  <2>4. {items[k] : k \in {k \in DOMAIN names : k <= 0}} = {} /\ 0 \in 0..n
    BY <1>1, <2>2
  <2> HIDE DEF Ordered
  <2> QED BY <1>2, <2>1, <2>3, <2>4
<1>5. ASSUME NEW m \in 0..n - 1, m \in T PROVE m + 1 \in T
  <2> DEFINE s == p[m]
             v == items[m + 1]
  <2>1. m + 1 \in 1..n /\ m + 1 \in 0..n /\ m + 1 - 1 = m
    BY <1>1
  <2>2. /\ s \in Seq(V) /\ Ordered(s)
        /\ Range(s) = {items[k] : k \in {k \in DOMAIN names : k <= m}}
    BY <1>5
  <2>3. p[m + 1] = IF v.kind = "string" /\ ~Contains(s, v) THEN Append(s, v) ELSE s
    BY <1>2, <2>1
  <2>4. Contains(s, v) <=> v \in Range(s)
    BY <2>2 DEF Contains, Range
  <2>5. {k \in DOMAIN names : k <= m + 1} =
          {k \in DOMAIN names : k <= m} \cup (IF v.kind = "string" THEN {m + 1} ELSE {})
    BY <1>1, <1>3, <2>1
  <2>6. {items[k] : k \in {k \in DOMAIN names : k <= m + 1}} =
          Range(s) \cup (IF v.kind = "string" THEN {v} ELSE {})
    BY <2>2, <2>5
  <2>7. v \in V
    BY <1>3, <2>1
  <2> HIDE DEF s, v
  <2>8. CASE v.kind = "string" /\ v \notin Range(s)
    <3>1. p[m + 1] = Append(s, v)
      BY <2>3, <2>4, <2>8
    <3>2. /\ Append(s, v) \in Seq(V) /\ Len(Append(s, v)) = Len(s) + 1 /\ Len(s) \in Nat
          /\ DOMAIN s = 1..Len(s) /\ DOMAIN Append(s, v) = 1..Len(s) + 1
          /\ \A k \in 1..Len(s) : Append(s, v)[k] = s[k]
          /\ Append(s, v)[Len(s) + 1] = v
      BY <2>2, <2>7
    <3> DEFINE t == Append(s, v)
               l == Len(s)
    <3>3. l \in Nat /\ DOMAIN s = 1..l /\ DOMAIN t = 1..l + 1 /\ t[l + 1] = v /\ \A k \in 1..l : t[k] = s[k]
      BY <3>2
    <3> HIDE DEF t, l
    <3>4. Range(t) = Range(s) \cup {v}
      BY <3>3 DEF Range
    <3>5. ASSUME NEW j \in DOMAIN t, NEW k \in DOMAIN t, j < k
          PROVE  \E a \in DOMAIN names :
                   names[a] = t[j] /\ \A b \in DOMAIN names : names[b] = t[k] => a < b
      <4>1. j \in 1..l /\ (k \in 1..l \/ k = l + 1)
        BY <3>3, <3>5
      <4>2. CASE k \in 1..l
        BY <2>2, <3>3, <3>5, <4>1, <4>2
      <4>3. CASE k = l + 1
        <5>1. t[k] = v /\ t[j] = s[j] /\ s[j] \in Range(s)
          BY <3>3, <4>1, <4>3 DEF Range
        <5>2. PICK a \in DOMAIN names : a <= m /\ names[a] = t[j]
          BY <1>1, <2>2, <5>1
        <5>3. ASSUME NEW b \in DOMAIN names, names[b] = v PROVE a < b
          <6>1. ~(b <= m)
            BY <1>1, <2>2, <2>8, <5>3
          <6> QED BY <1>1, <5>2, <6>1
        <5> QED BY <5>1, <5>2, <5>3
      <4> QED BY <4>1, <4>2, <4>3
    <3>6. Ordered(t)
      BY <3>5
    <3>7. p[m + 1] = t /\ t \in Seq(V)
      BY <3>1, <3>2 DEF t
    <3> QED BY <2>1, <2>6, <2>8, <3>4, <3>6, <3>7
  <2>9. CASE ~(v.kind = "string" /\ v \notin Range(s))
    <3>1. p[m + 1] = s
      BY <2>3, <2>4, <2>9
    <3>2. Range(s) \cup (IF v.kind = "string" THEN {v} ELSE {}) = Range(s)
      BY <2>9
    <3> HIDE DEF Ordered
    <3> QED BY <2>1, <2>2, <2>6, <3>1, <3>2
  <2> QED BY <2>8, <2>9
<1>6. n \in T
  <2> HIDE DEF T
  <2>1. \A k \in 0..n : k \in T
    BY <1>1, <1>4, <1>5, Induction
  <2> QED BY <1>1, <2>1
<1>7. p[n] \in Seq(V) /\ Ordered(p[n])
  BY <1>6
<1>8. Range(p[n]) = Range(names)
  <2>1. {k \in DOMAIN names : k <= n} = DOMAIN names
    <3>1. \A k \in DOMAIN names : k <= n
      BY <1>1
    <3> QED BY <3>1
  <2>2. Range(p[n]) = {items[k] : k \in DOMAIN names}
    BY <1>6, <2>1
  <2> QED BY <1>1, <2>2 DEF Range
<1> QED BY <1>7, <1>8 DEF OnceInOrder, p, n, names
-----------------------------------------------------------------------------
(* Types. *)

\* A sequence is a function on 1..n; appending to it gives a sequence.
LEMMA SequenceFacts ==
  /\ \A S : \A s \in Seq(S) : Sequence(s)
  /\ \A s : Sequence(s) => Len(s) \in Nat /\ DOMAIN s = 1..Len(s)
  /\ \A s, x : Sequence(s) =>
       /\ Sequence(Append(s, x)) /\ Len(Append(s, x)) = Len(s) + 1
       /\ Append(s, x)[Len(s) + 1] = x /\ \A k \in 1..Len(s) : Append(s, x)[k] = s[k]
<1>1. ASSUME NEW S, NEW s \in Seq(S) PROVE Sequence(s)
  <2>1. \A k \in 1..Len(s) : s[k] \in Range(s)
    BY DEF Range
  <2> QED BY <2>1 DEF Sequence
<1>2. ASSUME NEW s, Sequence(s) PROVE Len(s) \in Nat /\ DOMAIN s = 1..Len(s)
  <2> DEFINE S == Range(s)
  <2>1. s \in Seq(S)
    BY <1>2 DEF Sequence
  <2> HIDE DEF S
  <2> QED BY <2>1
<1>3. ASSUME NEW s, NEW x, Sequence(s)
      PROVE  /\ Sequence(Append(s, x)) /\ Len(Append(s, x)) = Len(s) + 1
             /\ Append(s, x)[Len(s) + 1] = x /\ \A k \in 1..Len(s) : Append(s, x)[k] = s[k]
  <2> DEFINE S == Range(s) \cup {x}
  <2>1. s \in Seq(S)
    <3>1. \A k \in 1..Len(s) : s[k] \in S
      BY <1>2, <1>3 DEF Range
    <3> HIDE DEF S
    <3>2. s \in Seq(Range(s))
      BY <1>3 DEF Sequence
    <3> QED BY <3>1, <3>2
  <2>2. x \in S
    OBVIOUS
  <2> HIDE DEF S
  <2>3. /\ Append(s, x) \in Seq(S) /\ Len(Append(s, x)) = Len(s) + 1
        /\ Append(s, x)[Len(s) + 1] = x /\ \A k \in 1..Len(s) : Append(s, x)[k] = s[k]
    BY <2>1, <2>2
  <2>4. Sequence(Append(s, x))
    BY <1>1, <2>3
  <2> QED BY <2>3, <2>4
<1> QED BY <1>1, <1>2, <1>3

\* An entry is read, or the item and its option stay as they are.
LEMMA OptionStep ==
  ASSUME [Next]_vars
  PROVE  \/ \E e \in Entries : ReadEntry(e)
         \/ UNCHANGED <<list, option>> /\ pc' # "list"
         \/ UNCHANGED vars
<1> USE DEF sourceVars, Throw
<1>1. CASE CreateFromList \/ apply_session_options
  BY <1>1 DEF CreateFromList, apply_session_options
<1>2. CASE RegisterExtension \/ RegisterFails
  BY <1>2 DEF RegisterExtension, RegisterFails
<1>3. CASE SkipCuda \/ CreateHandle \/ CudaUnavailable \/ update_all \/ CudaFails
  BY <1>3 DEF SkipCuda, CreateHandle, CudaUnavailable, update_all, CudaFails
<1>4. CASE AppendProvider \/ ReadBack \/ LoadModel \/ LoadFails
  BY <1>4 DEF AppendProvider, ReadBack, LoadModel, LoadFails
<1>5. CASE override_shape \/ OverrideFails \/ LoopEnds
  BY <1>5 DEF override_shape, OverrideFails, LoopEnds, MoreValues
<1> QED BY <1>1, <1>2, <1>3, <1>4, <1>5 DEF Next

\* The types hold at the start and every step preserves them.
LEMMA TypeInit == Init => TypeOK
<1> SUFFICES ASSUME Init PROVE TypeOK
  OBVIOUS
<1>1. list \in Seq(Entries) /\ Len(list) = 0 /\ Len(shapes) = 0 /\ shapes \in Seq({})
  BY DEF Init
<1>2. Sequence(shapes)
  BY <1>1, SequenceFacts
<1>3. Len(list) <= MaxEntries /\ Len(shapes) <= Len(ModelValues)
  BY <1>1, ModelAssumption, BuildAssumption
<1>4. IsObject(option)
  BY OptionsAssumption DEF Init, IsObject, EmptyObject, Object
<1>5. /\ \A cuda \in {handle, ep, echo.cuda} : DOMAIN cuda = {"on", "opts"} /\ cuda.on \in BOOLEAN
      /\ DOMAIN echo = {"cuda", "settings", "extensions", "overrides"} /\ echo.overrides = {}
  BY DEF Init, NoCuda
<1>6. pc \in {"list", "settings"} /\ ort_session \in BOOLEAN
  BY DEF Init
<1> QED BY <1>1, <1>2, <1>3, <1>4, <1>5, <1>6 DEF TypeOK
\* Every step preserves the types.
LEMMA TypeStep ==
  ASSUME TypeOK, ShapesInv, [Next]_vars PROVE TypeOK'
<1> DEFINE Cuda == \A cuda \in {handle, ep, echo.cuda} : DOMAIN cuda = {"on", "opts"} /\ cuda.on \in BOOLEAN
           Echo == DOMAIN echo = {"cuda", "settings", "extensions", "overrides"} /\ echo.overrides \subseteq Sides
           Item == list \in Seq(Entries) /\ Len(list) <= MaxEntries /\ IsObject(option)
           Read == Sequence(shapes) /\ Len(shapes) <= Len(ModelValues)
           Place == /\ pc \in {"list", "settings", "extensions", "cuda", "update", "append", "readback",
                               "load", "inputs", "outputs", "built", "failed"}
                    /\ ort_session \in BOOLEAN /\ (pc = "built" => echo.overrides = {})
<1>1. Cuda /\ Echo /\ Item /\ Read /\ Place
  BY DEF TypeOK
<1>2. Cuda' /\ Echo' /\ Item' /\ Read' /\ Place' => TypeOK'
  BY DEF TypeOK
<1> HIDE DEF Cuda, Echo, Item, Read, Place
<1>3. ASSUME UNCHANGED <<list, option>> PROVE Item'
  BY <1>1, <1>3 DEF Item
<1>4. ASSUME UNCHANGED shapes PROVE Read'
  BY <1>1, <1>4 DEF Read
<1>5. ASSUME NEW e \in Entries, ReadEntry(e) PROVE TypeOK'
  <2>1. IsObject(option')
    <3>1. e.path \in Seq(STRING) \ {<<>>} /\ IsObject(option)
      BY <1>1, EntriesAssumption DEF Item
    <3>2. IsObject(set_nested(option, e.path, e.value))
      BY <3>1, SetNested
    <3>3. IsObject(append_extension(option, e.value))
      BY PutFields DEF append_extension
    <3> QED BY <1>5, <3>2, <3>3 DEF ReadEntry
  <2>2. Item'
    BY <1>1, <1>5, <2>1, BuildAssumption DEF Item, ReadEntry
  <2>3. UNCHANGED <<pc, handle, ep, echo, ort_session, shapes>>
    BY <1>5 DEF ReadEntry, cudaVars
  <2> QED BY <1>1, <1>2, <1>4, <2>2, <2>3 DEF Cuda, Echo, Place
<1>6. ASSUME UNCHANGED <<list, option, shapes, handle, ep>>, UNCHANGED echo, UNCHANGED ort_session \/ ort_session' = FALSE,
             pc' \in {"settings", "extensions", "cuda", "load", "failed", pc}
      PROVE  TypeOK'
  BY <1>1, <1>2, <1>3, <1>4, <1>6 DEF Cuda, Echo, Place
<1> USE DEF sourceVars, cudaVars, Throw
<1>7. CASE apply_session_options
  <2>1. PICK x : echo' = [echo EXCEPT !.settings = x]
    BY <1>7 DEF apply_session_options
  <2>2. Cuda' /\ Echo'
    BY <1>1, <1>7, <2>1 DEF apply_session_options, Cuda, Echo
  <2> QED BY <1>1, <1>2, <1>3, <1>4, <1>7, <2>2 DEF apply_session_options, Place
<1>8. CASE RegisterExtension
  <2>1. UNCHANGED echo \/ echo' = [echo EXCEPT !.extensions = collect_extensions(option)]
    BY <1>8 DEF RegisterExtension
  <2>2. Cuda' /\ Echo'
    BY <1>1, <1>8, <2>1 DEF RegisterExtension, Cuda, Echo
  <2>3. UNCHANGED <<list, option, shapes, ort_session>> /\ pc' \in {"extensions", "cuda"}
    BY <1>8 DEF RegisterExtension
  <2> QED BY <1>1, <1>2, <1>3, <1>4, <2>2, <2>3 DEF Place
<1>9. CASE CreateFromList \/ RegisterFails \/ SkipCuda \/ CudaUnavailable \/ LoadFails \/ OverrideFails
  BY <1>6, <1>9 DEF CreateFromList, RegisterFails, SkipCuda, CudaUnavailable, LoadFails, OverrideFails
<1>10. CASE CreateHandle \/ update_all \/ CudaFails \/ AppendProvider
  <2>1. /\ handle' \in {NoCuda, [on |-> TRUE, opts |-> CudaDefaults], handle}
           \/ \E x : handle' = [handle EXCEPT !.opts = x]
        /\ ep' \in {ep, handle} /\ UNCHANGED echo
    BY <1>10 DEF CreateHandle, update_all, CudaFails, AppendProvider
  <2>2. DOMAIN handle' = {"on", "opts"} /\ handle'.on \in BOOLEAN
    <3>1. DOMAIN handle = {"on", "opts"} /\ handle.on \in BOOLEAN
      BY <1>1 DEF Cuda
    <3>2. DOMAIN NoCuda = {"on", "opts"} /\ NoCuda.on \in BOOLEAN
      BY DEF NoCuda
    <3>3. \A x : DOMAIN [handle EXCEPT !.opts = x] = {"on", "opts"} /\ [handle EXCEPT !.opts = x].on \in BOOLEAN
      BY <3>1
    <3>4. CASE \E x : handle' = [handle EXCEPT !.opts = x]
      BY <3>3, <3>4
    <3>5. CASE handle' \in {NoCuda, handle}
      BY <3>1, <3>2, <3>5
    <3>6. CASE handle' = [on |-> TRUE, opts |-> CudaDefaults]
      BY <3>6
    <3> QED BY <2>1, <3>4, <3>5, <3>6
  <2>4. Cuda' /\ Echo'
    BY <1>1, <2>1, <2>2 DEF Cuda, Echo
  <2>3. UNCHANGED <<list, option, shapes, ort_session>> /\ pc' \in {"update", "append", "failed", "readback"}
    BY <1>10 DEF CreateHandle, update_all, CudaFails, AppendProvider
  <2> QED BY <1>1, <1>2, <1>3, <1>4, <2>3, <2>4 DEF Place
<1>11. CASE ReadBack
  <2>1. PICK keys : echo' = [echo EXCEPT !.cuda = [on |-> TRUE, opts |-> [k \in keys |-> handle.opts[k]]]]
    BY <1>11 DEF ReadBack
  <2>2. Echo' /\ echo'.cuda = [on |-> TRUE, opts |-> [k \in keys |-> handle.opts[k]]]
    BY <1>1, <2>1 DEF Echo
  <2>3. Cuda'
    <3>1. handle' = NoCuda /\ ep' = ep
      BY <1>11 DEF ReadBack
    <3>2. DOMAIN handle' = {"on", "opts"} /\ handle'.on \in BOOLEAN
      BY <3>1 DEF NoCuda
    <3>3. DOMAIN echo'.cuda = {"on", "opts"} /\ echo'.cuda.on \in BOOLEAN
      BY <2>2
    <3> QED BY <1>1, <3>1, <3>2, <3>3 DEF Cuda
  <2> QED BY <1>1, <1>2, <1>3, <1>4, <1>11, <2>2, <2>3 DEF ReadBack, Place
<1>12. CASE LoadModel
  <2>1. PICK s \in SUBSET Sides : echo' = [echo EXCEPT !.overrides = s]
    BY <1>12 DEF LoadModel
  <2>2. Cuda' /\ Echo'
    BY <1>1, <1>12, <2>1 DEF LoadModel, Cuda, Echo
  <2> QED BY <1>1, <1>2, <1>3, <1>4, <1>12, <2>2 DEF LoadModel, Place
<1>13. CASE override_shape
  <2>1. Read'
    <3>1. PICK x : shapes' = Append(shapes, x)
      BY <1>13 DEF override_shape
    <3>2. Len(shapes) \in Nat /\ Len(shapes) < Len(ModelValues) /\ Len(ModelValues) \in Nat
      BY <1>1, <1>13, SequenceFacts, ModelAssumption DEF override_shape, MoreValues, Read
    <3>3. Sequence(shapes') /\ Len(shapes') = Len(shapes) + 1
      BY <1>1, <3>1, SequenceFacts DEF Read
    <3> QED BY <3>2, <3>3 DEF Read
  <2>2. UNCHANGED <<list, option, pc, handle, ep, echo, ort_session>>
    BY <1>13 DEF override_shape
  <2> QED BY <1>1, <1>2, <1>3, <2>1, <2>2 DEF Cuda, Echo, Place
<1>14. CASE LoopEnds
  <2>1. UNCHANGED <<list, option, shapes, handle, ep, ort_session>>
        /\ echo' = [echo EXCEPT !.overrides = @ \ {Side}]
        /\ pc \in {"inputs", "outputs"} /\ pc' = IF pc = "inputs" THEN "outputs" ELSE "built"
    BY <1>14 DEF LoopEnds
  <2>2. Cuda' /\ Echo' /\ echo'.overrides = echo.overrides \ {Side}
    BY <1>1, <2>1 DEF Cuda, Echo
  <2>3. pc = "outputs" => echo.overrides \subseteq {"output_shape"} /\ Side = "output_shape"
    BY DEF ShapesInv, Sides, Side
  <2>4. Place'
    BY <1>1, <2>1, <2>2, <2>3 DEF Place
  <2> QED BY <1>2, <1>3, <1>4, <2>1, <2>2, <2>4
<1>15. CASE UNCHANGED vars
  BY <1>1, <1>2, <1>15 DEF vars, Cuda, Echo, Item, Read, Place
<1> QED
  BY <1>5, <1>7, <1>8, <1>9, <1>10, <1>11, <1>12, <1>13, <1>14, <1>15 DEF Next
-----------------------------------------------------------------------------
(* What the session says of itself. *)

\* The settings the session tells of are those ONNX Runtime took.
LEMMA SettingsStep ==
  ASSUME TypeOK, SettingsInv, [Next]_vars PROVE SettingsInv'
<1>1. DOMAIN echo = {"cuda", "settings", "extensions", "overrides"}
  BY DEF TypeOK
<1>2. ASSUME UNCHANGED ort, echo' = echo \/ \E x : \/ echo' = [echo EXCEPT !.extensions = x]
                                                   \/ echo' = [echo EXCEPT !.cuda = x]
                                                   \/ echo' = [echo EXCEPT !.overrides = x]
      PROVE  SettingsInv'
  <2>1. echo'.settings = echo.settings
    BY <1>1, <1>2
  <2> QED BY <1>2, <2>1 DEF SettingsInv, IsConfigEntry
<1>3. CASE apply_session_options
  <2>1. PICK accepted, unread :
          /\ unread \subseteq {s \in accepted : IsConfigEntry(s)}
          /\ ort' = accepted /\ echo' = [echo EXCEPT !.settings = accepted \ unread]
    BY <1>3 DEF apply_session_options
  <2>2. echo'.settings = accepted \ unread
    BY <1>1, <2>1
  <2> QED BY <2>1, <2>2 DEF SettingsInv, IsConfigEntry
<1>4. CASE (\E e \in Entries : ReadEntry(e)) \/ CreateFromList \/ RegisterExtension \/ RegisterFails
  BY <1>2, <1>4 DEF ReadEntry, CreateFromList, RegisterExtension, RegisterFails, Throw
<1>5. CASE SkipCuda \/ CreateHandle \/ CudaUnavailable \/ update_all \/ CudaFails \/ AppendProvider
  BY <1>2, <1>5 DEF SkipCuda, CreateHandle, CudaUnavailable, update_all, CudaFails, AppendProvider, Throw
<1>6. CASE ReadBack
  BY <1>2, <1>6 DEF ReadBack
<1>7. CASE LoadModel \/ LoadFails
  BY <1>2, <1>7 DEF LoadModel, LoadFails, Throw
<1>8. CASE override_shape \/ OverrideFails \/ LoopEnds
  BY <1>2, <1>8 DEF override_shape, OverrideFails, LoopEnds, Throw
<1>9. CASE UNCHANGED vars
  BY <1>2, <1>9 DEF vars
<1> QED BY <1>3, <1>4, <1>5, <1>6, <1>7, <1>8, <1>9 DEF Next

\* One update with every key leaves every key with the value it was given.
LEMMA UpdateGives ==
  ASSUME NEW opts, DOMAIN opts = DOMAIN CudaDefaults, DOMAIN CudaKeys \subseteq DOMAIN CudaDefaults
  PROVE  /\ DOMAIN UpdateCUDAProviderOptions(opts, CudaKeys) = DOMAIN CudaDefaults
         /\ Given(UpdateCUDAProviderOptions(opts, CudaKeys))
<1> DEFINE given == CudaKeys
<1>1. DOMAIN given \subseteq DOMAIN opts
  OBVIOUS
<1>2. UpdateCUDAProviderOptions(opts, given) =
        [k \in DOMAIN opts |-> IF k \in DOMAIN given THEN given[k]
                               ELSE IF CudaGroup(k) \cap DOMAIN given # {} THEN CudaDefaults[k]
                               ELSE opts[k]]
  BY DEF UpdateCUDAProviderOptions
<1> HIDE DEF given
<1>3. \A k \in DOMAIN given : UpdateCUDAProviderOptions(opts, given)[k] = given[k]
  BY <1>1, <1>2
<1>4. DOMAIN UpdateCUDAProviderOptions(opts, given) = DOMAIN opts
  BY <1>2
<1> QED BY <1>3, <1>4 DEF Given, given

\* The provider's options, from the handle to the provider and to the echo.
LEMMA CudaStep ==
  ASSUME TypeOK, CudaInv, [Next]_vars PROVE CudaInv'
<1>1. /\ DOMAIN echo = {"cuda", "settings", "extensions", "overrides"}
      /\ DOMAIN handle = {"on", "opts"}
      /\ handle.on \in BOOLEAN /\ ep.on \in BOOLEAN /\ echo.cuda.on \in BOOLEAN
  BY DEF TypeOK
<1>3. ASSUME UNCHANGED option PROVE CudaKeys' = CudaKeys
  BY <1>3 DEF CudaKeys, ProviderText, AsConfigText
<1>4. ASSUME NEW e \in Entries, ReadEntry(e) PROVE CudaInv'
  BY <1>4 DEF ReadEntry, CudaInv, cudaVars
<1>5. ASSUME UNCHANGED <<option, handle, ep>>, echo'.cuda = echo.cuda,
             \/ pc \in {"list", "settings", "extensions"} /\ pc' \in {"settings", "extensions", "cuda", "failed"}
             \/ pc = "cuda" /\ pc' \in {"load", "failed"}
             \/ pc \in {"load", "inputs", "outputs"} /\ pc' \in {"inputs", "outputs", "built", "failed"}
             \/ pc' = pc
      PROVE  CudaInv'
  <2>1. CudaKeys' = CudaKeys
    BY <1>3, <1>5
  <2>2. (ep.on => Given(ep.opts))' /\ (handle.on => DOMAIN handle.opts = DOMAIN CudaDefaults)'
    BY <1>5, <2>1 DEF CudaInv, Given, CudaDefaults
  <2>3. (pc \in {"append", "readback"} => Given(handle.opts))'
    BY <1>5, <2>1 DEF CudaInv, Given
  <2>4. /\ handle.on <=> pc \in {"update", "append", "readback"}
        /\ pc \in {"list", "settings", "extensions", "cuda", "update", "append"} => ~ep.on
        /\ pc \in {"list", "settings", "extensions", "cuda", "update", "append", "readback"} =>
             ~echo.cuda.on /\ DOMAIN echo.cuda.opts = {}
        /\ pc = "readback" => ep = handle
        /\ pc \in {"load", "inputs", "outputs", "built"} =>
             echo.cuda.on = ep.on /\ \A k \in DOMAIN echo.cuda.opts : echo.cuda.opts[k] = ep.opts[k]
    BY DEF CudaInv
  <2>5. (handle.on <=> pc \in {"update", "append", "readback"})'
    BY <1>5, <2>4
  <2>6. (pc \in {"list", "settings", "extensions", "cuda", "update", "append"} => ~ep.on)'
    BY <1>5, <2>4
  <2>7. (pc \in {"list", "settings", "extensions", "cuda", "update", "append", "readback"} =>
             ~echo.cuda.on /\ DOMAIN echo.cuda.opts = {})'
    BY <1>5, <2>4
  <2>8. (pc \in {"load", "inputs", "outputs", "built"} =>
             echo.cuda.on = ep.on /\ \A k \in DOMAIN echo.cuda.opts : echo.cuda.opts[k] = ep.opts[k])'
    <3>1. CASE pc = "cuda"
      <4>1. ~echo.cuda.on /\ DOMAIN echo.cuda.opts = {} /\ ~ep.on
        BY <2>4, <3>1
      <4>2. echo.cuda.on = ep.on
        BY <1>1, <4>1
      <4> QED BY <1>5, <4>1, <4>2
    <3>2. CASE pc # "cuda"
      BY <1>5, <2>4, <3>2
    <3> QED BY <3>1, <3>2
  <2>9. (pc = "readback" => ep = handle)'
    BY <1>5, <2>4
  <2> QED BY <2>2, <2>3, <2>5, <2>6, <2>7, <2>8, <2>9 DEF CudaInv
<1> USE DEF sourceVars, cudaVars, Throw
<1>6. CASE CreateFromList \/ apply_session_options \/ RegisterExtension \/ RegisterFails
  <2>1. echo'.cuda = echo.cuda
    <3>1. UNCHANGED echo \/ \E x : echo' = [echo EXCEPT !.settings = x] \/ echo' = [echo EXCEPT !.extensions = x]
      BY <1>6 DEF CreateFromList, apply_session_options, RegisterExtension, RegisterFails
    <3> QED BY <1>1, <3>1
  <2>2. /\ UNCHANGED <<option, handle, ep>> /\ pc \in {"list", "settings", "extensions"}
        /\ pc' \in {"settings", "extensions", "cuda", "failed"}
    BY <1>6 DEF CreateFromList, apply_session_options, RegisterExtension, RegisterFails
  <2> QED BY <1>5, <2>1, <2>2
<1>7. CASE SkipCuda \/ CudaUnavailable
  BY <1>5, <1>7 DEF SkipCuda, CudaUnavailable
<1>8. CASE CreateHandle
  BY <1>8 DEF CreateHandle, CudaInv
<1>9. CASE update_all
  <2>1. handle.on /\ DOMAIN handle.opts = DOMAIN CudaDefaults /\ DOMAIN CudaKeys \subseteq DOMAIN CudaDefaults
    BY <1>9 DEF update_all, CudaInv
  <2> DEFINE new == UpdateCUDAProviderOptions(handle.opts, CudaKeys)
  <2>2. handle' = [handle EXCEPT !.opts = new]
    BY <1>9 DEF update_all
  <2> HIDE DEF new
  <2>3. handle'.opts = new /\ handle'.on = handle.on
    BY <1>1, <2>2
  <2>4. DOMAIN new = DOMAIN CudaDefaults /\ Given(new)
    BY <2>1, UpdateGives DEF new
  <2>5. CudaKeys' = CudaKeys /\ UNCHANGED <<ep, echo>> /\ pc = "update" /\ pc' = "append"
    BY <1>3, <1>9 DEF update_all
  <2>6. Given(handle.opts)' /\ (DOMAIN handle.opts = DOMAIN CudaDefaults)'
    BY <2>3, <2>4, <2>5 DEF Given, CudaDefaults
  <2> QED BY <2>1, <2>3, <2>5, <2>6 DEF CudaInv
<1>10. CASE CudaFails
  <2>1. CudaKeys' = CudaKeys /\ UNCHANGED <<ep, echo>> /\ handle' = NoCuda /\ pc' = "failed"
    BY <1>3, <1>10 DEF CudaFails
  <2>2. (ep.on => Given(ep.opts))'
    BY <2>1 DEF CudaInv, Given
  <2> QED BY <2>1, <2>2 DEF CudaInv, NoCuda
<1>11. CASE AppendProvider
  <2>1. CudaKeys' = CudaKeys /\ UNCHANGED <<handle, echo>> /\ ep' = handle /\ pc = "append" /\ pc' = "readback"
    BY <1>3, <1>11 DEF AppendProvider
  <2>2. Given(handle.opts)' /\ Given(ep.opts)' /\ (handle.on => DOMAIN handle.opts = DOMAIN CudaDefaults)'
    BY <2>1 DEF CudaInv, Given, CudaDefaults
  <2> QED BY <2>1, <2>2 DEF CudaInv
<1>12. CASE ReadBack
  <2>1. PICK keys : /\ keys \subseteq DOMAIN handle.opts
                    /\ echo' = [echo EXCEPT !.cuda = [on |-> TRUE, opts |-> [k \in keys |-> handle.opts[k]]]]
    BY <1>12 DEF ReadBack
  <2>2. echo'.cuda = [on |-> TRUE, opts |-> [k \in keys |-> handle.opts[k]]]
    BY <1>1, <2>1
  <2>3. echo'.cuda.on /\ \A k \in DOMAIN echo'.cuda.opts : echo'.cuda.opts[k] = handle.opts[k]
    BY <2>2
  <2>4. /\ CudaKeys' = CudaKeys /\ UNCHANGED ep /\ handle' = NoCuda /\ pc = "readback" /\ pc' = "load"
        /\ ep = handle /\ handle.on
    BY <1>3, <1>12 DEF ReadBack, CudaInv
  <2>5. (ep.on => Given(ep.opts))'
    BY <2>4 DEF CudaInv, Given
  <2> QED BY <2>3, <2>4, <2>5 DEF CudaInv, NoCuda
<1>13. CASE LoadModel
  <2>1. PICK x : echo' = [echo EXCEPT !.overrides = x]
    BY <1>13 DEF LoadModel
  <2>2. echo'.cuda = echo.cuda
    BY <1>1, <2>1
  <2> QED BY <1>5, <1>13, <2>2 DEF LoadModel
<1>14. CASE LoopEnds
  <2>1. PICK x : echo' = [echo EXCEPT !.overrides = x]
    BY <1>14 DEF LoopEnds
  <2>2. echo'.cuda = echo.cuda
    BY <1>1, <2>1
  <2> QED BY <1>5, <1>14, <2>2 DEF LoopEnds
<1>15. CASE LoadFails \/ override_shape \/ OverrideFails
  BY <1>5, <1>15 DEF LoadFails, override_shape, OverrideFails, MoreValues
<1>16. CASE UNCHANGED vars
  BY <1>5, <1>16 DEF vars
<1> QED
  BY <1>4, <1>6, <1>7, <1>8, <1>9, <1>10, <1>11, <1>12, <1>13, <1>14, <1>15, <1>16 DEF Next
-----------------------------------------------------------------------------
(* The libraries registered. *)

\* What an option names is a sequence, and what is collected of it is that
\* sequence's strings, each once and in order.
LEMMA Wanted ==
  ASSUME NEW json, ArraysAreSequences(json)
  PROVE  /\ Sequence(ExtensionItems(json)) /\ Sequence(ToCollect(json)) /\ Sequence(collect_extensions(json))
         /\ OnceInOrder(collect_extensions(json), [k \in RequestNames(ToCollect(json)) |-> ToCollect(json)[k]])
<1> DEFINE items == ExtensionItems(json)
           last == IF Has(json, "ortextensions_path") THEN <<Get(json, "ortextensions_path")>> ELSE <<>>
           V == Range(items) \cup {Get(json, "ortextensions_path")}
           W == Range(items)
<1>1. Sequence(items)
  <2>1. CASE Has(json, "extensions") /\ IsArray(Get(json, "extensions"))
    BY <2>1 DEF ArraysAreSequences, ExtensionItems
  <2>2. CASE ~(Has(json, "extensions") /\ IsArray(Get(json, "extensions")))
    <3>1. items = <<>> /\ <<>> \in Seq({})
      BY <2>2 DEF ExtensionItems
    <3> QED BY <3>1, SequenceFacts
  <2> QED BY <2>1, <2>2
<1>2. items \in Seq(V)
  <2>1. items \in Seq(W) /\ W \subseteq V
    BY <1>1 DEF Sequence
  <2> HIDE DEF items, V, W
  <2> QED BY <2>1, SeqMonotonic
<1>3. last \in Seq(V)
  <2>1. Get(json, "ortextensions_path") \in V
    OBVIOUS
  <2> HIDE DEF V
  <2> QED BY <2>1
<1>4. ToCollect(json) = items \o last
  BY DEF ToCollect
<1>5. ToCollect(json) \in Seq(V)
  <2> HIDE DEF items, last, V
  <2> QED BY <1>2, <1>3, <1>4
<1> DEFINE all == ToCollect(json)
<1>6. collect_extensions(json) = Collected(all)[Len(all)]
  BY DEF collect_extensions
<1> HIDE DEF V, items
<1>7. collect_extensions(json) \in Seq(V) /\ OnceInOrder(collect_extensions(json), [k \in RequestNames(all) |-> all[k]])
  <2> HIDE DEF all
  <2>1. all \in Seq(V)
    BY <1>5 DEF all
  <2> QED BY <1>6, <2>1, CollectsOnceInOrder
<1>8. Sequence(all) /\ Sequence(collect_extensions(json))
  BY <1>5, <1>7, SequenceFacts
<1> QED BY <1>1, <1>7, <1>8 DEF items

\* What is registered is always a beginning of what was asked for.
LEMMA LibrariesStep ==
  ASSUME TypeOK, ListInv, LibrariesInv, [Next]_vars PROVE LibrariesInv'
<1> DEFINE wanted == collect_extensions(option)
<1>1. DOMAIN echo = {"cuda", "settings", "extensions", "overrides"}
  BY DEF TypeOK
<1>2. Sequence(registered) /\ Len(registered) \in Nat /\ DOMAIN registered = 1..Len(registered)
  BY SequenceFacts DEF LibrariesInv
<1>3. Sequence(wanted) /\ Len(wanted) \in Nat /\ DOMAIN wanted = 1..Len(wanted)
  BY SequenceFacts, Wanted DEF ListInv
<1>4. ASSUME UNCHANGED option PROVE wanted' = wanted
  BY <1>4 DEF collect_extensions, Collected, ToCollect, ExtensionItems, Contains
<1> HIDE DEF wanted
<1>5. /\ pc \in {"list", "settings"} => registered = <<>>
      /\ pc = "extensions" => /\ Len(registered) <= Len(wanted)
                              /\ \A k \in 1..Len(registered) : registered[k] = wanted[k]
      /\ pc \in {"cuda", "update", "append", "readback", "load", "inputs", "outputs", "built"} =>
           registered = wanted /\ echo.extensions = wanted
  BY DEF LibrariesInv, wanted
<1>6. ASSUME Sequence(registered'),
             pc' \in {"list", "settings"} => registered' = <<>>,
             pc' = "extensions" => /\ Len(registered') <= Len(wanted')
                                   /\ \A k \in 1..Len(registered') : registered'[k] = wanted'[k],
             pc' \in {"cuda", "update", "append", "readback", "load", "inputs", "outputs", "built"} =>
               registered' = wanted' /\ echo'.extensions = wanted'
      PROVE  LibrariesInv'
  BY <1>6 DEF LibrariesInv, wanted, Sequence
<1> USE DEF sourceVars, cudaVars, Throw
<1>7. ASSUME NEW e \in Entries, ReadEntry(e) PROVE LibrariesInv'
  BY <1>2, <1>5, <1>6, <1>7 DEF ReadEntry
<1>8. ASSUME UNCHANGED <<option, registered>>, echo'.extensions = echo.extensions,
             \/ pc' = "failed"
             \/ pc = "list" /\ pc' = "settings"
             \/ pc \in {"cuda", "update", "append", "readback", "load", "inputs", "outputs"}
                /\ pc' \in {"update", "append", "readback", "load", "inputs", "outputs", "built"}
             \/ pc' = pc
      PROVE  LibrariesInv'
  <2>1. wanted' = wanted
    BY <1>4, <1>8
  <2> QED BY <1>2, <1>5, <1>6, <1>8, <2>1
<1>9. CASE apply_session_options
  <2>1. /\ UNCHANGED <<option, registered>> /\ pc = "settings" /\ pc' = "extensions"
    BY <1>9 DEF apply_session_options
  <2>2. wanted' = wanted /\ registered = <<>> /\ registered' = registered
    BY <1>4, <1>5, <2>1
  <2>3. Len(registered) = 0
    BY <2>2
  <2>4. Len(registered') <= Len(wanted') /\ \A k \in 1..Len(registered') : registered'[k] = wanted'[k]
    BY <1>3, <2>2, <2>3
  <2> QED BY <1>2, <1>6, <2>1, <2>2, <2>4
<1>10. CASE RegisterExtension
  <2>1. pc = "extensions" /\ Len(registered) <= Len(wanted) /\ wanted' = wanted
    BY <1>4, <1>5, <1>10 DEF RegisterExtension
  <2>2. CASE Len(registered) < Len(wanted)
    <3>1. registered' = Append(registered, wanted[Len(registered) + 1]) /\ pc' = pc
      BY <1>10, <2>2 DEF RegisterExtension, wanted
    <3> DEFINE l == Len(registered)
               new == Append(registered, wanted[l + 1])
    <3>2. /\ Sequence(new) /\ Len(new) = l + 1 /\ new[l + 1] = wanted[l + 1]
          /\ \A k \in 1..l : new[k] = registered[k]
      BY <1>2, SequenceFacts
    <3>3. l \in Nat /\ l < Len(wanted) /\ \A k \in 1..l : registered[k] = wanted[k]
      BY <1>2, <1>5, <2>1, <2>2
    <3>4. registered' = new
      BY <3>1
    <3> HIDE DEF l, new
    <3>5. \A k \in 1..l + 1 : new[k] = wanted[k]
      <4>1. \A k \in 1..l + 1 : k \in 1..l \/ k = l + 1
        BY <3>3
      <4> QED BY <3>2, <3>3, <4>1
    <3>6. Len(new) <= Len(wanted)
      BY <1>3, <3>2, <3>3
    <3> QED BY <1>6, <2>1, <3>1, <3>2, <3>4, <3>5, <3>6
  <2>3. CASE ~(Len(registered) < Len(wanted))
    <3>1. UNCHANGED registered /\ pc' = "cuda" /\ echo' = [echo EXCEPT !.extensions = wanted]
      BY <1>10, <2>3 DEF RegisterExtension, wanted
    <3>2. echo'.extensions = wanted
      BY <1>1, <3>1
    <3>3. Len(registered) = Len(wanted)
      <4>1. Len(registered) \in Nat /\ Len(wanted) \in Nat /\ Len(registered) <= Len(wanted)
        BY <1>2, <1>3, <2>1
      <4> QED BY <2>3, <4>1
    <3>4. \A k \in 1..Len(registered) : registered[k] = wanted[k]
      BY <1>5, <2>1
    <3>5. registered = wanted
      <4> DEFINE S == Range(registered) \cup Range(wanted)
      <4>1. registered \in Seq(Range(registered)) /\ wanted \in Seq(Range(wanted))
        BY <1>2, <1>3 DEF Sequence
      <4>2. Range(registered) \subseteq S /\ Range(wanted) \subseteq S
        OBVIOUS
      <4> HIDE DEF S
      <4>3. registered \in Seq(S) /\ wanted \in Seq(S)
        BY <4>1, <4>2, SeqMonotonic
      <4> QED BY <3>3, <3>4, <4>3, SeqEqual
    <3> QED BY <1>2, <1>6, <2>1, <3>1, <3>2, <3>5
  <2> QED BY <2>2, <2>3
<1>11. CASE CreateFromList \/ RegisterFails \/ CudaUnavailable \/ LoadFails \/ OverrideFails \/ CudaFails
  BY <1>8, <1>11 DEF CreateFromList, RegisterFails, CudaUnavailable, LoadFails, OverrideFails, CudaFails
<1>12. CASE SkipCuda \/ CreateHandle \/ update_all \/ AppendProvider \/ override_shape
  BY <1>8, <1>12 DEF SkipCuda, CreateHandle, update_all, AppendProvider, override_shape
<1>13. CASE ReadBack \/ LoadModel \/ LoopEnds
  <2>1. \E x : echo' = [echo EXCEPT !.cuda = x] \/ echo' = [echo EXCEPT !.overrides = x]
    BY <1>13 DEF ReadBack, LoadModel, LoopEnds
  <2>2. echo'.extensions = echo.extensions
    BY <1>1, <2>1
  <2> QED BY <1>8, <1>13, <2>2 DEF ReadBack, LoadModel, LoopEnds
<1>14. CASE UNCHANGED vars
  BY <1>8, <1>14 DEF vars
<1> QED BY <1>7, <1>9, <1>10, <1>11, <1>12, <1>13, <1>14 DEF Next
-----------------------------------------------------------------------------
(* The shapes. *)

\* The model's values, one by one: the inputs, then the outputs.
LEMMA ModelFacts ==
  /\ Len(ModelValues) \in Nat /\ DOMAIN ModelValues = 1..Len(ModelValues)
  /\ \A k \in 1..Len(ModelValues) : ModelValues[k].side \in Sides /\ ModelValues[k].shape \in Seq(STRING)
  /\ \A j, k \in 1..Len(ModelValues) :
       j < k /\ ModelValues[j].side = "output_shape" => ModelValues[k].side = "output_shape"
<1> DEFINE R == [side : Sides, name : STRING, shape : Seq(STRING)]
<1>1. ModelValues \in Seq(R)
  BY ModelAssumption
<1>2. \A v \in R : v.side \in Sides /\ v.shape \in Seq(STRING)
  OBVIOUS
<1> HIDE DEF R
<1>3. Len(ModelValues) \in Nat /\ DOMAIN ModelValues = 1..Len(ModelValues)
  BY <1>1, LenProperties
<1>4. \A k \in 1..Len(ModelValues) : ModelValues[k] \in R
  BY <1>1, ElementOfSeq
<1>5. \A j, k \in DOMAIN ModelValues :
        j < k /\ ModelValues[j].side = "output_shape" => ModelValues[k].side = "output_shape"
  BY ModelAssumption
<1> QED BY <1>2, <1>3, <1>4, <1>5

\* The shape taken for the value at hand is the one given for it, or the model's.
LEMMA OverrideIsWhole ==
  ASSUME TypeOK, ListInv, ShapesInv, override_shape, NEW m, m = Len(shapes) + 1
  PROVE  ShapeIsWhole(m)'
<1> DEFINE n == Len(shapes)
           value == ModelValues[m]
           given == Get(Get(option, value.side), value.name)
           Overridden == Has(option, value.side) /\ Has(Get(option, value.side), value.name) /\ IsArray(given)
           new == [d \in DOMAIN value.shape |->
                     IF d \in DOMAIN Override THEN Override[d].value ELSE value.shape[d]]
<1>1. /\ MoreValues /\ OverrideFits /\ shapes' = Append(shapes, new) /\ option' = option
      /\ value = Current
  BY DEF override_shape, sourceVars, Current
<1>2. Sequence(shapes)
  BY DEF TypeOK
<1>3. n \in Nat /\ n + 1 \in 1..Len(ModelValues)
  <2>1. n \in Nat /\ Len(ModelValues) \in Nat /\ n < Len(ModelValues)
    BY <1>1, <1>2, SequenceFacts, ModelAssumption DEF MoreValues
  <2> HIDE DEF n
  <2> QED BY <2>1
<1>4. /\ value.side \in Sides /\ value.shape \in Seq(STRING)
  BY <1>3, ModelFacts
<1>5. shapes'[n + 1] = new
  BY <1>1, <1>2, SequenceFacts
<1>6. value.side = Side /\ pc \in {"inputs", "outputs"}
  BY <1>1 DEF MoreValues
<1>7. value.side \in echo.overrides <=> Has(option, value.side) /\ IsObject(Get(option, value.side))
  <2>1. CASE pc = "inputs"
    BY <1>4, <2>1 DEF ShapesInv
  <2>2. CASE pc = "outputs"
    <3>1. value.side # "input_shape"
      BY <1>6, <2>2 DEF Side
    <3> QED BY <1>4, <2>2, <3>1 DEF ShapesInv
  <2> QED BY <1>6, <2>1, <2>2
<1>8. Override = IF Overridden THEN given.items
                 ELSE [d \in DOMAIN value.shape |-> Scalar("integer", value.shape[d])]
  BY <1>1, <1>7 DEF Override, Has
<1>9. Len(Override) = Len(value.shape) /\ \A d \in DOMAIN Override : Override[d].kind = "integer"
  BY <1>1 DEF OverrideFits, IsDimension
<1>10. DOMAIN value.shape = 1..Len(value.shape) /\ value.shape = [d \in DOMAIN value.shape |-> value.shape[d]]
  BY <1>4
<1>13. m = n + 1
  OBVIOUS
<1> HIDE DEF value, new, given
<1>11. CASE Overridden
  <2>1. Override = given.items
    BY <1>8, <1>11
  <2>2. Sequence(given.items)
    BY <1>4, <1>11 DEF ListInv, ArraysAreSequences, Has, given, IsArray
  <2>3. DOMAIN given.items = 1..Len(given.items)
    BY <2>2, SequenceFacts
  <2>4. DOMAIN given.items = DOMAIN value.shape /\ Len(given.items) = Len(value.shape)
    BY <1>9, <1>10, <2>1, <2>3
  <2>5. new = [d \in DOMAIN given.items |-> given.items[d].value]
    BY <2>1, <2>4 DEF new
  <2>6. shapes'[n + 1] = [d \in DOMAIN given.items |-> given.items[d].value]
    BY <1>5, <2>5
  <2> HIDE DEF n
  <2>7. /\ shapes'[m] = [d \in DOMAIN given'.items |-> given'.items[d].value]
        /\ Len(given'.items) = Len(value.shape)
        /\ \A d \in DOMAIN given'.items : given'.items[d].kind = "integer"
    <3>1. given' = given
      BY <1>1 DEF given, value, Get
    <3>2. \A d \in DOMAIN given.items : given.items[d].kind = "integer"
      BY <1>9, <2>1
    <3> QED BY <1>13, <2>4, <2>6, <3>1, <3>2
  <2>8. Overridden'
    BY <1>1, <1>11 DEF given, value, Get, Has, IsObject, IsArray
  <2> QED BY <2>7, <2>8 DEF ShapeIsWhole, value, given
<1>12. CASE ~Overridden
  <2>1. Override = [d \in DOMAIN value.shape |-> Scalar("integer", value.shape[d])]
    BY <1>8, <1>12
  <2>2. \A t : Scalar("integer", t).value = t
    BY DEF Scalar
  <2>3. \A d \in DOMAIN value.shape : d \in DOMAIN Override /\ Override[d].value = value.shape[d]
    BY <2>1, <2>2
  <2>4. new = [d \in DOMAIN value.shape |-> value.shape[d]]
    BY <2>3 DEF new
  <2>5. new = value.shape
    BY <1>10, <2>4
  <2>6. shapes'[n + 1] = value.shape
    BY <1>5, <2>5
  <2> HIDE DEF n
  <2> QED BY <1>1, <1>12, <1>13, <2>6 DEF ShapeIsWhole, value, given, Has, Get, IsObject, IsArray
<1> QED BY <1>11, <1>12

\* The shapes are read in the order of the model, each whole.
LEMMA ShapesStep ==
  ASSUME TypeOK, ListInv, ShapesInv, [Next]_vars PROVE ShapesInv'
<1> DEFINE given == {side \in Sides : Has(option, side) /\ IsObject(Get(option, side))}
<1>1. /\ ort_session <=> pc \in {"inputs", "outputs", "built"}
      /\ \A k \in 1..Len(shapes) : ShapeIsWhole(k)
      /\ pc \in {"inputs", "outputs", "built", "failed"} \/ shapes = <<>>
      /\ pc = "inputs" => echo.overrides = given
      /\ pc = "outputs" => /\ echo.overrides = given \ {"input_shape"}
                           /\ \A k \in Len(shapes) + 1..Len(ModelValues) : ModelValues[k].side = "output_shape"
      /\ pc = "built" => Len(shapes) = Len(ModelValues)
  BY DEF ShapesInv
<1>2. DOMAIN echo = {"cuda", "settings", "extensions", "overrides"}
  BY DEF TypeOK
<1>3. Sequence(shapes) /\ Len(shapes) \in Nat /\ Len(ModelValues) \in Nat /\ Len(shapes) <= Len(ModelValues)
  BY SequenceFacts, ModelAssumption DEF TypeOK
<1>4. ASSUME UNCHANGED option PROVE given' = given
  BY <1>4
<1> HIDE DEF given
<1>5. ASSUME ort_session' <=> pc' \in {"inputs", "outputs", "built"},
             \A k \in 1..Len(shapes') : ShapeIsWhole(k)',
             pc' \in {"inputs", "outputs", "built", "failed"} \/ shapes' = <<>>,
             pc' = "inputs" => echo'.overrides = given',
             pc' = "outputs" =>
               /\ echo'.overrides = given' \ {"input_shape"}
               /\ \A k \in Len(shapes') + 1..Len(ModelValues) : ModelValues[k].side = "output_shape",
             pc' = "built" => Len(shapes') = Len(ModelValues)
      PROVE  ShapesInv'
  BY <1>5 DEF ShapesInv, given
<1>6. ASSUME UNCHANGED option, NEW k \in 1..Len(shapes), shapes'[k] = shapes[k] PROVE ShapeIsWhole(k)'
  <2>1. ShapeIsWhole(k)
    BY <1>1
  <2> QED BY <1>6, <2>1 DEF ShapeIsWhole, Has, Get, IsObject, IsArray
<1> USE DEF sourceVars, cudaVars, Throw
<1>7. ASSUME NEW e \in Entries, ReadEntry(e) PROVE ShapesInv'
  <2>1. pc = "list" /\ UNCHANGED <<pc, ort_session, shapes, echo>>
    BY <1>7 DEF ReadEntry
  <2>2. shapes = <<>>
    BY <1>1, <2>1
  <2> QED BY <1>1, <1>5, <2>1, <2>2
<1>8. ASSUME UNCHANGED <<option, shapes>>,
             \/ pc' = "failed" /\ ort_session' = FALSE
             \/ /\ pc \notin {"inputs", "outputs", "built"} /\ pc' \notin {"inputs", "outputs", "built"}
                /\ pc # "failed" /\ UNCHANGED ort_session
             \/ UNCHANGED <<pc, ort_session>> /\ echo'.overrides = echo.overrides
      PROVE  ShapesInv'
  <2>1. \A k \in 1..Len(shapes') : ShapeIsWhole(k)'
    BY <1>6, <1>8
  <2>2. given' = given
    BY <1>4, <1>8
  <2> QED BY <1>1, <1>5, <1>8, <2>1, <2>2
<1>9. CASE CreateFromList \/ apply_session_options \/ RegisterExtension \/ SkipCuda \/ CreateHandle
  BY <1>8, <1>9 DEF CreateFromList, apply_session_options, RegisterExtension, SkipCuda, CreateHandle
<1>10. CASE update_all \/ AppendProvider \/ ReadBack
  BY <1>8, <1>10 DEF update_all, AppendProvider, ReadBack
<1>11. CASE RegisterFails \/ CudaUnavailable \/ CudaFails \/ LoadFails \/ OverrideFails
  <2>1. UNCHANGED <<option, shapes>> /\ pc' = "failed" /\ (ort_session' = FALSE \/ UNCHANGED ort_session)
    BY <1>11 DEF RegisterFails, CudaUnavailable, CudaFails, LoadFails, OverrideFails
  <2>2. ort_session' = FALSE
    <3>1. CASE OverrideFails
      BY <3>1 DEF OverrideFails
    <3>2. CASE RegisterFails \/ CudaUnavailable \/ CudaFails \/ LoadFails
      <4>1. pc \notin {"inputs", "outputs", "built"} /\ UNCHANGED ort_session
        BY <3>2 DEF RegisterFails, CudaUnavailable, CudaFails, LoadFails
      <4>2. ort_session \in BOOLEAN
        BY DEF TypeOK
      <4> QED BY <1>1, <4>1, <4>2
    <3> QED BY <1>11, <3>1, <3>2
  <2> QED BY <1>8, <2>1, <2>2
<1>12. CASE LoadModel
  <2>1. /\ pc = "load" /\ pc' = "inputs" /\ ort_session' = TRUE /\ UNCHANGED <<option, shapes>>
        /\ echo' = [echo EXCEPT !.overrides = given]
    BY <1>12 DEF LoadModel, given
  <2>2. echo'.overrides = given /\ given' = given
    BY <1>2, <1>4, <2>1
  <2>3. \A k \in 1..Len(shapes') : ShapeIsWhole(k)'
    BY <1>6, <2>1
  <2> QED BY <1>5, <2>1, <2>2, <2>3
<1>13. CASE override_shape
  <2> DEFINE n == Len(shapes)
  <2>1. /\ UNCHANGED <<option, pc, ort_session, echo>> /\ \E x : shapes' = Append(shapes, x)
        /\ pc \in {"inputs", "outputs"}
    BY <1>13 DEF override_shape, MoreValues
  <2>2. Len(shapes') = n + 1 /\ \A k \in 1..n : shapes'[k] = shapes[k]
    BY <1>3, <2>1, SequenceFacts
  <2>3. \A k : k = n + 1 => ShapeIsWhole(k)'
    BY <1>13, OverrideIsWhole
  <2>4. \A k \in 1..n : ShapeIsWhole(k)'
    BY <1>6, <2>1, <2>2
  <2>5. n \in Nat
    BY <1>3
  <2>6. \A k \in 1..Len(shapes') : ShapeIsWhole(k)'
    <3>1. \A k \in 1..n + 1 : k \in 1..n \/ k = n + 1
      <4> HIDE DEF n
      <4> QED BY <2>5
    <3>2. SUFFICES ASSUME NEW k \in 1..Len(shapes') PROVE ShapeIsWhole(k)'
      OBVIOUS
    <3>3. k \in 1..n \/ k = n + 1
      BY <2>2, <3>1
    <3> QED BY <2>3, <2>4, <3>3
  <2>7. given' = given
    BY <1>4, <2>1
  <2>8. pc = "outputs" => \A k \in Len(shapes') + 1..Len(ModelValues) : ModelValues[k].side = "output_shape"
    <3>1. \A k \in Len(shapes') + 1..Len(ModelValues) : k \in n + 1..Len(ModelValues)
      <4> HIDE DEF n
      <4> QED BY <1>3, <2>2, <2>5
    <3> QED BY <1>1, <3>1
  <2> QED BY <1>1, <1>5, <2>1, <2>6, <2>7, <2>8
<1>14. CASE LoopEnds
  <2> DEFINE n == Len(shapes)
             m == Len(ModelValues)
  <2>1. /\ UNCHANGED <<option, shapes, ort_session>> /\ echo' = [echo EXCEPT !.overrides = @ \ {Side}]
        /\ pc \in {"inputs", "outputs"} /\ pc' = IF pc = "inputs" THEN "outputs" ELSE "built"
        /\ ~MoreValues
    BY <1>14 DEF LoopEnds
  <2>2. echo'.overrides = echo.overrides \ {Side} /\ given' = given
    BY <1>2, <1>4, <2>1
  <2>3. \A k \in 1..Len(shapes') : ShapeIsWhole(k)'
    BY <1>6, <2>1
  <2>4. n \in Nat /\ m \in Nat /\ n <= m
    BY <1>3
  <2>5. n < m => ModelValues[n + 1].side # Side
    BY <2>1 DEF MoreValues, Current
  <2>6. n < m => n + 1 \in 1..m
    <3> HIDE DEF n, m
    <3> QED BY <2>4
  <2>7. \A k \in 1..m : ModelValues[k].side \in Sides
    BY ModelFacts
  <2>8. \A j, k \in 1..m : j < k /\ ModelValues[j].side = "output_shape" => ModelValues[k].side = "output_shape"
    BY ModelFacts
  <2> HIDE DEF n, m
  <2>9. CASE pc = "inputs"
    <3>1. n < m => ModelValues[n + 1].side = "output_shape"
      BY <2>5, <2>6, <2>7, <2>9 DEF Side, Sides
    <3>2. ASSUME NEW k \in n + 1..m PROVE ModelValues[k].side = "output_shape"
      <4>1. n < m /\ k \in 1..m /\ (k = n + 1 \/ n + 1 < k)
        BY <2>4
      <4> QED BY <2>6, <2>8, <3>1, <4>1
    <3>3. \A k \in Len(shapes') + 1..Len(ModelValues) : ModelValues[k].side = "output_shape"
      BY <2>1, <3>2 DEF n, m
    <3>4. echo'.overrides = given' \ {"input_shape"} /\ pc' = "outputs"
      BY <1>1, <2>1, <2>2, <2>9 DEF Side
    <3> QED BY <1>1, <1>5, <2>1, <2>3, <3>3, <3>4
  <2>10. CASE pc = "outputs"
    <3>1. pc' = "built"
      BY <2>1, <2>10
    <3>2. ~(n < m)
      <4> SUFFICES ASSUME n < m PROVE FALSE
        OBVIOUS
      <4>1. n + 1 \in n + 1..m
        BY <2>4
      <4>2. ModelValues[n + 1].side = "output_shape"
        BY <1>1, <2>10, <4>1 DEF n, m
      <4> QED BY <2>5, <2>10, <4>2 DEF Side
    <3>3. n = m
      BY <2>4, <3>2
    <3> QED BY <1>1, <1>5, <2>1, <2>3, <2>10, <3>1, <3>3 DEF n, m
  <2> QED BY <2>1, <2>9, <2>10
<1>15. CASE UNCHANGED vars
  BY <1>8, <1>15 DEF vars
<1> QED BY <1>7, <1>9, <1>10, <1>11, <1>12, <1>13, <1>14, <1>15 DEF Next
-----------------------------------------------------------------------------
(* The item read so far. *)

\* No setting is made of an object.
LEMMA NoSettingIsAnObject ==
  \A n \in Settings : "object" \notin SettingKinds[n]
<1>1. DOMAIN SettingKinds =
        {"intra_op_num_threads", "inter_op_num_threads", "log_severity_level", "logid",
         "optimized_model_filepath", "execution_mode", "graph_optimization_level",
         "enable_cpu_mem_arena", "enable_mem_pattern", "enable_profiling"}
  BY DEF SettingKinds
<1>2. /\ SettingKinds.intra_op_num_threads = {"integer"} /\ SettingKinds.inter_op_num_threads = {"integer"}
      /\ SettingKinds.log_severity_level = {"integer"} /\ SettingKinds.logid = {"string"}
      /\ SettingKinds.optimized_model_filepath = {"string"} /\ SettingKinds.execution_mode = {"string"}
      /\ SettingKinds.graph_optimization_level = {"string"} /\ SettingKinds.enable_cpu_mem_arena = {"boolean"}
      /\ SettingKinds.enable_mem_pattern = {"boolean"} /\ SettingKinds.enable_profiling = {"boolean"}
  BY DEF SettingKinds
<1>3. \A n \in DOMAIN SettingKinds : SettingKinds[n] \in {{"integer"}, {"string"}, {"boolean"}}
  BY <1>1, <1>2
<1> QED BY <1>3 DEF Settings
\* A beginning of a sequence agrees with it place by place.
LEMMA PrefixByPlaces ==
  ASSUME NEW V, NEW s \in Seq(V), NEW t \in Seq(V)
  PROVE  IsPrefix(s, t) <=> Len(s) <= Len(t) /\ \A k \in 1..Len(s) : s[k] = t[k]
<1> DEFINE m == Len(s)
<1>1. m \in Nat /\ Len(t) \in Nat
  OBVIOUS
<1>2. ASSUME m <= Len(t)
      PROVE  SubSeq(s, 1, m) = SubSeq(t, 1, m) <=> \A k \in 1..m : s[k] = t[k]
  <2> DEFINE a == SubSeq(s, 1, m)
             b == SubSeq(t, 1, m)
  <2>1. a = s
    BY SubSeqFull
  <2>2. b \in Seq(V) /\ Len(b) = m /\ \A k \in 1..m : b[k] = t[k]
    <3>1. 1 \in Int /\ m \in Int
      BY <1>1
    <3>2. \A k \in 1..m : k \in 1..Len(t)
      <4> HIDE DEF m
      <4> QED BY <1>1, <1>2
    <3>3. SubSeq(t, 1, m) = [k \in 1..m |-> t[k]]
      BY <1>1, <1>2
    <3> QED BY <1>1, <1>2, <3>2, <3>3
  <2> HIDE DEF a, b, m
  <2>3. a = b => \A k \in 1..m : s[k] = t[k]
    BY <2>1, <2>2
  <2>4. (\A k \in 1..m : s[k] = t[k]) => a = b
    <3>1. s \in Seq(V) /\ b \in Seq(V) /\ Len(s) = Len(b)
      BY <2>2 DEF m
    <3>2. (\A k \in 1..m : s[k] = t[k]) => \A k \in 1..Len(s) : s[k] = b[k]
      BY <2>2 DEF m
    <3>3. (\A k \in 1..m : s[k] = t[k]) => s = b
      BY <3>1, <3>2, SeqEqual
    <3> QED BY <2>1, <3>3
  <2> QED BY <2>3, <2>4 DEF a, b
<1> QED BY <1>2 DEF IsPrefix
\* The entries that concern a setting: one for the group, for the setting or for
\* something inside it.
LEMMA ConcernsSetting ==
  ASSUME NEW e, e.path \in Seq(STRING) \ {<<>>}, NEW n
  PROVE  LET path == <<"session_options", n>> IN
         /\ Concerns(e, path) <=> e.path[1] = "session_options" /\ (Len(e.path) = 1 \/ e.path[2] = n)
         /\ e.path = path <=> Len(e.path) = 2 /\ e.path[1] = "session_options" /\ e.path[2] = n
<1> DEFINE V == STRING \cup {"session_options", n}
           p == e.path
           path == <<"session_options", n>>
           l == Len(p)
<1>1. p \in Seq(V)
  <2>1. p \in Seq(STRING) /\ STRING \subseteq V
    OBVIOUS
  <2> HIDE DEF p, V
  <2> QED BY <2>1, SeqMonotonic
<1>2. path \in Seq(V) /\ Len(path) = 2 /\ path[1] = "session_options" /\ path[2] = n
  OBVIOUS
<1>3. l \in Nat /\ l >= 1
  OBVIOUS
<1> HIDE DEF V, p, path
<1>4. IsPrefix(p, path) <=> l <= 2 /\ \A k \in 1..l : p[k] = path[k]
  <2>1. IsPrefix(p, path) <=> Len(p) <= Len(path) /\ \A k \in 1..Len(p) : p[k] = path[k]
    BY <1>1, <1>2, PrefixByPlaces
  <2> QED BY <1>2, <2>1
<1>5. IsPrefix(path, p) <=> 2 <= l /\ \A k \in 1..2 : path[k] = p[k]
  <2>1. IsPrefix(path, p) <=> Len(path) <= Len(p) /\ \A k \in 1..Len(path) : path[k] = p[k]
    <3>1. ASSUME NEW s \in Seq(V), NEW t \in Seq(V)
          PROVE  IsPrefix(s, t) <=> Len(s) <= Len(t) /\ \A k \in 1..Len(s) : s[k] = t[k]
      BY PrefixByPlaces
    <3>2. path \in Seq(V)
      BY <1>2
    <3> HIDE DEF l
    <3> QED BY <1>1, <3>1, <3>2, Zenon
  <2> QED BY <1>2, <2>1
<1>6. p = path <=> l = 2 /\ p[1] = path[1] /\ p[2] = path[2]
  <2>1. \A k \in 1..2 : k = 1 \/ k = 2
    OBVIOUS
  <2>2. l = 2 /\ p[1] = path[1] /\ p[2] = path[2] => \A k \in 1..Len(p) : p[k] = path[k]
    BY <2>1
  <2>3. l = 2 /\ p[1] = path[1] /\ p[2] = path[2] => p = path
    BY <1>1, <1>2, <2>2, SeqEqual
  <2> QED BY <1>2, <2>3
<1> HIDE DEF l
<1>7. CASE l = 1
  <2>1. \A k \in 1..1 : k = 1
    OBVIOUS
  <2>2. 1 \in 1..1 /\ 1 <= 2 /\ ~(2 <= 1)
    OBVIOUS
  <2> QED BY <1>2, <1>4, <1>5, <1>6, <1>7, <2>1, <2>2 DEF Concerns, p, path, l
<1>8. CASE l = 2
  <2>1. (\A k \in 1..2 : k = 1 \/ k = 2) /\ 1 \in 1..2 /\ 2 \in 1..2 /\ 2 <= 2 /\ 2 # 1
    OBVIOUS
  <2> QED BY <1>2, <1>4, <1>5, <1>6, <1>8, <2>1 DEF Concerns, p, path, l
<1>9. CASE l > 2
  <2>1. (\A k \in 1..2 : k = 1 \/ k = 2) /\ 1 \in 1..2 /\ 2 \in 1..2
    OBVIOUS
  <2>2. ~(l <= 2) /\ 2 <= l /\ l # 1 /\ l # 2
    BY <1>3, <1>9
  <2> QED BY <1>2, <1>4, <1>5, <1>6, <2>1, <2>2 DEF Concerns, p, path, l
<1>10. l = 1 \/ l = 2 \/ l > 2
  BY <1>3
<1> QED BY <1>7, <1>8, <1>9, <1>10

\* A list in the order of what is named stays so when one more is named.
LEMMA OneMoreNamed ==
  ASSUME NEW s, Sequence(s), NEW names, NEW more, NEW v, NEW n \in Nat,
         DOMAIN names \subseteq 1..n, DOMAIN more = DOMAIN names \cup {n + 1},
         \A k \in DOMAIN names : more[k] = names[k], more[n + 1] = v,
         OnceInOrder(s, names)
  PROVE  OnceInOrder(IF Contains(s, v) THEN s ELSE Append(s, v), more)
<1> DEFINE l == Len(s)
           t == Append(s, v)
<1>1. l \in Nat /\ DOMAIN s = 1..l
  BY SequenceFacts
<1>2. /\ DOMAIN t = 1..l + 1 /\ t[l + 1] = v /\ \A k \in 1..l : t[k] = s[k]
  BY SequenceFacts
<1>3. \A k \in DOMAIN names : k \in Int /\ k < n + 1
  OBVIOUS
<1>4. Range(more) = Range(names) \cup {v}
  <2>1. n + 1 \in DOMAIN more
    OBVIOUS
  <2> QED BY <2>1 DEF Range
<1>5. Contains(s, v) <=> v \in Range(s)
  BY <1>1 DEF Contains, Range
<1>6. /\ Range(s) = Range(names)
      /\ \A j, k \in DOMAIN s : j < k =>
           \E a \in DOMAIN names : names[a] = s[j] /\ \A b \in DOMAIN names : names[b] = s[k] => a < b
  BY DEF OnceInOrder
<1> HIDE DEF l, t
\* The first place of what stands before keeps its lead over the new one.
<1>7. ASSUME NEW j \in DOMAIN s, NEW k \in DOMAIN s, j < k
      PROVE  \E a \in DOMAIN more : more[a] = s[j] /\ \A b \in DOMAIN more : more[b] = s[k] => a < b
  <2>1. PICK a \in DOMAIN names : names[a] = s[j] /\ \A b \in DOMAIN names : names[b] = s[k] => a < b
    BY <1>6, <1>7
  <2> QED BY <1>3, <2>1
<1>8. CASE v \in Range(s)
  <2>1. Range(s) = Range(more)
    BY <1>4, <1>6, <1>8
  <2> QED BY <1>5, <1>7, <1>8, <2>1 DEF OnceInOrder
<1>9. CASE v \notin Range(s)
  <2>1. Range(t) = Range(more)
    <3>1. Range(t) = Range(s) \cup {v}
      <4>1. l + 1 \in 1..l + 1 /\ \A k \in 1..l + 1 : k \in 1..l \/ k = l + 1
        BY <1>1
      <4>2. 1..l \subseteq 1..l + 1
        BY <1>1
      <4> QED BY <1>1, <1>2, <4>1, <4>2 DEF Range
    <3> QED BY <1>4, <1>6, <3>1
  <2>2. ASSUME NEW j \in DOMAIN t, NEW k \in DOMAIN t, j < k
        PROVE  \E a \in DOMAIN more : more[a] = t[j] /\ \A b \in DOMAIN more : more[b] = t[k] => a < b
    <3>1. j \in 1..l /\ (k \in 1..l \/ k = l + 1)
      BY <1>1, <1>2, <2>2
    <3>2. CASE k \in 1..l
      <4>1. t[j] = s[j] /\ t[k] = s[k] /\ j \in DOMAIN s /\ k \in DOMAIN s
        BY <1>1, <1>2, <3>1, <3>2
      <4> QED BY <1>7, <2>2, <4>1
    <3>3. CASE k = l + 1
      <4>1. t[k] = v /\ t[j] = s[j] /\ s[j] \in Range(s)
        BY <1>1, <1>2, <3>1, <3>3 DEF Range
      <4>2. PICK a \in DOMAIN names : names[a] = s[j]
        BY <1>6, <4>1 DEF Range
      <4>3. ASSUME NEW b \in DOMAIN more, more[b] = v PROVE a < b
        <5>1. b \notin DOMAIN names
          BY <1>6, <1>9, <4>3 DEF Range
        <5>2. b = n + 1
          BY <5>1
        <5> QED BY <1>3, <5>2
      <4> QED BY <4>1, <4>2, <4>3
    <3> QED BY <3>1, <3>2, <3>3
  <2>3. ~Contains(s, v)
    BY <1>5, <1>9
  <2>4. OnceInOrder(t, more)
    BY <2>1, <2>2 DEF OnceInOrder
  <2> QED BY <2>3, <2>4 DEF t
<1> QED BY <1>8, <1>9
\* An entry leaves arrays where arrays were, and makes none of anything else.
LEMMA EntryKeepsArrays ==
  ASSUME IsObject(option), ArraysAreSequences(option), NEW e \in Entries, ReadEntry(e)
  PROVE  ArraysAreSequences(option')
<1> DEFINE new == option'
           key == e.path[1]
<1>1. e.path \in Seq(STRING) \ {<<>>} /\ IsScalar(e.value)
  BY EntriesAssumption
<1>2. ~IsArray(e.value) /\ ~IsObject(e.value)
  BY <1>1 DEF IsScalar, IsArray, IsObject
<1>3. CASE IsExtension(e)
  <2> DEFINE items == ExtensionItems(option)
             more == IF Contains(items, e.value) THEN items ELSE Append(items, e.value)
  <2>1. new = Put(option, "extensions", Array(more))
    BY <1>3 DEF ReadEntry, append_extension
  <2>2. Sequence(more)
    BY Wanted, SequenceFacts
  <2> HIDE DEF more, new
  <2>3. Get(new, "extensions").items = more
    BY <2>1, PutFields DEF Array
  <2>4. \A side \in Sides : /\ Has(new, side) <=> Has(option, side)
                            /\ Has(new, side) => Get(new, side) = Get(option, side)
    BY <2>1, PutFields DEF Sides, Has, Get
  <2> QED BY <2>2, <2>3, <2>4 DEF ArraysAreSequences, new
<1>4. CASE ~IsExtension(e)
  <2>1. new = set_nested(option, e.path, e.value)
    BY <1>4 DEF ReadEntry
  <2> DEFINE below == Get(new, key)
             old == Group(option, key)
             l == Len(e.path)
  <2>2. /\ \A k : k # key => /\ Has(new, k) <=> Has(option, k)
                             /\ Has(new, k) => Get(new, k) = Get(option, k)
        /\ l = 1 => below = e.value
        /\ l > 1 => /\ IsObject(below) /\ Has(below, e.path[2])
                    /\ \A k : k # e.path[2] => /\ Has(below, k) <=> Has(old, k)
                                               /\ Has(below, k) => Get(below, k) = Get(old, k)
                    /\ l = 2 => Get(below, e.path[2]) = e.value
                    /\ l > 2 => IsObject(Get(below, e.path[2]))
    BY <1>1, <2>1, SetNested
  <2>3. l = 1 \/ l = 2 \/ l > 2
    <3>1. l \in Nat /\ l >= 1
      BY <1>1
    <3> HIDE DEF l
    <3> QED BY <3>1
  <2>4. l = 2 => l > 1
    OBVIOUS
  <2>5. l > 2 => l > 1
    OBVIOUS
  <2> HIDE DEF new, l, old, below
  <2>6. \A json : ~(IsObject(json) /\ IsArray(json))
    BY DEF IsObject, IsArray
  <2>7. Has(new, "extensions") /\ IsArray(Get(new, "extensions")) => Sequence(Get(new, "extensions").items)
    <3>1. CASE key = "extensions"
      BY <1>2, <2>2, <2>3, <2>4, <2>5, <2>6, <3>1 DEF below
    <3>2. CASE key # "extensions"
      BY <2>2, <3>2 DEF ArraysAreSequences
    <3> QED BY <3>1, <3>2
  <2>8. ASSUME NEW side \in Sides, Has(new, side), IsObject(Get(new, side)),
               NEW name \in DOMAIN Get(new, side).fields, IsArray(Get(Get(new, side), name))
        PROVE  Sequence(Get(Get(new, side), name).items)
    <3>1. CASE key # side
      BY <2>2, <2>8, <3>1 DEF ArraysAreSequences
    <3>2. CASE key = side
      <4>1. below = Get(new, side) /\ Has(below, name)
        BY <2>8, <3>2 DEF below, Has
      <4>2. l > 1
        BY <1>2, <2>2, <2>3, <2>4, <2>5, <2>8, <4>1
      <4>3. name # e.path[2]
        BY <1>2, <2>2, <2>3, <2>4, <2>5, <2>6, <2>8, <4>1, <4>2
      <4>4. Has(old, name) /\ Get(below, name) = Get(old, name)
        BY <2>2, <4>1, <4>2, <4>3
      <4>5. Has(option, side) /\ IsObject(Get(option, side)) /\ old = Get(option, side)
        BY <3>2, <4>4 DEF old, Group, EmptyObject, Object, Has
      <4>6. name \in DOMAIN Get(option, side).fields /\ IsArray(Get(Get(option, side), name))
        BY <2>8, <4>1, <4>4, <4>5 DEF Has
      <4> QED BY <4>1, <4>4, <4>5, <4>6 DEF ArraysAreSequences
    <3> QED BY <3>1, <3>2
  <2> QED BY <2>7, <2>8 DEF ArraysAreSequences, new
<1> QED BY <1>3, <1>4

\* An item has no libraries before its first entry.
LEMMA NamedBefore ==
  ASSUME TypeOK, ListInv, pc = "list"
  PROVE  /\ OnceInOrder(ExtensionItems(option), [k \in ListNames |-> list[k].value])
         /\ \A v \in Range(ExtensionItems(option)) : v.kind = "string"
         /\ Has(option, "ortextensions_path") => Get(option, "ortextensions_path").kind # "string"
         /\ \A n \in Settings : AtSetting(n) = Said(<<"session_options", n>>)
<1>1. CASE list # <<>>
  BY <1>1 DEF ListInv, Named
<1>2. CASE list = <<>>
  <2>1. option = EmptyObject
    BY <1>2 DEF ListInv
  <2>2. \A key : ~Has(option, key)
    BY <2>1 DEF EmptyObject, Object, Has
  <2>3. ExtensionItems(option) = <<>> /\ Range(<<>>) = {} /\ DOMAIN <<>> = {}
    BY <2>2 DEF ExtensionItems, Range
  <2>4. DOMAIN list = {}
    BY <1>2
  <2>5. ListNames = {}
    BY <2>4 DEF ListNames
  <2>6. OnceInOrder(<<>>, [k \in {} |-> list[k].value])
    BY <2>3 DEF OnceInOrder, Range
  <2>7. SessionOptions = EmptyObject /\ \A key : ~Has(EmptyObject, key)
    BY <2>1, <2>2 DEF SessionOptions
  <2>8. ASSUME NEW n PROVE AtSetting(n) = {} /\ Said(<<"session_options", n>>) = {}
    BY <2>4, <2>7 DEF AtSetting, Said
  <2> QED BY <2>2, <2>3, <2>5, <2>6, <2>8
<1> QED BY <1>1, <1>2
\* The list with one more entry.
LEMMA OneMoreEntry ==
  ASSUME TypeOK, NEW e \in Entries, ReadEntry(e)
  PROVE  LET n == Len(list) IN
         /\ n \in Nat /\ DOMAIN list = 1..n /\ DOMAIN list' = 1..n + 1 /\ list'[n + 1] = e
         /\ \A k \in 1..n : list'[k] = list[k]
         /\ list' # <<>>
<1>1. list \in Seq(Entries) /\ list' = Append(list, e)
  BY DEF TypeOK, ReadEntry
<1>2. /\ Len(list) \in Nat /\ DOMAIN list = 1..Len(list) /\ DOMAIN list' = 1..Len(list) + 1
      /\ list'[Len(list) + 1] = e /\ \A k \in 1..Len(list) : list'[k] = list[k]
  BY <1>1
<1>3. list' # <<>>
  BY <1>1
<1> QED BY <1>2, <1>3

\* The libraries of the array stay those the entries name, in order.
LEMMA EntryNames ==
  ASSUME TypeOK, ListInv, NEW e \in Entries, ReadEntry(e)
  PROVE  /\ OnceInOrder(ExtensionItems(option)', Named')
         /\ \A v \in Range(ExtensionItems(option)') : v.kind = "string"
         /\ (Has(option, "ortextensions_path") => Get(option, "ortextensions_path").kind # "string")'
<1> DEFINE n == Len(list)
           key == e.path[1]
           items == ExtensionItems(option)
           names == [k \in ListNames |-> list[k].value]
           new == option'
           more == [k \in ListNames' |-> list'[k].value]
<1>1. e.path \in Seq(STRING) \ {<<>>} /\ IsScalar(e.value) /\ IsObject(option) /\ pc = "list"
  BY EntriesAssumption DEF TypeOK, ReadEntry
<1>2. /\ n \in Nat /\ DOMAIN list = 1..n /\ DOMAIN list' = 1..n + 1 /\ list'[n + 1] = e
      /\ \A k \in 1..n : list'[k] = list[k]
      /\ list' # <<>>
  BY OneMoreEntry
<1>3. /\ OnceInOrder(items, names) /\ \A v \in Range(items) : v.kind = "string"
      /\ Has(option, "ortextensions_path") => Get(option, "ortextensions_path").kind # "string"
  BY <1>1, NamedBefore
<1>4. Named' = more
  BY <1>2 DEF Named
<1>5. ListNames' = {k \in 1..n + 1 : IsExtension(list'[k]) /\ \A j \in 1..n + 1 : k < j => ~Spoils(list'[j])}
  BY <1>2 DEF ListNames
<1>6. ListNames = {k \in 1..n : IsExtension(list[k]) /\ \A j \in 1..n : k < j => ~Spoils(list[j])}
  BY <1>2 DEF ListNames
<1> HIDE DEF n
<1>7. /\ \A k \in 1..n + 1 : k \in 1..n \/ k = n + 1
      /\ \A k \in 1..n : k \in 1..n + 1 /\ k < n + 1 /\ k # n + 1
      /\ n + 1 \in 1..n + 1 /\ \A j \in 1..n + 1 : ~(n + 1 < j)
  BY <1>2
<1>8. ASSUME Spoils(e) PROVE ListNames' = {}
  BY <1>2, <1>5, <1>7, <1>8 DEF Spoils
<1>9. ASSUME ~Spoils(e) PROVE ListNames' = ListNames \cup (IF IsExtension(e) THEN {n + 1} ELSE {})
  <2>1. ASSUME NEW k \in 1..n PROVE k \in ListNames' <=> k \in ListNames
    BY <1>2, <1>5, <1>6, <1>7, <1>9, <2>1
  <2>2. n + 1 \in ListNames' <=> IsExtension(e)
    BY <1>2, <1>5, <1>7
  <2> QED BY <1>5, <1>6, <1>7, <2>1, <2>2
<1>10. DOMAIN names = ListNames /\ DOMAIN more = ListNames' /\ ListNames \subseteq 1..n
  BY <1>6
<1>11. CASE IsExtension(e)
  <2> DEFINE longer == IF Contains(items, e.value) THEN items ELSE Append(items, e.value)
  <2>1. new = Put(option, "extensions", Array(longer))
    BY <1>11 DEF ReadEntry, append_extension
  <2>2. ListNames' = ListNames \cup {n + 1}
    BY <1>9, <1>11 DEF Spoils
  <2>3. more[n + 1] = e.value /\ \A k \in ListNames : more[k] = names[k]
    BY <1>2, <1>7, <1>10, <2>2
  <2>4. Sequence(items)
    BY Wanted DEF ListInv
  <2> HIDE DEF items, names, more, new
  <2>5. OnceInOrder(longer, more)
    <3>1. /\ DOMAIN names \subseteq 1..n /\ DOMAIN more = DOMAIN names \cup {n + 1}
          /\ \A k \in DOMAIN names : more[k] = names[k]
      BY <1>10, <2>2, <2>3
    <3>2. n \in Nat /\ more[n + 1] = e.value /\ OnceInOrder(items, names)
      BY <1>2, <1>3, <2>3
    <3> QED BY <2>4, <3>1, <3>2, OneMoreNamed
  <2> HIDE DEF longer
  <2>6. Has(new, "extensions") /\ Get(new, "extensions") = Array(longer)
    BY <2>1, PutFields
  <2>7. ExtensionItems(new) = longer
    BY <2>6 DEF ExtensionItems, Array, IsArray
  <2>8. ExtensionItems(option)' = longer
    BY <2>7 DEF new, ExtensionItems
  <2>9. ASSUME NEW v \in Range(longer) PROVE v.kind = "string"
    <3>1. v \in Range(items) \/ v = e.value
      <4>1. longer = items \/ longer = Append(items, e.value)
        BY DEF longer
      <4>2. DOMAIN items = 1..Len(items) /\ Len(items) \in Nat
        BY <2>4, SequenceFacts
      <4>3. /\ DOMAIN Append(items, e.value) = 1..Len(items) + 1
            /\ Append(items, e.value)[Len(items) + 1] = e.value
            /\ \A k \in 1..Len(items) : Append(items, e.value)[k] = items[k]
        BY <2>4, SequenceFacts
      <4>4. \A k \in 1..Len(items) + 1 : k \in 1..Len(items) \/ k = Len(items) + 1
        BY <4>2
      <4> QED BY <2>9, <4>1, <4>2, <4>3, <4>4 DEF Range
    <3> QED BY <1>3, <1>11, <3>1 DEF IsExtension
  <2>10. Has(new, "ortextensions_path") => Get(new, "ortextensions_path").kind # "string"
    <3>1. /\ Has(new, "ortextensions_path") => Has(option, "ortextensions_path")
          /\ Has(new, "ortextensions_path") => Get(new, "ortextensions_path") = Get(option, "ortextensions_path")
      BY <1>1, <2>1, PutFields DEF Has, Get
    <3> QED BY <1>3, <3>1
  <2>11. OnceInOrder(ExtensionItems(option)', Named')
    BY <1>4, <2>5, <2>8
  <2> QED BY <2>8, <2>9, <2>10, <2>11 DEF new, Has, Get, IsObject
<1>12. CASE ~IsExtension(e)
  <2> DEFINE below == Get(new, key)
             l == Len(e.path)
  <2>1. new = set_nested(option, e.path, e.value)
    BY <1>12 DEF ReadEntry
  <2>2. /\ \A k : k # key => /\ Has(new, k) <=> Has(option, k)
                             /\ Has(new, k) => Get(new, k) = Get(option, k)
        /\ l = 1 => below = e.value
        /\ l > 1 => IsObject(below)
    BY <1>1, <2>1, SetNested
  <2>3. l = 1 \/ l > 1
    <3>1. l \in Nat /\ l >= 1
      BY <1>1
    <3> HIDE DEF l
    <3> QED BY <3>1
  <2>4. \A json : IsObject(json) => json.kind # "string" /\ ~IsArray(json)
    BY DEF IsObject, IsArray
  <2>5. ~IsArray(e.value)
    BY <1>1 DEF IsScalar, IsArray
  <2> HIDE DEF new, below
  <2>6. Has(new, "ortextensions_path") => Get(new, "ortextensions_path").kind # "string"
    <3>1. CASE key # "ortextensions_path"
      BY <1>3, <2>2, <3>1
    <3>2. CASE key = "ortextensions_path"
      <4>1. CASE l = 1
        <5>1. e.path = <<"ortextensions_path">>
          BY <1>1, <3>2, <4>1
        <5> QED BY <1>12, <2>2, <3>2, <4>1, <5>1 DEF IsExtension, below
      <4>2. CASE l > 1
        BY <2>2, <2>4, <3>2, <4>2 DEF below
      <4> QED BY <2>3, <4>1, <4>2
    <3> QED BY <3>1, <3>2
  <2>7. CASE key = "extensions"
    <3>1. ListNames' = {}
      BY <1>8, <1>12, <2>7 DEF Spoils
    <3>2. ~IsArray(Get(new, "extensions"))
      BY <2>2, <2>3, <2>4, <2>5, <2>7 DEF below
    <3>3. ExtensionItems(option)' = <<>>
      BY <3>2 DEF ExtensionItems, new, Get, IsArray
    <3>4. Range(<<>>) = {} /\ DOMAIN <<>> = {} /\ Range(more) = {}
      BY <1>10, <3>1 DEF Range
    <3>5. OnceInOrder(<<>>, more)
      BY <3>4 DEF OnceInOrder
    <3>6. OnceInOrder(ExtensionItems(option)', Named')
      BY <1>4, <3>3, <3>5
    <3> QED BY <2>6, <3>3, <3>4, <3>6 DEF new, Has, Get, IsObject
  <2>8. CASE key # "extensions"
    <3>1. ListNames' = ListNames
      BY <1>9, <1>12, <2>8 DEF Spoils
    <3>2. more = names
      BY <1>2, <1>10, <3>1
    <3>3. ExtensionItems(new) = items
      BY <2>2, <2>8 DEF ExtensionItems
    <3>4. ExtensionItems(option)' = items
      BY <3>3 DEF ExtensionItems, new
    <3> HIDE DEF items, names, more
    <3>5. OnceInOrder(ExtensionItems(option)', Named')
      BY <1>3, <1>4, <3>2, <3>4
    <3> QED BY <1>3, <2>6, <3>4, <3>5 DEF new, Has, Get, IsObject
  <2> QED BY <2>7, <2>8
<1> QED BY <1>11, <1>12
\* What is set under a setting's path stays what the item said of it.
LEMMA EntrySets ==
  ASSUME TypeOK, ListInv, NEW e \in Entries, ReadEntry(e), NEW n \in Settings
  PROVE  AtSetting(n)' = Said(<<"session_options", n>>)'
<1> DEFINE path == <<"session_options", n>>
           m == Len(list)
           l == Len(e.path)
           key == e.path[1]
           new == option'
           below == Get(new, key)
           old == Group(option, key)
           so == SessionOptions
<1>1. e.path \in Seq(STRING) \ {<<>>} /\ IsScalar(e.value) /\ IsObject(option) /\ pc = "list"
  BY EntriesAssumption DEF TypeOK, ReadEntry
<1>2. /\ m \in Nat /\ DOMAIN list = 1..m /\ DOMAIN list' = 1..m + 1 /\ list'[m + 1] = e
      /\ \A k \in 1..m : list'[k] = list[k]
  BY OneMoreEntry
<1>3. AtSetting(n) = Said(path)
  BY <1>1, NamedBefore
<1>4. /\ Concerns(e, path) <=> key = "session_options" /\ (l = 1 \/ e.path[2] = n)
      /\ e.path = path <=> l = 2 /\ key = "session_options" /\ e.path[2] = n
  BY <1>1, ConcernsSetting
<1>5. (l = 1 \/ l = 2 \/ l > 2) /\ (l = 2 => l > 1) /\ (l > 2 => l > 1 /\ l # 2) /\ (l = 1 => l # 2)
  <2>1. l \in Nat /\ l >= 1
    BY <1>1
  <2> HIDE DEF l
  <2> QED BY <2>1
\* What the item says.
<1>6. Said(path) = {list[k].value : k \in {k \in 1..m :
        list[k].path = path /\ \A j \in 1..m : k < j => ~Concerns(list[j], path)}}
  BY <1>2 DEF Said
<1>7. Said(path)' = {list'[k].value : k \in {k \in 1..m + 1 :
        list'[k].path = path /\ \A j \in 1..m + 1 : k < j => ~Concerns(list'[j], path)}}
  BY <1>2 DEF Said, Concerns
<1> HIDE DEF path, m
<1>8. /\ \A k \in 1..m + 1 : k \in 1..m \/ k = m + 1
      /\ \A k \in 1..m : k \in 1..m + 1 /\ k < m + 1 /\ k # m + 1
      /\ m + 1 \in 1..m + 1 /\ \A j \in 1..m + 1 : ~(m + 1 < j)
  BY <1>2
<1>9. ASSUME Concerns(e, path) PROVE Said(path)' = IF e.path = path THEN {e.value} ELSE {}
  <2>1. \A k \in 1..m : ~(\A j \in 1..m + 1 : k < j => ~Concerns(list'[j], path))
    BY <1>2, <1>8, <1>9
  <2> DEFINE LastOf == {k \in 1..m + 1 :
        list'[k].path = path /\ \A j \in 1..m + 1 : k < j => ~Concerns(list'[j], path)}
  <2>2. LastOf = IF e.path = path THEN {m + 1} ELSE {}
    BY <1>2, <1>8, <2>1
  <2>3. Said(path)' = {list'[k].value : k \in LastOf}
    BY <1>7
  <2> HIDE DEF LastOf
  <2> QED BY <1>2, <2>2, <2>3
<1>10. ASSUME ~Concerns(e, path) PROVE Said(path)' = Said(path)
  <2> DEFINE LastOf == {k \in 1..m : list[k].path = path /\ \A j \in 1..m : k < j => ~Concerns(list[j], path)}
             Last1 == {k \in 1..m + 1 :
                         list'[k].path = path /\ \A j \in 1..m + 1 : k < j => ~Concerns(list'[j], path)}
  <2>1. e.path # path
    BY <1>4, <1>10 DEF path
  <2>2. ASSUME NEW k \in 1..m PROVE k \in Last1 <=> k \in LastOf
    BY <1>2, <1>8, <1>10, <2>2
  <2>3. m + 1 \notin Last1
    BY <1>2, <2>1
  <2>4. Last1 = LastOf
    BY <1>8, <2>2, <2>3
  <2>5. Said(path) = {list[k].value : k \in LastOf} /\ Said(path)' = {list'[k].value : k \in Last1}
    BY <1>6, <1>7
  <2>6. \A k \in LastOf : list'[k] = list[k]
    BY <1>2
  <2> HIDE DEF LastOf, Last1
  <2> QED BY <2>4, <2>5, <2>6
\* What is set.
<1>11. ASSUME NEW json
       PROVE  {Get(json, k) : k \in {k \in {n} : Has(json, k) /\ ~IsObject(Get(json, k))}} =
                IF Has(json, n) /\ ~IsObject(Get(json, n)) THEN {Get(json, n)} ELSE {}
  OBVIOUS
<1>12. AtSetting(n) = IF Has(so, n) /\ ~IsObject(Get(so, n)) THEN {Get(so, n)} ELSE {}
  BY <1>11 DEF AtSetting
<1>13. AtSetting(n)' = IF Has(so', n) /\ ~IsObject(Get(so', n)) THEN {Get(so', n)} ELSE {}
  BY <1>11 DEF AtSetting, Has, Get, IsObject
<1>14. so' = IF Has(new, "session_options") THEN Get(new, "session_options") ELSE EmptyObject
  BY DEF SessionOptions, Has, Get, IsObject, EmptyObject, Object
<1>15. so = IF Has(option, "session_options") THEN Get(option, "session_options") ELSE EmptyObject
  BY DEF SessionOptions
<1> HIDE DEF so, new, l, below, old
<1>16. ASSUME so' = so \/ (~Has(so, n) /\ ~Has(so', n)) \/ (Has(so, n) /\ Has(so', n) /\ Get(so', n) = Get(so, n)),
              ~Concerns(e, path)
       PROVE  AtSetting(n)' = Said(path)'
  BY <1>3, <1>10, <1>12, <1>13, <1>16
<1>17. CASE IsExtension(e)
  <2>1. \E x : new = Put(option, "extensions", x)
    BY <1>17 DEF ReadEntry, append_extension, new
  <2>2. /\ Has(new, "session_options") <=> Has(option, "session_options")
        /\ Has(new, "session_options") => Get(new, "session_options") = Get(option, "session_options")
    BY <1>1, <2>1, PutFields DEF Has, Get
  <2>3. so' = so
    BY <1>14, <1>15, <2>2
  <2>4. key # "session_options"
    BY <1>17 DEF IsExtension
  <2> QED BY <1>4, <1>16, <2>3, <2>4 DEF path
<1>18. CASE ~IsExtension(e)
  <2>1. new = set_nested(option, e.path, e.value)
    BY <1>18 DEF ReadEntry, new
  <2>2. /\ Has(new, key)
        /\ \A k : k # key => /\ Has(new, k) <=> Has(option, k)
                             /\ Has(new, k) => Get(new, k) = Get(option, k)
        /\ l = 1 => below = e.value
        /\ l > 1 => /\ IsObject(below) /\ Has(below, e.path[2])
                    /\ \A k : k # e.path[2] => /\ Has(below, k) <=> Has(old, k)
                                               /\ Has(below, k) => Get(below, k) = Get(old, k)
                    /\ l = 2 => Get(below, e.path[2]) = e.value
                    /\ l > 2 => IsObject(Get(below, e.path[2]))
    <3>1. IsObject(option) /\ e.path \in Seq(STRING) \ {<<>>}
      BY <1>1
    <3> USE DEF below, old, l
    <3> QED BY <2>1, <3>1, SetNested
  <2>3. CASE key # "session_options"
    <3>1. so' = so
      BY <1>14, <1>15, <2>2, <2>3
    <3> QED BY <1>4, <1>16, <2>3, <3>1 DEF path
  <2>4. CASE key = "session_options"
    <3>1. so' = below
      BY <1>14, <2>2, <2>4 DEF below
    <3>2. CASE l = 1
      <4>1. Concerns(e, path) /\ e.path # path
        BY <1>4, <1>5, <2>4, <3>2 DEF path
      <4>2. ~Has(so', n)
        BY <1>1, <2>2, <3>1, <3>2 DEF Has, IsObject, IsScalar
      <4> QED BY <1>9, <1>13, <4>1, <4>2 DEF path
    <3>3. CASE l > 1 /\ e.path[2] = n
      <4>1. Concerns(e, path) /\ (e.path = path <=> l = 2)
        BY <1>4, <2>4, <3>3 DEF path
      <4>2. CASE l = 2
        <5>1. Has(so', n) /\ Get(so', n) = e.value /\ ~IsObject(e.value)
          BY <1>1, <2>2, <3>1, <3>3, <4>2 DEF IsScalar, IsObject
        <5> QED BY <1>9, <1>13, <4>1, <4>2, <5>1 DEF path
      <4>3. CASE l > 2
        <5>1. IsObject(Get(so', n)) /\ e.path # path
          BY <1>5, <2>2, <3>1, <3>3, <4>1, <4>3
        <5> QED BY <1>9, <1>13, <4>1, <5>1 DEF path
      <4>4. l = 2 \/ l > 2
        BY <1>5, <3>3
      <4> QED BY <4>2, <4>3, <4>4
    <3>4. CASE l > 1 /\ e.path[2] # n
      <4>1. ~Concerns(e, path)
        BY <1>4, <1>5, <3>4 DEF path
      <4>2. /\ Has(so', n) <=> Has(old, n)
            /\ Has(so', n) => Get(so', n) = Get(old, n)
        BY <2>2, <3>1, <3>4
      <4>3. /\ Has(old, n) <=> Has(so, n)
            /\ Has(old, n) => Get(old, n) = Get(so, n)
        BY <1>15, <2>4 DEF old, Group, Has, EmptyObject, Object, IsObject
      <4> QED BY <1>16, <4>1, <4>2, <4>3 DEF path
    <3>5. l = 1 \/ l > 1
      BY <1>5
    <3> QED BY <3>2, <3>3, <3>4, <3>5
  <2> QED BY <2>3, <2>4
<1> QED BY <1>17, <1>18 DEF path

\* Every step keeps the invariant of the item.
LEMMA ListStep ==
  ASSUME TypeOK, ListInv, [Next]_vars PROVE ListInv'
<1>1. ASSUME NEW e \in Entries, ReadEntry(e) PROVE ListInv'
  <2>1. ArraysAreSequences(option)'
    <3>1. IsObject(option) /\ ArraysAreSequences(option)
      BY DEF TypeOK, ListInv
    <3>2. ArraysAreSequences(option')
      BY <1>1, <3>1, EntryKeepsArrays
    <3> QED BY <3>2
  <2>2. list' # <<>>
    BY <1>1, OneMoreEntry
  <2>3. \A n \in Settings : AtSetting(n)' = Said(<<"session_options", n>>)'
    BY <1>1, EntrySets
  <2>4. /\ OnceInOrder(ExtensionItems(option)', Named')
        /\ \A v \in Range(ExtensionItems(option)') : v.kind = "string"
        /\ (Has(option, "ortextensions_path") => Get(option, "ortextensions_path").kind # "string")'
    BY <1>1, EntryNames
  <2> QED BY <2>1, <2>2, <2>3, <2>4 DEF ListInv, Settings
<1>2. ASSUME UNCHANGED <<list, option>>, pc' # "list" \/ UNCHANGED pc PROVE ListInv'
  <2>1. SessionOptions' = SessionOptions /\ Named' = Named
    BY <1>2 DEF SessionOptions, Named, ListNames, RequestNames, ToCollect, ExtensionItems
  <2>2. \A n \in Settings : AtSetting(n)' = AtSetting(n)
                            /\ Said(<<"session_options", n>>)' = Said(<<"session_options", n>>)
    BY <1>2, <2>1 DEF AtSetting, Said
  <2> QED BY <1>2, <2>1, <2>2 DEF ListInv, Settings
<1> QED BY <1>1, <1>2, OptionStep DEF vars
-----------------------------------------------------------------------------
(* The invariant and the properties. *)

\* It holds at the start.
LEMMA InitIInv == Init => IInv
<1> SUFFICES ASSUME Init PROVE IInv
  OBVIOUS
<1>1. TypeOK
  BY TypeInit
<1>2. /\ list = <<>> /\ ort = {} /\ registered = <<>> /\ handle = NoCuda /\ ep = NoCuda
      /\ ort_session = FALSE /\ shapes = <<>> /\ pc \in {"list", "settings"}
      /\ (option = EmptyObject /\ pc = "list") \/ (option \in JsonOptions /\ pc = "settings")
      /\ echo.settings = {} /\ echo.cuda = NoCuda
  BY DEF Init
<1>3. ListInv
  <2>1. ArraysAreSequences(option)
    <3>1. CASE option = EmptyObject
      <4>1. \A key : ~Has(option, key)
        BY <3>1 DEF EmptyObject, Object, Has
      <4> QED BY <4>1 DEF ArraysAreSequences
    <3>2. CASE option \in JsonOptions
      BY <3>2, OptionsAssumption
    <3> QED BY <1>2, <3>1, <3>2
  <2> QED BY <1>2, <2>1 DEF ListInv
<1>4. SettingsInv
  BY <1>2 DEF SettingsInv
<1>5. LibrariesInv
  <2>1. Sequence(registered)
    <3>1. registered \in Seq({})
      BY <1>2
    <3> QED BY <3>1, SequenceFacts
  <2> QED BY <1>2, <2>1 DEF LibrariesInv
<1>6. CudaInv
  <2>1. NoCuda.on = FALSE /\ DOMAIN NoCuda.opts = {}
    BY DEF NoCuda
  <2> QED BY <1>2, <2>1 DEF CudaInv
<1>7. ShapesInv
  <2>1. 1..Len(shapes) = {}
    BY <1>2
  <2> QED BY <1>2, <2>1 DEF ShapesInv
<1> QED BY <1>1, <1>3, <1>4, <1>5, <1>6, <1>7 DEF IInv

\* The inductive invariant: the types, the item and its option, what was
\* forwarded, registered and appended, and the shapes read, at every step of the
\* construction.
THEOREM Invariance == Spec => []IInv
<1>1. Init => IInv
  BY InitIInv
<1>2. ASSUME IInv, [Next]_vars PROVE IInv'
  <2>1. TypeOK /\ ListInv /\ SettingsInv /\ LibrariesInv /\ CudaInv /\ ShapesInv
    BY <1>2 DEF IInv
  <2>2. TypeOK'
    BY <1>2, <2>1, TypeStep
  <2>3. ListInv'
    BY <1>2, <2>1, ListStep
  <2>4. SettingsInv'
    BY <1>2, <2>1, SettingsStep
  <2>5. LibrariesInv'
    BY <1>2, <2>1, LibrariesStep
  <2>6. CudaInv'
    BY <1>2, <2>1, CudaStep
  <2>7. ShapesInv'
    BY <1>2, <2>1, ShapesStep
  <2> QED BY <2>2, <2>3, <2>4, <2>5, <2>6, <2>7 DEF IInv
<1> QED BY <1>1, <1>2, PTL DEF Spec

\* The types of the state; and the shape overrides are gone from _option when
\* the session is built.
THEOREM TypeSafety == Spec => []TypeOK
<1>1. IInv => TypeOK
  BY DEF IInv
<1> QED BY <1>1, Invariance, PTL

\* What was asked for is in force, and to_json tells the truth about it.
THEOREM SessionIsAsTold == Spec => []InForceAsTold
<1>1. ASSUME IInv PROVE InForceAsTold
  <2>1. SettingsInv /\ CudaInv
    BY <1>1 DEF IInv
  <2>2. EchoTellsWhatOrtHolds
    BY <2>1 DEF EchoTellsWhatOrtHolds, SettingsInv, CudaInv
  <2>3. CudaKeysSurvive
    BY <2>1 DEF CudaKeysSurvive, CudaInv, Given
  <2> QED BY <2>2, <2>3 DEF InForceAsTold
<1> QED BY <1>1, Invariance, PTL

\* A construction ends with a whole session or with nothing, wherever it throws.
THEOREM ConstructionIsWhole == Spec => []WholeOrNothing
<1>1. ASSUME IInv PROVE WholeOrNothing
  <2>1. TypeOK /\ CudaInv /\ ShapesInv
    BY <1>1 DEF IInv
  <2>2. NothingLeftBehind
    BY <2>1 DEF NothingLeftBehind, TypeOK, CudaInv, ShapesInv
  <2>3. OverridesAreWhole
    <3>1. pc = "built" => Len(shapes) = Len(ModelValues) /\ \A k \in 1..Len(shapes) : ShapeIsWhole(k)
      BY <2>1 DEF ShapesInv
    <3>2. DOMAIN ModelValues = 1..Len(ModelValues)
      BY ModelFacts
    <3> QED BY <3>1, <3>2 DEF OverridesAreWhole
  <2> QED BY <2>2, <2>3 DEF WholeOrNothing
<1> QED BY <1>1, Invariance, PTL

\* The last entry that concerns a setting decides what is forwarded for it,
\* whatever the entries before it and beside it.
THEOREM LastEntryDecides == Spec => []LastEntryWins
<1>1. ASSUME IInv PROVE LastEntryWins
  <2>1. SUFFICES ASSUME list # <<>>, NEW n \in Settings
                 PROVE  {c.value : c \in {c \in Forwarded(SessionOptions) : c.path = <<n>>}} =
                          {v \in Said(<<"session_options", n>>) :
                             v.kind \in SettingKinds[n] /\ Meaningful(n, v.value)}
    BY DEF LastEntryWins
  <2> DEFINE so == SessionOptions
             Right(v) == v.kind \in SettingKinds[n] /\ Meaningful(n, v.value)
             Single == {[path |-> <<i>>, value |-> Get(so, i)] :
                          i \in {i \in Settings : Has(so, i) /\ Get(so, i).kind \in SettingKinds[i]
                                                  /\ Meaningful(i, Get(so, i).value)}}
             Paired == UNION {{[path |-> <<i, k>>, value |-> IF i = "config_entries"
                                                             THEN AsConfigText(Get(Get(so, i), k))
                                                             ELSE Get(Get(so, i), k)] :
                                 k \in {k \in DOMAIN Get(so, i).fields :
                                          Get(Get(so, i), k).kind \in EntryKinds[i]}} :
                              i \in {i \in DOMAIN EntryKinds : Has(so, i) /\ IsObject(Get(so, i))}}
  <2>2. Forwarded(so) = Single \cup Paired
    BY DEF Forwarded
  <2>3. \A c \in Paired : c.path # <<n>>
    <3>1. ASSUME NEW c \in Paired PROVE c.path # <<n>>
      <4>1. PICK i, k : c.path = <<i, k>>
        BY <3>1
      <4>2. Len(<<i, k>>) = 2 /\ Len(<<n>>) = 1
        OBVIOUS
      <4> QED BY <4>1, <4>2
    <3> QED BY <3>1
  <2>4. {c.value : c \in {c \in Single : c.path = <<n>>}} =
          IF Has(so, n) /\ Right(Get(so, n)) THEN {Get(so, n)} ELSE {}
    <3>1. \A i : <<i>> = <<n>> <=> i = n
      OBVIOUS
    <3>2. {c \in Single : c.path = <<n>>} =
            IF Has(so, n) /\ Right(Get(so, n)) THEN {[path |-> <<n>>, value |-> Get(so, n)]} ELSE {}
      BY <3>1
    <3> DEFINE r == [path |-> <<n>>, value |-> Get(so, n)]
    <3>3. r.value = Get(so, n)
      OBVIOUS
    <3> HIDE DEF r
    <3>4. {c.value : c \in {r}} = {Get(so, n)} /\ {c.value : c \in {}} = {}
      BY <3>3
    <3> HIDE DEF Single, so, Right
    <3> QED BY <3>2, <3>4 DEF r
  <2>5. {c \in Forwarded(so) : c.path = <<n>>} = {c \in Single : c.path = <<n>>}
    BY <2>2, <2>3
  <2>6. AtSetting(n) = Said(<<"session_options", n>>)
    BY <1>1, <2>1 DEF IInv, ListInv
  <2>7. AtSetting(n) = IF Has(so, n) /\ ~IsObject(Get(so, n)) THEN {Get(so, n)} ELSE {}
    BY DEF AtSetting
  <2>8. \A v : Right(v) => ~IsObject(v)
    BY NoSettingIsAnObject DEF IsObject
  <2> HIDE DEF so, Single, Right
  <2>9. {v \in AtSetting(n) : Right(v)} =
          IF Has(so, n) /\ Right(Get(so, n)) THEN {Get(so, n)} ELSE {}
    BY <2>7, <2>8
  <2> QED BY <2>4, <2>5, <2>6, <2>9 DEF so, Right
<1> QED BY <1>1, Invariance, PTL
\* The order of the first places carries over.
LEMMA OrderCarriesOver ==
  ASSUME NEW s, NEW t, NEW names, OnceInOrder(s, t), OnceInOrder(t, names)
  PROVE  OnceInOrder(s, names)
<1>1. Range(s) = Range(names)
  BY DEF OnceInOrder
<1>2. ASSUME NEW j \in DOMAIN s, NEW k \in DOMAIN s, j < k
      PROVE  \E a \in DOMAIN names : names[a] = s[j] /\ \A b \in DOMAIN names : names[b] = s[k] => a < b
  <2>1. PICK a \in DOMAIN t : t[a] = s[j] /\ \A b \in DOMAIN t : t[b] = s[k] => a < b
    BY <1>2 DEF OnceInOrder
  <2>2. PICK b \in DOMAIN t : t[b] = s[k]
    <3>1. s[k] \in Range(t)
      BY DEF OnceInOrder, Range
    <3> QED BY <3>1 DEF Range
  <2>3. a < b
    BY <2>1, <2>2
  <2> QED BY <2>1, <2>2, <2>3 DEF OnceInOrder
<1> QED BY <1>1, <1>2 DEF OnceInOrder

\* A built session has every library it was told to load, each once, in the
\* order they were named, by an item or by a request.
THEOREM LibrariesAsNamed == Spec => []LibrariesOnceInOrder
<1>1. ASSUME IInv PROVE LibrariesOnceInOrder
  <2>1. SUFFICES ASSUME pc = "built"
                 PROVE  echo.extensions = registered /\ OnceInOrder(registered, Named)
    BY DEF LibrariesOnceInOrder
  <2> DEFINE all == ToCollect(option)
             items == ExtensionItems(option)
             wanted == collect_extensions(option)
             names == [k \in RequestNames(all) |-> all[k]]
  <2>2. registered = wanted /\ echo.extensions = wanted
    BY <1>1, <2>1 DEF IInv, LibrariesInv
  <2>3. Sequence(items) /\ Sequence(all) /\ OnceInOrder(wanted, names)
    BY <1>1, Wanted DEF IInv, ListInv
  <2>4. CASE list = <<>>
    BY <2>2, <2>3, <2>4 DEF Named
  <2>5. CASE list # <<>>
    <3>1. /\ OnceInOrder(items, Named) /\ \A v \in Range(items) : v.kind = "string"
          /\ Has(option, "ortextensions_path") => Get(option, "ortextensions_path").kind # "string"
      BY <1>1, <2>5 DEF IInv, ListInv
    <3> DEFINE p == Get(option, "ortextensions_path")
               last == IF Has(option, "ortextensions_path") THEN <<p>> ELSE <<>>
               V == Range(items) \cup {p}
               W == Range(items)
               l == Len(items)
    <3>2. items \in Seq(V) /\ DOMAIN items = 1..l /\ l \in Nat
      <4>1. items \in Seq(W) /\ W \subseteq V
        BY <2>3 DEF Sequence
      <4>2. DOMAIN items = 1..l /\ l \in Nat
        BY <2>3, SequenceFacts
      <4> HIDE DEF items, V, W
      <4> QED BY <4>1, <4>2, SeqMonotonic
    <3>3. last \in Seq(V) /\ (Len(last) = 0 \/ (Len(last) = 1 /\ last[1] = p /\ p.kind # "string"))
      <4>1. p \in V
        OBVIOUS
      <4> HIDE DEF V
      <4> QED BY <3>1, <4>1
    <3>4. all = items \o last
      BY DEF ToCollect
    <3> HIDE DEF items, last, V, all
    <3>5. /\ Len(all) = l + Len(last) /\ DOMAIN all = 1..Len(all)
          /\ \A k \in 1..l + Len(last) : all[k] = IF k <= l THEN items[k] ELSE last[k - l]
      <4>1. /\ all \in Seq(V) /\ Len(all) = Len(items) + Len(last)
            /\ \A k \in 1..Len(items) + Len(last) :
                 all[k] = IF k <= Len(items) THEN items[k] ELSE last[k - Len(items)]
        BY <3>2, <3>3, <3>4, ConcatProperties
      <4> QED BY <4>1
    <3>6. \A k \in 1..l : items[k].kind = "string"
      BY <3>1, <3>2 DEF Range
    <3> HIDE DEF l
    <3>7. RequestNames(all) = 1..l
      <4>1. CASE Len(last) = 0
        <5>1. DOMAIN all = 1..l /\ \A k \in 1..l : k <= l /\ k \in 1..l + Len(last)
          BY <3>2, <3>5, <4>1
        <5> QED BY <3>5, <3>6, <5>1 DEF RequestNames
      <4>2. CASE Len(last) = 1
        <5>1. DOMAIN all = 1..l + 1 /\ \A k \in 1..l : k <= l /\ k \in 1..l + 1
          BY <3>2, <3>5, <4>2
        <5>2. all[l + 1] = p
          <6> DEFINE i == l + 1
          <6>1. i \in 1..l + 1 /\ ~(i <= l) /\ i - l = 1
            BY <3>2
          <6>2. last[1] = p
            BY <3>3, <4>2
          <6> HIDE DEF i
          <6>3. \A k \in 1..l + 1 : all[k] = IF k <= l THEN items[k] ELSE last[k - l]
            BY <3>5, <4>2
          <6>4. all[i] = last[i - l]
            BY <6>1, <6>3
          <6>5. all[i] = p
            BY <6>1, <6>2, <6>4
          <6> QED BY <6>5 DEF i
        <5>3. \A k \in 1..l + 1 : k \in 1..l \/ k = l + 1
          BY <3>2
        <5>4. l + 1 \notin 1..l /\ p.kind # "string"
          BY <3>2, <3>3, <4>2
        <5> QED BY <3>5, <3>6, <4>2, <5>1, <5>2, <5>3, <5>4 DEF RequestNames
      <4> QED BY <3>3, <4>1, <4>2
    <3>8. \A k \in 1..l : names[k] = items[k]
      <4>1. \A k \in 1..l : k <= l /\ k \in 1..l + Len(last)
        BY <3>2, <3>3
      <4> QED BY <3>5, <3>7, <4>1
    <3>9. OnceInOrder(wanted, items)
      <4>1. DOMAIN names = DOMAIN items /\ \A k \in DOMAIN items : names[k] = items[k]
        BY <3>2, <3>7, <3>8
      <4>2. Range(names) = Range(items)
        BY <4>1 DEF Range
      <4> HIDE DEF names, wanted
      <4> QED BY <2>3, <4>1, <4>2 DEF OnceInOrder
    <3>10. OnceInOrder(wanted, Named)
      BY <3>1, <3>9, OrderCarriesOver
    <3> QED BY <2>2, <3>10
  <2> QED BY <2>4, <2>5
<1> QED BY <1>1, Invariance, PTL
=============================================================================

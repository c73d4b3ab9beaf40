------------------------ MODULE RunnerCleanup_proofs ------------------------
(* Theorems about RunnerCleanup, for every value of its constants. *)
EXTENDS RunnerCleanup, SequenceTheorems, TLAPS

---------------------------------------------------------------------------
(* The invariant.  What the sweep looked up in one request is still true in the  *)
(* next because of it: an app that is one day old is never started or leased again. *)

\* An old app has no lease that is valid and no process that starts it.
AppSound(x) ==
  /\ app[x].state = "none" => ~app[x].old /\ ~app[x].busy /\ ~app[x].starting
  /\ app[x].old =>
       /\ ~app[x].starting
       /\ \A s \in Slots : slot[s].app = x => slot[s].expired
       /\ \A j \in Jobs : job[j].lease # x
  /\ app[x].starting /\ Runner[x] \in Jobs =>
       /\ job[Runner[x]].status # "none"
       /\ job[Runner[x]].status = "live" => app[x].state = "stopped"

\* No row of this deployment knows the app of another one, and nothing here deletes it.
ForeignApart(x) ==
  /\ ~app[x].starting /\ app[x].state \notin {"deleting", "gone"}
  /\ \A j \in Jobs : job[j].app # x /\ job[j].lease # x /\ (Runner[x] = j => job[j].status = "none")
  /\ \A s \in Slots : slot[s].app # x

Open(j) == job[j].status \in {"live", "held", "clearing"}

Taken == {"reserved", "assigned", "consumed"}

\* The app of an open job is there, if it is a warm one from the claim on, and then its
\* lease, which names the job, is consumed.
AppKept(j) ==
  LET x == job[j].app IN
  Open(j) /\ x # NULL /\ (Runner[x] \in Slots => job[j].ran) =>
    /\ app[x].state \notin {"deleting", "gone"}
    /\ Runner[x] \in Slots => slot[Runner[x]].status = "consumed" /\ slot[Runner[x]].job = j

\* While start() goes on, the lease it holds is the job's or has been retired.
StartSound(j) ==
  LET x == job[j].lease
      s == Runner[x] IN
  job[j].start \in {"reserved", "recorded"} =>
    /\ x \in Apps /\ s \in Slots /\ app[x].state # "none" /\ slot[s].status # "claimable"
    /\ slot[s].status \in Taken => slot[s].job = j /\ slot[s].app = x
    /\ job[j].start = "recorded" => job[j].app = x

JobSound(j) ==
  /\ job[j].status = "none" => job[j].app = NULL
  /\ job[j].ran => job[j].app # NULL
  /\ job[j].app # NULL /\ Runner[job[j].app] \in Jobs => Runner[job[j].app] = j
  /\ StartSound(j) /\ AppKept(j)

SlotSound(s) ==
  /\ slot[s].app # NULL => Runner[slot[s].app] = s
  /\ slot[s].status \in Taken => slot[s].app # NULL /\ slot[s].job \in Jobs
  /\ slot[s].status = "assigned" => job[slot[s].job].app = slot[s].app

AtRest(x) == app[x].state \in {"stopped", "deleting", "gone"} /\ ~app[x].busy

Free(x) == x \notin Foreign /\ \A j \in Jobs : job[j].app = x => Over(j)

\* What each check of a pass found still holds at its later steps.
SweepSound(a) ==
  /\ \A x \in sweep[a].list : app[x].old
  /\ \A x \in Apps : Handles(a, x) =>
       /\ sweep[a].pc \in {"idling", "same", "intended", "asked"} => AtRest(x)
       /\ sweep[a].pc \in {"intended", "asked"} => Free(x)

Sound ==
  /\ TypeOK
  /\ \A x \in Apps : AppSound(x) /\ (x \in Foreign => ForeignApart(x))
  /\ \A j \in Jobs : JobSound(j)
  /\ \A s \in Slots : SlotSound(s)
  /\ \A a \in Apis : SweepSound(a)

---------------------------------------------------------------------------
(* Queues: sequences without repetitions *)

LEMMA QueueElements ==
  ASSUME NEW S, NEW q \in Seq(S)
  PROVE  /\ DOMAIN q = 1..Len(q) /\ Len(q) \in Nat /\ ToSet(q) \subseteq S
         /\ \A x : x \in ToSet(q) <=> \E i \in 1..Len(q) : q[i] = x
BY DEF ToSet

LEMMA Piece ==
  ASSUME NEW S, NEW q \in Seq(S), NEW m \in 1..(Len(q) + 1), NEW n \in 0..Len(q), m <= n + 1
  PROVE  /\ SubSeq(q, m, n) \in Seq(S) /\ Len(SubSeq(q, m, n)) = n - m + 1
         /\ \A i \in 1..(n - m + 1) : SubSeq(q, m, n)[i] = q[m + i - 1]
<1>1. Len(q) \in Nat /\ m \in Int /\ n \in Int
  OBVIOUS
<1>2. \A i \in m..n : q[i] \in S
  BY <1>1, ElementOfSeq
<1>3. QED
  BY <1>1, <1>2, SubSeqProperties

LEMMA Joined ==
  ASSUME NEW S, NEW u \in Seq(S), NEW v \in Seq(S)
  PROVE  /\ u \o v \in Seq(S) /\ Len(u \o v) = Len(u) + Len(v)
         /\ \A i \in 1..Len(u) : (u \o v)[i] = u[i]
         /\ \A i \in 1..Len(v) : (u \o v)[Len(u) + i] = v[i]
<1>1. PICK k, m : k = Len(u) /\ m = Len(v)
  OBVIOUS
<1>2. k \in Nat /\ m \in Nat
  BY <1>1
<1>3. /\ u \o v \in Seq(S) /\ Len(u \o v) = k + m
      /\ \A i \in 1..(k + m) : (u \o v)[i] = IF i <= k THEN u[i] ELSE v[i - k]
  BY <1>1, ConcatProperties
<1>4. ASSUME NEW i \in 1..k PROVE (u \o v)[i] = u[i]
  <2>1. i \in 1..(k + m) /\ i <= k
    BY <1>2
  <2>2. QED
    BY <1>3, <2>1
<1>5. ASSUME NEW i \in 1..m PROVE (u \o v)[k + i] = v[i]
  <2>1. k + i \in 1..(k + m) /\ ~(k + i <= k) /\ (k + i) - k = i
    BY <1>2
  <2>2. QED
    BY <1>3, <2>1
<1>6. QED
  BY <1>1, <1>3, <1>4, <1>5

\* The first n elements move to the end.
LEMMA RotatedQueue ==
  ASSUME NEW S, NEW q \in Seq(S), IsInjective(q), NEW n \in 0..Len(q)
  PROVE  LET r == SubSeq(q, n + 1, Len(q)) \o SubSeq(q, 1, n)
         IN  r \in Seq(S) /\ IsInjective(r) /\ ToSet(r) = ToSet(q)
<1> DEFINE L == Len(q)
<1>1. L \in Nat /\ n \in Nat /\ n <= L
  OBVIOUS
<1>2. PICK u, v : u = SubSeq(q, n + 1, L) /\ v = SubSeq(q, 1, n)
  OBVIOUS
<1>3. /\ u \in Seq(S) /\ Len(u) = L - n /\ \A i \in 1..(L - n) : u[i] = q[n + i]
      /\ v \in Seq(S) /\ Len(v) = n /\ \A i \in 1..n : v[i] = q[i]
  <2>1. n + 1 \in 1..(L + 1) /\ L \in 0..L /\ n + 1 <= L + 1 /\ L - (n + 1) + 1 = L - n
    BY <1>1
  <2>2. 1 \in 1..(L + 1) /\ n \in 0..L /\ 1 <= n + 1 /\ n - 1 + 1 = n
    BY <1>1
  <2>3. /\ u \in Seq(S) /\ Len(u) = L - (n + 1) + 1
        /\ \A i \in 1..(L - (n + 1) + 1) : u[i] = q[(n + 1) + i - 1]
    BY <1>2, <2>1, Piece
  <2>4. /\ v \in Seq(S) /\ Len(v) = n - 1 + 1 /\ \A i \in 1..(n - 1 + 1) : v[i] = q[1 + i - 1]
    BY <1>2, <2>2, Piece
  <2>5. \A i \in Int : (n + 1) + i - 1 = n + i /\ 1 + i - 1 = i
    BY <1>1
  <2>6. QED
    BY <2>1, <2>2, <2>3, <2>4, <2>5
<1> DEFINE r == u \o v
<1>4. /\ r \in Seq(S) /\ Len(r) = L
      /\ \A i \in 1..L : r[i] = IF i <= L - n THEN q[n + i] ELSE q[i - (L - n)]
  <2>1. L - n \in Nat /\ (L - n) + n = L
    BY <1>1
  <2>2. u \in Seq(S) /\ Len(u) = L - n /\ v \in Seq(S) /\ Len(v) = n
    BY <1>3
  <2>3. /\ r \in Seq(S) /\ Len(r) = (L - n) + n
        /\ \A i \in 1..(L - n) : r[i] = u[i]
        /\ \A i \in 1..n : r[(L - n) + i] = v[i]
    <3>1. PICK k \in Nat : k = L - n
      BY <2>1
    <3>2. /\ r \in Seq(S) /\ Len(r) = Len(u) + Len(v)
          /\ \A i \in 1..Len(u) : r[i] = u[i]
          /\ \A i \in 1..Len(v) : r[Len(u) + i] = v[i]
      <4>1. u \in Seq(S) /\ v \in Seq(S)
        BY <2>2
      <4>2. QED
        BY <4>1, Joined
    <3>3. QED
      BY <2>2, <3>1, <3>2
  <2>4. ASSUME NEW i \in 1..L PROVE r[i] = IF i <= L - n THEN q[n + i] ELSE q[i - (L - n)]
    <3>1. CASE i <= L - n
      <4>1. i \in 1..(L - n)
        BY <1>1, <3>1
      <4>2. r[i] = u[i] /\ u[i] = q[n + i]
        BY <1>3, <2>3, <4>1
      <4>3. QED
        BY <3>1, <4>2
    <3>2. CASE ~(i <= L - n)
      <4>1. i - (L - n) \in 1..n /\ (L - n) + (i - (L - n)) = i
        BY <1>1, <3>2
      <4>2. r[i] = v[i - (L - n)] /\ v[i - (L - n)] = q[i - (L - n)]
        BY <1>3, <2>3, <4>1
      <4>3. QED
        BY <3>2, <4>2
    <3>3. QED
      BY <3>1, <3>2
  <2>5. QED
    BY <2>1, <2>3, <2>4
<1> HIDE DEF r
<1>5. DOMAIN q = 1..L /\ DOMAIN r = 1..L
  BY <1>4, LenProperties
<1> DEFINE at(i) == IF i <= L - n THEN n + i ELSE i - (L - n)
<1>6. ASSUME NEW i \in 1..L PROVE at(i) \in 1..L /\ r[i] = q[at(i)]
  BY <1>1, <1>4
<1>7. ASSUME NEW i \in 1..L, NEW k \in 1..L, at(i) = at(k) PROVE i = k
  BY <1>1, <1>7
<1>8. ASSUME NEW k \in 1..L PROVE \E i \in 1..L : at(i) = k
  <2>1. CASE k <= n
    <3>1. k + (L - n) \in 1..L /\ at(k + (L - n)) = k
      BY <1>1, <2>1
    <3>2. QED
      BY <3>1
  <2>2. CASE ~(k <= n)
    <3>1. k - n \in 1..L /\ at(k - n) = k
      BY <1>1, <2>2
    <3>2. QED
      BY <3>1
  <2>3. QED
    BY <2>1, <2>2
<1> HIDE DEF at
<1>9. IsInjective(r)
  BY <1>5, <1>6, <1>7 DEF IsInjective
<1>10. ASSUME NEW x PROVE x \in ToSet(r) <=> x \in ToSet(q)
  <2>1. ASSUME x \in ToSet(r) PROVE x \in ToSet(q)
    BY <1>5, <1>6, <2>1 DEF ToSet
  <2>2. ASSUME x \in ToSet(q) PROVE x \in ToSet(r)
    <3>1. PICK k \in 1..L : q[k] = x
      BY <1>5, <2>2 DEF ToSet
    <3>2. PICK i \in 1..L : at(i) = k
      BY <1>8
    <3>3. r[i] = x
      BY <1>6, <3>1, <3>2
    <3>4. QED
      BY <1>5, <3>3 DEF ToSet
  <2>3. QED
    BY <2>1, <2>2
<1>11. QED
  BY <1>2, <1>4, <1>9, <1>10 DEF r

LEMMA ShorterQueue ==
  ASSUME NEW S, NEW q \in Seq(S), IsInjective(q), NEW n \in DOMAIN q
  PROVE  /\ RemoveAt(q, n) \in Seq(S) /\ IsInjective(RemoveAt(q, n))
         /\ \A x : x # q[n] /\ x \in ToSet(q) => x \in ToSet(RemoveAt(q, n))
<1> DEFINE L == Len(q)
<1>1. L \in Nat /\ n \in 1..L
  BY LenProperties
<1>2. PICK u, v : u = SubSeq(q, 1, n - 1) /\ v = SubSeq(q, n + 1, L)
  OBVIOUS
<1>3. /\ u \in Seq(S) /\ Len(u) = n - 1 /\ \A i \in 1..(n - 1) : u[i] = q[i]
      /\ v \in Seq(S) /\ Len(v) = L - n /\ \A i \in 1..(L - n) : v[i] = q[n + i]
  <2>1. n + 1 \in 1..(L + 1) /\ L \in 0..L /\ n + 1 <= L + 1 /\ L - (n + 1) + 1 = L - n
    BY <1>1
  <2>2. 1 \in 1..(L + 1) /\ n - 1 \in 0..L /\ 1 <= (n - 1) + 1 /\ (n - 1) - 1 + 1 = n - 1
    BY <1>1
  <2>3. /\ v \in Seq(S) /\ Len(v) = L - (n + 1) + 1
        /\ \A i \in 1..(L - (n + 1) + 1) : v[i] = q[(n + 1) + i - 1]
    BY <1>2, <2>1, Piece
  <2>4. /\ u \in Seq(S) /\ Len(u) = (n - 1) - 1 + 1
        /\ \A i \in 1..((n - 1) - 1 + 1) : u[i] = q[1 + i - 1]
    BY <1>2, <2>2, Piece
  <2>5. \A i \in Int : (n + 1) + i - 1 = n + i /\ 1 + i - 1 = i
    BY <1>1
  <2>6. /\ v \in Seq(S) /\ Len(v) = L - n /\ \A i \in 1..(L - n) : v[i] = q[n + i]
    BY <1>1, <2>3
  <2>7. /\ u \in Seq(S) /\ Len(u) = n - 1 /\ \A i \in 1..(n - 1) : u[i] = q[i]
    BY <1>1, <2>4
  <2>8. QED
    BY <2>6, <2>7
<1> DEFINE r == u \o v
<1>4. /\ r \in Seq(S) /\ Len(r) = L - 1
      /\ \A i \in 1..(L - 1) : r[i] = IF i < n THEN q[i] ELSE q[i + 1]
  <2>1. n - 1 \in Nat /\ L - n \in Nat /\ (n - 1) + (L - n) = L - 1
    BY <1>1
  <2>2. u \in Seq(S) /\ Len(u) = n - 1 /\ v \in Seq(S) /\ Len(v) = L - n
    BY <1>3
  <2>3. /\ r \in Seq(S) /\ Len(r) = (n - 1) + (L - n)
        /\ \A i \in 1..(n - 1) : r[i] = u[i]
        /\ \A i \in 1..(L - n) : r[(n - 1) + i] = v[i]
    <3>1. PICK k \in Nat, m \in Nat : k = n - 1 /\ m = L - n
      BY <2>1
    <3>2. /\ r \in Seq(S) /\ Len(r) = Len(u) + Len(v)
          /\ \A i \in 1..Len(u) : r[i] = u[i]
          /\ \A i \in 1..Len(v) : r[Len(u) + i] = v[i]
      <4>1. u \in Seq(S) /\ v \in Seq(S)
        BY <2>2
      <4>2. QED
        BY <4>1, Joined
    <3>3. QED
      BY <2>2, <3>1, <3>2
  <2>4. ASSUME NEW i \in 1..(L - 1) PROVE r[i] = IF i < n THEN q[i] ELSE q[i + 1]
    <3>1. CASE i < n
      <4>1. i \in 1..(n - 1)
        BY <1>1, <3>1
      <4>2. r[i] = u[i] /\ u[i] = q[i]
        BY <1>3, <2>3, <4>1
      <4>3. QED
        BY <3>1, <4>2
    <3>2. CASE ~(i < n)
      <4>1. i - (n - 1) \in 1..(L - n) /\ (n - 1) + (i - (n - 1)) = i /\ n + (i - (n - 1)) = i + 1
        BY <1>1, <3>2
      <4>2. r[i] = v[i - (n - 1)] /\ v[i - (n - 1)] = q[n + (i - (n - 1))]
        BY <1>3, <2>3, <4>1
      <4>3. QED
        BY <3>2, <4>1, <4>2
    <3>3. QED
      BY <3>1, <3>2
  <2>5. QED
    BY <2>1, <2>3, <2>4
<1> HIDE DEF r
<1>5. DOMAIN q = 1..L /\ DOMAIN r = 1..(L - 1)
  BY <1>4, LenProperties
<1>6. IsInjective(r)
  <2>1. \A i, k \in 1..L : q[i] = q[k] => i = k
    BY <1>5 DEF IsInjective
  <2>2. ASSUME NEW i \in 1..(L - 1), NEW k \in 1..(L - 1), r[i] = r[k] PROVE i = k
    BY <1>1, <1>4, <2>1, <2>2
  <2>3. QED
    BY <1>5, <2>2 DEF IsInjective
<1>7. ASSUME NEW x, x # q[n], x \in ToSet(q) PROVE x \in ToSet(r)
  <2>1. PICK i \in 1..L : q[i] = x
    BY <1>5, <1>7 DEF ToSet
  <2>2. CASE i < n
    <3>1. i \in 1..(L - 1) /\ r[i] = x
      BY <1>1, <1>4, <2>1, <2>2
    <3>2. QED
      BY <1>5, <3>1 DEF ToSet
  <2>3. CASE ~(i < n)
    <3>1. i > n
      BY <1>1, <1>7, <2>1, <2>3
    <3>2. i - 1 \in 1..(L - 1) /\ r[i - 1] = x
      BY <1>1, <1>4, <2>1, <3>1
    <3>3. QED
      BY <1>5, <3>2 DEF ToSet
  <2>4. QED
    BY <2>2, <2>3
<1>8. RemoveAt(q, n) = r
  BY <1>2 DEF RemoveAt, r
<1>9. QED
  BY <1>4, <1>6, <1>7, <1>8

LEMMA LongerQueue ==
  ASSUME NEW S, NEW q \in Seq(S), IsInjective(q), NEW x \in S, x \notin ToSet(q)
  PROVE  /\ <<x>> \o q \in Seq(S) /\ IsInjective(<<x>> \o q)
         /\ ToSet(<<x>> \o q) = ToSet(q) \cup {x}
<1> DEFINE r == <<x>> \o q
           L == Len(q)
<1>1. L \in Nat /\ DOMAIN q = 1..L /\ \A i \in 1..L : q[i] \in S /\ q[i] # x
  BY LenProperties, ElementOfSeq DEF ToSet
<1>2. PICK u : u = <<x>>
  OBVIOUS
<1>3. u \in Seq(S) /\ Len(u) = 1 /\ u[1] = x /\ r = u \o q
  BY <1>2
<1>4. /\ r \in Seq(S) /\ Len(r) = L + 1 /\ DOMAIN r = 1..(L + 1)
      /\ r[1] = x /\ \A i \in 1..L : r[i + 1] = q[i]
  <2>1. /\ r \in Seq(S) /\ Len(r) = 1 + L
        /\ \A i \in 1..1 : r[i] = u[i]
        /\ \A i \in 1..L : r[1 + i] = q[i]
    BY <1>1, <1>3, Joined
  <2>2. r[1] = x
    BY <1>3, <2>1
  <2>3. 1 + L = L + 1 /\ \A i \in 1..L : 1 + i = i + 1
    BY <1>1
  <2>4. \A i \in 1..L : r[i + 1] = q[i]
    BY <2>1, <2>3
  <2>5. DOMAIN r = 1..(L + 1)
    BY <2>1, <2>3, LenProperties
  <2>6. QED
    BY <2>1, <2>2, <2>3, <2>4, <2>5
<1> HIDE DEF r
<1>5. \A i \in 1..(L + 1) : i = 1 \/ (i - 1 \in 1..L /\ r[i] = q[i - 1])
  <2>1. ASSUME NEW i \in 1..(L + 1), i # 1 PROVE i - 1 \in 1..L /\ (i - 1) + 1 = i
    BY <1>1, <2>1
  <2>2. QED
    BY <1>4, <2>1
<1>6. IsInjective(r)
  <2>1. \A i, k \in 1..L : q[i] = q[k] => i = k
    BY <1>1 DEF IsInjective
  <2>2. ASSUME NEW i \in 1..(L + 1), NEW k \in 1..(L + 1), r[i] = r[k] PROVE i = k
    <3>1. \A m \in 1..(L + 1) : m = 1 \/ (m - 1 \in 1..L /\ r[m] = q[m - 1] /\ r[m] # x)
      BY <1>1, <1>5
    <3>2. CASE i = 1 \/ k = 1
      BY <1>4, <2>2, <3>1, <3>2
    <3>3. CASE i # 1 /\ k # 1
      <4>1. i - 1 = k - 1
        BY <2>1, <2>2, <3>1, <3>3
      <4>2. QED
        BY <1>1, <4>1
    <3>4. QED
      BY <3>2, <3>3
  <2>3. QED
    BY <1>4, <2>2 DEF IsInjective
<1>7. ASSUME NEW y PROVE y \in ToSet(r) <=> y \in ToSet(q) \/ y = x
  <2>1. ASSUME y \in ToSet(r) PROVE y \in ToSet(q) \/ y = x
    <3>1. PICK i \in 1..(L + 1) : r[i] = y
      BY <1>4, <2>1 DEF ToSet
    <3>2. QED
      BY <1>1, <1>4, <1>5, <3>1 DEF ToSet
  <2>2. ASSUME y \in ToSet(q) PROVE y \in ToSet(r)
    <3>1. PICK i \in 1..L : q[i] = y
      BY <1>1, <2>2 DEF ToSet
    <3>2. i + 1 \in 1..(L + 1) /\ r[i + 1] = y
      BY <1>1, <1>4, <3>1
    <3>3. QED
      BY <1>4, <3>2 DEF ToSet
  <2>3. x \in ToSet(r)
    <3>1. 1 \in 1..(L + 1)
      BY <1>1
    <3>2. QED
      BY <1>4, <3>1 DEF ToSet
  <2>4. QED
    BY <2>1, <2>2, <2>3
<1>8. QED
  BY <1>4, <1>6, <1>7 DEF r

---------------------------------------------------------------------------
(* The steps: what an action may do to each row, and TypeOK *)

Becomes(x, st, o, b, g) == app'[x] = [state |-> st, old |-> o, busy |-> b, starting |-> g]

\* What the pool, or the maintenance of runs, may remove by its name.
Surplus(x) ==
  /\ x \notin Foreign
  /\ \/ Runner[x] \in Slots /\ Removable(Runner[x])
     \/ Runner[x] \in Jobs /\ Over(Runner[x])

Created(x) ==
  /\ app[x].state = "none"
  /\ \E g \in BOOLEAN :
       /\ g => x \notin Foreign /\ (Runner[x] \in Jobs => job[Runner[x]].status = "live")
       /\ Becomes(x, "stopped", app[x].old, app[x].busy, g)

Ages(x) ==
  /\ app[x].state \in {"stopped", "started"} /\ ~app[x].starting
  /\ \A s \in Slots : slot[s].app = x => slot[s].expired
  /\ \A j \in Jobs : job[j].lease # x
  /\ UNCHANGED <<job, slot>>
  /\ Becomes(x, app[x].state, TRUE, app[x].busy, app[x].starting)

Changed(x) ==
  \/ app[x].starting /\ Becomes(x, app[x].state, app[x].old, app[x].busy, FALSE)
  \/ /\ app[x].starting /\ app[x].state = "stopped"
     /\ \E st \in {"stopped", "started"} : Becomes(x, st, app[x].old, TRUE, FALSE)
  \/ /\ app[x].state \in {"stopped", "started"}
     /\ \/ Becomes(x, "stopped", app[x].old, FALSE, app[x].starting)
        \/ Surplus(x) /\ Becomes(x, "gone", app[x].old, FALSE, app[x].starting)
        \/ /\ \E a \in Apis : sweep[a].pc = "intended" /\ Handles(a, x)
           /\ Becomes(x, "deleting", app[x].old, app[x].busy, app[x].starting)
  \/ app[x].state = "deleting" /\ Becomes(x, "gone", app[x].old, FALSE, app[x].starting)

AppMove(x) == app'[x] = app[x] \/ Created(x) \/ Ages(x) \/ Changed(x)

SameApp(j) == job'[j].app = job[j].app /\ job'[j].ran = job[j].ran
SameStart(j) == job'[j].start = job[j].start /\ job'[j].lease = job[j].lease
SameStatus(j) == job'[j].status = job[j].status

Proceeded(j) ==
  /\ SameApp(j) /\ SameStart(j)
  /\ \/ /\ job[j].status = "none" /\ job'[j].status # "none"
        /\ \A x \in Foreign : Runner[x] # j
     \/ /\ job[j].status \notin {"none", "ended", "cleared"}
        /\ job'[j].status \notin {"none", "live"}
        /\ job'[j].status \in {"held", "clearing"} => Open(j)

Recorded(j, x) ==
  /\ SameStatus(j) /\ SameStart(j) /\ UNCHANGED <<slot, app>>
  /\ job[j].status = "live" /\ job[j].app = NULL /\ Runner[x] = j /\ app[x].starting
  /\ job'[j].app = x /\ job'[j].ran = job[j].ran

Reserved(j, s) ==
  /\ SameStatus(j) /\ SameApp(j) /\ UNCHANGED app
  /\ slot[s].app # NULL /\ ~slot[s].expired /\ app[slot[s].app].state = "started"
  /\ slot'[s].status = "reserved" /\ slot'[s].job = j /\ slot'[s].app = slot[s].app
  /\ job'[j].start = "reserved" /\ job'[j].lease = slot[s].app

Bound(j) ==
  /\ SameStatus(j) /\ UNCHANGED <<slot, app>>
  /\ job[j].start = "reserved" /\ job[j].status = "live" /\ job[j].app = NULL
  /\ job'[j].start = "recorded" /\ job'[j].lease = job[j].lease
  /\ job'[j].app = job[j].lease /\ job'[j].ran = job[j].ran

Started(j) ==
  SameStatus(j) /\ SameApp(j) /\ job'[j].start = "over" /\ job'[j].lease = NULL

RunBy(j, s) ==
  /\ SameStatus(j) /\ SameStart(j) /\ UNCHANGED app
  /\ slot[s].status = "assigned" /\ slot[s].job = j /\ app[slot[s].app].state = "started"
  /\ slot'[s].status = "consumed" /\ slot'[s].job = j
  /\ job'[j].app = job[j].app

JobMove(j) ==
  \/ job'[j] = job[j]
  \/ Proceeded(j) \/ Bound(j) \/ Started(j)
  \/ \E x \in Apps : Recorded(j, x)
  \/ \E s \in Slots : Reserved(j, s) \/ RunBy(j, s)

SameLease(s) ==
  /\ slot'[s].app = slot[s].app /\ slot'[s].job = slot[s].job
  /\ slot[s].expired => slot'[s].expired

SlotMove(s) ==
  \/ slot'[s] = slot[s]
  \/ SameLease(s) /\ slot'[s].status = slot[s].status
  \/ /\ SameLease(s) /\ slot[s].status = "none" /\ slot'[s].status = "claimable"
     /\ \A x \in Apps : Runner[x] = s => app[x].state = "none"
  \/ /\ slot[s].status = "claimable" /\ slot'[s].status = "claimable"
     /\ slot'[s].job = slot[s].job
     /\ \E x \in Apps : app[x].starting /\ Runner[x] = s /\ slot'[s].app = x
  \/ /\ slot[s].status = "claimable" /\ slot'[s].status = "reserved"
     /\ slot'[s].app = slot[s].app /\ slot[s].app # NULL /\ slot'[s].job \in Jobs
     /\ slot[s].expired => slot'[s].expired
  \/ /\ SameLease(s) /\ slot[s].status = "reserved" /\ slot'[s].status = "assigned"
     /\ \E j \in Jobs : job[j].start = "recorded" /\ Runner[job[j].lease] = s
  \/ SameLease(s) /\ slot[s].status = "assigned" /\ slot'[s].status = "consumed"
  \/ /\ SameLease(s) /\ slot'[s].status = "retiring"
     /\ slot[s].status # "consumed" \/ Completed(s)
  \/ Removable(s) /\ slot'[s] = NoSlot

Late == {"idling", "same", "intended", "asked"}

SweepMove(a) ==
  \/ sweep'[a] = sweep[a]
  \/ /\ sweep'[a].pc \notin Late
     /\ \A x \in sweep'[a].list : x \in sweep[a].list \/ app[x].old
  \/ /\ sweep'[a].list = sweep[a].list
     /\ \E x \in Apps :
          /\ Handles(a, x)
          /\ \/ sweep'[a].pc = "idling" /\ AtRest(x)
             \/ sweep'[a].pc = "same" /\ sweep[a].pc = "idling"
             \/ sweep'[a].pc = "intended" /\ sweep[a].pc = "same" /\ Eligible(x)
             \/ sweep'[a].pc = "asked" /\ sweep[a].pc = "intended"

Step ==
  /\ TypeOK'
  /\ \A x \in Apps : AppMove(x)
  /\ \A j \in Jobs : JobMove(j)
  /\ \A s \in Slots : SlotMove(s)
  /\ \A a \in Apis : SweepMove(a)

LEMMA NullApart == NULL \notin Apps /\ NULL \notin Jobs /\ \A s \in Slots : s \notin Jobs
BY CleanupAssumption

LEMMA AppFields ==
  ASSUME NEW r \in AppRow
  PROVE  /\ r = [state |-> r.state, old |-> r.old, busy |-> r.busy, starting |-> r.starting]
         /\ r.state \in {"none", "stopped", "started", "deleting", "gone"}
         /\ r.old \in BOOLEAN /\ r.busy \in BOOLEAN /\ r.starting \in BOOLEAN
BY DEF AppRow

\* The sweep reads: only its own row and the queue change.
LEMMA OneSweep ==
  ASSUME TypeOK, NEW a \in Apis, NEW row \in SweepRow,
         sweep' = [sweep EXCEPT ![a] = row], UNCHANGED <<job, slot, app>>,
         pending' \in Seq(Apps), IsInjective(pending'), receipts' \subseteq Apps,
         \/ row.pc \notin Late /\ \A x \in row.list : x \in sweep[a].list \/ app[x].old
         \/ /\ row.list = sweep[a].list
            /\ \E x \in Apps :
                 /\ Handles(a, x)
                 /\ \/ row.pc = "idling" /\ AtRest(x)
                    \/ row.pc = "same" /\ sweep[a].pc = "idling"
                    \/ row.pc = "intended" /\ sweep[a].pc = "same" /\ Eligible(x)
                    \/ row.pc = "asked" /\ sweep[a].pc = "intended"
  PROVE  Step
<1>1. sweep \in [Apis -> SweepRow]
  BY DEF TypeOK
<1>2. /\ sweep' \in [Apis -> SweepRow] /\ sweep'[a] = row
      /\ \A b \in Apis : b # a => sweep'[b] = sweep[b]
  BY <1>1
<1>3. TypeOK'
  BY <1>2 DEF TypeOK
<1>4. /\ \A x \in Apps : AppMove(x)
      /\ \A j \in Jobs : JobMove(j)
      /\ \A s \in Slots : SlotMove(s)
  BY DEF AppMove, JobMove, SlotMove
<1>5. SweepMove(a)
  BY <1>2 DEF SweepMove
<1>6. \A b \in Apis : SweepMove(b)
  BY <1>2, <1>5 DEF SweepMove
<1>7. QED
  BY <1>3, <1>4, <1>6 DEF Step

\* The row of a pass, and what the queue may become.
LEMMA SweepFields ==
  ASSUME TypeOK, NEW a \in Apis
  PROVE  /\ sweep \in [Apis -> SweepRow] /\ sweep[a] \in SweepRow
         /\ sweep[a].list \subseteq Apps /\ sweep[a].todo \subseteq Apps
         /\ sweep[a].page \in Nat \ {0}
BY DEF TypeOK, SweepRow

LEMMA ConfirmedQueue ==
  ASSUME TypeOK, NEW x \in Apps, Confirmed(x)
  PROVE  /\ pending' \in Seq(Apps) /\ IsInjective(pending') /\ receipts' \subseteq Apps
         /\ \A y : y # x /\ y \in ToSet(pending) => y \in ToSet(pending')
<1>1. pending \in Seq(Apps) /\ IsInjective(pending) /\ receipts' \subseteq Apps
  BY DEF TypeOK, Confirmed
<1>2. CASE \E i \in DOMAIN pending : pending[i] = x /\ pending' = RemoveAt(pending, i)
  BY <1>1, <1>2, ShorterQueue
<1>3. CASE pending' = pending
  BY <1>1, <1>3
<1>4. QED
  BY <1>1, <1>2, <1>3 DEF Confirmed

LEMMA IntendedQueue ==
  ASSUME TypeOK, NEW x \in Apps
  PROVE  /\ Intended(x) \in Seq(Apps) /\ IsInjective(Intended(x))
         /\ ToSet(Intended(x)) = ToSet(pending) \cup {x}
<1>1. pending \in Seq(Apps) /\ IsInjective(pending)
  BY DEF TypeOK
<1>2. CASE x \in ToSet(pending)
  BY <1>1, <1>2 DEF Intended
<1>3. CASE x \notin ToSet(pending)
  BY <1>1, <1>3, LongerQueue DEF Intended
<1>4. QED
  BY <1>2, <1>3

LEMMA TakePendingSteps ==
  ASSUME TypeOK, NEW a \in Apis, TakePending(a)
  PROVE  Step /\ ToSet(pending') = ToSet(pending)
<1>1. pending \in Seq(Apps) /\ IsInjective(pending) /\ receipts \subseteq Apps
  BY DEF TypeOK
<1>2. PICK n : n = IF Batch < Len(pending) THEN Batch ELSE Len(pending)
  OBVIOUS
<1>3. n \in 0..Len(pending) /\ Len(pending) \in Nat
  BY <1>1, <1>2, CleanupAssumption
<1>4. /\ pending' = Requeued(n)
      /\ sweep' = [sweep EXCEPT ![a] =
           [@ EXCEPT !.pc = "confirming", !.todo = ToSet(SubSeq(pending, 1, n))]]
      /\ UNCHANGED <<job, slot, app, receipts>>
  BY <1>2 DEF TakePending
<1>5. pending' \in Seq(Apps) /\ IsInjective(pending') /\ ToSet(pending') = ToSet(pending)
  BY <1>1, <1>3, <1>4, RotatedQueue DEF Requeued
<1>6. PICK t : t = ToSet(SubSeq(pending, 1, n))
  OBVIOUS
<1>7. t \subseteq Apps
  <2>1. SubSeq(pending, 1, n) \in Seq(Apps)
    BY <1>1, <1>3, Piece
  <2>2. QED
    BY <1>6, <2>1, QueueElements
<1>8. PICK row : row = [sweep[a] EXCEPT !.pc = "confirming", !.todo = t]
  OBVIOUS
<1>9. row \in SweepRow /\ row.pc \notin Late /\ row.list = sweep[a].list
  BY <1>7, <1>8, SweepFields DEF SweepRow, Late
<1>10. sweep' = [sweep EXCEPT ![a] = row]
  BY <1>4, <1>6, <1>8, SweepFields
<1>11. Step
  BY <1>1, <1>4, <1>5, <1>9, <1>10, OneSweep
<1>12. QED
  BY <1>5, <1>11

LEMMA PendingSteps ==
  ASSUME TypeOK, NEW a \in Apis, NEW x \in Apps, ConfirmPending(a, x) \/ LeavePending(a, x)
  PROVE  Step
<1>1. PICK t : t = sweep[a].todo \ {x}
  OBVIOUS
<1>2. PICK row : row = [sweep[a] EXCEPT !.todo = t]
  OBVIOUS
<1>3. row \in SweepRow /\ row.pc = "confirming" /\ row.list = sweep[a].list
  BY <1>1, <1>2, SweepFields DEF SweepRow, ConfirmPending, LeavePending
<1>4. sweep' = [sweep EXCEPT ![a] = row] /\ UNCHANGED <<job, slot, app>>
  BY <1>1, <1>2, SweepFields DEF ConfirmPending, LeavePending
<1>5. pending' \in Seq(Apps) /\ IsInjective(pending') /\ receipts' \subseteq Apps
  <2>1. CASE ConfirmPending(a, x)
    BY <2>1, ConfirmedQueue DEF ConfirmPending
  <2>2. CASE LeavePending(a, x)
    BY <2>2 DEF LeavePending, TypeOK
  <2>3. QED
    BY <2>1, <2>2
<1>6. row.pc \notin Late
  BY <1>3 DEF Late
<1>7. QED
  BY <1>3, <1>4, <1>5, <1>6, OneSweep

LEMMA ListPageSteps ==
  ASSUME TypeOK, NEW a \in Apis, ListPage(a)
  PROVE  Step
<1>1. PICK p : p = sweep[a].page
  OBVIOUS
<1>2. PICK l : l = {x \in PageOf(p) : Stopped(x) /\ Aged(x) /\ Owner[x] \in {"here", NULL}}
  OBVIOUS
<1>3. PICK q : q = NextPage(p)
  OBVIOUS
<1>4. q \in Nat \ {0}
  BY <1>1, <1>3, SweepFields DEF NextPage
<1>5. l \subseteq Apps /\ \A x \in l : app[x].old
  BY <1>2 DEF PageOf, Present, Aged
<1>6. PICK row : row = [sweep[a] EXCEPT !.pc = "looking", !.page = q, !.list = l]
  OBVIOUS
<1>7. row \in SweepRow /\ row.pc \notin Late /\ row.list = l
  BY <1>4, <1>5, <1>6, SweepFields DEF SweepRow, Late
<1>8. sweep' = [sweep EXCEPT ![a] = row] /\ UNCHANGED <<job, slot, app, pending, receipts>>
  BY <1>1, <1>2, <1>3, <1>6, SweepFields DEF ListPage
<1>9. pending' \in Seq(Apps) /\ IsInjective(pending') /\ receipts' \subseteq Apps
  BY <1>8 DEF TypeOK
<1>10. QED
  BY <1>5, <1>7, <1>8, <1>9, OneSweep

LEMMA RestingSteps ==
  ASSUME TypeOK, NEW a \in Apis, SweepFails(a) \/ SweepEnds(a) \/ ApiRestarts(a)
  PROVE  Step
<1>1. pending' \in Seq(Apps) /\ IsInjective(pending') /\ receipts' \subseteq Apps
  BY DEF SweepFails, SweepEnds, ApiRestarts, TypeOK
<1>2. CASE SweepFails(a) \/ SweepEnds(a)
  <2>1. PICK row : row = [sweep[a] EXCEPT !.pc = "idle"]
    OBVIOUS
  <2>2. row \in SweepRow /\ row.pc \notin Late /\ row.list = sweep[a].list
    BY <2>1, SweepFields DEF SweepRow, Late
  <2>3. sweep' = [sweep EXCEPT ![a] = row] /\ UNCHANGED <<job, slot, app>>
    BY <1>2, <2>1, SweepFields DEF SweepFails, SweepEnds
  <2>4. QED
    BY <1>1, <2>2, <2>3, OneSweep
<1>3. CASE ApiRestarts(a)
  <2>1. Asleep \in SweepRow /\ Asleep.pc \notin Late /\ Asleep.list = {}
    BY DEF SweepRow, Late, Asleep
  <2>2. QED
    BY <1>1, <1>3, <2>1, OneSweep DEF ApiRestarts
<1>4. QED
  BY <1>2, <1>3

\* Taking the next app of the page.
LEMMA ProceedsRow ==
  ASSUME TypeOK, NEW a \in Apis, NEW x \in Apps, Proceeds(a, x)
  PROVE  \E row \in SweepRow :
           /\ sweep' = [sweep EXCEPT ![a] = row]
           /\ row.pc \notin Late /\ row.list \subseteq sweep[a].list
<1>1. PICK l : l = sweep[a].list \ {x}
  OBVIOUS
<1>2. PICK row : row = [sweep[a] EXCEPT !.pc = "looking", !.list = l]
  OBVIOUS
<1>3. row \in SweepRow /\ row.pc \notin Late /\ row.list = l
  BY <1>1, <1>2, SweepFields DEF SweepRow, Late
<1>4. sweep' = [sweep EXCEPT ![a] = row]
  BY <1>1, <1>2, SweepFields DEF Proceeds
<1>5. QED
  BY <1>1, <1>3, <1>4

\* Going on with the same app.
LEMMA MovesRow ==
  ASSUME TypeOK, NEW a \in Apis, NEW from,
         NEW to \in {"admitted", "idling", "same", "intended", "asked"}, Moves(a, from, to)
  PROVE  \E row \in SweepRow :
           /\ sweep' = [sweep EXCEPT ![a] = row]
           /\ row.pc = to /\ row.list = sweep[a].list /\ sweep[a].pc = from
<1>1. PICK row : row = [sweep[a] EXCEPT !.pc = to]
  OBVIOUS
<1>2. row \in SweepRow /\ row.pc = to /\ row.list = sweep[a].list
  BY <1>1, SweepFields DEF SweepRow
<1>3. sweep' = [sweep EXCEPT ![a] = row] /\ sweep[a].pc = from
  BY <1>1, SweepFields DEF Moves
<1>4. QED
  BY <1>2, <1>3

LEMMA LookSteps ==
  ASSUME TypeOK, NEW a \in Apis, NEW x \in Apps,
         \/ Admit(a, x) \/ Inspect(a, x) \/ LookAgain(a, x) \/ RecordIntent(a, x)
         \/ ConfirmDeletion(a, x) \/ PassOver(a, x)
  PROVE  Step
<1>1. pending \in Seq(Apps) /\ IsInjective(pending) /\ receipts \subseteq Apps
  BY DEF TypeOK
<1>2. CASE Admit(a, x)
  <2>1. PICK row \in SweepRow :
           /\ sweep' = [sweep EXCEPT ![a] = row]
           /\ row.pc = "admitted" /\ row.list = sweep[a].list
    BY <1>2, MovesRow DEF Admit
  <2>2. row.pc \notin Late
    BY <2>1 DEF Late
  <2>3. QED
    BY <1>1, <1>2, <2>1, <2>2, OneSweep DEF Admit
<1>3. CASE Inspect(a, x)
  <2>1. PICK row \in SweepRow :
           /\ sweep' = [sweep EXCEPT ![a] = row]
           /\ row.pc = "idling" /\ row.list = sweep[a].list
    BY <1>3, MovesRow DEF Inspect
  <2>2. Handles(a, x) /\ AtRest(x)
    BY <1>3 DEF Inspect, AtRest, Stopped
  <2>3. QED
    BY <1>1, <1>3, <2>1, <2>2, OneSweep DEF Inspect
<1>4. CASE LookAgain(a, x)
  <2>1. PICK row \in SweepRow :
           /\ sweep' = [sweep EXCEPT ![a] = row]
           /\ row.pc = "same" /\ row.list = sweep[a].list /\ sweep[a].pc = "idling"
    BY <1>4, MovesRow DEF LookAgain
  <2>2. QED
    BY <1>1, <1>4, <2>1, OneSweep DEF LookAgain
<1>5. CASE RecordIntent(a, x)
  <2>1. PICK row \in SweepRow :
           /\ sweep' = [sweep EXCEPT ![a] = row]
           /\ row.pc = "intended" /\ row.list = sweep[a].list /\ sweep[a].pc = "same"
    BY <1>5, MovesRow DEF RecordIntent
  <2>2. pending' \in Seq(Apps) /\ IsInjective(pending') /\ receipts' \subseteq Apps
    BY <1>1, <1>5, IntendedQueue DEF RecordIntent
  <2>3. QED
    BY <1>5, <2>1, <2>2, OneSweep DEF RecordIntent
<1>6. CASE ConfirmDeletion(a, x)
  <2>1. PICK row \in SweepRow :
           /\ sweep' = [sweep EXCEPT ![a] = row]
           /\ row.pc \notin Late /\ row.list \subseteq sweep[a].list
    BY <1>6, ProceedsRow DEF ConfirmDeletion
  <2>2. pending' \in Seq(Apps) /\ IsInjective(pending') /\ receipts' \subseteq Apps
    BY <1>6, ConfirmedQueue DEF ConfirmDeletion
  <2>3. QED
    BY <1>6, <2>1, <2>2, OneSweep DEF ConfirmDeletion
<1>7. CASE PassOver(a, x)
  <2>1. PICK row \in SweepRow :
           /\ sweep' = [sweep EXCEPT ![a] = row]
           /\ row.pc \notin Late /\ row.list \subseteq sweep[a].list
    BY <1>7, ProceedsRow DEF PassOver
  <2>2. QED
    BY <1>1, <1>7, <2>1, OneSweep DEF PassOver
<1>8. QED
  BY <1>2, <1>3, <1>4, <1>5, <1>6, <1>7

LEMMA RequestDeletionSteps ==
  ASSUME TypeOK, NEW a \in Apis, NEW x \in Apps, NEW ack \in BOOLEAN, RequestDeletion(a, x, ack)
  PROVE  Step
<1>1. /\ sweep[a].pc = "intended" /\ Handles(a, x)
      /\ app' = Deleted(x) /\ UNCHANGED <<job, slot, pending, receipts>>
  BY DEF RequestDeletion
<1>2. app \in [Apps -> AppRow] /\ app[x] \in AppRow
  BY DEF TypeOK
<1>3. PICK st : st = IF app[x].state \in {"stopped", "started"} THEN "deleting" ELSE app[x].state
  OBVIOUS
<1>4. app' = [app EXCEPT ![x].state = st]
  BY <1>1, <1>2, <1>3 DEF Deleted
<1>5. /\ app'[x] = [state |-> st, old |-> app[x].old, busy |-> app[x].busy, starting |-> app[x].starting]
      /\ app' \in [Apps -> AppRow] /\ \A y \in Apps : y # x => app'[y] = app[y]
  BY <1>2, <1>3, <1>4 DEF AppRow
<1>6. \A y \in Apps : AppMove(y)
  <2>1. CASE app[x].state \in {"stopped", "started"}
    BY <1>1, <1>3, <1>5, <2>1 DEF AppMove, Created, Changed, Becomes
  <2>2. CASE app[x].state \notin {"stopped", "started"}
    BY <1>2, <1>3, <1>5, <2>2, AppFields DEF AppMove
  <2>3. QED
    BY <2>1, <2>2
<1>7. \E row \in SweepRow :
        /\ sweep' = [sweep EXCEPT ![a] = row]
        /\ \/ row.pc \notin Late /\ row.list \subseteq sweep[a].list
           \/ row.pc = "asked" /\ row.list = sweep[a].list
  <2>1. CASE ack
    <3>1. Moves(a, "intended", "asked")
      BY <2>1 DEF RequestDeletion
    <3>2. QED
      BY <3>1, MovesRow
  <2>2. CASE ~ack
    <3>1. Proceeds(a, x)
      BY <2>2 DEF RequestDeletion
    <3>2. QED
      BY <3>1, ProceedsRow
  <2>3. QED
    BY <2>1, <2>2
<1>8. PICK row \in SweepRow :
        /\ sweep' = [sweep EXCEPT ![a] = row]
        /\ \/ row.pc \notin Late /\ row.list \subseteq sweep[a].list
           \/ row.pc = "asked" /\ row.list = sweep[a].list
  BY <1>7
<1>9. /\ sweep' \in [Apis -> SweepRow] /\ sweep'[a] = row
      /\ \A b \in Apis : b # a => sweep'[b] = sweep[b]
  BY <1>8, SweepFields
<1>10. \A b \in Apis : SweepMove(b)
  <2>1. SweepMove(a)
    BY <1>1, <1>8, <1>9 DEF SweepMove
  <2>2. QED
    BY <1>9, <2>1 DEF SweepMove
<1>11. (\A j \in Jobs : JobMove(j)) /\ \A s \in Slots : SlotMove(s)
  BY <1>1 DEF JobMove, SlotMove
<1>12. TypeOK'
  BY <1>1, <1>5, <1>9 DEF TypeOK
<1>13. QED
  BY <1>6, <1>10, <1>11, <1>12 DEF Step

LEMMA Stutter ==
  ASSUME TypeOK, UNCHANGED vars
  PROVE  Step
<1>1. UNCHANGED <<job, slot, app, pending, receipts, sweep>>
  BY DEF vars
<1>2. TypeOK'
  BY <1>1 DEF TypeOK
<1>3. QED
  BY <1>1, <1>2 DEF Step, AppMove, JobMove, SlotMove, SweepMove

\* Only one app changes, only one job, only one lease.
LEMMA OneApp ==
  ASSUME TypeOK, NEW x \in Apps, NEW row \in AppRow, app' = [app EXCEPT ![x] = row],
         UNCHANGED <<job, slot, pending, receipts, sweep>>, app'[x] = row => AppMove(x)
  PROVE  Step
<1>1. /\ app' \in [Apps -> AppRow] /\ app'[x] = row
      /\ \A y \in Apps : y # x => app'[y] = app[y]
  BY DEF TypeOK
<1>2. \A y \in Apps : AppMove(y)
  BY <1>1 DEF AppMove
<1>3. /\ \A j \in Jobs : JobMove(j)
      /\ \A s \in Slots : SlotMove(s)
      /\ \A a \in Apis : SweepMove(a)
  BY DEF JobMove, SlotMove, SweepMove
<1>4. TypeOK'
  BY <1>1 DEF TypeOK
<1>5. QED
  BY <1>2, <1>3, <1>4 DEF Step

LEMMA OneJob ==
  ASSUME TypeOK, NEW j \in Jobs, NEW row \in JobRow, job' = [job EXCEPT ![j] = row],
         UNCHANGED <<slot, app, pending, receipts, sweep>>, job'[j] = row => JobMove(j)
  PROVE  Step
<1>1. /\ job' \in [Jobs -> JobRow] /\ job'[j] = row
      /\ \A k \in Jobs : k # j => job'[k] = job[k]
  BY DEF TypeOK
<1>2. \A k \in Jobs : JobMove(k)
  BY <1>1 DEF JobMove
<1>3. /\ \A x \in Apps : AppMove(x)
      /\ \A s \in Slots : SlotMove(s)
      /\ \A a \in Apis : SweepMove(a)
  BY DEF AppMove, SlotMove, SweepMove
<1>4. TypeOK'
  BY <1>1 DEF TypeOK
<1>5. QED
  BY <1>2, <1>3, <1>4 DEF Step

LEMMA OneSlot ==
  ASSUME TypeOK, NEW s \in Slots, NEW row \in SlotRow, slot' = [slot EXCEPT ![s] = row],
         UNCHANGED <<job, app, pending, receipts, sweep>>, slot'[s] = row => SlotMove(s)
  PROVE  Step
<1>1. /\ slot' \in [Slots -> SlotRow] /\ slot'[s] = row
      /\ \A t \in Slots : t # s => slot'[t] = slot[t]
  BY DEF TypeOK
<1>2. \A t \in Slots : SlotMove(t)
  BY <1>1 DEF SlotMove
<1>3. /\ \A x \in Apps : AppMove(x)
      /\ \A j \in Jobs : JobMove(j)
      /\ \A a \in Apis : SweepMove(a)
  BY DEF AppMove, JobMove, SweepMove
<1>4. TypeOK'
  BY <1>1 DEF TypeOK
<1>5. QED
  BY <1>2, <1>3, <1>4 DEF Step

LEMMA AppSteps ==
  ASSUME TypeOK, NEW x \in Apps, Gone(x) \/ Create(x) \/ Stops(x) \/ Age(x)
  PROVE  Step
<1>1. app \in [Apps -> AppRow] /\ app[x] \in AppRow
  BY DEF TypeOK
<1>2. CASE Gone(x)
  <2>1. PICK row : row = [app[x] EXCEPT !.state = "gone", !.busy = FALSE]
    OBVIOUS
  <2>2. /\ row \in AppRow /\ app' = [app EXCEPT ![x] = row]
        /\ row = [state |-> "gone", old |-> app[x].old,
                  busy |-> FALSE, starting |-> app[x].starting]
    <3>1. /\ row \in AppRow /\ row.state = "gone" /\ row.old = app[x].old
          /\ row.busy = FALSE /\ row.starting = app[x].starting
      BY <1>1, <1>2, <2>1 DEF AppRow
    <3>2. row = [state |-> row.state, old |-> row.old, busy |-> row.busy, starting |-> row.starting]
      BY <3>1, AppFields
    <3>3. app' = [app EXCEPT ![x] = row]
      BY <1>1, <1>2, <2>1 DEF Gone
    <3>4. QED
      BY <3>1, <3>2, <3>3
  <2>3. app'[x] = row => AppMove(x)
    BY <1>2, <2>2 DEF AppMove, Created, Changed, Becomes, Gone
  <2>4. QED
    BY <1>2, <2>2, <2>3, OneApp DEF Gone
<1>3. CASE Create(x)
  <2>1. PICK g \in BOOLEAN : g = (x \notin Foreign)
    OBVIOUS
  <2>2. PICK row : row = [app[x] EXCEPT !.state = "stopped", !.starting = g]
    OBVIOUS
  <2>3. app' = [app EXCEPT ![x].state = "stopped", ![x].starting = g] /\ app[x].state = "none"
    BY <1>3, <2>1 DEF Create
  <2>4. /\ row \in AppRow /\ app' = [app EXCEPT ![x] = row]
        /\ row = [state |-> "stopped", old |-> app[x].old,
                  busy |-> app[x].busy, starting |-> g]
    <3>1. /\ row \in AppRow /\ row.state = "stopped" /\ row.old = app[x].old
          /\ row.busy = app[x].busy /\ row.starting = g
      BY <1>1, <2>1, <2>2, <2>3 DEF AppRow
    <3>2. row = [state |-> row.state, old |-> row.old, busy |-> row.busy, starting |-> row.starting]
      BY <3>1, AppFields
    <3>3. app' = [app EXCEPT ![x] = row]
      BY <1>1, <2>1, <2>2, <2>3
    <3>4. QED
      BY <3>1, <3>2, <3>3
  <2>5. app'[x] = row => AppMove(x)
    <3>1. g => x \notin Foreign /\ (Runner[x] \in Jobs => job[Runner[x]].status = "live")
      BY <1>3, <2>1, NullApart DEF Create
    <3>2. QED
      BY <2>3, <2>4, <3>1 DEF AppMove, Created, Becomes
  <2>6. QED
    BY <1>3, <2>4, <2>5, OneApp DEF Create
<1>4. CASE Stops(x)
  <2>1. PICK row : row = [app[x] EXCEPT !.state = "stopped", !.busy = FALSE]
    OBVIOUS
  <2>2. /\ row \in AppRow /\ app' = [app EXCEPT ![x] = row]
        /\ row = [state |-> "stopped", old |-> app[x].old,
                  busy |-> FALSE, starting |-> app[x].starting]
    <3>1. /\ row \in AppRow /\ row.state = "stopped" /\ row.old = app[x].old
          /\ row.busy = FALSE /\ row.starting = app[x].starting
      BY <1>1, <1>4, <2>1 DEF AppRow
    <3>2. row = [state |-> row.state, old |-> row.old, busy |-> row.busy, starting |-> row.starting]
      BY <3>1, AppFields
    <3>3. app' = [app EXCEPT ![x] = row]
      BY <1>1, <1>4, <2>1 DEF Stops
    <3>4. QED
      BY <3>1, <3>2, <3>3
  <2>3. app'[x] = row => AppMove(x)
    BY <1>4, <2>2 DEF AppMove, Created, Changed, Becomes, Stops
  <2>4. QED
    BY <1>4, <2>2, <2>3, OneApp DEF Stops
<1>5. CASE Age(x)
  <2>1. PICK row : row = [app[x] EXCEPT !.old = TRUE]
    OBVIOUS
  <2>2. /\ row \in AppRow /\ app' = [app EXCEPT ![x] = row]
        /\ row = [state |-> app[x].state, old |-> TRUE,
                  busy |-> app[x].busy, starting |-> app[x].starting]
    <3>1. /\ row \in AppRow /\ row.state = app[x].state /\ row.old = TRUE
          /\ row.busy = app[x].busy /\ row.starting = app[x].starting
      BY <1>1, <1>5, <2>1 DEF AppRow
    <3>2. row = [state |-> row.state, old |-> row.old, busy |-> row.busy, starting |-> row.starting]
      BY <3>1, AppFields
    <3>3. app' = [app EXCEPT ![x] = row]
      BY <1>1, <1>5, <2>1 DEF Age
    <3>4. QED
      BY <3>1, <3>2, <3>3
  <2>3. app'[x] = row => AppMove(x)
    BY <1>5, <2>2 DEF AppMove, Ages, Becomes, Age
  <2>4. QED
    BY <1>5, <2>2, <2>3, OneApp DEF Age
<1>6. QED
  BY <1>2, <1>3, <1>4, <1>5

LEMMA LaunchSteps ==
  ASSUME TypeOK, NEW x \in Apps, Launch(x)
  PROVE  Step
<1>1. app \in [Apps -> AppRow] /\ app[x] \in AppRow /\ app[x].starting
  BY DEF TypeOK, Launch
<1>2. CASE app' = [app EXCEPT ![x].starting = FALSE]
  <2>1. PICK row : row = [app[x] EXCEPT !.starting = FALSE]
    OBVIOUS
  <2>2. /\ row \in AppRow /\ app' = [app EXCEPT ![x] = row]
        /\ row = [state |-> app[x].state, old |-> app[x].old,
                  busy |-> app[x].busy, starting |-> FALSE]
    <3>1. /\ row \in AppRow /\ row.state = app[x].state /\ row.old = app[x].old
          /\ row.busy = app[x].busy /\ row.starting = FALSE
      BY <1>1, <1>2, <2>1 DEF AppRow
    <3>2. row = [state |-> row.state, old |-> row.old, busy |-> row.busy, starting |-> row.starting]
      BY <3>1, AppFields
    <3>3. app' = [app EXCEPT ![x] = row]
      BY <1>1, <1>2, <2>1
    <3>4. QED
      BY <3>1, <3>2, <3>3
  <2>3. app'[x] = row => AppMove(x)
    BY <1>1, <2>2 DEF AppMove, Created, Changed, Becomes
  <2>4. QED
    BY <2>2, <2>3, OneApp DEF Launch
<1>3. CASE app' # [app EXCEPT ![x].starting = FALSE]
  <2>1. PICK st : st = IF Kind(x) = "plan" THEN "stopped" ELSE "started"
    OBVIOUS
  <2>2. /\ app[x].state = "stopped"
        /\ app' = [app EXCEPT ![x] = [@ EXCEPT !.starting = FALSE, !.busy = TRUE, !.state = st]]
    BY <1>3, <2>1 DEF Launch
  <2>3. PICK row : row = [app[x] EXCEPT !.starting = FALSE, !.busy = TRUE, !.state = st]
    OBVIOUS
  <2>4. st \in {"stopped", "started"}
    BY <2>1
  <2>5. /\ row \in AppRow /\ app' = [app EXCEPT ![x] = row]
        /\ row = [state |-> st, old |-> app[x].old,
                  busy |-> TRUE, starting |-> FALSE]
    <3>1. /\ row \in AppRow /\ row.state = st /\ row.old = app[x].old
          /\ row.busy = TRUE /\ row.starting = FALSE
      BY <1>1, <2>2, <2>3, <2>4 DEF AppRow
    <3>2. row = [state |-> row.state, old |-> row.old, busy |-> row.busy, starting |-> row.starting]
      BY <3>1, AppFields
    <3>3. app' = [app EXCEPT ![x] = row]
      BY <1>1, <2>2, <2>3, <2>4
    <3>4. QED
      BY <3>1, <3>2, <3>3
  <2>6. app'[x] = row => AppMove(x)
    BY <1>1, <2>2, <2>4, <2>5 DEF AppMove, Created, Changed, Becomes
  <2>7. QED
    BY <2>5, <2>6, OneApp DEF Launch
<1>4. QED
  BY <1>2, <1>3

LEMMA JobSteps ==
  ASSUME TypeOK, NEW j \in Jobs,
         \/ Begin(j) \/ End(j) \/ Mature(j) \/ Hold(j) \/ Clear(j)
         \/ TicketsExpire(j) \/ LateRecovery(j)
  PROVE  Step
<1>1. job \in [Jobs -> JobRow] /\ job[j] \in JobRow
  BY DEF TypeOK
<1>2. CASE Begin(j)
  <2>1. PICK row : row = [job[j] EXCEPT !.status = "live"]
    OBVIOUS
  <2>2. row \in JobRow /\ job' = [job EXCEPT ![j] = row]
    BY <1>1, <1>2, <2>1 DEF JobRow, Begin
  <2>3. /\ row.app = job[j].app /\ row.status = "live" /\ row.start = job[j].start
        /\ row.lease = job[j].lease /\ row.ran = job[j].ran
    BY <1>1, <2>1 DEF JobRow
  <2>4. job'[j] = row => JobMove(j)
    <3>1. \A x \in Foreign : Runner[x] # j
      BY <1>2 DEF Begin
    <3>2. QED
      BY <1>2, <2>3, <3>1 DEF JobMove, Proceeded, SameApp, SameStart, Begin
  <2>5. QED
    BY <1>2, <2>2, <2>4, OneJob DEF Begin
<1>3. CASE \/ End(j) \/ Mature(j) \/ Hold(j) \/ Clear(j)
           \/ TicketsExpire(j) \/ LateRecovery(j)
  <2>1. PICK from \in {"live", "recent", "held", "clearing"},
             to \in {"recent", "ended", "held", "clearing", "cleared"} :
               JobMoves(j, from, to) /\ (from = "recent" => to = "ended")
    BY <1>3 DEF End, Mature, Hold, Clear, TicketsExpire, LateRecovery
  <2>2. PICK row : row = [job[j] EXCEPT !.status = to]
    OBVIOUS
  <2>3. row \in JobRow /\ job' = [job EXCEPT ![j] = row]
    BY <1>1, <2>1, <2>2 DEF JobRow, JobMoves
  <2>4. /\ row.app = job[j].app /\ row.status = to /\ job[j].status = from
        /\ row.start = job[j].start /\ row.lease = job[j].lease /\ row.ran = job[j].ran
    BY <1>1, <2>1, <2>2 DEF JobRow, JobMoves
  <2>5. job'[j] = row => JobMove(j)
    BY <2>1, <2>4 DEF JobMove, Proceeded, SameApp, SameStart, Open
  <2>6. QED
    BY <2>1, <2>3, <2>5, OneJob DEF JobMoves
<1>4. QED
  BY <1>2, <1>3

LEMMA RecordSteps ==
  ASSUME TypeOK, NEW x \in Apps, Record(x)
  PROVE  Step
<1>1. job \in [Jobs -> JobRow] /\ slot \in [Slots -> SlotRow] /\ app[x].starting
  BY DEF TypeOK, Record
<1>2. CASE /\ Runner[x] \in Jobs /\ job[Runner[x]].status = "live" /\ job[Runner[x]].app = NULL
           /\ job' = [job EXCEPT ![Runner[x]].app = x] /\ UNCHANGED slot
  <2>1. PICK r \in Jobs : r = Runner[x]
    BY <1>2
  <2>2. PICK row : row = [job[r] EXCEPT !.app = x]
    OBVIOUS
  <2>3. row \in JobRow /\ job' = [job EXCEPT ![r] = row]
    BY <1>1, <1>2, <2>1, <2>2 DEF JobRow
  <2>4. /\ row.app = x /\ row.status = job[r].status /\ row.start = job[r].start
        /\ row.lease = job[r].lease /\ row.ran = job[r].ran
    BY <1>1, <2>2 DEF JobRow
  <2>5. job'[r] = row => JobMove(r)
    <3>1. ASSUME job'[r] = row PROVE Recorded(r, x)
      BY <1>1, <1>2, <2>1, <2>4, <3>1 DEF Recorded, SameStatus, SameStart, Record
    <3>2. QED
      BY <3>1 DEF JobMove
  <2>6. QED
    BY <1>2, <2>3, <2>5, OneJob DEF Record
<1>3. CASE /\ Runner[x] \in Slots /\ slot[Runner[x]].status = "claimable" /\ slot[Runner[x]].app = NULL
           /\ slot' = [slot EXCEPT ![Runner[x]].app = x] /\ UNCHANGED job
  <2>1. PICK r \in Slots : r = Runner[x]
    BY <1>3
  <2>2. PICK row : row = [slot[r] EXCEPT !.app = x]
    OBVIOUS
  <2>3. row \in SlotRow /\ slot' = [slot EXCEPT ![r] = row]
    BY <1>1, <1>3, <2>1, <2>2 DEF SlotRow
  <2>4. row.app = x /\ row.status = slot[r].status /\ row.job = slot[r].job
    BY <1>1, <2>2 DEF SlotRow
  <2>5. slot'[r] = row => SlotMove(r)
    BY <1>1, <1>3, <2>1, <2>4 DEF SlotMove
  <2>6. QED
    BY <1>3, <2>3, <2>5, OneSlot DEF Record
<1>4. QED
  BY <1>2, <1>3 DEF Record

LEMMA BindSteps ==
  ASSUME TypeOK, NEW j \in Jobs, Bind(j)
  PROVE  Step
<1>1. job \in [Jobs -> JobRow] /\ job[j] \in JobRow /\ job[j].lease \in Apps \cup {NULL}
  BY DEF TypeOK, JobRow
<1>2. PICK row : row = [job[j] EXCEPT !.app = job[j].lease, !.start = "recorded"]
  OBVIOUS
<1>3. row \in JobRow /\ job' = [job EXCEPT ![j] = row]
  BY <1>1, <1>2 DEF JobRow, Bind
<1>4. /\ row.app = job[j].lease /\ row.start = "recorded" /\ row.status = job[j].status
      /\ row.lease = job[j].lease /\ row.ran = job[j].ran
  BY <1>1, <1>2 DEF JobRow
<1>5. job'[j] = row => JobMove(j)
  <2>1. ASSUME job'[j] = row PROVE Bound(j)
    BY <1>4, <2>1 DEF Bound, SameStatus, Bind
  <2>2. QED
    BY <2>1 DEF JobMove
<1>6. QED
  BY <1>3, <1>5, OneJob DEF Bind

\* A job and the lease it holds change in one step.
LEMMA JobAndLease ==
  ASSUME TypeOK, NEW j \in Jobs, NEW r \in JobRow, job' = [job EXCEPT ![j] = r],
         NEW s \in Slots, NEW row \in SlotRow, slot' = [slot EXCEPT ![s] = row],
         UNCHANGED <<app, pending, receipts, sweep>>,
         job'[j] = r /\ slot'[s] = row => JobMove(j) /\ SlotMove(s)
  PROVE  Step
<1>1. /\ job' \in [Jobs -> JobRow] /\ job'[j] = r
      /\ \A k \in Jobs : k # j => job'[k] = job[k]
      /\ slot' \in [Slots -> SlotRow] /\ slot'[s] = row
      /\ \A t \in Slots : t # s => slot'[t] = slot[t]
  BY DEF TypeOK
<1>2. (\A k \in Jobs : JobMove(k)) /\ \A t \in Slots : SlotMove(t)
  BY <1>1 DEF JobMove, SlotMove
<1>3. (\A x \in Apps : AppMove(x)) /\ \A a \in Apis : SweepMove(a)
  BY DEF AppMove, SweepMove
<1>4. TypeOK'
  BY <1>1 DEF TypeOK
<1>5. QED
  BY <1>2, <1>3, <1>4 DEF Step

LEMMA ReserveSteps ==
  ASSUME TypeOK, NEW s \in Slots, NEW j \in Jobs, Reserve(s, j)
  PROVE  Step
<1>1. /\ slot \in [Slots -> SlotRow] /\ slot[s] \in SlotRow
      /\ job \in [Jobs -> JobRow] /\ job[j] \in JobRow
  BY DEF TypeOK
<1>2. PICK x : x = slot[s].app
  OBVIOUS
<1>3. x \in Apps
  BY <1>1, <1>2 DEF SlotRow, Reserve
<1>4. PICK row : row = [slot[s] EXCEPT !.status = "reserved", !.job = j]
  OBVIOUS
<1>5. /\ row \in SlotRow /\ row.status = "reserved" /\ row.job = j /\ row.app = x
      /\ row.expired = slot[s].expired /\ slot' = [slot EXCEPT ![s] = row]
  <2>1. "reserved" \in Claimable
    BY DEF Claimable
  <2>2. /\ row \in SlotRow /\ row.status = "reserved" /\ row.job = j /\ row.app = x
        /\ row.expired = slot[s].expired
    BY <1>1, <1>2, <1>4, <2>1 DEF SlotRow
  <2>3. slot' = [slot EXCEPT ![s] = row]
    BY <1>1, <1>4 DEF Reserve
  <2>4. QED
    BY <2>2, <2>3
<1>6. PICK r : r = [job[j] EXCEPT !.start = "reserved", !.lease = x]
  OBVIOUS
<1>7. /\ r \in JobRow /\ r.start = "reserved" /\ r.lease = x /\ r.status = job[j].status
      /\ r.app = job[j].app /\ r.ran = job[j].ran /\ job' = [job EXCEPT ![j] = r]
  BY <1>1, <1>2, <1>3, <1>6 DEF JobRow, Reserve
<1>8. ASSUME job'[j] = r, slot'[s] = row PROVE JobMove(j) /\ SlotMove(s)
  <2>1. Reserved(j, s)
    BY <1>2, <1>3, <1>5, <1>7, <1>8 DEF Reserved, SameStatus, SameApp, Reserve
  <2>2. SlotMove(s)
    BY <1>2, <1>5, <1>8 DEF SlotMove, Reserve
  <2>3. QED
    BY <2>1, <2>2 DEF JobMove
<1>9. UNCHANGED <<app, pending, receipts, sweep>>
  BY DEF Reserve
<1>10. QED
  BY <1>5, <1>7, <1>8, <1>9, JobAndLease

\* start() is over for the job, whatever became of its lease.
LEMMA StartedJob ==
  ASSUME TypeOK, NEW j \in Jobs,
         job' = [job EXCEPT ![j] = [@ EXCEPT !.start = "over", !.lease = NULL]]
  PROVE  \E r \in JobRow : job' = [job EXCEPT ![j] = r] /\ (job'[j] = r => Started(j))
<1>1. job \in [Jobs -> JobRow] /\ job[j] \in JobRow
  BY DEF TypeOK
<1>2. PICK r : r = [job[j] EXCEPT !.start = "over", !.lease = NULL]
  OBVIOUS
<1>3. /\ r \in JobRow /\ r.start = "over" /\ r.lease = NULL /\ r.status = job[j].status
      /\ r.app = job[j].app /\ r.ran = job[j].ran /\ job' = [job EXCEPT ![j] = r]
  BY <1>1, <1>2 DEF JobRow
<1>4. job'[j] = r => Started(j)
  BY <1>3 DEF Started, SameStatus, SameApp
<1>5. QED
  BY <1>3, <1>4

\* The lease has another status, and is otherwise the same.
LEMMA LeaseRow ==
  ASSUME TypeOK, NEW s \in Slots,
         NEW st \in {"claimable", "assigned", "consumed", "retiring"},
         slot' = [slot EXCEPT ![s].status = st]
  PROVE  \E row \in SlotRow :
           /\ slot' = [slot EXCEPT ![s] = row] /\ row.status = st
           /\ slot'[s] = row => SameLease(s)
<1>1. slot \in [Slots -> SlotRow] /\ slot[s] \in SlotRow
  BY DEF TypeOK
<1>2. PICK row : row = [slot[s] EXCEPT !.status = st]
  OBVIOUS
<1>3. /\ row \in SlotRow /\ row.status = st /\ row.app = slot[s].app /\ row.job = slot[s].job
      /\ row.expired = slot[s].expired /\ slot' = [slot EXCEPT ![s] = row]
  BY <1>1, <1>2 DEF SlotRow, Claimable
<1>4. slot'[s] = row => SameLease(s)
  BY <1>3 DEF SameLease
<1>5. QED
  BY <1>3, <1>4

\* A job whose lease has no row: EXCEPT changes nothing.
LEMMA NoLease ==
  ASSUME TypeOK, NEW s, s \notin Slots, NEW st, slot' = [slot EXCEPT ![s].status = st]
  PROVE  slot' = slot
<1>1. slot \in [Slots -> SlotRow]
  BY DEF TypeOK
<1>2. QED
  BY <1>1

LEMMA AssignSteps ==
  ASSUME TypeOK, NEW j \in Jobs, NEW ack \in BOOLEAN, Assign(j, ack)
  PROVE  Step
<1>1. PICK s : s = Runner[job[j].lease]
  OBVIOUS
<1>2. /\ job[j].start = "recorded" /\ slot[s].status = "reserved"
      /\ slot' = [slot EXCEPT ![s].status = "assigned"]
      /\ UNCHANGED <<app, pending, receipts, sweep>>
  BY <1>1 DEF Assign
<1>3. ASSUME NEW row \in SlotRow, s \in Slots, slot'[s] = row, row.status = "assigned",
             slot'[s] = row => SameLease(s)
      PROVE  SlotMove(s)
  BY <1>1, <1>2, <1>3 DEF SlotMove
<1>4. CASE ack
  <2>1. job' = [job EXCEPT ![j] = [@ EXCEPT !.start = "over", !.lease = NULL]]
    BY <1>4 DEF Assign
  <2>2. PICK r \in JobRow : job' = [job EXCEPT ![j] = r] /\ (job'[j] = r => Started(j))
    BY <2>1, StartedJob
  <2>3. job'[j] = r => JobMove(j)
    BY <2>2 DEF JobMove
  <2>4. CASE s \in Slots
    <3>1. PICK row \in SlotRow :
            /\ slot' = [slot EXCEPT ![s] = row] /\ row.status = "assigned"
            /\ slot'[s] = row => SameLease(s)
      BY <1>2, <2>4, LeaseRow
    <3>2. slot'[s] = row => SlotMove(s)
      BY <1>3, <2>4, <3>1
    <3>3. job'[j] = r /\ slot'[s] = row => JobMove(j) /\ SlotMove(s)
      BY <2>3, <3>2
    <3>4. job' = [job EXCEPT ![j] = r] /\ UNCHANGED <<app, pending, receipts, sweep>>
      BY <1>2, <2>2
    <3>5. QED
      BY <2>4, <3>1, <3>3, <3>4, JobAndLease
  <2>5. CASE s \notin Slots
    BY <1>2, <2>2, <2>3, <2>5, NoLease, OneJob
  <2>6. QED
    BY <2>4, <2>5
<1>5. CASE ~ack
  <2>1. job' = job
    BY <1>5 DEF Assign
  <2>2. CASE s \in Slots
    <3>1. PICK row \in SlotRow :
            /\ slot' = [slot EXCEPT ![s] = row] /\ row.status = "assigned"
            /\ slot'[s] = row => SameLease(s)
      BY <1>2, <2>2, LeaseRow
    <3>2. QED
      BY <1>2, <1>3, <2>1, <2>2, <3>1, OneSlot
  <2>3. CASE s \notin Slots
    <3>1. UNCHANGED vars
      BY <1>2, <2>1, <2>3, NoLease DEF vars
    <3>2. QED
      BY <3>1, Stutter
  <2>4. QED
    BY <2>2, <2>3
<1>6. QED
  BY <1>4, <1>5

LEMMA GiveUpSteps ==
  ASSUME TypeOK, NEW j \in Jobs, GiveUp(j)
  PROVE  Step
<1>1. PICK s : s = Runner[job[j].lease]
  OBVIOUS
<1>2. /\ job' = [job EXCEPT ![j] = [@ EXCEPT !.start = "over", !.lease = NULL]]
      /\ UNCHANGED <<app, pending, receipts, sweep>>
      /\ \/ UNCHANGED slot
         \/ slot[s].status # "consumed" /\ slot' = [slot EXCEPT ![s].status = "retiring"]
  BY <1>1 DEF GiveUp
<1>3. PICK r \in JobRow : job' = [job EXCEPT ![j] = r] /\ (job'[j] = r => Started(j))
  BY <1>2, StartedJob
<1>4. job'[j] = r => JobMove(j)
  BY <1>3 DEF JobMove
<1>5. CASE UNCHANGED slot
  BY <1>2, <1>3, <1>4, <1>5, OneJob
<1>6. CASE slot[s].status # "consumed" /\ slot' = [slot EXCEPT ![s].status = "retiring"]
  <2>1. CASE s \in Slots
    <3>1. PICK row \in SlotRow :
            /\ slot' = [slot EXCEPT ![s] = row] /\ row.status = "retiring"
            /\ slot'[s] = row => SameLease(s)
      BY <1>6, <2>1, LeaseRow
    <3>2. slot'[s] = row => SlotMove(s)
      BY <1>6, <3>1 DEF SlotMove
    <3>3. job'[j] = r /\ slot'[s] = row => JobMove(j) /\ SlotMove(s)
      BY <1>4, <3>2
    <3>4. job' = [job EXCEPT ![j] = r] /\ slot' = [slot EXCEPT ![s] = row]
      BY <1>3, <3>1
    <3>5. QED
      BY <1>2, <2>1, <3>3, <3>4, JobAndLease
  <2>2. CASE s \notin Slots
    <3>1. slot' = slot
      BY <1>6, <2>2, NoLease
    <3>2. QED
      BY <1>2, <1>3, <1>4, <3>1, OneJob
  <2>3. QED
    BY <2>1, <2>2
<1>7. QED
  BY <1>2, <1>5, <1>6

LEMMA ClaimSteps ==
  ASSUME TypeOK, NEW s \in Slots, Claim(s)
  PROVE  Step
<1>1. job \in [Jobs -> JobRow] /\ slot[s] \in SlotRow
  BY DEF TypeOK
<1>2. PICK j : j = slot[s].job
  OBVIOUS
<1>3. /\ slot[s].status = "assigned" /\ app[slot[s].app].state = "started"
      /\ slot' = [slot EXCEPT ![s].status = "consumed"]
      /\ job' = [job EXCEPT ![j].ran = TRUE]
      /\ UNCHANGED <<app, pending, receipts, sweep>>
  BY <1>2 DEF Claim
<1>4. PICK row \in SlotRow :
        /\ slot' = [slot EXCEPT ![s] = row] /\ row.status = "consumed"
        /\ slot'[s] = row => SameLease(s)
  BY <1>3, LeaseRow
<1>5. slot'[s] = row => SlotMove(s)
  BY <1>3, <1>4 DEF SlotMove
<1>6. CASE j \in Jobs
  <2>1. PICK r : r = [job[j] EXCEPT !.ran = TRUE]
    OBVIOUS
  <2>2. /\ r \in JobRow /\ r.status = job[j].status /\ r.app = job[j].app
        /\ r.start = job[j].start /\ r.lease = job[j].lease /\ job' = [job EXCEPT ![j] = r]
    BY <1>1, <1>3, <1>6, <2>1 DEF JobRow
  <2>3. ASSUME job'[j] = r, slot'[s] = row PROVE JobMove(j) /\ SlotMove(s)
    <3>1. RunBy(j, s)
      BY <1>2, <1>3, <1>4, <2>2, <2>3 DEF RunBy, SameStatus, SameStart, SameLease
    <3>2. QED
      BY <1>5, <2>3, <3>1 DEF JobMove
  <2>4. job'[j] = r /\ slot'[s] = row => JobMove(j) /\ SlotMove(s)
    BY <2>3
  <2>5. r \in JobRow /\ job' = [job EXCEPT ![j] = r] /\ UNCHANGED <<app, pending, receipts, sweep>>
    BY <1>3, <2>2
  <2>6. slot' = [slot EXCEPT ![s] = row]
    BY <1>4
  <2>7. QED
    BY <1>6, <2>4, <2>5, <2>6, JobAndLease
<1>7. CASE j \notin Jobs
  <2>1. job' = job
    BY <1>1, <1>3, <1>7
  <2>2. QED
    BY <1>3, <1>4, <1>5, <2>1, OneSlot
<1>8. QED
  BY <1>6, <1>7

LEMMA LeaseSteps ==
  ASSUME TypeOK, NEW s \in Slots, Lease(s) \/ Expire(s) \/ Retire(s)
  PROVE  Step
<1>1. slot \in [Slots -> SlotRow] /\ slot[s] \in SlotRow
  BY DEF TypeOK
<1>2. CASE Lease(s)
  <2>1. PICK row \in SlotRow :
          /\ slot' = [slot EXCEPT ![s] = row] /\ row.status = "claimable"
          /\ slot'[s] = row => SameLease(s)
    BY <1>2, LeaseRow DEF Lease
  <2>2. slot'[s] = row => SlotMove(s)
    BY <1>2, <2>1 DEF SlotMove, Lease
  <2>3. QED
    BY <1>2, <2>1, <2>2, OneSlot DEF Lease
<1>3. CASE Expire(s)
  <2>1. PICK row : row = [slot[s] EXCEPT !.expired = TRUE]
    OBVIOUS
  <2>2. row \in SlotRow /\ slot' = [slot EXCEPT ![s] = row]
    BY <1>1, <1>3, <2>1 DEF SlotRow, Expire
  <2>3. row.app = slot[s].app /\ row.status = slot[s].status /\ row.job = slot[s].job /\ row.expired
    BY <1>1, <2>1 DEF SlotRow
  <2>4. slot'[s] = row => SlotMove(s)
    BY <2>3 DEF SlotMove, SameLease
  <2>5. QED
    BY <1>3, <2>2, <2>4, OneSlot DEF Expire
<1>4. CASE Retire(s)
  <2>1. PICK row \in SlotRow :
          /\ slot' = [slot EXCEPT ![s] = row] /\ row.status = "retiring"
          /\ slot'[s] = row => SameLease(s)
    BY <1>4, LeaseRow DEF Retire
  <2>2. slot[s].status # "consumed" \/ Completed(s)
    BY <1>4 DEF Retire, Claimable
  <2>3. slot'[s] = row => SlotMove(s)
    BY <2>1, <2>2 DEF SlotMove
  <2>4. QED
    BY <1>4, <2>1, <2>3, OneSlot DEF Retire
<1>5. QED
  BY <1>2, <1>3, <1>4

LEMMA RemovalSteps ==
  ASSUME TypeOK, NEW r, app' = Removed(r), UNCHANGED <<job, slot, pending, receipts, sweep>>,
         (r \in Slots /\ Removable(r)) \/ (r \in Jobs /\ Over(r))
  PROVE  Step
<1>1. app \in [Apps -> AppRow]
  BY DEF TypeOK
<1>2. ASSUME NEW x \in Apps PROVE AppMove(x) /\ app'[x] \in AppRow
  <2>1. app[x] \in AppRow
    BY <1>1
  <2>2. CASE x \in Named(r)
    <3>1. app'[x] = [app[x] EXCEPT !.state = "gone", !.busy = FALSE]
      BY <2>2 DEF Removed
    <3>2. Becomes(x, "gone", app[x].old, FALSE, app[x].starting) /\ app'[x] \in AppRow
      BY <2>1, <3>1 DEF Becomes, AppRow
    <3>3. Surplus(x) /\ app[x].state \in {"stopped", "started"}
      BY <2>2 DEF Named, Surplus
    <3>4. QED
      BY <3>2, <3>3 DEF AppMove, Changed
  <2>3. CASE x \notin Named(r)
    <3>1. app'[x] = app[x]
      BY <2>3 DEF Removed
    <3>2. QED
      BY <2>1, <3>1 DEF AppMove
  <2>4. QED
    BY <2>2, <2>3
<1>3. app' \in [Apps -> AppRow]
  <2>1. app' = [x \in Apps |-> app'[x]]
    BY DEF Removed
  <2>2. QED
    BY <1>2, <2>1
<1>4. /\ \A j \in Jobs : JobMove(j)
      /\ \A s \in Slots : SlotMove(s)
      /\ \A a \in Apis : SweepMove(a)
  BY DEF JobMove, SlotMove, SweepMove
<1>5. TypeOK'
  BY <1>3 DEF TypeOK
<1>6. QED
  BY <1>2, <1>4, <1>5 DEF Step

LEMMA ForgetLeaseSteps ==
  ASSUME TypeOK, NEW s \in Slots, ForgetLease(s)
  PROVE  Step
<1>1. NoSlot \in SlotRow
  BY DEF SlotRow, NoSlot
<1>2. slot' = [slot EXCEPT ![s] = NoSlot] /\ UNCHANGED <<job, app, pending, receipts, sweep>>
  BY DEF ForgetLease
<1>3. slot'[s] = NoSlot => SlotMove(s)
  BY DEF SlotMove, ForgetLease
<1>4. QED
  BY <1>1, <1>2, <1>3, OneSlot

LEMMA PoolSteps ==
  ASSUME TypeOK, NEW s \in Slots, \/ Lease(s) \/ Expire(s) \/ Retire(s) \/ Claim(s)
                                  \/ RemoveWarm(s) \/ ForgetLease(s)
  PROVE  Step
<1>1. CASE RemoveWarm(s)
  BY <1>1, RemovalSteps DEF RemoveWarm
<1>2. QED
  BY <1>1, LeaseSteps, ClaimSteps, ForgetLeaseSteps

LEMMA StartSteps ==
  ASSUME TypeOK, NEW j \in Jobs, \/ Bind(j) \/ GiveUp(j) \/ RemoveCold(j)
                                 \/ \E s \in Slots : Reserve(s, j)
                                 \/ \E ack \in BOOLEAN : Assign(j, ack)
  PROVE  Step
<1>1. CASE RemoveCold(j)
  BY <1>1, RemovalSteps DEF RemoveCold
<1>2. QED
  BY <1>1, BindSteps, GiveUpSteps, ReserveSteps, AssignSteps

\* Every step is one of these moves.
LEMMA Steps == TypeOK /\ [Next]_vars => Step
<1> SUFFICES ASSUME TypeOK, [Next]_vars PROVE Step
  OBVIOUS
<1>1. CASE UNCHANGED vars
  BY <1>1, Stutter
<1>2. CASE \E a \in Apis : Sweep(a) \/ ApiRestarts(a)
  <2>1. PICK a \in Apis : Sweep(a) \/ ApiRestarts(a)
    BY <1>2
  <2>2. CASE \E x \in Apps : Look(a, x)
    <3>1. PICK x \in Apps : Look(a, x)
      BY <2>2
    <3>2. QED
      BY <3>1, PendingSteps, LookSteps, RequestDeletionSteps DEF Look
  <2>3. CASE \/ TakePending(a) \/ ListPage(a) \/ SweepFails(a)
             \/ SweepEnds(a) \/ ApiRestarts(a)
    BY <2>3, TakePendingSteps, ListPageSteps, RestingSteps
  <2>4. QED
    BY <2>1, <2>2, <2>3 DEF Sweep
<1>3. CASE Environment
  BY <1>3, AppSteps, LaunchSteps, RecordSteps, JobSteps, PoolSteps, StartSteps DEF Environment
<1>4. QED
  BY <1>1, <1>2, <1>3 DEF Next

LEMMA InitTyped == Init => TypeOK
<1> SUFFICES ASSUME Init PROVE TypeOK
  OBVIOUS
<1>1. job \in [Jobs -> JobRow] /\ slot \in [Slots -> SlotRow]
  BY DEF Init, JobRow, SlotRow, NoJob, NoSlot
<1>2. app \in [Apps -> AppRow]
  BY DEF Init, AppRow
<1>3. sweep \in [Apis -> SweepRow]
  BY DEF Init, SweepRow, Asleep
<1>4. pending \in Seq(Apps) /\ IsInjective(pending)
  <2>1. pending = <<>>
    BY DEF Init
  <2>2. pending \in Seq(Apps) /\ DOMAIN pending = 1..0
    BY <2>1
  <2>3. QED
    BY <2>2 DEF IsInjective
<1>5. receipts \subseteq Apps
  BY DEF Init
<1>6. QED
  BY <1>1, <1>2, <1>3, <1>4, <1>5 DEF TypeOK

\* Type correctness; above all the queue of deletions names each app at most once.
THEOREM TypeCorrect == Spec => []TypeOK
<1>1. TypeOK /\ [Next]_vars => TypeOK'
  BY Steps DEF Step
<1>2. QED
  BY InitTyped, <1>1, PTL DEF Spec

---------------------------------------------------------------------------
(* Sound is inductive *)

LEMMA InitSound == Init => Sound
<1> SUFFICES ASSUME Init PROVE Sound
  OBVIOUS
<1>1. TypeOK
  BY InitTyped
<1>2. /\ \A j \in Jobs : /\ job[j].status = "none" /\ job[j].app = NULL /\ job[j].lease = NULL
                         /\ job[j].start = "new" /\ job[j].ran = FALSE
      /\ \A s \in Slots : slot[s].status = "none" /\ slot[s].app = NULL
  BY DEF Init, NoJob, NoSlot
<1>3. ASSUME NEW x \in Apps PROVE AppSound(x) /\ (x \in Foreign => ForeignApart(x))
  <2>1. /\ app[x].state = "none"
        /\ app[x].old = FALSE /\ app[x].busy = FALSE /\ app[x].starting = FALSE
    BY DEF Init
  <2>2. x # NULL
    BY NullApart
  <2>3. QED
    BY <1>2, <2>1, <2>2 DEF AppSound, ForeignApart
<1>4. ASSUME NEW j \in Jobs PROVE JobSound(j)
  BY <1>2 DEF JobSound, StartSound, AppKept
<1>5. ASSUME NEW s \in Slots PROVE SlotSound(s)
  BY <1>2 DEF SlotSound, Taken
<1>6. ASSUME NEW a \in Apis PROVE SweepSound(a)
  <2>1. sweep[a].list = {}
    BY DEF Init, Asleep
  <2>2. QED
    BY <2>1 DEF SweepSound, Handles
<1>7. QED
  BY <1>1, <1>3, <1>4, <1>5, <1>6 DEF Sound

\* A pass looks at one app at a time.
LEMMA OneHandled ==
  ASSUME TypeOK, NEW a \in Apis, NEW x \in Apps, NEW y \in Apps, Handles(a, x), Handles(a, y)
  PROVE  x = y
<1>1. CreatedAt[x] \in Nat /\ CreatedAt[y] \in Nat
  BY CleanupAssumption
<1>2. CreatedAt[x] = CreatedAt[y]
  BY <1>1 DEF Handles, Before
<1>3. QED
  BY <1>2, CleanupAssumption DEF IsInjective

\* An app that is eligible is one of this deployment, and no job that goes on uses it.
LEMMA EligibleIsFree ==
  ASSUME Sound, NEW x \in Apps, Eligible(x)
  PROVE  Free(x)
<1>1. ASSUME NEW j \in Jobs, job[j].app = x PROVE Over(j)
  <2>1. job[j].status # "none"
    BY <1>1, NullApart DEF Sound, JobSound
  <2>2. j \in JobsOf(x)
    BY <1>1, <2>1 DEF JobsOf
  <2>3. QED
    BY <2>2 DEF Eligible, Settled
<1>2. ASSUME x \in Foreign PROVE FALSE
  <2>1. ForeignApart(x)
    BY <1>2 DEF Sound
  <2>2. Known(x)
    BY <1>2, CleanupAssumption DEF Eligible
  <2>3. CASE \E j \in Jobs : j \in JobsOf(x)
    BY <2>1, <2>3 DEF Eligible, Settled, ForeignApart
  <2>4. CASE \E s \in Slots : s \in SlotsOf(x)
    BY <2>1, <2>4 DEF Eligible, Settled, ForeignApart
  <2>5. QED
    BY <2>2, <2>3, <2>4 DEF Known, JobsOf, SlotsOf
<1>3. QED
  BY <1>1, <1>2 DEF Free

LEMMA CreatedStopped ==
  ASSUME NEW x, Created(x)
  PROVE  app'[x].state = "stopped"
<1>1. PICK g \in BOOLEAN : Becomes(x, "stopped", app[x].old, app[x].busy, g)
  BY DEF Created
<1>2. QED
  BY <1>1 DEF Becomes

\* What goes is what nobody needs, by a sweep, or what has the name of a retired lease or of
\* an ended run, by the pool and the maintenance of runs.
LEMMA WhatGoes ==
  ASSUME Sound, Step, NEW x \in Apps,
         app[x].state \notin {"deleting", "gone"}, app'[x].state \in {"deleting", "gone"}
  PROVE  x \notin Foreign /\ (Surplus(x) \/ Free(x))
<1>1. Surplus(x) \/ \E a \in Apis : sweep[a].pc = "intended" /\ Handles(a, x)
  <2>1. AppMove(x)
    BY DEF Step
  <2>2. ~Created(x)
    BY CreatedStopped
  <2>3. QED
    BY <2>1, <2>2 DEF AppMove, Ages, Changed, Becomes
<1>2. CASE Surplus(x)
  BY <1>2 DEF Surplus
<1>3. CASE \E a \in Apis : sweep[a].pc = "intended" /\ Handles(a, x)
  BY <1>3 DEF Sound, SweepSound, Free
<1>4. QED
  BY <1>1, <1>2, <1>3

\* Who knows or holds an app afterwards.
LEMMA JobAfter ==
  ASSUME Sound, Step, NEW j \in Jobs
  PROVE  /\ job[j].status # "none" => job'[j].status # "none"
         /\ job'[j].status = "live" => job[j].status \in {"none", "live"}
         /\ \/ job'[j].app = job[j].app
            \/ job[j].app = NULL /\ \E x \in Apps : Recorded(j, x)
            \/ job[j].app = NULL /\ Bound(j)
         /\ \/ job'[j].lease = job[j].lease
            \/ job'[j].lease = NULL
            \/ \E s \in Slots : Reserved(j, s)
<1>1. JobMove(j)
  BY DEF Step
<1>2. QED
  BY <1>1 DEF JobMove, Proceeded, Recorded, Reserved, Bound, Started, RunBy, SameApp, SameStart,
     SameStatus

LEMMA AppSoundKept ==
  ASSUME Sound, Step, NEW x \in Apps
  PROVE  AppSound(x)'
<1>1. AppSound(x) /\ app[x] \in AppRow /\ AppMove(x) /\ x # NULL
  BY NullApart DEF Sound, TypeOK, Step
<1>2. ASSUME NEW a \in Apis, Handles(a, x) PROVE app[x].old
  BY <1>2 DEF Sound, SweepSound, Handles
<1>3. (app'[x].state = "none" => app[x].state = "none")
      /\ (app'[x].state = "none" => ~app'[x].old /\ ~app'[x].busy /\ ~app'[x].starting)
  <2>1. CASE Created(x)
    BY <2>1, CreatedStopped
  <2>2. CASE app'[x] = app[x] \/ Ages(x) \/ Changed(x)
    BY <1>1, <2>2 DEF AppSound, Ages, Changed, Becomes, AppRow
  <2>3. QED
    BY <1>1, <2>1, <2>2 DEF AppMove
<1>4. CASE Ages(x)
  BY <1>1, <1>3, <1>4 DEF AppSound, Ages, Becomes
<1>5. CASE ~Ages(x)
  <2>1. app'[x].old => app[x].old /\ ~app'[x].starting
    <3>1. CASE Created(x)
      <4>1. PICK g \in BOOLEAN : Becomes(x, "stopped", app[x].old, app[x].busy, g)
        BY <3>1 DEF Created
      <4>2. QED
        BY <1>1, <3>1, <4>1 DEF AppSound, Created, Becomes
    <3>2. CASE app'[x] = app[x] \/ Changed(x)
      BY <1>1, <3>2 DEF AppSound, Changed, Becomes, AppRow
    <3>3. QED
      BY <1>1, <1>5, <3>1, <3>2 DEF AppMove
  <2>2. ASSUME app[x].old, NEW s \in Slots, slot'[s].app = x PROVE slot'[s].expired
    <3>1. SlotMove(s)
      BY DEF Step
    <3>2. ~app[x].starting /\ (slot[s].app = x => slot[s].expired)
      BY <1>1, <2>2 DEF AppSound
    <3>3. QED
      BY <1>1, <2>2, <3>1, <3>2 DEF SlotMove, SameLease, NoSlot
  <2>3. ASSUME app[x].old, NEW j \in Jobs PROVE job'[j].lease # x
    <3>1. job[j].lease # x /\ \A s \in Slots : slot[s].app = x => slot[s].expired
      BY <1>1, <2>3 DEF AppSound
    <3>2. QED
      BY <1>1, <3>1, JobAfter DEF Reserved
  <2>4. ASSUME app'[x].starting, Runner[x] \in Jobs
        PROVE  /\ job'[Runner[x]].status # "none"
               /\ job'[Runner[x]].status = "live" => app'[x].state = "stopped"
    <3>1. PICK r \in Jobs : r = Runner[x]
      BY <2>4
    <3>2. CASE Created(x)
      <4>1. PICK g \in BOOLEAN :
              /\ g => x \notin Foreign /\ (Runner[x] \in Jobs => job[Runner[x]].status = "live")
              /\ Becomes(x, "stopped", app[x].old, app[x].busy, g)
        BY <3>2 DEF Created
      <4>2. job[r].status = "live" /\ app'[x].state = "stopped"
        BY <2>4, <3>1, <4>1 DEF Becomes
      <4>3. QED
        BY <3>1, <4>2, JobAfter
    <3>3. CASE app'[x] = app[x] \/ Changed(x)
      <4>1. app[x].starting
        BY <2>4, <3>3 DEF Changed, Becomes
      <4>2. /\ job[r].status # "none"
            /\ job[r].status = "live" => app[x].state = "stopped"
        BY <1>1, <2>4, <3>1, <4>1 DEF AppSound
      <4>3. job[r].status = "live" => app'[x].state = "stopped"
        <5>1. \A a \in Apis : ~Handles(a, x)
          BY <1>1, <1>2, <4>1 DEF AppSound
        <5>2. job[r].status = "live" => ~Surplus(x)
          BY <3>1, NullApart DEF Surplus, Over
        <5>3. QED
          BY <2>4, <3>3, <4>1, <4>2, <5>1, <5>2 DEF Changed, Becomes
      <4>4. QED
        BY <3>1, <4>2, <4>3, JobAfter
    <3>4. QED
      BY <1>1, <1>5, <3>2, <3>3 DEF AppMove
  <2>5. QED
    BY <1>3, <2>1, <2>2, <2>3, <2>4 DEF AppSound
<1>6. QED
  BY <1>4, <1>5

LEMMA ForeignApartKept ==
  ASSUME Sound, Step, NEW x \in Foreign
  PROVE  ForeignApart(x)'
<1>1. x \in Apps /\ x # NULL
  BY CleanupAssumption
<1>2. ForeignApart(x) /\ AppMove(x)
  BY <1>1 DEF Sound, Step
<1>3. app'[x].state \notin {"deleting", "gone"}
  BY <1>1, <1>2, WhatGoes DEF ForeignApart
<1>4. ~app'[x].starting
  <2>1. ~app[x].starting /\ AppMove(x)
    BY <1>2 DEF ForeignApart
  <2>2. CASE Created(x)
    <3>1. PICK g \in BOOLEAN : (g => x \notin Foreign) /\ Becomes(x, "stopped", app[x].old, app[x].busy, g)
      BY <2>2 DEF Created
    <3>2. QED
      BY <3>1 DEF Becomes
  <2>3. CASE app'[x] = app[x] \/ Ages(x) \/ Changed(x)
    BY <2>1, <2>3 DEF Ages, Changed, Becomes
  <2>4. QED
    BY <2>1, <2>2, <2>3 DEF AppMove
<1>5. ASSUME NEW j \in Jobs
      PROVE  job'[j].app # x /\ job'[j].lease # x /\ (Runner[x] = j => job'[j].status = "none")
  <2>1. job[j].app # x /\ job[j].lease # x /\ (Runner[x] = j => job[j].status = "none")
    BY <1>2 DEF ForeignApart
  <2>2. ASSUME NEW y \in Apps, Recorded(j, y) PROVE y # x
    BY <1>2, <2>2 DEF ForeignApart, Recorded
  <2>3. job'[j].app # x
    BY <2>1, <2>2, JobAfter DEF Recorded, Bound
  <2>4. job'[j].lease # x
    BY <1>1, <1>2, <2>1, JobAfter DEF Reserved, ForeignApart
  <2>5. ASSUME Runner[x] = j PROVE job'[j].status = "none"
    <3>1. JobMove(j) /\ job[j].status = "none" /\ ~Proceeded(j)
      BY <2>1, <2>5 DEF Step, Proceeded
    <3>2. QED
      BY <3>1 DEF JobMove, Recorded, Reserved, Bound, Started, RunBy, SameStatus
  <2>6. QED
    BY <2>3, <2>4, <2>5
<1>6. ASSUME NEW s \in Slots PROVE slot'[s].app # x
  <2>1. SlotMove(s)
    BY DEF Step
  <2>2. QED
    BY <1>1, <1>2, <2>1 DEF ForeignApart, SlotMove, SameLease, NoSlot
<1>7. QED
  BY <1>3, <1>4, <1>5, <1>6 DEF ForeignApart

\* The app of a job is set once.
LEMMA AppStays ==
  ASSUME Sound, Step, NEW j \in Jobs, job[j].app # NULL
  PROVE  job'[j].app = job[j].app
BY JobAfter

LEMMA SlotSoundKept ==
  ASSUME Sound, Step, NEW s \in Slots
  PROVE  SlotSound(s)'
<1>1. SlotSound(s) /\ SlotMove(s)
  BY DEF Sound, Step
<1>2. slot'[s].app # NULL => Runner[slot'[s].app] = s
  BY <1>1 DEF SlotSound, SlotMove, SameLease, NoSlot
<1>3. slot'[s].status \in Taken => slot'[s].app # NULL /\ slot'[s].job \in Jobs
  BY <1>1 DEF SlotSound, SlotMove, SameLease, NoSlot, Taken
<1>4. ASSUME slot'[s].status = "assigned" PROVE job'[slot'[s].job].app = slot'[s].app
  <2>1. /\ slot'[s].job = slot[s].job /\ slot'[s].app = slot[s].app
        /\ slot[s].job \in Jobs /\ slot[s].app # NULL
        /\ \/ slot[s].status = "assigned"
           \/ /\ slot[s].status = "reserved"
              /\ \E j \in Jobs : job[j].start = "recorded" /\ Runner[job[j].lease] = s
    BY <1>1, <1>4 DEF SlotSound, SlotMove, SameLease, NoSlot, Taken
  <2>2. job[slot[s].job].app = slot[s].app
    <3>1. CASE slot[s].status = "assigned"
      BY <1>1, <3>1 DEF SlotSound
    <3>2. CASE /\ slot[s].status = "reserved"
               /\ \E j \in Jobs : job[j].start = "recorded" /\ Runner[job[j].lease] = s
      <4>1. PICK j \in Jobs : job[j].start = "recorded" /\ Runner[job[j].lease] = s
        BY <3>2
      <4>2. StartSound(j)
        BY DEF Sound, JobSound
      <4>3. slot[s].job = j /\ slot[s].app = job[j].lease /\ job[j].app = job[j].lease
        BY <3>2, <4>1, <4>2 DEF StartSound, Taken
      <4>4. QED
        BY <4>3
    <3>3. QED
      BY <2>1, <3>1, <3>2
  <2>3. PICK j \in Jobs : j = slot[s].job
    BY <2>1
  <2>4. QED
    BY <2>1, <2>2, <2>3, AppStays
<1>5. QED
  BY <1>2, <1>3, <1>4 DEF SlotSound

LEMMA StartSoundKept ==
  ASSUME Sound, Step, NEW j \in Jobs
  PROVE  StartSound(j)'
<1> SUFFICES ASSUME job'[j].start \in {"reserved", "recorded"}
             PROVE  LET x == job'[j].lease
                        s == Runner[x] IN
                    /\ x \in Apps /\ s \in Slots /\ app'[x].state # "none"
                    /\ slot'[s].status # "claimable"
                    /\ slot'[s].status \in Taken => slot'[s].job = j /\ slot'[s].app = x
                    /\ job'[j].start = "recorded" => job'[j].app = x
  BY DEF StartSound
<1>1. StartSound(j) /\ JobMove(j)
  BY DEF Sound, JobSound, Step
<1>2. CASE \E s \in Slots : Reserved(j, s)
  <2>1. PICK s \in Slots : Reserved(j, s)
    BY <1>2
  <2>2. SlotSound(s) /\ slot[s].app \in Apps
    BY <2>1 DEF Sound, TypeOK, SlotRow, Reserved
  <2>3. QED
    BY <2>1, <2>2 DEF Reserved, SlotSound
<1>3. CASE job'[j].lease = job[j].lease /\ job[j].start \in {"reserved", "recorded"}
  <2>1. PICK x : x = job[j].lease
    OBVIOUS
  <2>2. PICK s : s = Runner[x]
    OBVIOUS
  <2>3. /\ x \in Apps /\ s \in Slots /\ app[x].state # "none" /\ slot[s].status # "claimable"
        /\ slot[s].status \in Taken => slot[s].job = j /\ slot[s].app = x
        /\ job[j].start = "recorded" => job[j].app = x
    BY <1>1, <1>3, <2>1, <2>2 DEF StartSound
  <2>4. app'[x].state # "none"
    <3>1. AppMove(x)
      BY <2>3 DEF Step
    <3>2. QED
      BY <2>3, <3>1, CreatedStopped DEF AppMove, Ages, Changed, Becomes
  <2>5. SlotMove(s)
    BY <2>3 DEF Step
  <2>6. slot'[s].status # "claimable"
    BY <2>2, <2>3, <2>5 DEF SlotMove, NoSlot
  <2>7. slot'[s].status \in Taken => slot'[s].job = j /\ slot'[s].app = x
    BY <2>2, <2>3, <2>5 DEF SlotMove, SameLease, NoSlot, Taken
  <2>8. job'[j].start = "recorded" => job'[j].app = x
    <3>1. CASE job[j].start = "recorded"
      BY <2>3, <3>1, NullApart, AppStays
    <3>2. CASE job[j].start = "reserved"
      BY <1>1, <2>1, <3>2 DEF JobMove, Proceeded, Recorded, Reserved, Bound, Started, RunBy,
         SameStart
    <3>3. QED
      BY <1>3, <3>1, <3>2
  <2>9. QED
    BY <1>3, <2>1, <2>2, <2>3, <2>4, <2>6, <2>7, <2>8
<1>4. QED
  BY <1>1, <1>2, <1>3 DEF JobMove, Proceeded, Recorded, Bound, Started, RunBy, SameStart

\* Neither the sweep nor the pool takes the app that a runner took an open job with.
LEMMA KeptApp ==
  ASSUME Sound, Step, NEW j \in Jobs, Open(j), job[j].app # NULL,
         Runner[job[j].app] \in Slots => job[j].ran
  PROVE  LET x == job[j].app IN
         /\ app'[x].state \notin {"deleting", "gone"}
         /\ Runner[x] \in Slots => slot'[Runner[x]].status = "consumed" /\ slot'[Runner[x]].job = j
<1>1. PICK x \in Apps : x = job[j].app
  BY DEF Sound, TypeOK, JobRow
<1>2. /\ app[x].state \notin {"deleting", "gone"}
      /\ Runner[x] \in Slots => slot[Runner[x]].status = "consumed" /\ slot[Runner[x]].job = j
      /\ Runner[x] \in Jobs => Runner[x] = j
  BY <1>1 DEF Sound, JobSound, AppKept
<1>3. ~Over(j)
  BY DEF Open, Over
<1>4. ~Surplus(x)
  BY <1>2, <1>3 DEF Surplus, Removable
<1>5. ~Free(x)
  BY <1>1, <1>3 DEF Free
<1>6. app'[x].state \notin {"deleting", "gone"}
  BY <1>2, <1>4, <1>5, WhatGoes
<1>7. ASSUME NEW s \in Slots, s = Runner[x]
      PROVE  slot'[s].status = "consumed" /\ slot'[s].job = j
  <2>1. SlotMove(s) /\ slot[s].status = "consumed" /\ slot[s].job = j
    BY <1>2, <1>7 DEF Step
  <2>2. ~Completed(s) /\ ~Removable(s)
    BY <1>3, <2>1 DEF Completed, Removable, Open
  <2>3. QED
    BY <2>1, <2>2 DEF SlotMove, SameLease
<1>8. QED
  BY <1>1, <1>6, <1>7

LEMMA AppKeptKept ==
  ASSUME Sound, Step, NEW j \in Jobs
  PROVE  AppKept(j)'
<1> SUFFICES ASSUME Open(j)', job'[j].app # NULL, Runner[job'[j].app] \in Slots => job'[j].ran
             PROVE  LET x == job'[j].app IN
                    /\ app'[x].state \notin {"deleting", "gone"}
                    /\ Runner[x] \in Slots =>
                         slot'[Runner[x]].status = "consumed" /\ slot'[Runner[x]].job = j
  BY DEF AppKept
<1>1. JobSound(j) /\ JobMove(j)
  BY DEF Sound, Step
<1>2. CASE \E x \in Apps : Recorded(j, x)
  <2>1. PICK x \in Apps : Recorded(j, x)
    BY <1>2
  <2>2. AppSound(x) /\ Runner[x] \notin Slots
    BY <2>1, NullApart DEF Sound, Recorded
  <2>3. QED
    BY <2>1, <2>2 DEF Recorded, AppSound
<1>3. CASE Bound(j)
  <2>1. Runner[job'[j].app] \in Slots /\ ~job[j].ran
    BY <1>1, <1>3 DEF Bound, JobSound, StartSound
  <2>2. QED
    BY <1>3, <2>1 DEF Bound
<1>4. CASE \E s \in Slots : RunBy(j, s)
  <2>1. PICK s \in Slots : RunBy(j, s)
    BY <1>4
  <2>2. SlotSound(s) /\ slot[s].app # NULL /\ job[j].app = slot[s].app
    BY <2>1 DEF Sound, SlotSound, RunBy, Taken
  <2>3. QED
    BY <2>1, <2>2 DEF SlotSound, RunBy
<1>5. CASE SameApp(j) /\ (Open(j)' => Open(j))
  BY <1>5, KeptApp DEF SameApp
<1>6. CASE SameApp(j) /\ job[j].status = "none"
  BY <1>1, <1>6 DEF SameApp, JobSound
<1>7. CASE job'[j] = job[j]
  BY <1>7, KeptApp DEF Open
<1>8. CASE Started(j) \/ \E s \in Slots : Reserved(j, s)
  BY <1>5, <1>8 DEF Started, Reserved, SameStatus, Open
<1>9. CASE Proceeded(j)
  BY <1>5, <1>6, <1>9 DEF Proceeded, Open
<1>10. QED
  BY <1>1, <1>2, <1>3, <1>4, <1>7, <1>8, <1>9 DEF JobMove

LEMMA JobSoundKept ==
  ASSUME Sound, Step, NEW j \in Jobs
  PROVE  JobSound(j)'
<1>1. JobSound(j) /\ JobMove(j)
  BY DEF Sound, Step
<1>2. ASSUME job'[j].status = "none" PROVE job'[j].app = NULL
  <2>1. job[j].status = "none" /\ job[j].app = NULL
    BY <1>1, <1>2, JobAfter DEF JobSound
  <2>2. QED
    BY <2>1, JobAfter DEF Recorded, Bound
<1>3. ASSUME job'[j].ran PROVE job'[j].app # NULL
  <2>1. CASE \E s \in Slots : RunBy(j, s)
    <3>1. PICK s \in Slots : RunBy(j, s)
      BY <2>1
    <3>2. SlotSound(s)
      BY DEF Sound
    <3>3. QED
      BY <3>1, <3>2 DEF SlotSound, RunBy, Taken
  <2>2. CASE job'[j].ran = job[j].ran
    BY <1>1, <1>3, <2>2, AppStays DEF JobSound
  <2>3. QED
    BY <1>1, <2>1, <2>2 DEF JobMove, Proceeded, Recorded, Reserved, Bound, Started, SameApp
<1>4. ASSUME job'[j].app # NULL, Runner[job'[j].app] \in Jobs PROVE Runner[job'[j].app] = j
  <2>1. ~Bound(j)
    <3>1. ASSUME Bound(j) PROVE Runner[job'[j].app] \in Slots
      BY <1>1, <3>1 DEF Bound, JobSound, StartSound
    <3>2. QED
      BY <1>4, <3>1, NullApart
  <2>2. QED
    BY <1>1, <1>4, <2>1, JobAfter DEF JobSound, Recorded
<1>5. QED
  BY <1>2, <1>3, <1>4, StartSoundKept, AppKeptKept DEF JobSound

\* What the checks of a pass found stays true: an old app is never started again, ...
LEMMA AtRestStays ==
  ASSUME Sound, Step, NEW x \in Apps, app[x].old
  PROVE  app'[x].old /\ (AtRest(x) => AtRest(x)')
<1>1. AppSound(x) /\ AppMove(x)
  BY DEF Sound, Step
<1>2. QED
  BY <1>1 DEF AppSound, AppMove, Created, Ages, Changed, Becomes, AtRest

\* ... and neither the process that made it nor start() gives it to another job.
LEMMA FreeStays ==
  ASSUME Sound, Step, NEW x \in Apps, app[x].old, Free(x)
  PROVE  Free(x)'
<1>1. AppSound(x) /\ ~app[x].starting /\ \A j \in Jobs : job[j].lease # x
  BY DEF Sound, AppSound
<1>2. ASSUME NEW j \in Jobs, job'[j].app = x PROVE Over(j)'
  <2>1. job[j].app = x
    BY <1>1, <1>2, JobAfter DEF Recorded, Bound
  <2>2. Over(j) /\ JobMove(j)
    BY <2>1 DEF Free, Step
  <2>3. job'[j].status = job[j].status
    BY <2>2 DEF JobMove, Proceeded, Recorded, Reserved, Bound, Started, RunBy, SameStatus, Over
  <2>4. QED
    BY <2>2, <2>3 DEF Over
<1>3. QED
  BY <1>2 DEF Free

LEMMA SweepSoundKept ==
  ASSUME Sound, Step, NEW a \in Apis
  PROVE  SweepSound(a)'
<1>1. /\ TypeOK /\ TypeOK' /\ SweepSound(a) /\ SweepMove(a)
      /\ sweep[a].list \subseteq Apps /\ sweep'[a].list \subseteq Apps
  <2>1. TypeOK /\ TypeOK' /\ SweepSound(a) /\ SweepMove(a)
    BY DEF Sound, Step
  <2>2. QED
    BY <2>1 DEF TypeOK, SweepRow
<1>2. \A x \in sweep'[a].list : app'[x].old
  BY <1>1, AtRestStays DEF SweepSound, SweepMove
<1>3. ASSUME NEW x \in Apps, Handles(a, x)'
      PROVE  /\ sweep'[a].pc \in Late => AtRest(x)'
             /\ sweep'[a].pc \in {"intended", "asked"} => Free(x)'
  <2>1. CASE sweep'[a].pc \notin Late
    BY <2>1 DEF Late
  <2>2. CASE sweep'[a] = sweep[a]
    <3>1. Handles(a, x) /\ app[x].old
      BY <1>1, <1>3, <2>2 DEF Handles, SweepSound
    <3>2. sweep[a].pc \in Late => AtRest(x)
      BY <1>1, <3>1 DEF SweepSound, Late
    <3>3. sweep[a].pc \in {"intended", "asked"} => Free(x)
      BY <1>1, <3>1 DEF SweepSound
    <3>4. QED
      BY <2>2, <3>1, <3>2, <3>3, AtRestStays, FreeStays DEF Late
  <2>3. CASE /\ sweep'[a].list = sweep[a].list
             /\ \E y \in Apps :
                  /\ Handles(a, y)
                  /\ \/ sweep'[a].pc = "idling" /\ AtRest(y)
                     \/ sweep'[a].pc = "same" /\ sweep[a].pc = "idling"
                     \/ sweep'[a].pc = "intended" /\ sweep[a].pc = "same" /\ Eligible(y)
                     \/ sweep'[a].pc = "asked" /\ sweep[a].pc = "intended"
    <3>1. Handles(a, x) /\ app[x].old
      BY <1>1, <1>3, <2>3 DEF Handles, SweepSound
    <3>2. \/ sweep'[a].pc = "idling" /\ AtRest(x)
          \/ sweep'[a].pc = "same" /\ sweep[a].pc = "idling"
          \/ sweep'[a].pc = "intended" /\ sweep[a].pc = "same" /\ Eligible(x)
          \/ sweep'[a].pc = "asked" /\ sweep[a].pc = "intended"
      BY <1>1, <2>3, <3>1, OneHandled
    <3>3. AtRest(x) /\ (sweep'[a].pc \in {"intended", "asked"} => Free(x))
      BY <1>1, <3>1, <3>2, EligibleIsFree DEF SweepSound
    <3>4. QED
      BY <3>1, <3>3, AtRestStays, FreeStays
  <2>4. QED
    BY <1>1, <2>1, <2>2, <2>3 DEF SweepMove
<1>4. QED
  BY <1>2, <1>3 DEF SweepSound, Late

LEMMA SoundKept == Sound /\ [Next]_vars => Sound'
<1> SUFFICES ASSUME Sound, [Next]_vars PROVE Sound'
  OBVIOUS
<1>1. Step
  BY Steps DEF Sound
<1>2. TypeOK'
  BY <1>1 DEF Step
<1>3. \A x \in Apps : AppSound(x)' /\ (x \in Foreign => ForeignApart(x)')
  BY <1>1, AppSoundKept, ForeignApartKept
<1>4. \A j \in Jobs : JobSound(j)'
  BY <1>1, JobSoundKept
<1>5. \A s \in Slots : SlotSound(s)'
  BY <1>1, SlotSoundKept
<1>6. \A a \in Apis : SweepSound(a)'
  BY <1>1, SweepSoundKept
<1>7. QED
  BY <1>2, <1>3, <1>4, <1>5, <1>6 DEF Sound

LEMMA AlwaysSound == Spec => []Sound
BY InitSound, SoundKept, PTL DEF Spec

---------------------------------------------------------------------------
(* What follows *)

\* Whatever lease expires, answer is lost or process ends, and whatever the sweep and the pool
\* delete meanwhile: from the moment a runner took a job to its end or its clearance, the app
\* that the clearance asks Cloud Foundry for is there.
THEOREM EvidenceStays == Spec => []EvidenceKept
<1>1. ASSUME Sound, NEW j \in Jobs, job[j].status \in {"live", "held"}, job[j].app # NULL,
             Kind(job[j].app) = "warm" => job[j].ran
      PROVE  app[job[j].app].state \notin {"deleting", "gone"}
  <2>1. Runner[job[j].app] \in Slots => job[j].ran
    BY <1>1, NullApart DEF Kind
  <2>2. QED
    BY <1>1, <2>1 DEF Sound, JobSound, AppKept, Open
<1>2. Sound => EvidenceKept
  BY <1>1 DEF EvidenceKept
<1>3. QED
  BY AlwaysSound, <1>2, PTL

\* No app of another deployment is deleted: the database has no row that names it, and
\* an orphan needs the label of this deployment.
THEOREM ForeignStays == Spec => []ForeignKept
<1>1. Sound => ForeignKept
  BY CleanupAssumption DEF Sound, ForeignApart, ForeignKept
<1>2. QED
  BY AlwaysSound, <1>1, PTL

\* The request that deletes an app finds it stopped, without a task and without a job that
\* is not over, however long ago the pass looked each of these up.
THEOREM DeletionAtRest == Spec => DeletedAtRest
<1>1. ASSUME Sound, [Next]_vars, NEW x \in Apps,
             app[x].state # "deleting", app'[x].state = "deleting"
      PROVE  /\ app[x].state = "stopped" /\ ~app[x].busy /\ ~app[x].starting
             /\ \A j \in Jobs : job[j].app = x => job[j].status \in {"ended", "cleared"}
  <2>1. AppMove(x) /\ AppSound(x)
    BY <1>1, Steps DEF Sound, Step
  <2>2. /\ app[x].state \in {"stopped", "started"}
        /\ \E a \in Apis : sweep[a].pc = "intended" /\ Handles(a, x)
    <3>1. ~Created(x)
      BY <1>1, CreatedStopped
    <3>2. QED
      BY <1>1, <2>1, <3>1 DEF AppMove, Ages, Changed, Becomes
  <2>3. PICK a \in Apis : sweep[a].pc = "intended" /\ Handles(a, x)
    BY <2>2
  <2>4. AtRest(x) /\ Free(x) /\ app[x].old
    BY <1>1, <2>3 DEF Sound, SweepSound, Handles
  <2>5. QED
    BY <2>1, <2>2, <2>4 DEF AtRest, Free, Over, AppSound
<1>2. Sound /\ [Next]_vars =>
        [\A x \in Apps : app[x].state # "deleting" /\ app'[x].state = "deleting" =>
           /\ app[x].state = "stopped" /\ ~app[x].busy /\ ~app[x].starting
           /\ \A j \in Jobs : job[j].app = x => job[j].status \in {"ended", "cleared"}]_vars
  BY <1>1
<1>3. QED
  BY AlwaysSound, <1>2, PTL DEF Spec, DeletedAtRest

---------------------------------------------------------------------------
(* The durable queue.  The intent is written before the request, and leaves the  *)
(* queue only when the app is gone, whichever pass confirms it.                  *)

IntentSound(a) ==
  \A x \in Apps : Handles(a, x) /\ sweep[a].pc = "intended" =>
    x \in ToSet(pending) \/ app[x].state = "gone"

Durable == Sound /\ DeletionIsPending /\ \A a \in Apis : IntentSound(a)

LEMMA QueueKeeps ==
  ASSUME TypeOK, [Next]_vars, NEW y \in Apps, y \in ToSet(pending), app[y].state # "gone"
  PROVE  y \in ToSet(pending')
<1>1. CASE \E a \in Apis : TakePending(a)
  BY <1>1, TakePendingSteps
<1>2. CASE \E a \in Apis, x \in Apps : ConfirmPending(a, x) \/ ConfirmDeletion(a, x)
  <2>1. PICK a \in Apis, x \in Apps : ConfirmPending(a, x) \/ ConfirmDeletion(a, x)
    BY <1>2
  <2>2. Confirmed(x) /\ y # x
    BY <2>1 DEF ConfirmPending, ConfirmDeletion, Absent
  <2>3. QED
    BY <2>2, ConfirmedQueue
<1>3. CASE \E a \in Apis, x \in Apps : RecordIntent(a, x)
  <2>1. PICK a \in Apis, x \in Apps : RecordIntent(a, x)
    BY <1>3
  <2>2. pending' = Intended(x)
    BY <2>1 DEF RecordIntent
  <2>3. QED
    BY <2>2, IntendedQueue
<1>4. CASE pending' = pending
  BY <1>4
<1>5. \/ \E a \in Apis : TakePending(a)
      \/ \E a \in Apis, x \in Apps : ConfirmPending(a, x) \/ ConfirmDeletion(a, x)
      \/ \E a \in Apis, x \in Apps : RecordIntent(a, x)
      \/ pending' = pending
  <2>1. CASE UNCHANGED vars
    BY <2>1 DEF vars
  <2>2. CASE Environment
    BY <2>2 DEF Environment, Gone, Create, Record, Launch, Stops, Age, Begin, End, Mature, Hold,
       Clear, TicketsExpire, LateRecovery, JobMoves, RemoveCold, Lease,
       Expire, Claim, Retire, RemoveWarm, ForgetLease, Reserve, Bind, Assign, GiveUp
  <2>3. CASE \E a \in Apis : Sweep(a) \/ ApiRestarts(a)
    BY <2>3 DEF Sweep, Look, ApiRestarts, ListPage, SweepFails, SweepEnds, LeavePending, Admit,
       Inspect, LookAgain, PassOver, RequestDeletion
  <2>4. QED
    BY <2>1, <2>2, <2>3 DEF Next
<1>6. QED
  BY <1>1, <1>2, <1>3, <1>4, <1>5

LEMMA NewIntent ==
  ASSUME TypeOK, [Next]_vars, NEW a \in Apis,
         sweep[a].pc # "intended", sweep'[a].pc = "intended"
  PROVE  \E x \in Apps : RecordIntent(a, x)
<1>1. sweep \in [Apis -> SweepRow] /\ sweep' # sweep
  BY DEF TypeOK
<1>2. ~UNCHANGED vars /\ ~Environment
  BY <1>1 DEF vars, Environment, Gone, Create, Record, Launch, Stops, Age, Begin, End, Mature, Hold,
     Clear, TicketsExpire, LateRecovery, JobMoves, RemoveCold, Lease,
       Expire, Claim, Retire, RemoveWarm, ForgetLease, Reserve, Bind, Assign, GiveUp
<1>3. PICK b \in Apis : Sweep(b) \/ ApiRestarts(b)
  BY <1>2 DEF Next
<1>4. ASSUME NEW row \in SweepRow, sweep' = [sweep EXCEPT ![b] = row], row.pc # "intended"
      PROVE  FALSE
  BY <1>1, <1>4
<1>5. ASSUME NEW x \in Apps, Proceeds(b, x) PROVE FALSE
  BY <1>4, <1>5, ProceedsRow DEF Late
<1>6. ASSUME NEW from, NEW to \in {"admitted", "idling", "same", "asked"}, Moves(b, from, to)
      PROVE  FALSE
  BY <1>4, <1>6, MovesRow
<1>7. ~SweepFails(b) /\ ~SweepEnds(b) /\ ~ApiRestarts(b) /\ ~ListPage(b) /\ ~TakePending(b)
  <2>1. sweep'[b].pc = "intended" /\ b = a
    <3>1. ASSUME b # a PROVE sweep'[a] = sweep[a]
      BY <1>1, <1>3, <3>1 DEF Sweep, ApiRestarts, TakePending, ListPage, SweepFails, SweepEnds,
         Look, ConfirmPending, LeavePending, Admit, Inspect, LookAgain, RecordIntent,
         ConfirmDeletion, PassOver, RequestDeletion, Moves, Proceeds
    <3>2. QED
      BY <3>1
  <2>2. ~SweepFails(b) /\ ~SweepEnds(b) /\ ~ApiRestarts(b)
    BY <1>1, <2>1 DEF SweepFails, SweepEnds, ApiRestarts, Asleep, SweepRow
  <2>3. ASSUME ListPage(b) PROVE FALSE
    <3>1. PICK l, q : sweep' = [sweep EXCEPT ![b] =
                        [@ EXCEPT !.pc = "looking", !.page = q, !.list = l]]
      BY <2>3 DEF ListPage
    <3>2. sweep'[b].pc = "looking"
      BY <1>1, <3>1 DEF SweepRow
    <3>3. QED
      BY <2>1, <3>2
  <2>4. ASSUME TakePending(b) PROVE FALSE
    <3>1. PICK t : sweep' = [sweep EXCEPT ![b] = [@ EXCEPT !.pc = "confirming", !.todo = t]]
      BY <2>4 DEF TakePending
    <3>2. sweep'[b].pc = "confirming"
      BY <1>1, <3>1 DEF SweepRow
    <3>3. QED
      BY <2>1, <3>2
  <2>5. QED
    BY <2>2, <2>3, <2>4
<1>8. PICK x \in Apps : Look(b, x)
  BY <1>3, <1>7 DEF Sweep
<1>9. ~ConfirmPending(b, x) /\ ~LeavePending(b, x)
  <2>1. ASSUME ConfirmPending(b, x) \/ LeavePending(b, x) PROVE sweep'[a].pc = sweep[a].pc
    BY <1>1, <2>1 DEF ConfirmPending, LeavePending, SweepRow
  <2>2. QED
    BY <2>1
<1>10. RecordIntent(b, x)
  BY <1>5, <1>6, <1>8, <1>9 DEF Look, Admit, Inspect, LookAgain, ConfirmDeletion, PassOver,
     RequestDeletion
<1>11. b = a
  BY <1>1, <1>10 DEF RecordIntent, Moves
<1>12. QED
  BY <1>10, <1>11

LEMMA DurableKept == Durable /\ [Next]_vars => Durable'
<1> SUFFICES ASSUME Durable, [Next]_vars PROVE Durable'
  OBVIOUS
<1>1. Sound /\ TypeOK /\ Step /\ Sound'
  BY Steps, SoundKept DEF Durable, Sound
<1>2. ASSUME NEW x \in Apps, app'[x].state = "deleting" PROVE x \in ToSet(pending')
  <2>1. CASE app[x].state = "deleting"
    BY <1>1, <2>1, QueueKeeps DEF Durable, DeletionIsPending
  <2>2. CASE app[x].state # "deleting"
    <3>1. AppMove(x) /\ ~Created(x)
      BY <1>1, <1>2, CreatedStopped DEF Step
    <3>2. /\ app[x].state \in {"stopped", "started"}
          /\ \E a \in Apis : sweep[a].pc = "intended" /\ Handles(a, x)
      BY <1>2, <2>2, <3>1 DEF AppMove, Ages, Changed, Becomes
    <3>3. x \in ToSet(pending)
      BY <3>2 DEF Durable, IntentSound
    <3>4. QED
      BY <1>1, <3>2, <3>3, QueueKeeps
  <2>3. QED
    BY <2>1, <2>2
<1>3. ASSUME NEW x \in Apps, app[x].state = "gone" PROVE app'[x].state = "gone"
  <2>1. AppMove(x) /\ ~Created(x)
    BY <1>1, <1>3 DEF Step, Created
  <2>2. QED
    BY <1>3, <2>1 DEF AppMove, Ages, Changed, Becomes
<1>4. ASSUME NEW a \in Apis, NEW x \in Apps, Handles(a, x)', sweep'[a].pc = "intended"
      PROVE  x \in ToSet(pending') \/ app'[x].state = "gone"
  <2>1. CASE sweep[a].pc # "intended"
    <3>1. PICK y \in Apps : RecordIntent(a, y)
      BY <1>1, <1>4, <2>1, NewIntent
    <3>2. Handles(a, y) /\ Moves(a, "same", "intended") /\ pending' = Intended(y)
      BY <3>1 DEF RecordIntent
    <3>3. sweep'[a].list = sweep[a].list
      BY <1>1, <3>2, MovesRow, SweepFields
    <3>4. Handles(a, x)
      BY <1>4, <3>3 DEF Handles
    <3>5. x = y
      BY <1>1, <3>2, <3>4, OneHandled
    <3>6. QED
      BY <1>1, <3>2, <3>5, IntendedQueue
  <2>2. CASE sweep[a].pc = "intended"
    <3>1. sweep'[a] = sweep[a]
      BY <1>1, <1>4, <2>2 DEF Step, SweepMove, Late
    <3>2. Handles(a, x)
      BY <1>4, <3>1 DEF Handles
    <3>3. x \in ToSet(pending) \/ app[x].state = "gone"
      BY <2>2, <3>2 DEF Durable, IntentSound
    <3>4. QED
      BY <1>1, <1>3, <3>3, QueueKeeps
  <2>3. QED
    BY <2>1, <2>2
<1>5. DeletionIsPending' /\ \A a \in Apis : IntentSound(a)'
  BY <1>2, <1>4 DEF DeletionIsPending, IntentSound
<1>6. QED
  BY <1>1, <1>5 DEF Durable

\* Whatever is being deleted is in the queue until it is gone: a lost answer, a restart and a
\* second API process lose no deletion and forget none before its absence is confirmed.
THEOREM DeletionStaysPending == Spec => []DeletionIsPending
<1>1. Init => Durable
  <2> SUFFICES ASSUME Init PROVE Durable
    OBVIOUS
  <2>1. \A x \in Apps : app[x].state = "none"
    BY DEF Init
  <2>2. \A a \in Apis : sweep[a].pc = "idle"
    BY DEF Init, Asleep
  <2>3. QED
    BY <2>1, <2>2, InitSound DEF Durable, DeletionIsPending, IntentSound
<1>2. Durable => DeletionIsPending
  BY DEF Durable
<1>3. QED
  BY <1>1, <1>2, DurableKept, PTL DEF Spec

=============================================================================

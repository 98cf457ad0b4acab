------------------------ MODULE TimestampWidthProofs ------------------------
(***************************************************************************)
(* Proof that checkins free exactly what has been relinquished, for any    *)
(* number of threads and any width of timestamps, as long as timestamps    *)
(* stay in the lower half of their range.                                  *)
(***************************************************************************)
EXTENDS TimestampWidth, FiniteSetTheorems, TLAPS

LowerHalf == Last < Modulus \div 2

Records ==
    [ts : 0 .. Last, bit : 0 .. 1, rc : [Timestamps -> Int],
     filed : SUBSET Timestamps, owing : [Timestamps -> SUBSET Threads]]

\* The threads that have still to check in for timestamp T, if f are the
\* timestamps of the threads.
Awaited(f, T) == {t \in Threads : f[t] \in 1 .. T}

\* The retain count of a timestamp is that of the threads that have still to
\* check in, and these are the ones that still owe it.
Counted(f, r, T) ==
    IF T <= r.ts
    THEN /\ r.rc[T] = Cardinality(Awaited(f, T)) - 1
         /\ r.owing[T] = Awaited(f, T)
         /\ T \in r.filed <=> Awaited(f, T) # {}
    ELSE r.rc[T] = -1 /\ r.owing[T] = {} /\ T \notin r.filed

\* The inductive invariant.
Good(f, r) ==
    /\ r \in Records /\ f \in [Threads -> 0 .. Last + 1]
    /\ \A t \in Threads : f[t] <= r.ts + 1
    /\ r.bit = 0 => \A t \in Threads : f[t] <= r.ts
    /\ \A T \in Timestamps : Counted(f, r, T)

-----------------------------------------------------------------------------
(* Numbers.                                                                *)

LEMMA Numbers ==
  /\ Modulus \in Nat /\ Last \in Nat /\ Last + 2 <= Modulus
  /\ Timestamps = 1 .. Modulus - 1
  /\ \A T \in 1 .. Last + 1 : T \in Timestamps
BY WidthAssumption DEF Timestamps

LEMMA NoWrap ==
  ASSUME NEW v \in 0 .. Last
  PROVE  Next1(v) = v + 1 /\ (v + 1) % Modulus = v + 1
<1>1. v + 1 \in Nat /\ v + 1 < Modulus /\ v + 1 # 0 /\ Modulus \in Nat \ {0}
  BY Numbers
<1>2. (v + 1) % Modulus = v + 1
  BY <1>1, SMT
<1> QED
  BY <1>1, <1>2 DEF Next1

\* Below half the range the signed comparison is that of the numbers.
LEMMA BehindIsBehind ==
  ASSUME LowerHalf, NEW last \in Nat, NEW new \in 0 .. Last, last <= new
  PROVE  Behind(last, new)
<1>1. Modulus \div 2 \in Int
  BY Numbers, SMT
<1> QED
  BY <1>1, Numbers DEF Behind, Signed, LowerHalf

LEMMA AwaitedIsFinite ==
  ASSUME NEW f, NEW T
  PROVE  /\ IsFiniteSet(Awaited(f, T)) /\ Cardinality(Awaited(f, T)) \in Nat
         /\ Cardinality(Awaited(f, T)) = 0 <=> Awaited(f, T) = {}
<1>1. Awaited(f, T) \in SUBSET Threads /\ IsFiniteSet(Threads)
  BY WidthAssumption DEF Awaited
<1>2. IsFiniteSet(Awaited(f, T))
  BY <1>1, FS_Subset
<1> QED
  BY <1>2, FS_CardinalityType, FS_EmptySet

-----------------------------------------------------------------------------
(* The calls.                                                              *)

LEMMA GoodInit == Good([t \in Threads |-> 0], Initially)
<1> DEFINE f == [t \in Threads |-> 0]
           r == Initially
<1>1. /\ r.ts = 0 /\ r.bit = 0 /\ r.filed = {}
      /\ r.rc = [T \in Timestamps |-> -1] /\ r.owing = [T \in Timestamps |-> {}]
      /\ r \in Records
  BY Numbers DEF Initially, Records
<1>2. \A T \in Timestamps : Counted(f, r, T)
  BY <1>1, Numbers DEF Counted
<1> QED
  BY <1>1, <1>2, Numbers DEF Good

\* A thread that registers has nothing to check in for.
LEMMA GoodJoin ==
  ASSUME NEW f, NEW r, Good(f, r), NEW t \in Threads, f[t] = 0
  PROVE  Good([f EXCEPT ![t] = r.ts + 1], [r EXCEPT !.bit = 1])
<1> DEFINE g == [f EXCEPT ![t] = r.ts + 1]
           q == [r EXCEPT !.bit = 1]
<1>1. /\ q \in Records /\ q.ts = r.ts /\ q.bit = 1 /\ q.rc = r.rc
      /\ q.filed = r.filed /\ q.owing = r.owing
      /\ r.ts \in 0 .. Last
  BY DEF Good, Records
<1>2. /\ g \in [Threads -> 0 .. Last + 1] /\ g[t] = r.ts + 1
      /\ \A u \in Threads \ {t} : g[u] = f[u]
  <2>1. r.ts + 1 \in 0 .. Last + 1
    BY <1>1, Numbers
  <2> QED
    BY <2>1 DEF Good
<1> HIDE DEF g, q
<1>3. ASSUME NEW T \in Timestamps PROVE Counted(g, q, T)
  <2>1. CASE T <= r.ts
    <3>1. Awaited(g, T) = Awaited(f, T)
      <4>1. ~ (g[t] \in 1 .. T) /\ ~ (f[t] \in 1 .. T)
        BY <1>1, <1>2, <2>1, Numbers
      <4> QED
        BY <1>2, <4>1 DEF Awaited
    <3> QED
      BY <1>1, <2>1, <3>1 DEF Good, Counted
  <2>2. CASE ~ (T <= r.ts)
    BY <1>1, <2>2 DEF Good, Counted
  <2> QED
    BY <2>1, <2>2
<1>4. \A u \in Threads : g[u] <= q.ts + 1
  BY <1>1, <1>2, Numbers DEF Good
<1>5. Good(g, q)
  BY <1>1, <1>2, <1>3, <1>4 DEF Good
<1> QED
  BY <1>5 DEF g, q

\* A thread that leaves has checked in for everything.
LEMMA GoodLeave ==
  ASSUME NEW f, NEW r, Good(f, r), NEW t \in Threads, f[t] = r.ts + 1
  PROVE  Good([f EXCEPT ![t] = 0], [r EXCEPT !.bit = 1])
<1> DEFINE g == [f EXCEPT ![t] = 0]
           q == [r EXCEPT !.bit = 1]
<1>1. /\ q \in Records /\ q.ts = r.ts /\ q.bit = 1 /\ q.rc = r.rc
      /\ q.filed = r.filed /\ q.owing = r.owing
      /\ r.ts \in 0 .. Last
  BY DEF Good, Records
<1>2. /\ g \in [Threads -> 0 .. Last + 1] /\ g[t] = 0
      /\ \A u \in Threads \ {t} : g[u] = f[u]
  <2>1. 0 \in 0 .. Last + 1
    BY Numbers
  <2> QED
    BY <2>1 DEF Good
<1> HIDE DEF g, q
<1>3. ASSUME NEW T \in Timestamps PROVE Counted(g, q, T)
  <2>1. CASE T <= r.ts
    <3>1. Awaited(g, T) = Awaited(f, T)
      <4>1. ~ (g[t] \in 1 .. T) /\ ~ (f[t] \in 1 .. T)
        BY <1>1, <1>2, <2>1, Numbers
      <4> QED
        BY <1>2, <4>1 DEF Awaited
    <3> QED
      BY <1>1, <2>1, <3>1 DEF Good, Counted
  <2>2. CASE ~ (T <= r.ts)
    BY <1>1, <2>2 DEF Good, Counted
  <2> QED
    BY <2>1, <2>2
<1>4. \A u \in Threads : g[u] <= q.ts + 1
  BY <1>1, <1>2, Numbers DEF Good
<1>5. Good(g, q)
  BY <1>1, <1>2, <1>3, <1>4 DEF Good
<1> QED
  BY <1>5 DEF g, q

\* The threads that a free waits for are all that are registered.
Members(f) == {t \in Threads : f[t] # 0}

LEMMA EverybodyIsAwaited ==
  ASSUME NEW f \in [Threads -> 0 .. Last + 1], NEW T \in Nat, \A t \in Threads : f[t] <= T
  PROVE  Awaited(f, T) = Members(f)
<1>1. \A t \in Threads : f[t] \in 1 .. T <=> f[t] # 0
  BY Numbers
<1> QED
  BY <1>1 DEF Awaited, Members

LEMMA GoodFreed ==
  ASSUME NEW f, NEW r, Good(f, r), Freed(r, Members(f)).ts <= Last
  PROVE  Good(f, Freed(r, Members(f)))
<1> DEFINE m == Members(f)
           q == Freed(r, m)
<1>0. /\ r \in Records /\ r.ts \in 0 .. Last /\ r.bit \in 0 .. 1 /\ r.ts \in Nat
      /\ r.rc \in [Timestamps -> Int] /\ r.filed \subseteq Timestamps
      /\ r.owing \in [Timestamps -> SUBSET Threads] /\ m \subseteq Threads
      /\ f \in [Threads -> 0 .. Last + 1]
  BY Numbers DEF Good, Records, Members
<1>1. CASE Cardinality(m) <= 1
  BY <1>1 DEF Freed
<1>2. CASE ~ (Cardinality(m) <= 1)
  <2>1. m # {} /\ Cardinality(m) \in Nat
    <3>1. IsFiniteSet(m)
      BY <1>0, WidthAssumption, FS_Subset
    <3> QED
      BY <1>2, <3>1, FS_EmptySet, FS_CardinalityType
  <2>2. CASE r.bit = 1
    <3> DEFINE T == r.ts + 1
               rc == [r.rc EXCEPT ![T] = @ + Cardinality(m)]
               owing == [r.owing EXCEPT ![T] = m]
    <3>1. q = [ts |-> T, bit |-> 0, rc |-> rc, filed |-> r.filed \cup {T}, owing |-> owing]
      BY <1>0, <1>2, <2>2, NoWrap DEF Freed, Retained
    <3>0. q.ts <= Last
      OBVIOUS
    <3> HIDE DEF q, m
    <3>2. T \in 1 .. Last /\ T \in Timestamps /\ T \in Nat
      <4>1. T <= Last
        BY <3>0, <3>1
      <4> QED
        BY <1>0, <4>1, Numbers
    <3>3. /\ rc \in [Timestamps -> Int] /\ rc[T] = r.rc[T] + Cardinality(m)
          /\ owing \in [Timestamps -> SUBSET Threads] /\ owing[T] = m
          /\ \A U \in Timestamps \ {T} : rc[U] = r.rc[U] /\ owing[U] = r.owing[U]
      BY <1>0, <2>1, <3>2
    <3>4. \A t \in Threads : f[t] <= T
      BY DEF Good
    <3>5. Awaited(f, T) = m
      BY <1>0, <3>2, <3>4, EverybodyIsAwaited DEF m
    <3>6. r.rc[T] = -1
      <4>1. ~ (T <= r.ts)
        BY <1>0
      <4> QED
        BY <3>2, <4>1 DEF Good, Counted
    <3> HIDE DEF rc, owing
    <3>7. ASSUME NEW U \in Timestamps PROVE Counted(f, q, U)
      <4>1. CASE U = T
        <5>1. q.rc[U] = Cardinality(m) - 1 /\ q.owing[U] = m /\ U \in q.filed /\ U <= q.ts
          BY <2>1, <3>1, <3>2, <3>3, <3>6, <4>1
        <5> QED
          BY <2>1, <3>5, <4>1, <5>1 DEF Counted
      <4>2. CASE U # T
        <5>1. /\ q.rc[U] = r.rc[U] /\ q.owing[U] = r.owing[U]
              /\ U \in q.filed <=> U \in r.filed
          BY <3>1, <3>3, <4>2
        <5>2. U <= q.ts <=> U <= r.ts
          BY <1>0, <3>1, <4>2, Numbers
        <5>3. Counted(f, r, U)
          BY DEF Good
        <5> QED
          BY <5>1, <5>2, <5>3 DEF Counted
      <4> QED
        BY <4>1, <4>2
    <3>8. q \in Records
      BY <1>0, <3>1, <3>2, <3>3 DEF Records
    <3>9. \A t \in Threads : f[t] <= q.ts + 1 /\ f[t] <= q.ts
      BY <1>0, <3>1, <3>2, <3>4, Numbers
    <3>10. Good(f, q)
      BY <1>0, <3>7, <3>8, <3>9 DEF Good
    <3> QED
      BY <3>10 DEF q, m
  <2>3. CASE r.bit # 1
    <3> DEFINE T == r.ts
               owing == [r.owing EXCEPT ![T] = m]
    <3>1. q = [ts |-> T, bit |-> 0, rc |-> r.rc, filed |-> r.filed \cup {T}, owing |-> owing]
      BY <1>2, <2>3 DEF Freed
    <3> HIDE DEF q, m
    <3>2. \A t \in Threads : f[t] <= T
      BY <1>0, <2>3 DEF Good
    <3>3. Awaited(f, T) = m
      BY <1>0, <3>2, EverybodyIsAwaited DEF m
    <3>4. T \in 1 .. Last /\ T \in Timestamps
      <4>1. T # 0
        BY <1>0, <2>1, <3>3 DEF Awaited
      <4> QED
        BY <1>0, <4>1, Numbers
    <3>5. /\ owing \in [Timestamps -> SUBSET Threads] /\ owing[T] = m
          /\ \A U \in Timestamps \ {T} : owing[U] = r.owing[U]
      BY <1>0, <3>4
    <3> HIDE DEF owing
    <3>6. ASSUME NEW U \in Timestamps PROVE Counted(f, q, U)
      <4>1. Counted(f, r, U) /\ q.ts = r.ts /\ q.rc[U] = r.rc[U]
        BY <3>1 DEF Good
      <4>2. CASE U = T
        <5>1. q.owing[U] = m /\ U \in q.filed /\ U <= r.ts
          BY <1>0, <3>1, <3>5, <4>2
        <5> QED
          BY <2>1, <3>3, <4>1, <4>2, <5>1 DEF Counted
      <4>3. CASE U # T
        <5>1. q.owing[U] = r.owing[U] /\ (U \in q.filed <=> U \in r.filed)
          BY <3>1, <3>5, <4>3
        <5> QED
          BY <4>1, <5>1 DEF Counted
      <4> QED
        BY <4>2, <4>3
    <3>7. q \in Records
      BY <1>0, <3>1, <3>4, <3>5 DEF Records
    <3>8. \A t \in Threads : f[t] <= q.ts + 1 /\ f[t] <= q.ts
      BY <1>0, <3>1, <3>2, Numbers
    <3>9. Good(f, q)
      BY <1>0, <3>6, <3>7, <3>8 DEF Good
    <3> QED
      BY <3>9 DEF q, m
  <2> QED
    BY <2>2, <2>3
<1> QED
  BY <1>1, <1>2

\* What a checkin does to a timestamp.
LEMMA Checked ==
  ASSUME LowerHalf, NEW f, NEW r, Good(f, r), NEW t \in Threads, f[t] # 0
  PROVE  LET q == CheckedIn(Promised(r, t), f[t])
         IN  /\ q \in Records /\ q.ts = r.ts
             /\ \A T \in Timestamps :
                   /\ q.owing[T] = r.owing[T] \ {t}
                   /\ f[t] \in 1 .. T /\ T <= r.ts =>
                         /\ q.rc[T] = r.rc[T] - 1
                         /\ T \in q.filed <=> T \in r.filed /\ r.rc[T] # 0
                   /\ ~ (f[t] \in 1 .. T /\ T <= r.ts) =>
                         /\ q.rc[T] = r.rc[T]
                         /\ T \in q.filed <=> T \in r.filed
             /\ q.bit = r.bit \/ q.bit = 1
             /\ q.bit = 0 => f[t] > r.ts
<1> DEFINE p == Promised(r, t)
           q == CheckedIn(p, f[t])
           owing == [T \in Timestamps |-> r.owing[T] \ {t}]
<1>0. /\ r \in Records /\ r.ts \in 0 .. Last /\ r.ts \in Nat /\ r.bit \in 0 .. 1
      /\ r.rc \in [Timestamps -> Int] /\ r.filed \subseteq Timestamps
      /\ r.owing \in [Timestamps -> SUBSET Threads]
      /\ f[t] \in 1 .. Last + 1 /\ f[t] \in Nat /\ f[t] <= r.ts + 1
      /\ \A T \in Timestamps : T \in Nat
  BY Numbers DEF Good, Records
<1>1. p = [r EXCEPT !.owing = owing]
  BY DEF Promised
<1>2. owing \in [Timestamps -> SUBSET Threads] /\ \A T \in Timestamps : owing[T] = r.owing[T] \ {t}
  BY <1>0
<1> HIDE DEF p, owing
<1>3. /\ p \in Records /\ p.ts = r.ts /\ p.bit = r.bit /\ p.rc = r.rc /\ p.filed = r.filed
      /\ p.owing = owing
  BY <1>0, <1>1, <1>2 DEF Records
<1>4. CASE Behind(f[t], p.ts)
  <2> DEFINE range == f[t] .. r.ts
             rc == [T \in Timestamps |-> IF T \in range THEN r.rc[T] - 1 ELSE r.rc[T]]
             filed == r.filed \ {T \in range : r.rc[T] = 0}
  <2>1. q = [p EXCEPT !.bit = 1, !.rc = rc, !.filed = filed]
    BY <1>3, <1>4 DEF CheckedIn
  <2>2. rc \in [Timestamps -> Int] /\ filed \subseteq Timestamps
    BY <1>0
  <2>3. \A T \in Timestamps : T \in range <=> f[t] \in 1 .. T /\ T <= r.ts
    BY <1>0
  <2> HIDE DEF range
  <2>4. \A T \in Timestamps :
           /\ T \in range => rc[T] = r.rc[T] - 1 /\ (T \in filed <=> T \in r.filed /\ r.rc[T] # 0)
           /\ T \notin range => rc[T] = r.rc[T] /\ (T \in filed <=> T \in r.filed)
    OBVIOUS
  <2> HIDE DEF rc, filed, q
  <2>5. /\ q \in Records /\ q.ts = r.ts /\ q.bit = 1 /\ q.rc = rc /\ q.filed = filed
        /\ q.owing = owing
    <3>1. q = [ts |-> p.ts, bit |-> 1, rc |-> rc, filed |-> filed, owing |-> p.owing]
      BY <1>3, <2>1 DEF Records
    <3>2. p.ts = r.ts /\ p.owing = owing /\ r.ts \in 0 .. Last
      BY <1>0, <1>3
    <3> QED
      BY <1>2, <2>2, <3>1, <3>2 DEF Records
  <2>6. /\ \A T \in Timestamps :
             /\ q.owing[T] = r.owing[T] \ {t}
             /\ f[t] \in 1 .. T /\ T <= r.ts =>
                   /\ q.rc[T] = r.rc[T] - 1
                   /\ T \in q.filed <=> T \in r.filed /\ r.rc[T] # 0
             /\ ~ (f[t] \in 1 .. T /\ T <= r.ts) =>
                   /\ q.rc[T] = r.rc[T]
                   /\ T \in q.filed <=> T \in r.filed
    BY <1>2, <2>3, <2>4, <2>5
  <2> QED
    BY <2>5, <2>6 DEF q, p
<1>5. CASE ~ Behind(f[t], p.ts)
  <2>1. q = p
    BY <1>5 DEF CheckedIn
  <2>2. f[t] > r.ts
    BY <1>0, <1>3, <1>5, BehindIsBehind
  <2>3. \A T \in Timestamps : ~ (f[t] \in 1 .. T /\ T <= r.ts)
    BY <1>0, <2>2
  <2> HIDE DEF q
  <2>4. \A T \in Timestamps : q.owing[T] = r.owing[T] \ {t} /\ q.rc = r.rc /\ q.filed = r.filed
    BY <1>2, <1>3, <2>1
  <2> QED
    BY <1>3, <2>1, <2>2, <2>3, <2>4 DEF q, p
<1> QED
  BY <1>4, <1>5

\* A thread that has checked in has nothing left to check in for.
LEMMA GoodChecked ==
  ASSUME LowerHalf, NEW f, NEW r, Good(f, r), NEW t \in Threads, f[t] # 0
  PROVE  Good([f EXCEPT ![t] = r.ts + 1], CheckedIn(Promised(r, t), f[t]))
<1> DEFINE g == [f EXCEPT ![t] = r.ts + 1]
           q == CheckedIn(Promised(r, t), f[t])
<1>0. r.ts \in 0 .. Last /\ r.ts \in Nat /\ r.bit \in 0 .. 1 /\ f[t] \in Nat
  BY Numbers DEF Good, Records
<1>1. /\ q \in Records /\ q.ts = r.ts
      /\ \A T \in Timestamps :
            /\ q.owing[T] = r.owing[T] \ {t}
            /\ f[t] \in 1 .. T /\ T <= r.ts =>
                  /\ q.rc[T] = r.rc[T] - 1
                  /\ T \in q.filed <=> T \in r.filed /\ r.rc[T] # 0
            /\ ~ (f[t] \in 1 .. T /\ T <= r.ts) =>
                  /\ q.rc[T] = r.rc[T]
                  /\ T \in q.filed <=> T \in r.filed
      /\ q.bit = r.bit \/ q.bit = 1
      /\ q.bit = 0 => f[t] > r.ts
  BY Checked
<1> HIDE DEF q
<1>2. /\ g \in [Threads -> 0 .. Last + 1] /\ g[t] = r.ts + 1
      /\ \A u \in Threads \ {t} : g[u] = f[u]
  <2>1. r.ts + 1 \in 0 .. Last + 1
    BY <1>0, Numbers
  <2> QED
    BY <2>1 DEF Good
<1> HIDE DEF g
<1>3. ASSUME NEW T \in Timestamps PROVE Counted(g, q, T)
  <2>0. T \in Nat /\ T \in Int /\ Counted(f, r, T)
    BY Numbers DEF Good
  <2>1. CASE T <= r.ts /\ f[t] \in 1 .. T
    <3> DEFINE A == Awaited(f, T)
               B == Awaited(g, T)
    <3>1. t \in A /\ B = A \ {t}
      <4>1. ~ (g[t] \in 1 .. T)
        BY <1>0, <1>2, <2>0, <2>1
      <4> QED
        BY <1>2, <2>1, <4>1 DEF Awaited
    <3>2. /\ Cardinality(A) \in Nat /\ Cardinality(B) \in Nat
          /\ Cardinality(B) = 0 <=> B = {}
          /\ IsFiniteSet(A)
      BY AwaitedIsFinite
    <3> HIDE DEF A, B
    <3>3. Cardinality(B) = Cardinality(A) - 1
      BY <3>1, <3>2, FS_RemoveElement
    <3>4. r.rc[T] = Cardinality(A) - 1 /\ r.owing[T] = A /\ T \in r.filed
      BY <2>0, <2>1, <3>1 DEF Counted, A
    <3>5. q.rc[T] = Cardinality(B) - 1 /\ q.owing[T] = B
      BY <1>1, <2>1, <3>1, <3>2, <3>3, <3>4
    <3>6. T \in q.filed <=> B # {}
      BY <1>1, <2>1, <3>2, <3>3, <3>4
    <3> QED
      BY <1>1, <2>1, <3>5, <3>6 DEF Counted, B
  <2>2. CASE T <= r.ts /\ ~ (f[t] \in 1 .. T)
    <3>1. Awaited(g, T) = Awaited(f, T) /\ t \notin Awaited(f, T)
      <4>1. ~ (g[t] \in 1 .. T)
        BY <1>0, <1>2, <2>0, <2>2
      <4> QED
        BY <1>2, <2>2, <4>1 DEF Awaited
    <3> QED
      BY <1>1, <2>0, <2>2, <3>1 DEF Counted
  <2>3. CASE ~ (T <= r.ts)
    BY <1>1, <2>0, <2>3 DEF Counted
  <2> QED
    BY <2>1, <2>2, <2>3
<1>4. \A u \in Threads : g[u] <= q.ts + 1
  BY <1>0, <1>1, <1>2 DEF Good
<1>5. q.bit # 0
  <2>1. r.bit = 0 => f[t] <= r.ts
    BY DEF Good
  <2> QED
    BY <1>0, <1>1, <2>1
<1>6. Good(g, q)
  BY <1>1, <1>2, <1>3, <1>4, <1>5 DEF Good
<1> QED
  BY <1>6 DEF g, q

-----------------------------------------------------------------------------
(* The invariant and the two theorems.                                     *)

\* One step per call of the library.
LEMMA NextGood ==
  ASSUME LowerHalf, Good(tss, s), [Next]_vars
  PROVE  Good(tss', s')
<1>0. s \in Records /\ s.ts \in 0 .. Last /\ s.ts \in Nat /\ tss \in [Threads -> 0 .. Last + 1]
  BY Numbers DEF Good, Records
<1>1. ASSUME NEW t \in Threads, Register(t)
      PROVE  Good(tss', s')
  <2> DEFINE g == [tss EXCEPT ![t] = s.ts + 1]
             q == [s EXCEPT !.bit = 1]
  <2>1. tss' = g
    BY <1>0, <1>1, NoWrap DEF Register
  <2>2. Good(g, q)
    BY <1>1, GoodJoin DEF Register
  <2>3. Members(g) = Registered \cup {t}
    <3>1. g[t] # 0 /\ \A u \in Threads \ {t} : g[u] = tss[u]
      BY <1>0
    <3> HIDE DEF g
    <3> QED
      BY <3>1 DEF Members, Registered
  <2>4. s' = Freed(q, Members(g)) /\ s'.ts <= Last
    BY <1>1, <2>3 DEF Register
  <2> HIDE DEF g, q
  <2> QED
    BY <2>1, <2>2, <2>4, GoodFreed
<1>2. ASSUME NEW t \in Threads, Free(t)
      PROVE  Good(tss', s')
  <2>1. Members(tss) = Registered
    BY DEF Members, Registered
  <2>2. s' = Freed(s, Members(tss)) /\ s'.ts <= Last /\ tss' = tss
    BY <1>2, <2>1 DEF Free
  <2> QED
    BY <2>2, GoodFreed
<1>3. ASSUME NEW t \in Threads, Checkin(t)
      PROVE  Good(tss', s')
  <2>1. Good([tss EXCEPT ![t] = s.ts + 1], CheckedIn(Promised(s, t), tss[t]))
    BY <1>3, GoodChecked DEF Checkin
  <2>2. tss' = [tss EXCEPT ![t] = s.ts + 1]
    <3>1. CASE Behind(tss[t], s.ts)
      BY <1>0, <1>3, <3>1, NoWrap DEF Checkin
    <3>2. CASE ~ Behind(tss[t], s.ts)
      <4>1. tss[t] \in Nat /\ tss[t] <= s.ts + 1
        BY <1>0, Numbers DEF Good
      <4>2. ~ (tss[t] <= s.ts)
        BY <1>0, <3>2, <4>1, BehindIsBehind
      <4>3. tss[t] = s.ts + 1
        BY <1>0, <4>1, <4>2
      <4> QED
        BY <1>3, <3>2, <4>3 DEF Checkin
    <3> QED
      BY <3>1, <3>2
  <2> QED
    BY <1>3, <2>1, <2>2 DEF Checkin
<1>4. ASSUME NEW t \in Threads, Unregister(t)
      PROVE  Good(tss', s')
  <2>1. CASE Registered = {t}
    <3>1. tss' = [u \in Threads |-> 0]
      BY <1>0, <1>4, <2>1 DEF Unregister, Registered
    <3>2. s' = Initially
      BY <1>4, <2>1 DEF Unregister
    <3> QED
      BY <3>1, <3>2, GoodInit
  <2>2. CASE Registered # {t}
    <3> DEFINE g == [tss EXCEPT ![t] = s.ts + 1]
               q == CheckedIn(Promised(s, t), tss[t])
    <3>0. tss[t] # 0
      BY <1>4 DEF Unregister
    <3>1. Good(g, q) /\ q.ts = s.ts
      <4>1. Good(g, q)
        BY <3>0, GoodChecked
      <4>2. q.ts = s.ts
        BY <3>0, Checked
      <4> QED
        BY <4>1, <4>2
    <3>2. g[t] = s.ts + 1 /\ tss' = [g EXCEPT ![t] = 0]
      BY <1>0, <1>4 DEF Unregister
    <3>3. s' = [q EXCEPT !.bit = 1]
      BY <1>4, <2>2 DEF Unregister
    <3> HIDE DEF g, q
    <3> QED
      BY <3>1, <3>2, <3>3, GoodLeave
  <2> QED
    BY <2>1, <2>2
<1>5. CASE UNCHANGED vars
  BY <1>5 DEF vars
<1> QED
  BY <1>1, <1>2, <1>3, <1>4, <1>5 DEF Next

LEMMA AlwaysGood ==
  ASSUME LowerHalf
  PROVE  Spec => []Good(tss, s)
<1>1. Init => Good(tss, s)
  BY GoodInit DEF Init
<1>2. Good(tss, s) /\ [Next]_vars => Good(tss, s)'
  BY NextGood DEF Good, Counted, Awaited
<1> QED
  BY <1>1, <1>2, PTL DEF Spec

\* While timestamps stay in the lower half of their range checkin (and
\* unregister, which checks in for the thread that leaves) frees at once what
\* the last thread has relinquished: the retain count that
\* _mulle_aba_world_check_timerange takes down to -1 is that of the threads
\* that have neither checked in nor unregistered since.
THEOREM LowerHalfFrees == LowerHalf => (Spec => []FreesWhatIsRelinquished)
<1> SUFFICES ASSUME LowerHalf PROVE Spec => []FreesWhatIsRelinquished
  OBVIOUS
<1>1. Good(tss, s) => FreesWhatIsRelinquished
  BY DEF Good, Records, Counted, FreesWhatIsRelinquished
<1> QED
  BY <1>1, AlwaysGood, PTL

\* While timestamps stay in the lower half of their range no checkin frees
\* what some thread has not relinquished: _mulle_aba_world_check_timerange
\* finds the retain count of a timestamp at 0 only in the checkin of the last
\* thread that was registered when something was filed under it.
THEOREM LowerHalfKeeps == LowerHalf => (Spec => []KeepsWhatIsNot)
<1> SUFFICES ASSUME LowerHalf PROVE Spec => []KeepsWhatIsNot
  OBVIOUS
<1>1. Good(tss, s) => KeepsWhatIsNot
  BY DEF Good, Counted, KeepsWhatIsNot
<1> QED
  BY <1>1, AlwaysGood, PTL

=============================================================================

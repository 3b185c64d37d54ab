---------------------------- MODULE ClassProofs -----------------------------
(* Proofs about the class pages: a class keeps to its size, and an          *)
(* attendance record stays with the students of its class.                  *)
EXTENDS CenterClasses, FiniteSetTheorems, SequenceTheorems, TLAPS

ClassSpec == ClassInit /\ [][ClassNext]_classVars

RequestFields == {"q", "pc", "app", "page", "n", "id", "ref", "got", "at"}
DocNames      == {"enrol", "over", "made", "lops", "marks", "booked"}
AllWishes     == UNION Wishes

IsSequence(s) == s \in Seq({s[i] : i \in DOMAIN s})

\* A list of enrolments at HighLevel, as it is or was: those of the start are as they were.
GdIsSound(g) ==
    /\ IsSequence(g) /\ Len(StartGd) <= Len(g) /\ Len(g) <= Len(gd)
    /\ \A i \in DOMAIN g : {"lop", "pupil", "class", "staff"} \subseteq DOMAIN g[i]
    /\ \A i \in DOMAIN StartGd : /\ g[i].lop = StartGd[i].lop
                                 /\ Linked(g[i]) <=> Linked(StartGd[i])

ShownIn(rows, i, l) == \E k \in DOMAIN rows : rows[k].gd = i /\ rows[k].lop = l

\* Rows that have the class which the enrolments of a list have.
TrueIn(g, rows) == \A k \in DOMAIN rows : rows[k].gd \in DOMAIN g /\ g[rows[k].gd].lop = rows[k].lop

\* A snapshot numbers its rows from 1 and has the enrolments the first one had.
RowsAreSound(rows) ==
    /\ IsSequence(rows)
    /\ \A k \in DOMAIN rows : {"n", "gd", "lop"} \subseteq DOMAIN rows[k] /\ rows[k].n = k
BaseIsSound(b) ==
    /\ RowsAreSound(b.rows) /\ Len(b.rows) <= Len(gd)
    /\ \A i \in 1..StartBase : Linked(StartGd[i]) => ShownIn(b.rows, i, StartGd[i].lop)

\* The overlay numbers its rows from 1000; overrides change states only.
EnrolIsSound(e) ==
    /\ IsSequence(e)
    /\ \A k \in DOMAIN e : {"n", "gd", "lop"} \subseteq DOMAIN e[k] /\ e[k].n = 999 + k
OverIsSound(v) == \A k \in DOMAIN v : DOMAIN v[k] = {"st"}

Readable(a) == RowsAreSound(a.base.rows) /\ EnrolIsSound(a.docs.enrol) /\ OverIsSound(a.docs.over)
ObjectIsSound(a) ==
    /\ DOMAIN a = {"base", "docs"} /\ DOMAIN a.docs = DocNames
    /\ Readable(a) /\ BaseIsSound(a.base)

SaveIsSound(s) ==
    /\ s.doc \in DocNames
    /\ s.doc = "enrol" => EnrolIsSound(s.value)
    /\ s.doc = "over"  => OverIsSound(s.value)

\* The page of a request listed a row of its class under its number.
PageIsSound(q) ==
    /\ q.page \in DOMAIN app
    /\ \E k \in DOMAIN AllStudents(app[q.page]) :
          AllStudents(app[q.page])[k].n = q.n /\ AllStudents(app[q.page])[k].lop = q.q.lop

Few == Len(gd) < 1000

\* The enrolment a request has made; it is tied to its student before its class.
Holding(r)    == Step(r, "linkPupil") \/ Step(r, "linkClass") \/ Step(r, "push")
RefIsSound(r) ==
    /\ Holding(r) => /\ req[r].ref \in DOMAIN gd \ DOMAIN StartGd
                     /\ gd[req[r].ref].lop = req[r].q.lop
                     /\ gd[req[r].ref].staff <=> req[r].q.op = "staff"
    /\ Step(r, "linkClass") => gd[req[r].ref].pupil

RequestIsSound(r) ==
    LET q == req[r] IN
    /\ DOMAIN q = RequestFields
    /\ q.pc \notin {"idle", "done"} => q.q \in AllWishes
    /\ IF q.pc = "calls" THEN q.at \in 1..Len(Calls[q.q.op]) ELSE q.at = 1
    /\ q.pc \in {"roster", "check", "calls"} /\ q.q.op \notin Direct => q.app \in DOMAIN app
    /\ q.pc \in {"pageLoad", "load"} => BaseIsSound(q.got)
    /\ q.pc \in {"page", "pageLoad", "roster"} => q.q.op = "attend"
    /\ q.pc \in {"state", "load", "check"} /\ q.q.op = "attend" => PageIsSound(q)
    /\ RefIsSound(r)

ReqInv == req = [r \in Requests |-> req[r]] /\ \A r \in Requests : RequestIsSound(r)

GdInv ==
    /\ GdIsSound(gd) /\ GdIsSound(listed.gd)
    /\ \A i \in DOMAIN gd : i \notin DOMAIN StartGd /\ gd[i].class => gd[i].pupil

AppInv ==
    /\ IsSequence(app) /\ \A a \in DOMAIN app : ObjectIsSound(app[a])
    /\ now \in 0..Len(app)
    /\ ObjectIsSound(store)
    /\ IsSequence(saving) /\ \A i \in DOMAIN saving : SaveIsSound(saving[i])
    /\ DOMAIN timer = {"pc", "read"} /\ (timer.pc \in {"first", "second"} => BaseIsSound(timer.read))

ShapeInv == ReqInv /\ GdInv /\ AppInv /\ wish \subseteq AllWishes /\ DOMAIN past = {"blind", "overlap"}

MarkInv ==
    /\ IsSequence(mark)
    /\ \A i \in DOMAIN mark : {"gd", "of", "linked", "own"} \subseteq DOMAIN mark[i]

\* The rows of the newest object, which are also what is stored or will be.
Newest == IF app = <<>> THEN store.docs.enrol ELSE app[Len(app)].docs.enrol
NewestIsStored ==
    \/ store.docs.enrol = Newest /\ \A i \in DOMAIN saving : saving[i].doc # "enrol"
    \/ \E i \in DOMAIN saving :
          /\ saving[i].doc = "enrol" /\ saving[i].value = Newest
          /\ \A k \in DOMAIN saving : k > i => saving[k].doc # "enrol"

SeatsAreSeen(l) ==
    \A i \in Seats(gd, l) :
        \/ i \in 1..StartBase \/ gd[i].staff \/ ShownIn(Newest, i, l)
        \/ \E r \in Requests : Step(r, "push") /\ req[r].q.lop = l /\ req[r].ref = i

SeatsAreLeft(l) ==
    /\ Cardinality(Seats(gd, l)) <= Size[l]
    /\ \A r, s \in Entering(l) : r = s
    /\ \A r \in Entering(l) : Ahead(r, "linkClass") => Cardinality(Seats(gd, l)) < Size[l]

SizeInv ==
    /\ app = <<>> => saving = <<>>
    /\ \A l \in DOMAIN Size \ past.blind :
          NewestIsStored /\ SeatsAreSeen(l) /\ (Size[l] # 0 => SeatsAreLeft(l))

ClassInv == ShapeInv /\ MarkInv /\ SizeInv

------------------------------------------------------------------------------
\* Lists

LEMMA ListIs ==
    ASSUME NEW s, IsSequence(s)
    PROVE  Len(s) \in Nat /\ DOMAIN s = 1..Len(s)
  BY LenProperties DEF IsSequence

LEMMA ListGrows ==
    ASSUME NEW s, NEW x, IsSequence(s)
    PROVE  /\ IsSequence(Append(s, x)) /\ Len(Append(s, x)) = Len(s) + 1
           /\ \A i \in DOMAIN s : i \in DOMAIN Append(s, x) /\ Append(s, x)[i] = s[i]
           /\ Append(s, x)[Len(s) + 1] = x
           /\ \A i \in DOMAIN Append(s, x) : i \in DOMAIN s \/ i = Len(s) + 1
<1> DEFINE S == {s[i] : i \in DOMAIN s} \cup {x}
           t == Append(s, x)
<1>1. s \in Seq(S)
  BY SeqMonotonic DEF IsSequence
<1>2. t \in Seq(S) /\ Len(t) = Len(s) + 1 /\ t[Len(s) + 1] = x /\ \A i \in 1..Len(s) : t[i] = s[i]
  BY <1>1
<1>3. Len(s) \in Nat /\ DOMAIN s = 1..Len(s) /\ DOMAIN t = 1..(Len(s) + 1)
  BY <1>1, <1>2, LenProperties
<1>4. \A y \in S : \E i \in DOMAIN t : t[i] = y
  <2> SUFFICES ASSUME NEW y \in S PROVE \E i \in DOMAIN t : t[i] = y
    OBVIOUS
  <2>1. CASE y = x
    BY <2>1, <1>2, <1>3
  <2>2. CASE \E i \in DOMAIN s : s[i] = y
    BY <2>2, <1>2, <1>3
  <2>3. QED
    BY <2>1, <2>2
<1>5. S = {t[i] : i \in DOMAIN t}
  <2>1. \A i \in DOMAIN t : t[i] \in S
    BY <1>2, <1>3
  <2>2. QED
    BY <2>1, <1>4
<1>6. QED
  BY <1>2, <1>3, <1>5 DEF IsSequence

\* A function on an initial segment of the numbers is a list.
LEMMA ListFrom ==
    ASSUME NEW n \in Nat, NEW f, f = [i \in 1..n |-> f[i]]
    PROVE  IsSequence(f) /\ Len(f) = n /\ DOMAIN f = 1..n
<1> DEFINE S == {f[i] : i \in 1..n}
<1>1. f \in [1..n -> S]
  OBVIOUS
<1>2. f \in Seq(S)
  BY <1>1
<1>3. QED
  BY <1>1, <1>2, LenProperties DEF IsSequence

LEMMA ListChanges ==
    ASSUME NEW s, IsSequence(s), NEW i \in DOMAIN s, NEW x
    PROVE  /\ IsSequence([s EXCEPT ![i] = x]) /\ Len([s EXCEPT ![i] = x]) = Len(s)
           /\ DOMAIN [s EXCEPT ![i] = x] = DOMAIN s
<1>1. s = [k \in 1..Len(s) |-> s[k]] /\ Len(s) \in Nat /\ DOMAIN s = 1..Len(s)
  BY LenProperties DEF IsSequence
<1> DEFINE f == [s EXCEPT ![i] = x]
<1>2. f = [k \in 1..Len(s) |-> f[k]]
  BY <1>1
<1>3. QED
  BY <1>1, <1>2, ListFrom

LEMMA ListsJoin ==
    ASSUME NEW s, NEW t, IsSequence(s), IsSequence(t)
    PROVE  /\ IsSequence(s \o t) /\ Len(s \o t) = Len(s) + Len(t)
           /\ \A i \in DOMAIN s : (s \o t)[i] = s[i]
           /\ \A i \in 1..Len(t) : (s \o t)[Len(s) + i] = t[i]
<1> DEFINE S == {s[i] : i \in DOMAIN s} \cup {t[i] : i \in DOMAIN t}
           u == s \o t
<1>1. s \in Seq(S) /\ t \in Seq(S)
  BY SeqMonotonic DEF IsSequence
<1>2. /\ u \in Seq(S) /\ Len(u) = Len(s) + Len(t)
      /\ \A i \in 1..(Len(s) + Len(t)) : u[i] = IF i <= Len(s) THEN s[i] ELSE t[i - Len(s)]
  BY <1>1, ConcatProperties
<1>3. Len(s) \in Nat /\ Len(t) \in Nat /\ DOMAIN s = 1..Len(s) /\ DOMAIN t = 1..Len(t)
  BY ListIs
<1>4. u = [i \in 1..Len(u) |-> u[i]] /\ Len(u) \in Nat
  BY <1>2, LenProperties
<1>5. IsSequence(u)
  BY <1>4, ListFrom
<1>6. \A i \in 1..Len(t) : u[Len(s) + i] = t[i]
  <2> SUFFICES ASSUME NEW i \in 1..Len(t) PROVE u[Len(s) + i] = t[i]
    OBVIOUS
  <2>1. i \in 1..Len(t) /\ Len(s) + i \in 1..(Len(s) + Len(t)) /\ ~(Len(s) + i <= Len(s)) /\ (Len(s) + i) - Len(s) = i
    BY <1>3
  <2>2. QED
    BY <2>1, <1>2
<1>7. QED
  BY <1>2, <1>3, <1>5, <1>6

LEMMA ListShrinks ==
    ASSUME NEW s, IsSequence(s), NEW i \in DOMAIN s
    PROVE  /\ IsSequence(RemoveAt(s, i)) /\ Len(RemoveAt(s, i)) = Len(s) - 1
           /\ \A k \in DOMAIN RemoveAt(s, i) :
                 /\ k < i  => k \in DOMAIN s /\ RemoveAt(s, i)[k] = s[k]
                 /\ k >= i => k + 1 \in DOMAIN s /\ RemoveAt(s, i)[k] = s[k + 1]
<1> DEFINE a == SubSeq(s, 1, i - 1)
           b == SubSeq(s, i + 1, Len(s))
           S == {s[k] : k \in DOMAIN s}
<1>1. Len(s) \in Nat /\ DOMAIN s = 1..Len(s) /\ i \in 1..Len(s)
  BY ListIs
<1>2. a \in Seq(S) /\ Len(a) = i - 1 /\ \A k \in 1..(i - 1) : a[k] = s[k]
  <2>1. \A k \in 1..(i - 1) : s[k] \in S
    BY <1>1
  <2>2. /\ a \in Seq(S) /\ Len(a) = (IF 1 <= i - 1 THEN (i - 1) - 1 + 1 ELSE 0)
        /\ \A k \in 1..((i - 1) - 1 + 1) : a[k] = s[1 + k - 1]
    BY <1>1, <2>1, SubSeqProperties
  <2>3. QED
    BY <1>1, <2>2
<1>3. b \in Seq(S) /\ Len(b) = Len(s) - i /\ \A k \in 1..(Len(s) - i) : b[k] = s[i + k]
  <2>1. \A k \in (i + 1)..Len(s) : s[k] \in S
    BY <1>1
  <2>2. /\ b \in Seq(S) /\ Len(b) = (IF i + 1 <= Len(s) THEN Len(s) - (i + 1) + 1 ELSE 0)
        /\ \A k \in 1..(Len(s) - (i + 1) + 1) : b[k] = s[(i + 1) + k - 1]
    BY <1>1, <2>1, SubSeqProperties
  <2>3. QED
    BY <1>1, <2>2
<1>4. /\ (a \o b) \in Seq(S) /\ Len(a \o b) = Len(s) - 1
      /\ \A k \in 1..(Len(s) - 1) : (a \o b)[k] = IF k <= i - 1 THEN a[k] ELSE b[k - (i - 1)]
  <2>1. /\ (a \o b) \in Seq(S) /\ Len(a \o b) = Len(a) + Len(b)
        /\ \A k \in 1..(Len(a) + Len(b)) : (a \o b)[k] = IF k <= Len(a) THEN a[k] ELSE b[k - Len(a)]
    BY <1>2, <1>3, ConcatProperties
  <2>2. Len(a) + Len(b) = Len(s) - 1
    BY <1>1, <1>2, <1>3
  <2>3. QED
    BY <2>1, <2>2, <1>2
<1> DEFINE r == RemoveAt(s, i)
<1>5. r = a \o b
  BY DEF RemoveAt
<1> HIDE DEF r, a, b
<1>6. IsSequence(r) /\ Len(r) = Len(s) - 1 /\ DOMAIN r = 1..(Len(s) - 1)
  <2>1. r = [k \in 1..Len(r) |-> r[k]] /\ Len(r) = Len(s) - 1
    BY <1>4, <1>5, LenProperties
  <2>2. QED
    BY <2>1, <1>1, ListFrom
<1>7. ASSUME NEW k \in DOMAIN r, k < i PROVE k \in DOMAIN s /\ r[k] = s[k]
  <2>1. k \in 1..(Len(s) - 1) /\ k <= i - 1 /\ k \in 1..(i - 1) /\ k \in 1..Len(s)
    BY <1>7, <1>1, <1>6
  <2>2. r[k] = a[k] /\ a[k] = s[k]
    BY <2>1, <1>2, <1>4, <1>5
  <2>3. QED
    BY <2>1, <2>2, <1>1
<1>8. ASSUME NEW k \in DOMAIN r, k >= i PROVE k + 1 \in DOMAIN s /\ r[k] = s[k + 1]
  <2>1. k \in 1..(Len(s) - 1) /\ ~(k <= i - 1) /\ k - (i - 1) \in 1..(Len(s) - i) /\ i + (k - (i - 1)) = k + 1
    BY <1>8, <1>1, <1>6
  <2>2. r[k] = b[k - (i - 1)] /\ b[k - (i - 1)] = s[i + (k - (i - 1))]
    BY <2>1, <1>3, <1>4, <1>5
  <2>3. QED
    BY <2>1, <2>2, <1>1
<1>9. QED
  BY <1>6, <1>7, <1>8 DEF r

------------------------------------------------------------------------------
\* What a snapshot holds and an object shows

LEMMA SnapshotShows ==
    ASSUME NEW g, NEW rooms, IsSequence(g)
    PROVE  LET rows == Snapshot(g, rooms).rows IN
           /\ RowsAreSound(rows) /\ Len(rows) <= Len(g) /\ TrueIn(g, rows)
           /\ \A i \in DOMAIN g : Linked(g[i]) => ShownIn(rows, i, g[i].lop)
<1> DEFINE ids     == {i \in DOMAIN g : Linked(g[i])}
           Upto(i) == {j \in ids : j <= i}
           Rank(i) == Cardinality(Upto(i))
           Nth(n)  == CHOOSE i \in ids : Rank(i) = n
           Row(n, i) == [n |-> n, gd |-> i, hv |-> g[i].hv, lop |-> g[i].lop, st |-> g[i].st]
           c       == Cardinality(ids)
           rows    == [n \in 1..c |-> Row(n, Nth(n))]
<1>1. Snapshot(g, rooms).rows = rows
  BY Zenon DEF Snapshot
<1>2. Len(g) \in Nat /\ DOMAIN g = 1..Len(g)
  BY ListIs
<1>3. IsFiniteSet(ids) /\ c \in Nat /\ c <= Len(g)
  <2>1. IsFiniteSet(1..Len(g)) /\ Cardinality(1..Len(g)) = Len(g)
    <3>1. 1 \in Int /\ Len(g) \in Int
      BY <1>2
    <3>2. IsFiniteSet(1..Len(g)) /\ Cardinality(1..Len(g)) = IF 1 > Len(g) THEN 0 ELSE Len(g) - 1 + 1
      BY <3>1, FS_Interval
    <3>3. QED
      BY <1>2, <3>2
  <2>2. ids \in SUBSET (1..Len(g))
    BY <1>2
  <2>3. IsFiniteSet(ids) /\ c <= Len(g)
    BY <2>1, <2>2, FS_Subset
  <2>4. QED
    BY <2>3, FS_CardinalityType
<1>4. \A i \in ids : IsFiniteSet(Upto(i)) /\ Rank(i) \in 1..c
  <2> SUFFICES ASSUME NEW i \in ids PROVE IsFiniteSet(Upto(i)) /\ Rank(i) \in 1..c
    OBVIOUS
  <2>1. Upto(i) \in SUBSET ids /\ i \in Upto(i)
    BY <1>2
  <2>2. IsFiniteSet(Upto(i)) /\ Rank(i) <= c /\ Rank(i) \in Nat
    BY <2>1, <1>3, FS_Subset, FS_CardinalityType
  <2>3. Rank(i) # 0
    BY <2>1, <2>2, FS_EmptySet
  <2>4. QED
    BY <2>2, <2>3, <1>3
<1>5. \A i, j \in ids : i < j => Rank(i) # Rank(j)
  <2> SUFFICES ASSUME NEW i \in ids, NEW j \in ids, i < j PROVE Rank(i) # Rank(j)
    OBVIOUS
  <2>1. Upto(i) \in SUBSET Upto(j) /\ j \in Upto(j) /\ j \notin Upto(i)
    BY <1>2
  <2>2. IsFiniteSet(Upto(j))
    BY <1>4
  <2>3. Rank(i) = Rank(j) => Upto(i) = Upto(j)
    BY <2>1, <2>2, FS_Subset
  <2>4. QED
    BY <2>1, <2>3
<1>6. \A i \in ids : Nth(Rank(i)) = i
  <2> SUFFICES ASSUME NEW i \in ids PROVE Nth(Rank(i)) = i
    OBVIOUS
  <2>1. Nth(Rank(i)) \in ids /\ Rank(Nth(Rank(i))) = Rank(i)
    OBVIOUS
  <2> DEFINE j == Nth(Rank(i))
  <2> HIDE DEF j, Rank
  <2>2. j \in ids /\ Rank(j) = Rank(i)
    BY <2>1 DEF j
  <2>3. i \in Nat /\ j \in Nat
    BY <1>2, <2>2
  <2>4. ~(i < j) /\ ~(j < i)
    BY <1>5, <2>2
  <2>5. j = i
    BY <2>3, <2>4
  <2>6. QED
    BY <2>5 DEF j
<1>7. \A n \in 1..c : Nth(n) \in ids
  <2> SUFFICES \A n \in 1..c : \E i \in ids : Rank(i) = n
    OBVIOUS
  <2> DEFINE f == [i \in ids |-> Rank(i)]
  <2>1. f \in Injection(ids, 1..c)
    <3> HIDE DEF Rank, c
    <3>1. f \in [ids -> 1..c] /\ \A i \in ids : f[i] = Rank(i)
      BY <1>4
    <3>2. \A i, j \in ids : f[i] = f[j] => i = j
      BY <1>2, <1>5, <3>1
    <3> HIDE DEF f
    <3>3. QED
      BY <3>1, <3>2 DEF Injection, IsInjective
  <2>2. IsFiniteSet(1..c) /\ Cardinality(1..c) = c
    <3> HIDE DEF c
    <3>1. 1 \in Int /\ c \in Int
      BY <1>3
    <3>2. IsFiniteSet(1..c) /\ Cardinality(1..c) = IF 1 > c THEN 0 ELSE c - 1 + 1
      BY <3>1, FS_Interval
    <3>3. QED
      BY <1>3, <3>2
  <2>3. f \in Surjection(ids, 1..c)
    <3> HIDE DEF f
    <3>1. Cardinality(ids) = Cardinality(1..c)
      BY <2>2
    <3>2. QED
      BY <2>1, <2>2, <3>1, FS_Injection
  <2> HIDE DEF Rank, c
  <2>4. \A n \in 1..c : \E i \in ids : f[i] = n
    <3> HIDE DEF f
    <3>1. QED
      BY <2>3 DEF Surjection
  <2>5. QED
    BY <2>4
<1> HIDE DEF Nth, Rank, c
<1>8. IsSequence(rows) /\ Len(rows) = c /\ DOMAIN rows = 1..c
  BY <1>3, ListFrom
<1>9. TrueIn(g, rows)
  BY <1>8, <1>7 DEF TrueIn
<1>10. \A i \in DOMAIN g : Linked(g[i]) => ShownIn(rows, i, g[i].lop)
  <2> SUFFICES ASSUME NEW i \in ids PROVE ShownIn(rows, i, g[i].lop)
    OBVIOUS
  <2>1. Rank(i) \in DOMAIN rows /\ rows[Rank(i)] = Row(Rank(i), i)
    BY <1>4, <1>6, <1>8
  <2>2. QED
    BY <2>1 DEF ShownIn
<1>11. QED
  BY <1>1, <1>3, <1>8, <1>10, <1>9 DEF RowsAreSound

NumberAt(i, m)  == IF i <= m THEN i ELSE 999 + (i - m)
StudentsShow(a) ==
    LET b == a.base.rows  e == a.docs.enrol  s == AllStudents(a) IN
    /\ DOMAIN s = 1..(Len(b) + Len(e)) /\ Len(b) \in Nat /\ Len(e) \in Nat
    /\ DOMAIN b = 1..Len(b) /\ DOMAIN e = 1..Len(e)
    /\ \A i \in 1..(Len(b) + Len(e)) :
          s[i].n = NumberAt(i, Len(b)) /\ s[i].gd = (b \o e)[i].gd /\ s[i].lop = (b \o e)[i].lop

LEMMA StudentsAre ==
    ASSUME NEW a, Readable(a)
    PROVE  StudentsShow(a)
<1> DEFINE b == a.base.rows
           e == a.docs.enrol
           v == a.docs.over
           s == AllStudents(a)
           rows == b \o e
<1>1. /\ IsSequence(e) /\ \A k \in DOMAIN e : {"n", "gd", "lop"} \subseteq DOMAIN e[k] /\ e[k].n = 999 + k
      /\ IsSequence(b) /\ \A k \in DOMAIN b : {"n", "gd", "lop"} \subseteq DOMAIN b[k] /\ b[k].n = k
      /\ \A k \in DOMAIN v : DOMAIN v[k] = {"st"}
  BY DEF EnrolIsSound, Readable, RowsAreSound, OverIsSound
<1>2. s = [i \in DOMAIN rows |-> Over(At(v, rows[i].gd), rows[i])]
  BY Zenon DEF AllStudents
<1> SUFFICES /\ DOMAIN s = 1..(Len(b) + Len(e)) /\ Len(b) \in Nat /\ Len(e) \in Nat
             /\ DOMAIN b = 1..Len(b) /\ DOMAIN e = 1..Len(e)
             /\ \A i \in 1..(Len(b) + Len(e)) :
                   s[i].n = NumberAt(i, Len(b)) /\ s[i].gd = rows[i].gd /\ s[i].lop = rows[i].lop
  BY DEF StudentsShow
<1> HIDE DEF s, b, e, v
<1>3. /\ Len(b) \in Nat /\ DOMAIN b = 1..Len(b)
      /\ Len(e) \in Nat /\ DOMAIN e = 1..Len(e)
  BY <1>1, ListIs
<1>4. IsSequence(b) /\ IsSequence(e)
  BY <1>1
<1>5. IsSequence(rows) /\ Len(rows) = Len(b) + Len(e)
  BY <1>4, ListsJoin
<1>6. DOMAIN rows = 1..(Len(b) + Len(e))
  BY <1>5, ListIs
<1>7. \A i \in DOMAIN b : rows[i] = b[i]
  BY <1>4, ListsJoin
<1>8. \A i \in 1..Len(e) : rows[Len(b) + i] = e[i]
  BY <1>3, <1>4, ListsJoin
<1>9. \A x, row : {"n", "gd", "lop"} \subseteq DOMAIN row =>
          LET w == Over(At(v, x), row) IN w.n = row.n /\ w.gd = row.gd /\ w.lop = row.lop
  <2> SUFFICES ASSUME NEW x, NEW row, {"n", "gd", "lop"} \subseteq DOMAIN row
               PROVE  LET w == Over(At(v, x), row) IN w.n = row.n /\ w.gd = row.gd /\ w.lop = row.lop
    OBVIOUS
  <2>1. DOMAIN At(v, x) = {"st"} \/ DOMAIN At(v, x) = {}
    BY <1>1 DEF At
  <2>2. "n" \notin DOMAIN At(v, x) /\ "gd" \notin DOMAIN At(v, x) /\ "lop" \notin DOMAIN At(v, x)
    BY <2>1
  <2>3. QED
    BY <2>2 DEF Over
<1> HIDE DEF rows
<1>10. DOMAIN s = 1..(Len(b) + Len(e))
  BY <1>2, <1>6
<1>11. \A i \in DOMAIN s : {"n", "gd", "lop"} \subseteq DOMAIN rows[i] =>
         s[i].n = rows[i].n /\ s[i].gd = rows[i].gd /\ s[i].lop = rows[i].lop
  BY <1>2, <1>6, <1>9, <1>10
<1>12. ASSUME NEW i \in 1..(Len(b) + Len(e))
       PROVE  {"n", "gd", "lop"} \subseteq DOMAIN rows[i] /\ rows[i].n = NumberAt(i, Len(b))
  <2>1. CASE i <= Len(b)
    <3>1. i \in DOMAIN b
      BY <2>1, <1>3
    <3>2. QED
      BY <2>1, <3>1, <1>1, <1>7 DEF NumberAt
  <2>2. CASE ~(i <= Len(b))
    <3> DEFINE k == i - Len(b)
    <3>1. k \in 1..Len(e) /\ Len(b) + k = i
      BY <2>2, <1>3
    <3> HIDE DEF k
    <3>2. rows[i] = e[k] /\ {"n", "gd", "lop"} \subseteq DOMAIN e[k] /\ e[k].n = 999 + k
      BY <3>1, <1>1, <1>3, <1>8
    <3>3. QED
      BY <2>2, <3>2 DEF k, NumberAt
  <2>3. QED
    BY <2>1, <2>2
<1>13. \A i \in 1..(Len(b) + Len(e)) :
          s[i].n = NumberAt(i, Len(b)) /\ s[i].gd = rows[i].gd /\ s[i].lop = rows[i].lop
  BY <1>10, <1>11, <1>12
<1>14. QED
  BY <1>3, <1>10, <1>13

\* Two rows have one number only where a snapshot has a thousand.
LEMMA NumbersAreApart ==
    ASSUME NEW a, Readable(a), Len(a.base.rows) < 1000,
           NEW i \in DOMAIN AllStudents(a), NEW j \in DOMAIN AllStudents(a),
           AllStudents(a)[i].n = AllStudents(a)[j].n
    PROVE  i = j
<1> DEFINE b == Len(a.base.rows)
           e == Len(a.docs.enrol)
           s == AllStudents(a)
<1>1. StudentsShow(a)
  BY StudentsAre
<1>2. DOMAIN s = 1..(b + e) /\ b \in Nat /\ e \in Nat
  BY <1>1 DEF StudentsShow
<1>3. \A k \in 1..(b + e) : s[k].n = NumberAt(k, b)
  BY <1>1 DEF StudentsShow
<1>4. b < 1000 /\ i \in DOMAIN s /\ j \in DOMAIN s /\ s[i].n = s[j].n
  OBVIOUS
<1> HIDE DEF b, e, s
<1>5. NumberAt(i, b) = NumberAt(j, b)
  BY <1>2, <1>3, <1>4
<1>6. QED
  BY <1>2, <1>4, <1>5 DEF NumberAt

\* A class has at least as many rows as there are enrolments shown in it.
LEMMA SeatsFitRoster ==
    ASSUME NEW a, Readable(a),
           NEW l, NEW S, \A i \in S : \E k \in Roster(a, l) : AllStudents(a)[k].gd = i
    PROVE  /\ IsFiniteSet(S) /\ Cardinality(S) \in Nat /\ Cardinality(Roster(a, l)) \in Nat
           /\ Cardinality(S) <= Cardinality(Roster(a, l))
<1> DEFINE R == Roster(a, l)
           s == AllStudents(a)
           f == [i \in S |-> CHOOSE k \in R : s[k].gd = i]
<1>1. /\ DOMAIN s = 1..(Len(a.base.rows) + Len(a.docs.enrol))
      /\ Len(a.base.rows) \in Nat /\ Len(a.docs.enrol) \in Nat
  <2>1. StudentsShow(a)
    BY StudentsAre
  <2>2. QED
    BY <2>1, Zenon DEF StudentsShow
<1>2. IsFiniteSet(R)
  <2>1. IsFiniteSet(DOMAIN s)
    <3> DEFINE m == Len(a.base.rows) + Len(a.docs.enrol)
    <3>1. 1 \in Int /\ m \in Int
      BY <1>1
    <3>2. IsFiniteSet(1..m)
      BY <3>1, FS_Interval
    <3>3. QED
      BY <1>1, <3>2
  <2>2. R \in SUBSET DOMAIN s
    BY DEF Roster
  <2>3. QED
    BY <2>1, <2>2, FS_Subset
<1>3. \A i \in S : f[i] \in R /\ s[f[i]].gd = i
  OBVIOUS
<1>4. f \in [S -> R] /\ \A i, j \in S : f[i] = f[j] => i = j
  BY <1>3
<1>5. f \in Injection(S, R)
  BY <1>4 DEF Injection, IsInjective
<1>6. QED
  BY <1>2, <1>5, FS_Injection, FS_CardinalityType

LEMMA ShownOnRoster ==
    ASSUME NEW a, Readable(a), NEW i, NEW l, ShownIn(a.base.rows, i, l) \/ ShownIn(a.docs.enrol, i, l)
    PROVE  \E k \in Roster(a, l) : AllStudents(a)[k].gd = i
<1> DEFINE b == a.base.rows
           e == a.docs.enrol
           s == AllStudents(a)
<1>1. StudentsShow(a) /\ IsSequence(b) /\ IsSequence(e)
  BY StudentsAre DEF Readable, RowsAreSound, EnrolIsSound
<1>2. /\ DOMAIN s = 1..(Len(b) + Len(e)) /\ Len(b) \in Nat /\ Len(e) \in Nat
      /\ DOMAIN b = 1..Len(b) /\ DOMAIN e = 1..Len(e)
  BY <1>1 DEF StudentsShow
<1>3. \A k \in 1..(Len(b) + Len(e)) : s[k].gd = (b \o e)[k].gd /\ s[k].lop = (b \o e)[k].lop
  BY <1>1 DEF StudentsShow
<1>4. SUFFICES \E k \in DOMAIN s : s[k].gd = i /\ s[k].lop = l
  BY DEF Roster
<1>5. ShownIn(b, i, l) \/ ShownIn(e, i, l)
  OBVIOUS
<1> HIDE DEF b, e, s
<1>6. ASSUME NEW k \in DOMAIN b, b[k].gd = i, b[k].lop = l PROVE \E m \in DOMAIN s : s[m].gd = i /\ s[m].lop = l
  <2>1. (b \o e)[k] = b[k]
    BY <1>1, ListsJoin
  <2>2. k \in 1..(Len(b) + Len(e))
    BY <1>2
  <2>3. QED
    BY <2>1, <2>2, <1>2, <1>3, <1>6
<1>7. ASSUME NEW k \in DOMAIN e, e[k].gd = i, e[k].lop = l PROVE \E m \in DOMAIN s : s[m].gd = i /\ s[m].lop = l
  <2>1. (b \o e)[Len(b) + k] = e[k]
    <3>1. k \in 1..Len(e)
      BY <1>2
    <3>2. \A m \in 1..Len(e) : (b \o e)[Len(b) + m] = e[m]
      BY <1>1, ListsJoin
    <3>3. QED
      BY <3>1, <3>2
  <2>2. Len(b) + k \in 1..(Len(b) + Len(e))
    BY <1>2
  <2>3. QED
    BY <2>1, <2>2, <1>2, <1>3, <1>7
<1>8. QED
  BY <1>5, <1>6, <1>7 DEF ShownIn

\* A page goes on showing what it showed while the object's overlay grows.
Longer(e, f) == e = f \/ \E x : f = Append(e, x)

LEMMA LongerKeeps ==
    ASSUME NEW e, NEW f, IsSequence(e), Longer(e, f)
    PROVE  IsSequence(f) /\ Len(e) <= Len(f) /\ \A k \in DOMAIN e : k \in DOMAIN f /\ f[k] = e[k]
<1>1. CASE e = f
  BY <1>1, ListIs
<1>2. ASSUME NEW x, f = Append(e, x) PROVE IsSequence(f) /\ Len(e) <= Len(f) /\ \A k \in DOMAIN e : k \in DOMAIN f /\ f[k] = e[k]
  BY <1>2, ListGrows, ListIs
<1>3. QED
  BY <1>1, <1>2 DEF Longer

LEMMA PagesStay ==
    ASSUME NEW a, NEW c, Readable(a), Readable(c), c.base = a.base, Longer(a.docs.enrol, c.docs.enrol),
           NEW k \in DOMAIN AllStudents(a)
    PROVE  /\ k \in DOMAIN AllStudents(c)
           /\ AllStudents(c)[k].n = AllStudents(a)[k].n /\ AllStudents(c)[k].lop = AllStudents(a)[k].lop
<1> DEFINE b == a.base.rows
           e == a.docs.enrol
           f == c.docs.enrol
           s == AllStudents(a)
           t == AllStudents(c)
<1>1. StudentsShow(a) /\ StudentsShow(c) /\ IsSequence(b) /\ IsSequence(e)
  BY StudentsAre DEF Readable, RowsAreSound, EnrolIsSound
<1>2. DOMAIN s = 1..(Len(b) + Len(e)) /\ Len(b) \in Nat /\ Len(e) \in Nat /\ DOMAIN b = 1..Len(b) /\ DOMAIN e = 1..Len(e)
  BY <1>1 DEF StudentsShow
<1>3. DOMAIN t = 1..(Len(b) + Len(f)) /\ Len(f) \in Nat
  BY <1>1 DEF StudentsShow
<1>4. \A i \in 1..(Len(b) + Len(e)) : s[i].n = NumberAt(i, Len(b)) /\ s[i].lop = (b \o e)[i].lop
  BY <1>1 DEF StudentsShow
<1>5. \A i \in 1..(Len(b) + Len(f)) : t[i].n = NumberAt(i, Len(b)) /\ t[i].lop = (b \o f)[i].lop
  BY <1>1 DEF StudentsShow
<1>6. IsSequence(f) /\ Len(e) <= Len(f) /\ \A i \in DOMAIN e : f[i] = e[i]
  BY <1>1, LongerKeeps
<1>7. k \in DOMAIN s
  OBVIOUS
<1> HIDE DEF b, e, f, s, t
<1>8. k \in 1..(Len(b) + Len(e)) /\ k \in 1..(Len(b) + Len(f))
  BY <1>2, <1>3, <1>6, <1>7
<1>9. (b \o f)[k] = (b \o e)[k]
  <2>1. CASE k <= Len(b)
    <3>1. k \in DOMAIN b
      BY <2>1, <1>2, <1>8
    <3>2. (b \o e)[k] = b[k]
      BY <3>1, <1>1, ListsJoin
    <3>3. (b \o f)[k] = b[k]
      BY <3>1, <1>1, <1>6, ListsJoin
    <3>4. QED
      BY <3>2, <3>3
  <2>2. CASE ~(k <= Len(b))
    <3> DEFINE m == k - Len(b)
    <3>1. m \in 1..Len(e) /\ Len(b) + m = k
      BY <2>2, <1>2, <1>8
    <3> HIDE DEF m
    <3>2. m \in DOMAIN e /\ m \in DOMAIN f /\ f[m] = e[m]
      BY <3>1, <1>1, <1>2, <1>6, ListIs
    <3>3. (b \o e)[Len(b) + m] = e[m]
      <4>1. \A i \in 1..Len(e) : (b \o e)[Len(b) + i] = e[i]
        BY <1>1, ListsJoin
      <4>2. QED
        BY <3>1, <4>1
    <3>4. (b \o f)[Len(b) + m] = f[m]
      <4>1. \A i \in 1..Len(f) : (b \o f)[Len(b) + i] = f[i]
        BY <1>1, <1>6, ListsJoin
      <4>2. m \in 1..Len(f)
        BY <3>1, <1>2, <1>3, <1>6
      <4>3. QED
        BY <4>1, <4>2
    <3>5. QED
      BY <3>1, <3>2, <3>3, <3>4
  <2>3. QED
    BY <2>1, <2>2
<1>10. t[k].n = s[k].n /\ t[k].lop = s[k].lop
  BY <1>4, <1>5, <1>8, <1>9
<1>11. QED
  BY <1>3, <1>8, <1>10 DEF s, t

------------------------------------------------------------------------------
\* The calls of a request

CallsOf(op) == 1..Len(Calls[op])

LEMMA CallsFollow ==
    ASSUME NEW op \in DOMAIN Calls
    PROVE  /\ Len(Calls[op]) \in Nat \ {0}
           /\ \A i, j \in CallsOf(op) :
                 /\ Calls[op][i] = "linkPupil" /\ j = i - 1 => Calls[op][j] = "create"
                 /\ Calls[op][i] = "linkClass" /\ j = i - 1 => Calls[op][j] = "linkPupil"
                 /\ Calls[op][i] = "push" /\ j = i - 1 => Calls[op][j] = "linkClass"
                 /\ Calls[op][i] \in {"linkPupil", "linkClass", "push"} => Calls[op][j] \notin {"find", "count"}
                 /\ Calls[op][i] = "linkClass" /\ Calls[op][j] = "linkClass" => i = j
           /\ Calls[op][1] \notin {"linkPupil", "linkClass", "push"}
           /\ \A i \in CallsOf(op) :
                 /\ Calls[op][i] \in {"create", "linkPupil", "linkClass"} => op \in Enrolling \cup {"staff"}
                 /\ Calls[op][i] = "linkClass" /\ op # "staff" =>
                       i + 1 \in CallsOf(op) /\ Calls[op][i + 1] = "push"
                 /\ Calls[op][i] = "push" => op \in Enrolling
                 /\ Calls[op][i] \in AppSide => op \notin Direct
<1> DEFINE Goal(c) ==
           /\ Len(c) \in Nat \ {0}
           /\ \A i, j \in 1..Len(c) :
                 /\ c[i] = "linkPupil" /\ j = i - 1 => c[j] = "create"
                 /\ c[i] = "linkClass" /\ j = i - 1 => c[j] = "linkPupil"
                 /\ c[i] = "push" /\ j = i - 1 => c[j] = "linkClass"
                 /\ c[i] \in {"linkPupil", "linkClass", "push"} => c[j] \notin {"find", "count"}
                 /\ c[i] = "linkClass" /\ c[j] = "linkClass" => i = j
           /\ c[1] \notin {"linkPupil", "linkClass", "push"}
           /\ \A i \in 1..Len(c) :
                 /\ c[i] \in {"create", "linkPupil", "linkClass"} => op \in Enrolling \cup {"staff"}
                 /\ c[i] = "linkClass" /\ op # "staff" => i + 1 \in 1..Len(c) /\ c[i + 1] = "push"
                 /\ c[i] = "push" => op \in Enrolling
                 /\ c[i] \in AppSide => op \notin Direct
<1> USE DEF Enrolling, AppSide, Direct
<1>1. CASE op = "newcomer"
  <2>1. Calls[op] = <<"newStudent", "create", "linkPupil", "linkClass", "push">>
    BY <1>1 DEF Calls
  <2>2. Goal(<<"newStudent", "create", "linkPupil", "linkClass", "push">>)
    BY <1>1
  <2>3. QED
    BY <2>1, <2>2 DEF CallsOf
<1>2. CASE op = "enrol"
  <2>1. Calls[op] = <<"create", "linkPupil", "linkClass", "push">>
    BY <1>2 DEF Calls
  <2>2. Goal(<<"create", "linkPupil", "linkClass", "push">>)
    BY <1>2
  <2>3. QED
    BY <2>1, <2>2 DEF CallsOf
<1>3. CASE op = "staff"
  <2>1. Calls[op] = <<"create", "linkPupil", "linkClass">>
    BY <1>3 DEF Calls
  <2>2. Goal(<<"create", "linkPupil", "linkClass">>)
    BY <1>3
  <2>3. QED
    BY <2>1, <2>2 DEF CallsOf
<1>4. CASE op = "move"
  <2>1. Calls[op] = <<"create", "linkPupil", "linkClass", "push", "close", "note">>
    BY <1>4 DEF Calls
  <2>2. Goal(<<"create", "linkPupil", "linkClass", "push", "close", "note">>)
    BY <1>4
  <2>3. QED
    BY <2>1, <2>2 DEF CallsOf
<1>5. CASE op = "status"
  <2>1. Calls[op] = <<"close", "note">>
    BY <1>5 DEF Calls
  <2>2. Goal(<<"close", "note">>)
    BY <1>5
  <2>3. QED
    BY <2>1, <2>2 DEF CallsOf
<1>6. CASE op = "schedule"
  <2>1. Calls[op] = <<"setHour", "noteHour">>
    BY <1>6 DEF Calls
  <2>2. Goal(<<"setHour", "noteHour">>)
    BY <1>6
  <2>3. QED
    BY <2>1, <2>2 DEF CallsOf
<1>7. CASE op = "assign"
  <2>1. Calls[op] = <<"unlinkTeacher", "linkTeacher", "noteTeacher">>
    BY <1>7 DEF Calls
  <2>2. Goal(<<"unlinkTeacher", "linkTeacher", "noteTeacher">>)
    BY <1>7
  <2>3. QED
    BY <2>1, <2>2 DEF CallsOf
<1>8. CASE op = "lessons"
  <2>1. Calls[op] = <<"find", "newLesson", "linkLesson">>
    BY <1>8 DEF Calls
  <2>2. Goal(<<"find", "newLesson", "linkLesson">>)
    BY <1>8
  <2>3. QED
    BY <2>1, <2>2 DEF CallsOf
<1>9. CASE op = "attend"
  <2>1. Calls[op] = <<"find", "newLesson", "linkLesson", "newMark", "linkMark", "count", "bump", "noteMark">>
    BY <1>9 DEF Calls
  <2>2. Goal(<<"find", "newLesson", "linkLesson", "newMark", "linkMark", "count", "bump", "noteMark">>)
    BY <1>9
  <2>3. QED
    BY <2>1, <2>2 DEF CallsOf
<1>10. CASE op = "makeup"
  <2>1. Calls[op] = <<"find", "newLesson", "linkLesson", "newMark", "linkMark", "count", "bump", "noteBooking">>
    BY <1>10 DEF Calls
  <2>2. Goal(<<"find", "newLesson", "linkLesson", "newMark", "linkMark", "count", "bump", "noteBooking">>)
    BY <1>10
  <2>3. QED
    BY <2>1, <2>2 DEF CallsOf
<1>11. CASE op = "deal"
  <2>1. Calls[op] = <<"newPupil", "linkDeal">>
    BY <1>11 DEF Calls
  <2>2. Goal(<<"newPupil", "linkDeal">>)
    BY <1>11
  <2>3. QED
    BY <2>1, <2>2 DEF CallsOf
<1>12. CASE op = "class"
  <2>1. Calls[op] = <<"newClass", "noteClass">>
    BY <1>12 DEF Calls
  <2>2. Goal(<<"newClass", "noteClass">>)
    BY <1>12
  <2>3. QED
    BY <2>1, <2>2 DEF CallsOf
<1>13. op \in {"newcomer", "enrol", "staff", "move", "status", "schedule", "assign", "lessons", "attend", "makeup", "deal", "class"}
  BY DEF Calls
<1>14. QED
  BY <1>1, <1>2, <1>3, <1>4, <1>5, <1>6, <1>7, <1>8, <1>9, <1>10, <1>11, <1>12, <1>13

------------------------------------------------------------------------------
\* One request moves, the others keep what they know

GdGrows ==
    /\ Len(gd) <= Len(gd')
    /\ \A i \in DOMAIN gd : /\ i \in DOMAIN gd' /\ gd'[i].lop = gd[i].lop
                            /\ gd'[i].staff <=> gd[i].staff
                            /\ gd[i].pupil => gd'[i].pupil

AppGrows ==
    /\ \A a \in DOMAIN app : /\ a \in DOMAIN app' /\ app'[a].base = app[a].base
                             /\ Longer(app[a].docs.enrol, app'[a].docs.enrol)
    /\ \A a \in DOMAIN app' : Readable(app'[a])

LEMMA BaseStays ==
    ASSUME NEW b, BaseIsSound(b), Len(gd) <= Len(gd'), Len(gd) \in Nat, Len(gd') \in Nat
    PROVE  BaseIsSound(b)'
<1>1. Len(b.rows) \in Nat
  BY ListIs DEF BaseIsSound, RowsAreSound
<1>2. QED
  BY <1>1 DEF BaseIsSound

LEMMA PageStays ==
    ASSUME NEW q, PageIsSound(q), \A a \in DOMAIN app : Readable(app[a]), AppGrows
    PROVE  PageIsSound(q)'
<1>1. PICK k \in DOMAIN AllStudents(app[q.page]) :
         AllStudents(app[q.page])[k].n = q.n /\ AllStudents(app[q.page])[k].lop = q.q.lop
  BY DEF PageIsSound
<1>2. q.page \in DOMAIN app /\ q.page \in DOMAIN app'
  BY DEF PageIsSound, AppGrows
<1>3. /\ Readable(app[q.page]) /\ Readable(app'[q.page]) /\ app'[q.page].base = app[q.page].base
      /\ Longer(app[q.page].docs.enrol, app'[q.page].docs.enrol)
  BY <1>2 DEF AppGrows
<1> DEFINE a == app[q.page]
           c == app'[q.page]
<1>4. k \in DOMAIN AllStudents(c) /\ AllStudents(c)[k].n = q.n /\ AllStudents(c)[k].lop = q.q.lop
  <2>1. Readable(a) /\ Readable(c) /\ c.base = a.base /\ Longer(a.docs.enrol, c.docs.enrol) /\ k \in DOMAIN AllStudents(a)
    BY <1>1, <1>3
  <2>2. AllStudents(a)[k].n = q.n /\ AllStudents(a)[k].lop = q.q.lop
    BY <1>1
  <2> HIDE DEF a, c
  <2>3. QED
    BY <2>1, <2>2, PagesStay
<1>5. QED
  BY <1>2, <1>4 DEF PageIsSound

LEMMA OthersStay ==
    ASSUME ShapeInv, GdGrows, Len(gd') \in Nat, AppGrows,
           NEW p \in Requests, req'[p] = req[p]
    PROVE  RequestIsSound(p)'
<1> DEFINE q == req[p]
<1>1. RequestIsSound(p)
  BY DEF ShapeInv, ReqInv
<1>2. Len(gd) \in Nat /\ Len(gd) <= Len(gd')
  BY ListIs DEF ShapeInv, GdInv, GdIsSound, GdGrows
<1>3. q.pc \in {"pageLoad", "load"} => BaseIsSound(q.got)'
  BY <1>1, <1>2, BaseStays DEF RequestIsSound
<1>4. q.pc \in {"state", "load", "check"} /\ q.q.op = "attend" => PageIsSound(q)'
  <2>1. \A a \in DOMAIN app : Readable(app[a])
    BY DEF ShapeInv, AppInv, ObjectIsSound
  <2>2. QED
    BY <1>1, <2>1, PageStays DEF RequestIsSound
<1>5. \A c : Step(p, c)' <=> Step(p, c)
  BY DEF Step
<1>6. RefIsSound(p)'
  <2>1. RefIsSound(p)
    BY <1>1 DEF RequestIsSound
  <2>2. Holding(p)' <=> Holding(p)
    BY <1>5 DEF Holding
  <2>3. QED
    BY <1>5, <2>1, <2>2 DEF RefIsSound, GdGrows, Holding
<1>7. req[p].app \in DOMAIN app => req[p].app \in DOMAIN app'
  BY DEF AppGrows
<1>8. QED
  BY <1>1, <1>3, <1>4, <1>6, <1>7 DEF RequestIsSound

\* A request that is done with its calls, or at a later one; one for attendance that fails
\* is at its last.
GoesOn(r) ==
    \/ req' = [req EXCEPT ![r] = [Idle EXCEPT !.pc = "done"]]
    \/ /\ req[r].q.op = "attend"
       /\ req' = [req EXCEPT ![r].at = @ + (Len(Calls.attend) - req[r].at), ![r].ref = None]
    \/ \E n \in 1..3 : \E ref :
         /\ ~(req[r].at + n > Len(Calls[req[r].q.op]))
         /\ n # 1 => Step(r, "find") \/ Step(r, "count")
         /\ req' = [req EXCEPT ![r].at = @ + n, ![r].ref = ref]

LEMMA DoneIsSound ==
    ASSUME NEW r \in Requests, req'[r] = [Idle EXCEPT !.pc = "done"]
    PROVE  RequestIsSound(r)'
<1>1. DOMAIN req'[r] = RequestFields /\ req'[r].pc = "done" /\ req'[r].at = 1
  BY DEF Idle, RequestFields
<1>2. \A c : ~Step(r, c)'
  BY <1>1 DEF Step
<1>3. QED
  BY <1>1, <1>2 DEF RequestIsSound, RefIsSound, Holding

LEMMA OneMoves ==
    ASSUME ShapeInv, GdGrows, Len(gd') \in Nat, AppGrows,
           NEW r \in Requests, req' = [req EXCEPT ![r] = req'[r]], RequestIsSound(r)'
    PROVE  ReqInv'
<1>1. req = [p \in Requests |-> req[p]]
  BY DEF ShapeInv, ReqInv
<1>2. req' = [p \in Requests |-> req'[p]] /\ \A p \in Requests : p # r => req'[p] = req[p]
  BY <1>1
<1>3. \A p \in Requests : p # r => RequestIsSound(p)'
  BY <1>2, OthersStay
<1>4. QED
  BY <1>2, <1>3 DEF ReqInv

\* After a call that neither makes an enrolment nor ties it.
Tying == {"create", "linkPupil", "linkClass"}

LEMMA CallMoves ==
    ASSUME ShapeInv, NEW r \in Requests, NEW c, Step(r, c), GoesOn(r)
    PROVE  /\ req' = [req EXCEPT ![r] = req'[r]]
           /\ \/ req'[r] = [Idle EXCEPT !.pc = "done"]
              \/ /\ req'[r].pc = "calls" /\ req'[r].q = req[r].q /\ req'[r].app = req[r].app
                 /\ req'[r].page = req[r].page /\ req'[r].id = req[r].id
                 /\ DOMAIN req'[r] = RequestFields
                 /\ req'[r].at \in CallsOf(req[r].q.op) /\ req'[r].at >= req[r].at
                 /\ req[r].q.op # "attend" =>
                       req'[r].at > req[r].at /\ (c \notin {"find", "count"} => req'[r].at = req[r].at + 1)
           /\ req[r].q \in AllWishes /\ req[r].q.op \in DOMAIN Calls /\ req[r].at \in CallsOf(req[r].q.op)
           /\ req[r].pc = "calls" /\ Calls[req[r].q.op][req[r].at] = c /\ DOMAIN req[r] = RequestFields
<1>1. req = [p \in Requests |-> req[p]] /\ RequestIsSound(r)
  BY DEF ShapeInv, ReqInv
<1>2. /\ req[r].q \in AllWishes /\ req[r].at \in CallsOf(req[r].q.op) /\ DOMAIN req[r] = RequestFields
      /\ req[r].pc = "calls" /\ Calls[req[r].q.op][req[r].at] = c
  BY <1>1 DEF RequestIsSound, Step, CallsOf
<1>3. req[r].q.op \in DOMAIN Calls
  BY <1>2, WishesAssumption DEF AllWishes
<1>4. CASE req' = [req EXCEPT ![r] = [Idle EXCEPT !.pc = "done"]]
  BY <1>1, <1>2, <1>3, <1>4
<1>5. ASSUME NEW n \in 1..3, NEW ref,
             ~(req[r].at + n > Len(Calls[req[r].q.op])), n # 1 => Step(r, "find") \/ Step(r, "count"),
             req' = [req EXCEPT ![r].at = @ + n, ![r].ref = ref]
      PROVE  /\ req' = [req EXCEPT ![r] = req'[r]]
             /\ req'[r].pc = "calls" /\ req'[r].q = req[r].q /\ req'[r].app = req[r].app
             /\ req'[r].page = req[r].page /\ req'[r].id = req[r].id
             /\ DOMAIN req'[r] = RequestFields
             /\ req'[r].at \in CallsOf(req[r].q.op) /\ req'[r].at > req[r].at /\ req'[r].at >= req[r].at
             /\ c \notin {"find", "count"} => req'[r].at = req[r].at + 1
  <2>1. req'[r] = [req[r] EXCEPT !.at = @ + n, !.ref = ref]
    BY <1>1, <1>5
  <2>2. Len(Calls[req[r].q.op]) \in Nat
    BY <1>3, CallsFollow
  <2>3. req'[r].at = req[r].at + n
    BY <1>2, <2>1 DEF RequestFields
  <2>4. c \notin {"find", "count"} => n = 1
    BY <1>2, <1>5 DEF Step
  <2>5. /\ req'[r].pc = "calls" /\ req'[r].q = req[r].q /\ req'[r].app = req[r].app
        /\ req'[r].page = req[r].page /\ req'[r].id = req[r].id /\ DOMAIN req'[r] = RequestFields
    BY <1>2, <2>1 DEF RequestFields
  <2>6. req' = [req EXCEPT ![r] = req'[r]]
    BY <1>1, <1>5
  <2>7. req'[r].at \in CallsOf(req[r].q.op) /\ req'[r].at > req[r].at /\ req'[r].at >= req[r].at
    BY <1>2, <1>5, <2>2, <2>3 DEF CallsOf
  <2>8. QED
    BY <2>3, <2>4, <2>5, <2>6, <2>7
<1>6. CASE \E n \in 1..3 : \E ref :
             /\ ~(req[r].at + n > Len(Calls[req[r].q.op]))
             /\ n # 1 => Step(r, "find") \/ Step(r, "count")
             /\ req' = [req EXCEPT ![r].at = @ + n, ![r].ref = ref]
  BY <1>2, <1>3, <1>5, <1>6
<1>7. CASE /\ req[r].q.op = "attend"
           /\ req' = [req EXCEPT ![r].at = @ + (Len(Calls.attend) - req[r].at), ![r].ref = None]
  <2> DEFINE n == Len(Calls.attend) - req[r].at
  <2>1. Len(Calls.attend) = Len(Calls[req[r].q.op]) /\ Len(Calls[req[r].q.op]) \in Nat \ {0}
    BY <1>3, <1>7, CallsFollow
  <2>2. req[r].at + n = Len(Calls.attend)
    BY <1>2, <2>1 DEF CallsOf
  <2> HIDE DEF n
  <2>3. req' = [req EXCEPT ![r].at = @ + n, ![r].ref = None]
    BY <1>7 DEF n
  <2>4. req'[r] = [req[r] EXCEPT !.at = @ + n, !.ref = None]
    BY <1>1, <2>3
  <2>5. req'[r].at = Len(Calls.attend)
    BY <1>2, <2>2, <2>4 DEF RequestFields
  <2>6. /\ req'[r].pc = "calls" /\ req'[r].q = req[r].q /\ req'[r].app = req[r].app
        /\ req'[r].page = req[r].page /\ req'[r].id = req[r].id /\ DOMAIN req'[r] = RequestFields
    BY <1>2, <2>4 DEF RequestFields
  <2>7. req' = [req EXCEPT ![r] = req'[r]]
    BY <1>1, <2>3
  <2>8. req'[r].at \in CallsOf(req[r].q.op) /\ req'[r].at >= req[r].at
    BY <1>2, <2>1, <2>5 DEF CallsOf
  <2>9. QED
    BY <1>2, <1>3, <1>7, <2>6, <2>7, <2>8
<1>8. QED
  BY <1>4, <1>6, <1>7 DEF GoesOn

LEMMA PlainCall ==
    ASSUME ShapeInv, GdGrows, Len(gd') \in Nat, AppGrows,
           NEW r \in Requests, NEW c, Step(r, c), c \notin Tying, GoesOn(r)
    PROVE  ReqInv'
<1> DEFINE op == req[r].q.op
           i  == req[r].at
           j  == req'[r].at
<1>1. RequestIsSound(r)
  BY DEF ShapeInv, ReqInv
<1>2. /\ req' = [req EXCEPT ![r] = req'[r]]
      /\ \/ req'[r] = [Idle EXCEPT !.pc = "done"]
         \/ /\ req'[r].pc = "calls" /\ req'[r].q = req[r].q /\ req'[r].app = req[r].app
            /\ req'[r].page = req[r].page /\ req'[r].id = req[r].id
            /\ DOMAIN req'[r] = RequestFields
            /\ j \in CallsOf(op) /\ j >= i
            /\ op # "attend" => j > i /\ (c \notin {"find", "count"} => j = i + 1)
      /\ req[r].q \in AllWishes /\ op \in DOMAIN Calls /\ i \in CallsOf(op)
      /\ req[r].pc = "calls" /\ Calls[op][i] = c
  BY CallMoves
<1>3. CASE req'[r] = [Idle EXCEPT !.pc = "done"]
  BY <1>2, <1>3, DoneIsSound, OneMoves
<1>4. CASE /\ req'[r].pc = "calls" /\ req'[r].q = req[r].q /\ req'[r].app = req[r].app
           /\ req'[r].page = req[r].page /\ req'[r].id = req[r].id
           /\ DOMAIN req'[r] = RequestFields
           /\ j \in CallsOf(op) /\ j >= i
           /\ op # "attend" => j > i /\ (c \notin {"find", "count"} => j = i + 1)
  <2>1. Calls[op][j] \notin {"linkPupil", "linkClass", "push"}
    <3>1. i \in Int /\ j \in Int /\ (j = i + 1 => i = j - 1)
      BY <1>2, <1>4 DEF CallsOf
    <3>2. CASE c \in {"find", "count"}
      BY <1>2, <1>4, <3>2, CallsFollow
    <3>3. CASE op = "attend"
      BY <1>2, <1>4, <3>3, CallsFollow DEF Enrolling
    <3>4. CASE c \notin {"find", "count"} /\ op # "attend"
      <4>1. i = j - 1 /\ i \in CallsOf(op) /\ j \in CallsOf(op) /\ op \in DOMAIN Calls
        BY <1>2, <1>4, <3>1, <3>4
      <4>2. Calls[op][j] = "linkPupil" => Calls[op][i] = "create"
        BY <4>1, CallsFollow
      <4>3. Calls[op][j] = "linkClass" => Calls[op][i] = "linkPupil"
        BY <4>1, CallsFollow
      <4>4. Calls[op][j] = "push" => Calls[op][i] = "linkClass"
        BY <4>1, CallsFollow
      <4>5. QED
        BY <1>2, <4>2, <4>3, <4>4 DEF Tying
    <3>5. QED
      BY <3>2, <3>3, <3>4
  <2>2. ~Holding(r)' /\ ~Step(r, "linkClass")'
    BY <1>4, <2>1 DEF Holding, Step
  <2>3. req[r].app \in DOMAIN app => req[r].app \in DOMAIN app'
    BY DEF AppGrows
  <2>4. RequestIsSound(r)'
    BY <1>1, <1>2, <1>4, <2>2, <2>3 DEF RequestIsSound, RefIsSound, CallsOf
  <2>5. QED
    BY <1>2, <2>4, OneMoves
<1>5. QED
  BY <1>2, <1>3, <1>4

\* What the rest of the step may do to the size of a class: nothing.
Calm(p) ==
    \/ req'[p] = req[p]
    \/ /\ ~Step(p, "push")
       /\ req'[p].pc = "calls" => req[p].pc = "calls" /\ req'[p].q = req[p].q /\ req'[p].at >= req[p].at

SeatsOfStay(l) == /\ Seats(gd', l) = Seats(gd, l)
                  /\ \A i \in Seats(gd, l) : gd[i].staff <=> gd'[i].staff
SeatsStay == \A l : SeatsOfStay(l)

StillIn(p, l) ==
    /\ p \in Entering(l)' => p \in Entering(l) /\ (Ahead(p, "linkClass")' => Ahead(p, "linkClass"))
    /\ Step(p, "push") => Step(p, "push")' /\ req'[p] = req[p]

NewestStays == NewestIsStored => Newest' = Newest /\ NewestIsStored'

Wiser == past.blind \subseteq past'.blind /\ DOMAIN past' = DOMAIN past

\* A call still to come was still to come before.
LEMMA AheadBefore ==
    ASSUME ReqInv, ReqInv', NEW p \in Requests, NEW c, Ahead(p, c)',
           req'[p].pc = "calls" => req[p].pc = "calls" /\ req'[p].q = req[p].q /\ req'[p].at >= req[p].at
    PROVE  Ahead(p, c) /\ req'[p].q = req[p].q
<1>1. req'[p].pc = "calls" /\ req[p].pc = "calls" /\ req'[p].q = req[p].q /\ req'[p].at >= req[p].at
  BY DEF Ahead
<1>2. PICK k \in req'[p].at..Len(Calls[req'[p].q.op]) : Calls[req'[p].q.op][k] = c
  BY DEF Ahead
<1>3. req[p].at \in CallsOf(req[p].q.op) /\ req'[p].at \in CallsOf(req[p].q.op)
  BY <1>1 DEF ReqInv, RequestIsSound, CallsOf
<1>4. req[p].q.op \in DOMAIN Calls
  BY <1>1, WishesAssumption DEF ReqInv, RequestIsSound, AllWishes
<1>5. Len(Calls[req[p].q.op]) \in Nat
  BY <1>4, CallsFollow
<1>6. k \in req[p].at..Len(Calls[req[p].q.op])
  BY <1>1, <1>2, <1>3, <1>5 DEF CallsOf
<1>7. QED
  BY <1>1, <1>2, <1>6 DEF Ahead

LEMMA CalmKeeps ==
    ASSUME ReqInv, ReqInv', NEW p \in Requests, Calm(p), NEW l
    PROVE  StillIn(p, l)
<1>1. CASE req'[p] = req[p]
  BY <1>1 DEF Entering, Ahead, Step, StillIn
<1>2. CASE /\ ~Step(p, "push")
           /\ req'[p].pc = "calls" => req[p].pc = "calls" /\ req'[p].q = req[p].q /\ req'[p].at >= req[p].at
  <2>1. \A c : Ahead(p, c)' => Ahead(p, c) /\ req'[p].q = req[p].q
    BY <1>2, AheadBefore
  <2>2. QED
    BY <1>2, <2>1 DEF Entering, StillIn
<1>3. QED
  BY <1>1, <1>2 DEF Calm

LEMMA SizeOfStays ==
    ASSUME SizeInv, NEW l \in DOMAIN Size \ past.blind, \A p \in Requests : StillIn(p, l), SeatsOfStay(l), NewestStays
    PROVE  NewestIsStored' /\ SeatsAreSeen(l)' /\ (Size[l] # 0 => SeatsAreLeft(l)')
<1>1. NewestIsStored /\ SeatsAreSeen(l) /\ (Size[l] # 0 => SeatsAreLeft(l)) /\ NewestIsStored' /\ Newest' = Newest
  BY DEF SizeInv, NewestStays
<1>2. Seats(gd', l) = Seats(gd, l) /\ \A i \in Seats(gd, l) : gd[i].staff <=> gd'[i].staff
  BY DEF SeatsOfStay
<1>3. SeatsAreSeen(l)'
  <2> SUFFICES ASSUME NEW i \in Seats(gd, l)
               PROVE  \/ i \in 1..StartBase \/ gd'[i].staff \/ ShownIn(Newest', i, l)
                      \/ \E r \in Requests : Step(r, "push")' /\ req'[r].q.lop = l /\ req'[r].ref = i
    BY <1>2 DEF SeatsAreSeen
  <2>1. \/ i \in 1..StartBase \/ gd[i].staff \/ ShownIn(Newest, i, l)
        \/ \E r \in Requests : Step(r, "push") /\ req[r].q.lop = l /\ req[r].ref = i
    BY <1>1 DEF SeatsAreSeen
  <2>2. ASSUME NEW r \in Requests, Step(r, "push"), req[r].q.lop = l, req[r].ref = i
        PROVE  Step(r, "push")' /\ req'[r].q.lop = l /\ req'[r].ref = i
    BY <2>2 DEF StillIn
  <2>3. QED
    BY <1>1, <1>2, <2>1, <2>2
<1>4. ASSUME Size[l] # 0 PROVE SeatsAreLeft(l)'
  <2>1. \A r \in Entering(l)' : r \in Entering(l) /\ (Ahead(r, "linkClass")' => Ahead(r, "linkClass"))
    BY DEF Entering, StillIn
  <2>2. SeatsAreLeft(l)
    BY <1>1, <1>4
  <2>3. QED
    BY <1>2, <2>1, <2>2 DEF SeatsAreLeft
<1>5. QED
  BY <1>1, <1>3, <1>4

LEMMA SizeStays ==
    ASSUME ReqInv, ReqInv', SizeInv, \A p \in Requests : Calm(p), SeatsStay,
           past.blind \subseteq past'.blind, NewestStays,
           (app = <<>> => saving = <<>>)'
    PROVE  SizeInv'
<1> SUFFICES ASSUME NEW l \in DOMAIN Size \ past'.blind
             PROVE  NewestIsStored' /\ SeatsAreSeen(l)' /\ (Size[l] # 0 => SeatsAreLeft(l)')
  BY DEF SizeInv
<1>1. l \in DOMAIN Size \ past.blind /\ SeatsOfStay(l)
  BY DEF SeatsStay
<1>2. \A p \in Requests : StillIn(p, l)
  BY CalmKeeps
<1>3. QED
  BY <1>1, <1>2, SizeOfStays

\* A step after which no check is trusted needs nothing else.
LEMMA AllBlind ==
    ASSUME DOMAIN Size \subseteq past'.blind, (app = <<>> => saving = <<>>)'
    PROVE  SizeInv'
  BY DEF SizeInv

LEMMA FailsGoesOn ==
    ASSUME NEW r \in Requests, Fails(r)
    PROVE  GoesOn(r)
  BY DEF Fails, After, End, GoesOn

LEMMA AnswerGoesOn ==
    ASSUME NEW r \in Requests, NEW ref, Answer(r, ref), ShapeInv
    PROVE  GoesOn(r) /\ Wiser
<1>1. DOMAIN past = {"blind", "overlap"}
  BY DEF ShapeInv
<1>2. CASE After(r, 1, ref) /\ UNCHANGED <<troubles, past>>
  BY <1>2 DEF After, End, GoesOn, Wiser
<1>3. CASE Fails(r) /\ Blinded(IF "lop" \in DOMAIN req[r].q THEN {req[r].q.lop} ELSE {})
  BY <1>1, <1>3, FailsGoesOn DEF Wiser, Blinded
<1>4. QED
  BY <1>2, <1>3, Zenon DEF Answer

LEMMA GoingOnIsCalm ==
    ASSUME ShapeInv, NEW r \in Requests, NEW c, Step(r, c), c # "push", GoesOn(r), NEW p \in Requests
    PROVE  Calm(p)
<1>1. req = [q \in Requests |-> req[q]]
  BY DEF ShapeInv, ReqInv
<1>2. CASE p = r
  <2>1. ~Step(r, "push")
    BY DEF Step
  <2>2. req'[r] = [Idle EXCEPT !.pc = "done"] => req'[r].pc = "done"
    BY DEF Idle
  <2>3. req'[r].pc = "calls" => req[r].pc = "calls" /\ req'[r].q = req[r].q /\ req'[r].at >= req[r].at
    BY <2>2, CallMoves
  <2>4. QED
    BY <1>2, <2>1, <2>3 DEF Calm
<1>3. CASE p # r
  BY <1>1, <1>3, CallMoves DEF Calm
<1>4. QED
  BY <1>2, <1>3

LEMMA GdStays ==
    ASSUME GdInv, UNCHANGED <<gd, listed>>
    PROVE  GdInv' /\ GdGrows /\ Len(gd) \in Nat /\ Len(gd') \in Nat /\ SeatsStay
<1>1. Len(gd) \in Nat
  BY ListIs DEF GdInv, GdIsSound
<1>2. QED
  BY <1>1 DEF GdInv, GdIsSound, GdGrows, SeatsStay, SeatsOfStay

LEMMA AppStays ==
    ASSUME ShapeInv, UNCHANGED <<appVars, timer>>, Len(gd) <= Len(gd'), Len(gd) \in Nat, Len(gd') \in Nat
    PROVE  /\ AppInv' /\ AppGrows /\ NewestStays
           /\ (app = <<>> => saving = <<>>) => (app = <<>> => saving = <<>>)'
<1>1. UNCHANGED <<app, now, store, saving, timer>>
  BY DEF appVars
<1>2. \A a \in DOMAIN app : ObjectIsSound(app[a])'
  <2> SUFFICES ASSUME NEW a \in DOMAIN app PROVE ObjectIsSound(app[a])'
    OBVIOUS
  <2>1. ObjectIsSound(app[a])
    BY DEF ShapeInv, AppInv
  <2>2. BaseIsSound(app[a].base)'
    BY <2>1, <1>1, BaseStays DEF ObjectIsSound
  <2>3. QED
    BY <2>1, <2>2, <1>1 DEF ObjectIsSound
<1>3. ObjectIsSound(store)'
  <2>1. ObjectIsSound(store)
    BY DEF ShapeInv, AppInv
  <2>2. BaseIsSound(store.base)'
    BY <2>1, <1>1, BaseStays DEF ObjectIsSound
  <2>3. QED
    BY <2>1, <2>2, <1>1 DEF ObjectIsSound
<1>4. (timer.pc \in {"first", "second"} => BaseIsSound(timer.read))'
  BY <1>1, BaseStays DEF ShapeInv, AppInv
<1>5. AppInv'
  BY <1>1, <1>2, <1>3, <1>4 DEF ShapeInv, AppInv, SaveIsSound
<1>6. AppGrows
  BY <1>1 DEF AppGrows, Longer, ShapeInv, AppInv, ObjectIsSound
<1>7. QED
  BY <1>1, <1>5, <1>6 DEF Newest, NewestIsStored, NewestStays

LEMMA MarksStay ==
    ASSUME MarkInv, UNCHANGED mark
    PROVE  MarkInv'
  BY DEF MarkInv

farVars == <<wish, gd, listed, mark, appVars, timer>>

\* A request moves, and neither enrolments, records nor objects do.
LEMMA FarStep ==
    ASSUME ClassInv, UNCHANGED farVars, ReqInv', \A p \in Requests : Calm(p), Wiser
    PROVE  ClassInv'
<1>1. UNCHANGED <<gd, listed>> /\ UNCHANGED <<appVars, timer>> /\ UNCHANGED mark /\ UNCHANGED wish
  BY DEF farVars
<1>2. GdInv' /\ GdGrows /\ Len(gd) \in Nat /\ Len(gd') \in Nat /\ SeatsStay
  BY <1>1, GdStays DEF ClassInv, ShapeInv
<1>3. /\ AppInv' /\ AppGrows /\ NewestStays
      /\ (app = <<>> => saving = <<>>) => (app = <<>> => saving = <<>>)'
  BY <1>1, <1>2, AppStays DEF ClassInv, GdGrows
<1>4. MarkInv'
  BY <1>1, <1>2, MarksStay DEF ClassInv, GdGrows
<1>5. ShapeInv'
  BY <1>1, <1>2, <1>3 DEF ClassInv, ShapeInv, Wiser
<1>6. SizeInv'
  BY <1>2, <1>3, SizeStays DEF ClassInv, ShapeInv, SizeInv, Wiser
<1>7. QED
  BY <1>4, <1>5, <1>6 DEF ClassInv

LEMMA FarCall ==
    ASSUME ClassInv, UNCHANGED farVars, NEW r \in Requests, NEW c, Step(r, c), c \notin Tying \cup {"push"},
           GoesOn(r), Wiser
    PROVE  ClassInv'
<1>1. UNCHANGED <<gd, listed>> /\ UNCHANGED <<appVars, timer>> /\ ShapeInv
  BY DEF farVars, ClassInv
<1>2. GdGrows /\ Len(gd) \in Nat /\ Len(gd') \in Nat
  BY <1>1, GdStays DEF ShapeInv
<1>3. AppGrows
  BY <1>1, <1>2, AppStays DEF GdGrows
<1>4. ReqInv'
  BY <1>1, <1>2, <1>3, PlainCall
<1>5. \A p \in Requests : Calm(p)
  BY <1>1, GoingOnIsCalm
<1>6. QED
  BY <1>4, <1>5, FarStep

LEMMA AfterGoesOn ==
    ASSUME NEW r \in Requests, NEW n \in 1..3, NEW ref, After(r, n, ref),
           n # 1 => Step(r, "find") \/ Step(r, "count")
    PROVE  GoesOn(r)
  BY DEF After, End, GoesOn

LEMMA EndGoesOn ==
    ASSUME NEW r \in Requests, End(r)
    PROVE  GoesOn(r)
  BY DEF End, GoesOn

LEMMA SamePast ==
    ASSUME UNCHANGED past
    PROVE  Wiser
  BY DEF Wiser

LEMMA HocVienCalls ==
    ASSUME ClassInv, NEW r \in Requests, CreateNewcomer(r) \/ CreateHocVien(r) \/ LinkDeal(r)
    PROVE  ClassInv'
<1>0. ShapeInv
  BY DEF ClassInv
<1>1. CASE CreateNewcomer(r)
  <2>1. Step(r, "newStudent") /\ Answer(r, req[r].ref) /\ UNCHANGED farVars
    BY <1>1, Zenon DEF CreateNewcomer, farVars, recordVars
  <2>2. QED
    BY <2>1, <1>0, AnswerGoesOn, FarCall DEF Tying
<1>2. CASE CreateHocVien(r)
  <2>1. Step(r, "newPupil") /\ Answer(r, req[r].ref) /\ UNCHANGED farVars
    BY <1>2, Zenon DEF CreateHocVien, farVars, recordVars
  <2>2. QED
    BY <2>1, <1>0, AnswerGoesOn, FarCall DEF Tying
<1>3. CASE LinkDeal(r)
  <2>1. Step(r, "linkDeal") /\ After(r, 1, req[r].ref) /\ UNCHANGED farVars /\ UNCHANGED past
    BY <1>3, Zenon DEF LinkDeal, farVars, recordVars
  <2>2. GoesOn(r)
    BY <2>1, AfterGoesOn
  <2>3. QED
    BY <2>1, <2>2, SamePast, FarCall DEF Tying
<1>4. QED
  BY <1>1, <1>2, <1>3

LEMMA RoomCalls ==
    ASSUME ClassInv, NEW r \in Requests,
           SetLichHoc(r) \/ UnlinkTeacher(r) \/ LinkTeacher(r) \/ CreateLop(r)
    PROVE  ClassInv'
<1>0. ShapeInv
  BY DEF ClassInv
<1>1. CASE SetLichHoc(r)
  <2>1. /\ Step(r, "setHour") /\ UNCHANGED farVars
        /\ (End(r) /\ UNCHANGED past) \/ Answer(r, req[r].ref)
    BY <1>1, Zenon DEF SetLichHoc, farVars, recordVars
  <2>2. QED
    BY <2>1, <1>0, AnswerGoesOn, EndGoesOn, SamePast, FarCall DEF Tying
<1>2. CASE UnlinkTeacher(r)
  <2>1. /\ Step(r, "unlinkTeacher") /\ UNCHANGED farVars /\ UNCHANGED past
        /\ End(r) \/ After(r, 1, req[r].ref)
    BY <1>2, Zenon DEF UnlinkTeacher, farVars, recordVars
  <2>2. GoesOn(r)
    BY <2>1, AfterGoesOn, EndGoesOn
  <2>3. QED
    BY <2>1, <2>2, SamePast, FarCall DEF Tying
<1>3. CASE LinkTeacher(r)
  <2>1. Step(r, "linkTeacher") /\ Answer(r, req[r].ref) /\ UNCHANGED farVars
    BY <1>3, Zenon DEF LinkTeacher, farVars, recordVars
  <2>2. QED
    BY <2>1, <1>0, AnswerGoesOn, FarCall DEF Tying
<1>4. CASE CreateLop(r)
  <2>1. Step(r, "newClass") /\ Answer(r, req[r].ref) /\ UNCHANGED farVars
    BY <1>4, Zenon DEF CreateLop, farVars, recordVars
  <2>2. QED
    BY <2>1, <1>0, AnswerGoesOn, FarCall DEF Tying
<1>5. QED
  BY <1>1, <1>2, <1>3, <1>4

LEMMA LessonCalls ==
    ASSUME ClassInv, NEW r \in Requests,
           FindLesson(r) \/ CreateLesson(r) \/ LinkLesson(r) \/ ReadCount(r)
    PROVE  ClassInv'
<1>0. ShapeInv
  BY DEF ClassInv
<1>1. CASE FindLesson(r)
  <2>1. /\ Step(r, "find") /\ UNCHANGED farVars /\ UNCHANGED past
        /\ Fails(r) \/ After(r, 3, req[r].ref) \/ After(r, 1, req[r].ref)
    BY <1>1, Zenon DEF FindLesson, farVars, recordVars
  <2>2. GoesOn(r)
    BY <2>1, AfterGoesOn, FailsGoesOn
  <2>3. QED
    BY <2>1, <2>2, SamePast, FarCall DEF Tying
<1>2. CASE CreateLesson(r)
  <2>1. Step(r, "newLesson") /\ Answer(r, Len(lesson) + 1) /\ UNCHANGED farVars
    BY <1>2, Zenon DEF CreateLesson, farVars, recordVars
  <2>2. QED
    BY <2>1, <1>0, AnswerGoesOn, FarCall DEF Tying
<1>3. CASE LinkLesson(r)
  <2>1. Step(r, "linkLesson") /\ Answer(r, req[r].ref) /\ UNCHANGED farVars
    BY <1>3, Zenon DEF LinkLesson, farVars, recordVars
  <2>2. QED
    BY <2>1, <1>0, AnswerGoesOn, FarCall DEF Tying
<1>4. CASE ReadCount(r)
  <2>1. Step(r, "count") /\ After(r, 1, gd[req[r].id].done) /\ UNCHANGED farVars /\ UNCHANGED past
    BY <1>4, Zenon DEF ReadCount, farVars, recordVars
  <2>2. GoesOn(r)
    BY <2>1, AfterGoesOn
  <2>3. QED
    BY <2>1, <2>2, SamePast, FarCall DEF Tying
<1>5. QED
  BY <1>1, <1>2, <1>3, <1>4

LEMMA EndKeeps ==
    ASSUME ClassInv, UNCHANGED farVars, NEW r \in Requests, ~Step(r, "push"), End(r), Wiser
    PROVE  ClassInv'
<1>0. ShapeInv
  BY DEF ClassInv
<1>1. /\ req' = [req EXCEPT ![r] = req'[r]] /\ req'[r] = [Idle EXCEPT !.pc = "done"]
      /\ \A p \in Requests : p # r => req'[p] = req[p]
  BY <1>0 DEF End, ShapeInv, ReqInv
<1>2. UNCHANGED <<gd, listed>> /\ UNCHANGED <<appVars, timer>>
  BY DEF farVars
<1>3. GdGrows /\ Len(gd) \in Nat /\ Len(gd') \in Nat
  BY <1>0, <1>2, GdStays DEF ShapeInv
<1>4. AppGrows
  BY <1>0, <1>2, <1>3, AppStays DEF GdGrows
<1>5. ReqInv'
  BY <1>0, <1>1, <1>3, <1>4, DoneIsSound, OneMoves
<1>6. req'[r].pc # "calls"
  BY <1>1 DEF Idle
<1>7. \A p \in Requests : Calm(p)
  BY <1>1, <1>6 DEF Calm
<1>8. QED
  BY <1>5, <1>7, FarStep

LEMMA RefusedKeeps ==
    ASSUME ClassInv, NEW r \in Requests, Refused(r)
    PROVE  ClassInv'
<1>1. /\ req[r].pc = "calls" /\ ~\E c \in AppSide : Step(r, c)
      /\ \/ Step(r, "count") /\ After(r, 2, req[r].ref)
         \/ (Step(r, "unlinkTeacher") \/ Step(r, "bump")) /\ After(r, 1, req[r].ref)
         \/ Fails(r)
      /\ UNCHANGED farVars /\ UNCHANGED past
  BY Zenon DEF Refused, farVars, recordVars
<1>2. CASE Step(r, "count") /\ After(r, 2, req[r].ref)
  BY <1>1, <1>2, AfterGoesOn, SamePast, FarCall DEF Tying
<1>3. CASE (Step(r, "unlinkTeacher") \/ Step(r, "bump")) /\ After(r, 1, req[r].ref)
  BY <1>1, <1>3, AfterGoesOn, SamePast, FarCall DEF Tying
<1>4. CASE End(r)
  <2>1. ~Step(r, "push")
    BY <1>1 DEF AppSide
  <2>2. QED
    BY <1>1, <1>4, <2>1, SamePast, EndKeeps
<1>5. CASE Fails(r) /\ req[r].q.op = "attend"
  <2>1. PICK c : c = Calls[req[r].q.op][req[r].at]
    OBVIOUS
  <2>2. Step(r, c) /\ GoesOn(r)
    BY <1>1, <1>5, <2>1, FailsGoesOn DEF Step
  <2>3. c \notin Tying \cup {"push"}
    <3>1. req[r].q.op \in DOMAIN Calls /\ req[r].at \in CallsOf(req[r].q.op)
      BY <2>2, CallMoves DEF ClassInv
    <3>2. QED
      BY <1>5, <2>1, <3>1, CallsFollow DEF Tying, Enrolling
  <2>4. QED
    BY <1>1, <2>2, <2>3, SamePast, FarCall
<1>6. QED
  BY <1>1, <1>2, <1>3, <1>4, <1>5 DEF Fails

------------------------------------------------------------------------------
\* Before its calls

\* What a request may know that makes no calls.
WaitsSound(j) ==
    /\ DOMAIN j = RequestFields /\ j.pc # "calls" /\ j.at = 1
    /\ j.pc \notin {"idle", "done"} => j.q \in AllWishes
    /\ j.pc \in {"roster", "check"} /\ j.q.op \notin Direct => j.app \in DOMAIN app
    /\ j.pc \in {"pageLoad", "load"} => BaseIsSound(j.got)
    /\ j.pc \in {"page", "pageLoad", "roster"} => j.q.op = "attend"
    /\ j.pc \in {"state", "load", "check"} /\ j.q.op = "attend" => PageIsSound(j)

LEMMA WaitStep ==
    ASSUME ClassInv, UNCHANGED <<gd, listed, mark, appVars, timer>>, wish' \subseteq wish,
           NEW r \in Requests, ~Step(r, "push"), req' = [req EXCEPT ![r] = req'[r]],
           WaitsSound(req'[r]), Wiser
    PROVE  ClassInv'
<1>1. /\ UNCHANGED <<gd, listed>> /\ UNCHANGED <<appVars, timer>> /\ UNCHANGED mark /\ UNCHANGED app
      /\ ShapeInv
  BY DEF ClassInv, appVars
<1>2. GdInv' /\ GdGrows /\ Len(gd) \in Nat /\ Len(gd') \in Nat /\ SeatsStay
  BY <1>1, GdStays DEF ClassInv, ShapeInv
<1>3. /\ AppInv' /\ AppGrows /\ NewestStays
      /\ (app = <<>> => saving = <<>>) => (app = <<>> => saving = <<>>)'
  BY <1>1, <1>2, AppStays DEF GdGrows
<1>4. RequestIsSound(r)'
  <2>1. \A c : ~Step(r, c)'
    BY DEF Step, WaitsSound
  <2>2. BaseIsSound(req'[r].got) => BaseIsSound(req[r].got)'
    BY <1>2, BaseStays DEF GdGrows
  <2>3. PageIsSound(req'[r]) => PageIsSound(req[r])'
    BY <1>1 DEF PageIsSound
  <2>4. QED
    BY <1>1, <2>1, <2>2, <2>3 DEF RequestIsSound, RefIsSound, Holding, WaitsSound
<1>5. ReqInv'
  BY <1>1, <1>2, <1>3, <1>4, OneMoves
<1>6. \A p \in Requests : Calm(p)
  <2>1. \A p \in Requests : p # r => req'[p] = req[p]
    BY <1>1 DEF ShapeInv, ReqInv
  <2>2. Calm(r)
    BY DEF Calm, WaitsSound
  <2>3. QED
    BY <2>1, <2>2 DEF Calm
<1>7. MarkInv'
  BY <1>1, <1>2, MarksStay DEF ClassInv, GdGrows
<1>8. ShapeInv'
  BY <1>1, <1>2, <1>3, <1>5 DEF ShapeInv, Wiser
<1>9. SizeInv'
  BY <1>1, <1>2, <1>3, <1>5, <1>6, SizeStays DEF ClassInv, ShapeInv, SizeInv, Wiser
<1>10. QED
  BY <1>7, <1>8, <1>9 DEF ClassInv

LEMMA AskKeeps ==
    ASSUME ClassInv, NEW r \in Requests, Ask(r)
    PROVE  ClassInv'
<1>1. PICK q \in wish :
         /\ wish' = wish \ {q}
         /\ req' = [req EXCEPT ![r] = [Idle EXCEPT !.q = q,
                       !.pc = IF q.op \in Direct THEN "check" ELSE IF q.op = "attend" THEN "page" ELSE "state"]]
  BY Zenon DEF Ask
<1>2. /\ UNCHANGED <<gd, listed, mark, appVars, timer>> /\ req[r].pc = "idle"
      /\ past' = [past EXCEPT !.overlap = @ \/ \E p \in Requests : req[p].pc \notin {"idle", "done"}]
  BY DEF Ask, recordVars
<1>3. q \in AllWishes /\ req = [p \in Requests |-> req[p]] /\ wish' \subseteq wish
  BY <1>1 DEF ClassInv, ShapeInv, ReqInv
<1>4. req' = [req EXCEPT ![r] = req'[r]]
  BY <1>1, <1>3
<1>5. /\ DOMAIN req'[r] = RequestFields /\ req'[r].q = q /\ req'[r].at = 1
      /\ req'[r].pc = IF q.op \in Direct THEN "check" ELSE IF q.op = "attend" THEN "page" ELSE "state"
  BY <1>1, <1>3 DEF Idle, RequestFields
<1>6. WaitsSound(req'[r])
  BY <1>3, <1>5 DEF WaitsSound, Direct
<1>7. ~Step(r, "push")
  BY <1>2 DEF Step
<1>8. Wiser
  BY <1>2 DEF Wiser, ClassInv, ShapeInv
<1>9. QED
  BY <1>2, <1>3, <1>4, <1>6, <1>7, <1>8, WaitStep

LEMMA GetAppStateKeeps ==
    ASSUME ClassInv, NEW r \in Requests, GetAppState(r)
    PROVE  ClassInv'
<1> DEFINE j == req[r]
           k == [j EXCEPT !.pc = IF @ = "page" THEN "roster" ELSE "check", !.app = now]
<1>1. /\ j.pc \in {"page", "state"} /\ now # 0
      /\ req' = [req EXCEPT ![r].pc = IF @ = "page" THEN "roster" ELSE "check", ![r].app = now]
      /\ UNCHANGED <<gd, listed, mark, appVars, timer>> /\ UNCHANGED past /\ UNCHANGED wish
  BY DEF GetAppState, recordVars
<1>2. req = [p \in Requests |-> req[p]] /\ RequestIsSound(r) /\ now \in DOMAIN app
  BY <1>1, ListIs DEF ClassInv, ShapeInv, ReqInv, AppInv
<1>3. req'[r] = k /\ req' = [req EXCEPT ![r] = req'[r]]
  BY <1>1, <1>2
<1>4. DOMAIN j = RequestFields
  BY <1>2 DEF RequestIsSound
<1>5. /\ DOMAIN k = RequestFields /\ k.pc = (IF j.pc = "page" THEN "roster" ELSE "check") /\ k.app = now
      /\ k.q = j.q /\ k.page = j.page /\ k.n = j.n /\ k.id = j.id /\ k.at = j.at
  BY <1>4 DEF RequestFields
<1> HIDE DEF k
<1>6. PageIsSound(j) => PageIsSound(k)
  BY <1>5 DEF PageIsSound
<1>7. WaitsSound(k)
  BY <1>1, <1>2, <1>5, <1>6 DEF WaitsSound, RequestIsSound
<1>8. ~Step(r, "push")
  BY <1>1 DEF Step
<1>9. QED
  BY <1>1, <1>3, <1>7, <1>8, SamePast, WaitStep

LEMMA LoadSnapshotKeeps ==
    ASSUME ClassInv, NEW r \in Requests, LoadSnapshot(r)
    PROVE  ClassInv'
<1> DEFINE j == req[r]
           k == [j EXCEPT !.pc = IF @ = "page" THEN "pageLoad" ELSE "load", !.got = store.base]
<1>1. /\ j.pc \in {"page", "state"}
      /\ req' = [req EXCEPT ![r].pc = IF @ = "page" THEN "pageLoad" ELSE "load", ![r].got = store.base]
      /\ UNCHANGED <<gd, listed, mark, appVars, timer>> /\ UNCHANGED past /\ UNCHANGED wish
  BY DEF LoadSnapshot, recordVars
<1>2. req = [p \in Requests |-> req[p]] /\ RequestIsSound(r) /\ BaseIsSound(store.base)
  BY DEF ClassInv, ShapeInv, ReqInv, AppInv, ObjectIsSound
<1>3. req'[r] = k /\ req' = [req EXCEPT ![r] = req'[r]]
  BY <1>1, <1>2
<1>4. DOMAIN j = RequestFields
  BY <1>2 DEF RequestIsSound
<1>5. /\ DOMAIN k = RequestFields /\ k.pc = (IF j.pc = "page" THEN "pageLoad" ELSE "load") /\ k.got = store.base
      /\ k.q = j.q /\ k.page = j.page /\ k.n = j.n /\ k.id = j.id /\ k.at = j.at
  BY <1>4 DEF RequestFields
<1> HIDE DEF k
<1>6. PageIsSound(j) => PageIsSound(k)
  BY <1>5 DEF PageIsSound
<1>7. WaitsSound(k)
  BY <1>1, <1>2, <1>5, <1>6 DEF WaitsSound, RequestIsSound
<1>8. ~Step(r, "push")
  BY <1>1 DEF Step
<1>9. QED
  BY <1>1, <1>3, <1>7, <1>8, SamePast, WaitStep

LEMMA OpenRosterKeeps ==
    ASSUME ClassInv, NEW r \in Requests, OpenRoster(r)
    PROVE  ClassInv'
<1> DEFINE j == req[r]
           a == app[j.app]
           rows == Roster(a, j.q.lop)
<1>1. /\ j.pc = "roster"
      /\ \/ End(r)
         \/ \E i \in rows :
              req' = [req EXCEPT ![r].pc = "state", ![r].page = j.app, ![r].n = AllStudents(a)[i].n]
      /\ UNCHANGED <<gd, listed, mark, appVars, timer>> /\ UNCHANGED past /\ UNCHANGED wish
  BY DEF OpenRoster, recordVars
<1>2. req = [p \in Requests |-> req[p]] /\ RequestIsSound(r)
  BY DEF ClassInv, ShapeInv, ReqInv
<1>3. DOMAIN j = RequestFields /\ j.q.op = "attend" /\ j.q \in AllWishes /\ j.app \in DOMAIN app /\ j.at = 1
  BY <1>1, <1>2 DEF RequestIsSound, Direct
<1>4. ~Step(r, "push")
  BY <1>1 DEF Step
<1>5. CASE End(r)
  <2>1. req'[r] = [Idle EXCEPT !.pc = "done"] /\ req' = [req EXCEPT ![r] = req'[r]]
    BY <1>2, <1>5 DEF End
  <2>2. WaitsSound(req'[r])
    BY <2>1 DEF WaitsSound, Idle, RequestFields
  <2>3. QED
    BY <1>1, <1>4, <2>1, <2>2, SamePast, WaitStep
<1>6. ASSUME NEW i \in rows,
             req' = [req EXCEPT ![r].pc = "state", ![r].page = j.app, ![r].n = AllStudents(a)[i].n]
      PROVE  ClassInv'
  <2> DEFINE k == [j EXCEPT !.pc = "state", !.page = j.app, !.n = AllStudents(a)[i].n]
  <2>1. req'[r] = k /\ req' = [req EXCEPT ![r] = req'[r]]
    BY <1>2, <1>6
  <2>2. /\ DOMAIN k = RequestFields /\ k.pc = "state" /\ k.q = j.q /\ k.page = j.app /\ k.at = 1
        /\ k.n = AllStudents(a)[i].n
    BY <1>3 DEF RequestFields
  <2>3. i \in DOMAIN AllStudents(app[j.app]) /\ AllStudents(app[j.app])[i].lop = j.q.lop
    BY <1>6 DEF Roster
  <2> HIDE DEF k
  <2>4. PageIsSound(k)
    BY <1>3, <2>2, <2>3 DEF PageIsSound
  <2>5. WaitsSound(k)
    BY <1>3, <2>2, <2>4 DEF WaitsSound
  <2>6. QED
    BY <1>1, <1>4, <2>1, <2>5, SamePast, WaitStep
<1>7. QED
  BY <1>1, <1>5, <1>6

LEMMA LoadOverlaysKeeps ==
    ASSUME ClassInv, NEW r \in Requests, LoadOverlays(r)
    PROVE  ClassInv'
<1> DEFINE j == req[r]
           o == [base |-> j.got, docs |-> store.docs]
           k == [j EXCEPT !.pc = IF @ = "pageLoad" THEN "roster" ELSE "check", !.app = Len(app) + 1, !.got = None]
<1>1. /\ j.pc \in {"pageLoad", "load"}
      /\ app' = Append(app, o) /\ now' = Len(app) + 1
      /\ req' = [req EXCEPT ![r].pc = IF @ = "pageLoad" THEN "roster" ELSE "check",
                            ![r].app = Len(app) + 1, ![r].got = None]
      /\ UNCHANGED <<gd, listed>> /\ UNCHANGED mark /\ UNCHANGED <<wish, store, saving, timer>>
  BY DEF LoadOverlays, recordVars
<1>2. PICK missed \in BOOLEAN, late \in BOOLEAN :
        /\ missed \/ \A i \in DOMAIN saving : saving[i].doc # "enrol"
        /\ past' = [past EXCEPT !.blind = @ \cup (IF missed THEN DOMAIN Size ELSE {}), !.overlap = @ \/ late]
  <2> DEFINE missed == now # 0 \/ \E i \in DOMAIN saving : saving[i].doc = "enrol"
             late   == saving # <<>>
  <2>1. past' = [past EXCEPT !.blind = @ \cup (IF missed THEN DOMAIN Size ELSE {}), !.overlap = @ \/ late]
    BY DEF LoadOverlays
  <2>2. missed \in BOOLEAN /\ late \in BOOLEAN /\ (missed \/ \A i \in DOMAIN saving : saving[i].doc # "enrol")
    OBVIOUS
  <2> HIDE DEF missed, late
  <2>3. QED
    BY <2>1, <2>2
<1>3. req = [p \in Requests |-> req[p]] /\ RequestIsSound(r) /\ ShapeInv /\ AppInv
  BY DEF ClassInv, ShapeInv, ReqInv
<1>4. IsSequence(app) /\ ObjectIsSound(store) /\ BaseIsSound(j.got) /\ DOMAIN j = RequestFields /\ j.at = 1
  BY <1>1, <1>3 DEF AppInv, RequestIsSound
<1>5. ObjectIsSound(o)
  BY <1>4 DEF ObjectIsSound, Readable, BaseIsSound
<1> HIDE DEF o
<1>6. /\ IsSequence(app') /\ Len(app') = Len(app) + 1 /\ Len(app) \in Nat
      /\ app'[Len(app) + 1] = o /\ Len(app) + 1 \in DOMAIN app'
      /\ \A a \in DOMAIN app : a \in DOMAIN app' /\ app'[a] = app[a]
      /\ \A a \in DOMAIN app' : a \in DOMAIN app \/ a = Len(app) + 1
  <2>1. IsSequence(app') /\ Len(app') = Len(app) + 1 /\ Len(app) \in Nat
    BY <1>1, <1>4, ListGrows, ListIs
  <2>2. Len(app) + 1 \in DOMAIN app'
    BY <2>1, ListIs
  <2>3. QED
    BY <1>1, <1>4, <2>1, <2>2, ListGrows
<1>7. \A a \in DOMAIN app' : ObjectIsSound(app'[a])
  BY <1>3, <1>5, <1>6 DEF AppInv
<1>8. GdInv' /\ GdGrows /\ Len(gd) \in Nat /\ Len(gd') \in Nat /\ SeatsStay
  BY <1>1, <1>3, GdStays DEF ShapeInv
<1>9. AppGrows
  BY <1>6, <1>7 DEF AppGrows, Longer, ObjectIsSound
<1>10. AppInv'
  <2>1. (\A a \in DOMAIN app : ObjectIsSound(app[a]))'
    BY <1>7, <1>1 DEF ObjectIsSound, BaseIsSound
  <2>2. ObjectIsSound(store)' /\ (timer.pc \in {"first", "second"} => BaseIsSound(timer.read))'
    BY <1>1, <1>3 DEF ObjectIsSound, BaseIsSound, AppInv
  <2>3. now' \in 0..Len(app')
    BY <1>1, <1>6
  <2>4. QED
    BY <1>1, <1>3, <1>6, <2>1, <2>2, <2>3 DEF AppInv, SaveIsSound
<1>11. req'[r] = k /\ req' = [req EXCEPT ![r] = req'[r]] /\ \A p \in Requests : p # r => req'[p] = req[p]
  BY <1>1, <1>3
<1>12. /\ DOMAIN k = RequestFields /\ k.pc = (IF j.pc = "pageLoad" THEN "roster" ELSE "check")
       /\ k.app = Len(app) + 1 /\ k.q = j.q /\ k.page = j.page /\ k.n = j.n /\ k.id = j.id /\ k.at = 1
  BY <1>4 DEF RequestFields
<1> HIDE DEF k
<1>13. RequestIsSound(r)'
  <2>1. \A q : PageIsSound(q) => PageIsSound(q)'
    <3>1. \A a \in DOMAIN app : Readable(app[a])
      BY <1>3 DEF AppInv, ObjectIsSound
    <3>2. QED
      BY <1>9, <3>1, PageStays
  <2>2. PageIsSound(j) => PageIsSound(req[r])'
    <3>1. PICK q : q = k
      OBVIOUS
    <3>2. PageIsSound(j) => PageIsSound(q)
      BY <3>1, <1>12 DEF PageIsSound
    <3>3. PageIsSound(q)' => PageIsSound(req[r])'
      BY <3>1, <1>11 DEF PageIsSound
    <3>4. QED
      BY <2>1, <3>2, <3>3
  <2>3. \A c : ~Step(r, c)'
    BY <1>11, <1>12 DEF Step
  <2>4. req'[r].app \in DOMAIN app'
    BY <1>6, <1>11, <1>12
  <2>5. QED
    BY <1>1, <1>3, <1>11, <1>12, <2>2, <2>3, <2>4 DEF RequestIsSound, RefIsSound, Holding
<1>14. ReqInv'
  BY <1>3, <1>8, <1>9, <1>11, <1>13, OneMoves
<1>15. \A p \in Requests : Calm(p)
  <2>1. ~Step(r, "push") /\ req'[r].pc # "calls"
    BY <1>1, <1>11, <1>12 DEF Step
  <2>2. QED
    BY <1>11, <2>1 DEF Calm
<1>16. Wiser
  BY <1>2, <1>3 DEF Wiser, ShapeInv
<1>17. (app = <<>> => saving = <<>>)'
  <2>1. app' # <<>>
    BY <1>6
  <2>2. QED
    BY <2>1
<1>18. SizeInv'
  <2>1. CASE missed
    <3>1. DOMAIN Size \subseteq past'.blind
      BY <1>2, <1>3, <2>1 DEF ShapeInv
    <3>2. QED
      BY <3>1, <1>17, AllBlind
  <2>2. CASE \A i \in DOMAIN saving : saving[i].doc # "enrol"
    <3>1. NewestIsStored => store.docs.enrol = Newest
      BY <2>2 DEF NewestIsStored
    <3>2. Newest' = store.docs.enrol
      <4>1. app' # <<>> /\ Newest' = app'[Len(app')].docs.enrol
        BY <1>6 DEF Newest
      <4>2. app'[Len(app')] = o
        BY <1>6
      <4>3. QED
        BY <4>1, <4>2 DEF o
    <3>3. NewestStays
      BY <3>1, <3>2, <2>2, <1>1 DEF NewestStays, NewestIsStored
    <3>4. ReqInv /\ SizeInv
      BY DEF ClassInv, ShapeInv
    <3>5. QED
      BY <1>8, <1>14, <1>15, <1>16, <1>17, <3>3, <3>4, SizeStays DEF Wiser
  <2>3. QED
    BY <1>2, <2>1, <2>2
<1>19. MarkInv'
  BY <1>1, <1>8, MarksStay DEF ClassInv, GdGrows
<1>20. ShapeInv'
  BY <1>1, <1>3, <1>8, <1>10, <1>14, <1>16 DEF ShapeInv, Wiser
<1>21. QED
  BY <1>18, <1>19, <1>20 DEF ClassInv

\* The number a page sent is that of one row, of the class of the page.
LEMMA NumberIsTheirs ==
    ASSUME ShapeInv, Few, NEW j, PageIsSound(j), j.q.op = "attend", j.page = j.app, NEW r \in Requests, req[r] = j
    PROVE  \E k \in DOMAIN AllStudents(app[j.app]) :
             /\ About(j.q, app[j.app], r) = AllStudents(app[j.app])[k].gd
             /\ AllStudents(app[j.app])[k].lop = j.q.lop
<1> DEFINE s == AllStudents(app[j.app])
           mine == {i \in DOMAIN s : s[i].n = j.n}
<1>1. j.app \in DOMAIN app /\ ObjectIsSound(app[j.app])
  BY DEF ShapeInv, AppInv, PageIsSound
<1>2. PICK k \in DOMAIN s : s[k].n = j.n /\ s[k].lop = j.q.lop
  BY DEF PageIsSound
<1>3. Readable(app[j.app]) /\ Len(app[j.app].base.rows) < 1000
  <2>1. Len(app[j.app].base.rows) <= Len(gd) /\ Len(gd) < 1000 /\ Len(gd) \in Nat
    BY <1>1, ListIs DEF ObjectIsSound, BaseIsSound, Few, ShapeInv, GdInv, GdIsSound
  <2>2. Len(app[j.app].base.rows) \in Nat
    BY <1>1, ListIs DEF ObjectIsSound, Readable, RowsAreSound
  <2>3. QED
    BY <1>1, <2>1, <2>2 DEF ObjectIsSound
<1>4. \A i \in mine : i = k
  BY <1>2, <1>3, NumbersAreApart
<1>5. k \in Int
  <2>1. StudentsShow(app[j.app])
    BY <1>3, StudentsAre
  <2>2. /\ DOMAIN s = 1..(Len(app[j.app].base.rows) + Len(app[j.app].docs.enrol))
        /\ Len(app[j.app].base.rows) \in Nat /\ Len(app[j.app].docs.enrol) \in Nat
    BY <2>1, Zenon DEF StudentsShow
  <2>3. k \in 1..(Len(app[j.app].base.rows) + Len(app[j.app].docs.enrol))
    BY <2>2, Zenon
  <2>4. QED
    BY <2>2, <2>3
<1>6. mine = {k}
  BY <1>2, <1>4
<1>7. Min(mine) = k
  BY <1>5, <1>6 DEF Min
<1>8. About(j.q, app[j.app], r) = s[Min(mine)].gd
  BY DEF About, Student
<1>9. QED
  BY <1>2, <1>7, <1>8

\* A check that saw every student leaves a place for the one it lets in.
LEMMA CheckSeesAll ==
    ASSUME ClassInv, NEW r \in Requests, req[r].pc = "check", req[r].q.op \in Enrolling,
           NEW l \in DOMAIN Size \ past.blind, req[r].q.lop = l, Size[l] # 0,
           May(req[r].q, app[req[r].app], r), ~Overlooks(r, req[r].q, app[req[r].app])
    PROVE  Entering(l) = {} /\ Cardinality(Seats(gd, l)) < Size[l] /\ Cardinality(Seats(gd, l)) \in Nat
<1> DEFINE q == req[r].q
           a == app[Len(app)]
<1>1. /\ Entering(l) = {} /\ req[r].app = Len(app)
      /\ \A i \in DOMAIN gd : gd[i].staff /\ gd[i].lop = l => \E k \in Roster(a, l) : AllStudents(a)[k].gd = i
  BY DEF Overlooks
<1>2. RequestIsSound(r) /\ GdInv /\ AppInv /\ SeatsAreSeen(l)
  BY DEF ClassInv, ShapeInv, ReqInv, SizeInv
<1>3. Len(app) \in DOMAIN app
  BY <1>1, <1>2 DEF RequestIsSound, Enrolling, Direct
<1>4. ObjectIsSound(a)
  BY <1>2, <1>3 DEF AppInv
<1>5. Newest = a.docs.enrol
  <2>1. app # <<>>
    BY <1>3
  <2>2. QED
    BY <2>1 DEF Newest
<1>6. ~IsFull(a, l)
  BY <1>1, Zenon DEF May, Enrolling
<1>7. \A i \in Seats(gd, l) : \E k \in Roster(a, l) : AllStudents(a)[k].gd = i
  <2> SUFFICES ASSUME NEW i \in Seats(gd, l) PROVE \E k \in Roster(a, l) : AllStudents(a)[k].gd = i
    OBVIOUS
  <2>1. i \in DOMAIN gd /\ gd[i].lop = l /\ Linked(gd[i])
    BY DEF Seats
  <2>2. \/ i \in 1..StartBase \/ gd[i].staff \/ ShownIn(Newest, i, l)
        \/ \E p \in Requests : Step(p, "push") /\ req[p].q.lop = l /\ req[p].ref = i
    BY <1>2 DEF SeatsAreSeen
  <2>3. CASE i \in 1..StartBase
    <3>1. i \in DOMAIN StartGd
      <4>1. IsSequence(StartGd) /\ StartBase \in 0..Len(StartGd)
        BY StartAssumption DEF IsSequence
      <4>2. QED
        BY <2>3, <4>1, ListIs
    <3>2. StartGd[i].lop = l /\ Linked(StartGd[i])
      BY <2>1, <3>1, <1>2 DEF GdInv, GdIsSound
    <3>3. ShownIn(a.base.rows, i, l)
      BY <2>3, <3>2, <1>4 DEF ObjectIsSound, BaseIsSound
    <3>4. QED
      BY <3>3, <1>4, ShownOnRoster DEF ObjectIsSound
  <2>4. CASE gd[i].staff
    BY <2>1, <2>4, <1>1
  <2>5. CASE ShownIn(Newest, i, l)
    BY <2>5, <1>4, <1>5, ShownOnRoster DEF ObjectIsSound
  <2>6. CASE \E p \in Requests : Step(p, "push") /\ req[p].q.lop = l /\ req[p].ref = i
    <3>1. PICK p \in Requests : Step(p, "push") /\ req[p].q.lop = l
      BY <2>6
    <3>2. RequestIsSound(p) /\ req[p].q.op \in DOMAIN Calls
      BY <3>1, WishesAssumption DEF ClassInv, ShapeInv, ReqInv, RequestIsSound, Step, AllWishes
    <3>3. req[p].at \in req[p].at..Len(Calls[req[p].q.op])
      BY <3>1, <3>2, CallsFollow DEF RequestIsSound, Step
    <3>4. Ahead(p, "push")
      BY <3>1, <3>3 DEF Ahead, Step
    <3>5. QED
      BY <1>1, <3>1, <3>4 DEF Entering
  <2>7. QED
    BY <2>2, <2>3, <2>4, <2>5, <2>6
<1>8. /\ IsFiniteSet(Seats(gd, l)) /\ Cardinality(Seats(gd, l)) \in Nat /\ Cardinality(Roster(a, l)) \in Nat
      /\ Cardinality(Seats(gd, l)) <= Cardinality(Roster(a, l))
  BY <1>4, <1>7, SeatsFitRoster DEF ObjectIsSound
<1>9. Size[l] \in Nat
  BY SizeAssumption
<1>10. Cardinality(Roster(a, l)) < Size[l]
  BY <1>6, <1>8, <1>9 DEF IsFull
<1>11. QED
  BY <1>1, <1>8, <1>9, <1>10

LEMMA CheckKeeps ==
    ASSUME ClassInv, NEW r \in Requests, Check(r)
    PROVE  ClassInv'
<1> DEFINE j == req[r]
           q == req[r].q
           op == req[r].q.op
           a == IF op \in Direct THEN None ELSE app[req[r].app]
<1>1. j.pc = "check" /\ UNCHANGED <<gd, listed, mark, appVars, timer>> /\ UNCHANGED wish
  BY DEF Check, recordVars
<1>2. \/ End(r) /\ UNCHANGED past
      \/ /\ op = "attend" /\ UNCHANGED past
         /\ req' = [req EXCEPT ![r].pc = "calls", ![r].at = Len(Calls.attend), ![r].ref = None,
                               ![r].got = a.docs.marks]
      \/ /\ May(q, a, r)
         /\ req' = [req EXCEPT ![r].pc = "calls", ![r].id = About(q, a, r),
                               ![r].got = IF op = "attend" THEN a.docs.marks ELSE None]
         /\ IF op \in Enrolling /\ Overlooks(r, q, a) THEN Blinded({q.lop}) ELSE UNCHANGED past
  BY Zenon DEF Check, Dismiss
<1>3. req = [p \in Requests |-> req[p]] /\ RequestIsSound(r) /\ ShapeInv
  BY DEF ClassInv, ShapeInv, ReqInv
<1>4. /\ DOMAIN j = RequestFields /\ q \in AllWishes /\ j.at = 1 /\ op \in DOMAIN Calls
      /\ op \notin Direct => j.app \in DOMAIN app
      /\ op = "attend" => PageIsSound(j)
  BY <1>1, <1>3, WishesAssumption DEF RequestIsSound, AllWishes
<1>5. ~Step(r, "push")
  BY <1>1 DEF Step
<1>6. CASE End(r) /\ UNCHANGED past
  <2>1. req'[r] = [Idle EXCEPT !.pc = "done"] /\ req' = [req EXCEPT ![r] = req'[r]]
    BY <1>3, <1>6 DEF End
  <2>2. WaitsSound(req'[r])
    BY <2>1 DEF WaitsSound, Idle, RequestFields
  <2>3. QED
    BY <1>1, <1>5, <1>6, <2>1, <2>2, SamePast, WaitStep
<1>7. ASSUME NEW k, req' = [req EXCEPT ![r] = k], DOMAIN k = RequestFields, k.pc = "calls", k.q = q, k.app = j.app,
             k.at \in CallsOf(op), Calls[op][k.at] \notin {"linkPupil", "linkClass", "push"}, Wiser,
             op \in Enrolling => q.lop \in past'.blind \/ (May(q, a, r) /\ ~Overlooks(r, q, a))
      PROVE  ClassInv'
  <2>1. req'[r] = k /\ req' = [req EXCEPT ![r] = req'[r]] /\ \A p \in Requests : p # r => req'[p] = req[p]
    BY <1>3, <1>7
  <2>2. /\ UNCHANGED <<gd, listed>> /\ UNCHANGED <<appVars, timer>> /\ UNCHANGED mark /\ UNCHANGED app
        /\ UNCHANGED saving
    BY <1>1 DEF appVars
  <2>3. GdInv' /\ GdGrows /\ Len(gd) \in Nat /\ Len(gd') \in Nat /\ SeatsStay
    BY <1>3, <2>2, GdStays DEF ShapeInv
  <2>4. AppInv' /\ AppGrows /\ NewestStays
    BY <1>3, <2>2, <2>3, AppStays DEF GdGrows
  <2>5. RequestIsSound(r)'
    <3>1. ~Holding(r)' /\ ~Step(r, "linkClass")'
      BY <1>7, <2>1 DEF Holding, Step
    <3>2. QED
      BY <1>4, <1>7, <2>1, <2>2, <3>1 DEF RequestIsSound, RefIsSound, CallsOf
  <2>6. ReqInv'
    BY <1>3, <2>1, <2>3, <2>4, <2>5, OneMoves
  <2>7. MarkInv'
    BY <2>2, <2>3, MarksStay DEF ClassInv, GdGrows
  <2>8. ShapeInv'
    BY <1>1, <1>3, <1>7, <2>3, <2>4, <2>6 DEF ShapeInv, Wiser
  <2>9. SizeInv'
    <3> SUFFICES ASSUME NEW l \in DOMAIN Size \ past'.blind
                 PROVE  NewestIsStored' /\ SeatsAreSeen(l)' /\ (Size[l] # 0 => SeatsAreLeft(l)')
      BY <2>2 DEF ClassInv, SizeInv
    <3>1. l \in DOMAIN Size \ past.blind /\ SizeInv
      BY <1>7 DEF Wiser, ClassInv
    <3>2. \A p \in Requests : p # r => StillIn(p, l)
      BY <2>1 DEF StillIn, Entering, Ahead, Step
    <3>3. SeatsOfStay(l)
      BY <2>3 DEF SeatsStay
    <3>4. CASE ~(op \in Enrolling /\ q.lop = l)
      <4>1. r \notin Entering(l)'
        <5> SUFFICES ASSUME Ahead(r, "push")', q.lop = l PROVE op \in Enrolling
          BY <1>7, <2>1, <3>4 DEF Entering
        <5>1. PICK i \in k.at..Len(Calls[op]) : Calls[op][i] = "push"
          BY <1>7, <2>1 DEF Ahead
        <5>2. i \in CallsOf(op)
          BY <1>4, <1>7, CallsFollow DEF CallsOf
        <5>3. QED
          BY <1>4, <5>1, <5>2, CallsFollow
      <4>2. StillIn(r, l)
        BY <1>5, <4>1 DEF StillIn
      <4>3. QED
        BY <3>1, <3>2, <3>3, <4>2, <2>4, SizeOfStays
    <3>5. CASE op \in Enrolling /\ q.lop = l
      <4>1. a = app[j.app]
        BY <3>5 DEF Enrolling, Direct
      <4>2. May(q, a, r) /\ ~Overlooks(r, q, a)
        BY <1>7, <3>5
      <4>3. ASSUME Size[l] # 0
            PROVE  Entering(l) = {} /\ Cardinality(Seats(gd, l)) < Size[l] /\ Cardinality(Seats(gd, l)) \in Nat
        <5>1. May(q, app[j.app], r) /\ ~Overlooks(r, q, app[j.app])
          BY <4>1, <4>2
        <5> HIDE DEF a
        <5>2. QED
          BY <1>1, <3>1, <3>5, <4>3, <5>1, CheckSeesAll
      <4>4. NewestIsStored /\ SeatsAreSeen(l) /\ NewestIsStored' /\ Newest' = Newest
        BY <3>1, <2>4 DEF SizeInv, NewestStays
      <4>5. SeatsAreSeen(l)'
        <5> SUFFICES ASSUME NEW i \in Seats(gd, l)
                     PROVE  \/ i \in 1..StartBase \/ gd[i].staff \/ ShownIn(Newest, i, l)
                            \/ \E p \in Requests : Step(p, "push")' /\ req'[p].q.lop = l /\ req'[p].ref = i
          BY <2>2, <4>4 DEF SeatsAreSeen, Seats
        <5>1. \/ i \in 1..StartBase \/ gd[i].staff \/ ShownIn(Newest, i, l)
              \/ \E p \in Requests : Step(p, "push") /\ req[p].q.lop = l /\ req[p].ref = i
          BY <4>4 DEF SeatsAreSeen
        <5>2. ASSUME NEW p \in Requests, Step(p, "push"), req[p].q.lop = l, req[p].ref = i
              PROVE  Step(p, "push")' /\ req'[p].q.lop = l /\ req'[p].ref = i
          BY <5>2, <2>1, <1>5 DEF Step
        <5>3. QED
          BY <5>1, <5>2
      <4>6. ASSUME Size[l] # 0 PROVE SeatsAreLeft(l)'
        <5>1. \A p \in Entering(l)' : p = r
          BY <4>3, <4>6, <3>2 DEF StillIn, Entering
        <5>2. Size[l] \in Nat
          BY SizeAssumption
        <5>3. Seats(gd', l) = Seats(gd, l)
          BY <3>3 DEF SeatsOfStay
        <5>4. Cardinality(Seats(gd', l)) <= Size[l] /\ Cardinality(Seats(gd', l)) < Size[l]
          BY <4>3, <4>6, <5>2, <5>3
        <5>5. QED
          BY <5>1, <5>4 DEF SeatsAreLeft
      <4>7. QED
        BY <4>4, <4>5, <4>6
    <3>6. QED
      BY <3>4, <3>5
  <2>10. QED
    BY <2>7, <2>8, <2>9 DEF ClassInv
<1>8. CASE /\ op = "attend" /\ UNCHANGED past
           /\ req' = [req EXCEPT ![r].pc = "calls", ![r].at = Len(Calls.attend), ![r].ref = None,
                                 ![r].got = a.docs.marks]
  <2> DEFINE k == [j EXCEPT !.pc = "calls", !.at = Len(Calls.attend), !.ref = None, !.got = a.docs.marks]
  <2>1. req' = [req EXCEPT ![r] = k]
    BY <1>3, <1>8
  <2>2. /\ DOMAIN k = RequestFields /\ k.pc = "calls" /\ k.q = q /\ k.app = j.app /\ k.at = Len(Calls[op])
    BY <1>4, <1>8 DEF RequestFields
  <2> HIDE DEF k
  <2>3. k.at \in CallsOf(op)
    BY <1>4, <2>2, CallsFollow DEF CallsOf
  <2>4. Calls[op][k.at] \notin {"linkPupil", "linkClass", "push"} /\ op \notin Enrolling
    BY <1>4, <1>8, <2>3, CallsFollow DEF Enrolling
  <2>5. QED
    BY <1>7, <1>8, <2>1, <2>2, <2>3, <2>4, SamePast
<1>9. CASE /\ May(q, a, r)
           /\ req' = [req EXCEPT ![r].pc = "calls", ![r].id = About(q, a, r),
                                 ![r].got = IF op = "attend" THEN a.docs.marks ELSE None]
           /\ IF op \in Enrolling /\ Overlooks(r, q, a) THEN Blinded({q.lop}) ELSE UNCHANGED past
  <2> DEFINE k == [j EXCEPT !.pc = "calls", !.id = About(q, a, r),
                            !.got = IF op = "attend" THEN a.docs.marks ELSE None]
  <2>1. req' = [req EXCEPT ![r] = k]
    BY <1>3, <1>9
  <2>2. DOMAIN k = RequestFields /\ k.pc = "calls" /\ k.q = q /\ k.app = j.app /\ k.at = 1
    BY <1>4 DEF RequestFields
  <2> HIDE DEF k
  <2>3. Calls[op][1] \notin {"linkPupil", "linkClass", "push"} /\ 1 \in CallsOf(op)
    BY <1>4, CallsFollow DEF CallsOf
  <2>4. Wiser /\ (op \in Enrolling /\ Overlooks(r, q, a) => q.lop \in past'.blind)
    <3>1. DOMAIN past = {"blind", "overlap"}
      BY <1>3 DEF ShapeInv
    <3>2. QED
      BY <1>9, <3>1 DEF Blinded, Wiser
  <2> HIDE DEF a
  <2>5. QED
    BY <1>7, <1>9, <2>1, <2>2, <2>3, <2>4
<1>10. QED
  BY <1>2, <1>6, <1>8, <1>9

------------------------------------------------------------------------------
\* Enrolments change

LEMMA GdChanges ==
    ASSUME GdInv, UNCHANGED listed, NEW i \in DOMAIN gd, gd' = [gd EXCEPT ![i] = gd'[i]],
           {"lop", "pupil", "class", "staff"} \subseteq DOMAIN gd'[i],
           gd'[i].lop = gd[i].lop, gd'[i].staff <=> gd[i].staff, gd[i].pupil => gd'[i].pupil,
           i \in DOMAIN StartGd => (Linked(gd'[i]) <=> Linked(gd[i])),
           i \notin DOMAIN StartGd /\ gd'[i].class => gd'[i].pupil
    PROVE  /\ GdInv' /\ GdGrows /\ Len(gd') = Len(gd) /\ Len(gd) \in Nat /\ DOMAIN gd' = DOMAIN gd
           /\ \A l : (Linked(gd'[i]) <=> Linked(gd[i])) \/ l # gd[i].lop => SeatsOfStay(l)
<1>1. IsSequence(gd) /\ Len(gd) \in Nat
  BY ListIs DEF GdInv, GdIsSound
<1>2. IsSequence(gd') /\ Len(gd') = Len(gd) /\ DOMAIN gd' = DOMAIN gd
  <2>1. PICK x : x = gd'[i]
    OBVIOUS
  <2>2. gd' = [gd EXCEPT ![i] = x]
    BY <2>1
  <2>3. /\ IsSequence([gd EXCEPT ![i] = x]) /\ Len([gd EXCEPT ![i] = x]) = Len(gd)
        /\ DOMAIN [gd EXCEPT ![i] = x] = DOMAIN gd
    BY <1>1, ListChanges
  <2>4. QED
    BY <2>2, <2>3
<1>3. \A k \in DOMAIN gd : k # i => gd'[k] = gd[k]
  OBVIOUS
<1>4. GdGrows
  BY <1>1, <1>2, <1>3 DEF GdGrows
<1>5. GdIsSound(gd)'
  BY <1>2, <1>3 DEF GdInv, GdIsSound
<1>6. GdIsSound(listed.gd)'
  BY <1>2 DEF GdInv, GdIsSound
<1>7. GdInv'
  BY <1>2, <1>3, <1>5, <1>6 DEF GdInv
<1>8. ASSUME NEW l, (Linked(gd'[i]) <=> Linked(gd[i])) \/ l # gd[i].lop PROVE SeatsOfStay(l)
  <2>1. \A k \in DOMAIN gd : k \in Seats(gd', l) <=> k \in Seats(gd, l)
    BY <1>2, <1>3, <1>8 DEF Seats
  <2>2. Seats(gd', l) = Seats(gd, l)
    BY <2>1, <1>2 DEF Seats
  <2>3. \A k \in Seats(gd, l) : gd[k].staff <=> gd'[k].staff
    BY <1>3 DEF Seats
  <2>4. QED
    BY <2>2, <2>3 DEF SeatsOfStay
<1>9. QED
  BY <1>1, <1>2, <1>4, <1>7, <1>8

LEMMA GdIsAppended ==
    ASSUME GdInv, UNCHANGED listed, NEW g, gd' = Append(gd, g),
           {"lop", "pupil", "class", "staff"} \subseteq DOMAIN g, ~g.class
    PROVE  /\ GdInv' /\ GdGrows /\ Len(gd') = Len(gd) + 1 /\ Len(gd) \in Nat /\ SeatsStay
           /\ Len(gd) + 1 \in DOMAIN gd' \ DOMAIN StartGd /\ gd'[Len(gd) + 1] = g
<1>1. IsSequence(gd) /\ Len(gd) \in Nat /\ DOMAIN gd = 1..Len(gd)
  BY ListIs DEF GdInv, GdIsSound
<1>2. /\ IsSequence(gd') /\ Len(gd') = Len(gd) + 1 /\ gd'[Len(gd) + 1] = g
      /\ \A k \in DOMAIN gd : k \in DOMAIN gd' /\ gd'[k] = gd[k]
      /\ \A k \in DOMAIN gd' : k \in DOMAIN gd \/ k = Len(gd) + 1
  BY <1>1, ListGrows
<1>3. DOMAIN gd' = 1..(Len(gd) + 1)
  BY <1>2, ListIs
<1>4. /\ Len(StartGd) \in Nat /\ DOMAIN StartGd = 1..Len(StartGd) /\ Len(StartGd) <= Len(gd)
      /\ IsSequence(listed.gd) /\ Len(listed.gd) \in Nat /\ Len(listed.gd) <= Len(gd)
  <2>1. StartGd \in Seq({StartGd[i] : i \in DOMAIN StartGd})
    BY StartAssumption
  <2>2. Len(StartGd) \in Nat /\ DOMAIN StartGd = 1..Len(StartGd)
    BY <2>1, LenProperties
  <2>3. Len(StartGd) <= Len(gd) /\ IsSequence(listed.gd) /\ Len(listed.gd) <= Len(gd)
    BY DEF GdInv, GdIsSound
  <2>4. Len(listed.gd) \in Nat
    BY <2>3, ListIs
  <2>5. QED
    BY <2>2, <2>3, <2>4
<1>5. Len(gd) + 1 \in DOMAIN gd' \ DOMAIN StartGd
  BY <1>1, <1>3, <1>4
<1>6. GdGrows
  BY <1>1, <1>2 DEF GdGrows
<1>7. GdIsSound(gd)'
  <2>1. \A k \in DOMAIN StartGd : k \in DOMAIN gd
    BY <1>1, <1>4
  <2>2. \A k \in DOMAIN StartGd : gd'[k].lop = StartGd[k].lop /\ (Linked(gd'[k]) <=> Linked(StartGd[k]))
    BY <1>2, <2>1 DEF GdInv, GdIsSound
  <2>3. \A k \in DOMAIN gd' : {"lop", "pupil", "class", "staff"} \subseteq DOMAIN gd'[k]
    BY <1>2 DEF GdInv, GdIsSound
  <2>4. Len(StartGd) <= Len(gd') /\ Len(gd') <= Len(gd')
    BY <1>1, <1>2, <1>4
  <2>5. QED
    BY <1>2, <2>2, <2>3, <2>4 DEF GdIsSound
<1>8. GdIsSound(listed.gd)'
  <2>1. Len(listed.gd) <= Len(gd')
    BY <1>1, <1>2, <1>4
  <2>2. QED
    BY <2>1 DEF GdInv, GdIsSound
<1>9. GdInv'
  BY <1>2, <1>7, <1>8 DEF GdInv
<1>10. SeatsStay
  <2> SUFFICES ASSUME NEW l PROVE SeatsOfStay(l)
    BY DEF SeatsStay
  <2>1. Seats(gd', l) = Seats(gd, l)
    <3>1. \A k \in DOMAIN gd : k \in Seats(gd', l) <=> k \in Seats(gd, l)
      BY <1>2 DEF Seats
    <3>2. Len(gd) + 1 \notin Seats(gd', l)
      BY <1>2 DEF Seats, Linked
    <3>3. QED
      BY <1>2, <3>1, <3>2 DEF Seats
  <2>2. \A k \in Seats(gd, l) : gd[k].staff <=> gd'[k].staff
    BY <1>2 DEF Seats
  <2>3. QED
    BY <2>1, <2>2 DEF SeatsOfStay
<1>11. QED
  BY <1>1, <1>2, <1>5, <1>6, <1>9, <1>10

LEMMA TiesToEnrol ==
    ASSUME ShapeInv, NEW r \in Requests, NEW c \in Tying, Step(r, c)
    PROVE  /\ req[r].q \in AllWishes /\ req[r].q.op \in Enrolling \cup {"staff"} /\ req[r].q.op # "attend"
<1>1. /\ req[r].q \in AllWishes /\ req[r].q.op \in DOMAIN Calls /\ req[r].at \in CallsOf(req[r].q.op)
      /\ Calls[req[r].q.op][req[r].at] = c
  BY WishesAssumption DEF ShapeInv, ReqInv, RequestIsSound, Step, AllWishes, CallsOf
<1>2. QED
  BY <1>1, CallsFollow DEF Tying, Enrolling

LEMMA AnswerRef ==
    ASSUME ShapeInv, NEW r \in Requests, NEW ref, Answer(r, ref) \/ After(r, 1, ref), req[r].q.op # "attend"
    PROVE  \/ req'[r] = [Idle EXCEPT !.pc = "done"]
           \/ req'[r].ref = ref /\ After(r, 1, ref) /\ (Answer(r, ref) => UNCHANGED past)
<1>1. req = [p \in Requests |-> req[p]] /\ DOMAIN req[r] = RequestFields
  BY DEF ShapeInv, ReqInv, RequestIsSound
<1>2. CASE End(r)
  BY <1>1, <1>2 DEF End
<1>3. ASSUME After(r, 1, ref), ~End(r) PROVE req'[r].ref = ref
  <2>1. req' = [req EXCEPT ![r].at = @ + 1, ![r].ref = ref]
    BY <1>3 DEF After
  <2>2. req'[r] = [req[r] EXCEPT !.at = @ + 1, !.ref = ref]
    BY <1>1, <2>1
  <2>3. QED
    BY <1>1, <2>2 DEF RequestFields
<1>4. Answer(r, ref) => End(r) \/ (After(r, 1, ref) /\ UNCHANGED past)
  <2>1. Answer(r, ref) => Fails(r) \/ (After(r, 1, ref) /\ UNCHANGED <<troubles, past>>)
    BY Zenon DEF Answer
  <2>2. Fails(r) => End(r)
    BY DEF Fails
  <2>3. QED
    BY <2>1, <2>2
<1>5. QED
  BY <1>2, <1>3, <1>4

\* After a call that makes an enrolment or ties it.
LEMMA TyingCall ==
    ASSUME ShapeInv, GdGrows, Len(gd') \in Nat, AppGrows,
           NEW r \in Requests, NEW c \in Tying, Step(r, c), GoesOn(r),
           \/ req'[r] = [Idle EXCEPT !.pc = "done"]
           \/ /\ req'[r].ref \in DOMAIN gd' \ DOMAIN StartGd
              /\ gd'[req'[r].ref].lop = req[r].q.lop
              /\ gd'[req'[r].ref].staff <=> req[r].q.op = "staff"
              /\ c = "linkPupil" => gd'[req'[r].ref].pupil
    PROVE  ReqInv'
<1> DEFINE op == req[r].q.op
           i  == req[r].at
           j  == req'[r].at
<1>1. RequestIsSound(r)
  BY DEF ShapeInv, ReqInv
<1>2. /\ req' = [req EXCEPT ![r] = req'[r]]
      /\ \/ req'[r] = [Idle EXCEPT !.pc = "done"]
         \/ /\ req'[r].pc = "calls" /\ req'[r].q = req[r].q /\ req'[r].app = req[r].app
            /\ req'[r].page = req[r].page /\ req'[r].id = req[r].id
            /\ DOMAIN req'[r] = RequestFields
            /\ j \in CallsOf(op) /\ j >= i
            /\ op # "attend" => j > i /\ (c \notin {"find", "count"} => j = i + 1)
      /\ req[r].q \in AllWishes /\ op \in DOMAIN Calls /\ i \in CallsOf(op)
      /\ req[r].pc = "calls" /\ Calls[op][i] = c
  BY CallMoves
<1>3. CASE req'[r] = [Idle EXCEPT !.pc = "done"]
  BY <1>2, <1>3, DoneIsSound, OneMoves
<1>4. CASE /\ req'[r].pc = "calls" /\ req'[r].q = req[r].q /\ req'[r].app = req[r].app
           /\ req'[r].page = req[r].page /\ req'[r].id = req[r].id
           /\ DOMAIN req'[r] = RequestFields
           /\ j \in CallsOf(op) /\ j >= i
           /\ op # "attend" => j > i /\ (c \notin {"find", "count"} => j = i + 1)
  <2>0. req'[r] # [Idle EXCEPT !.pc = "done"]
    BY <1>4 DEF Idle
  <2>1. i = j - 1
    <3>1. op # "attend"
      BY <1>2, CallsFollow DEF Tying, Enrolling
    <3>2. QED
      BY <1>2, <1>4, <3>1 DEF CallsOf, Tying
  <2>2. Calls[op][j] = "linkClass" => c = "linkPupil"
    BY <1>2, <1>4, <2>1, CallsFollow
  <2>3. req[r].app \in DOMAIN app => req[r].app \in DOMAIN app'
    BY DEF AppGrows
  <2>4. Step(r, "linkClass")' => c = "linkPupil"
    BY <1>4, <2>2 DEF Step
  <2>5. RefIsSound(r)'
    BY <1>4, <2>0, <2>4 DEF RefIsSound
  <2>6. RequestIsSound(r)'
    BY <1>1, <1>2, <1>4, <2>3, <2>5 DEF RequestIsSound, CallsOf
  <2>7. QED
    BY <1>2, <2>6, OneMoves
<1>5. QED
  BY <1>2, <1>3, <1>4

\* Enrolments and the requests move; the app's objects and the records stay.
LEMMA NearStep ==
    ASSUME ClassInv, UNCHANGED <<wish, appVars, timer>>, MarkInv', GdInv', GdGrows, Len(gd') \in Nat, ReqInv', Wiser,
           SizeInv'
    PROVE  ClassInv'
<1>1. UNCHANGED <<appVars, timer>> /\ UNCHANGED wish /\ ShapeInv
  BY DEF ClassInv
<1>2. Len(gd) <= Len(gd') /\ Len(gd) \in Nat
  BY ListIs, <1>1 DEF GdGrows, ShapeInv, GdInv, GdIsSound
<1>3. AppInv'
  BY <1>1, <1>2, AppStays
<1>4. QED
  BY <1>1, <1>3 DEF ClassInv, ShapeInv, Wiser

LEMMA CreateEnrolmentKeeps ==
    ASSUME ClassInv, NEW r \in Requests, CreateEnrolment(r)
    PROVE  ClassInv'
<1> DEFINE q == req[r].q
           g == [hv |-> q.hv, lop |-> q.lop, st |-> "dang_hoc", pupil |-> FALSE,
                 class |-> FALSE, done |-> 0, staff |-> q.op = "staff"]
<1>1. /\ Step(r, "create") /\ UNCHANGED <<wish, listed, mark, appVars, timer>>
      /\ \/ End(r) /\ UNCHANGED gd /\ UNCHANGED past
         \/ gd' = Append(gd, g) /\ Answer(r, Len(gd) + 1)
  BY DEF CreateEnrolment
<1>2. ~Step(r, "push") /\ ShapeInv
  BY <1>1 DEF Step, ClassInv
<1>3. CASE End(r) /\ UNCHANGED gd /\ UNCHANGED past
  <2>1. UNCHANGED farVars
    BY <1>1, <1>3 DEF farVars
  <2>2. QED
    BY <1>2, <1>3, <2>1, SamePast, EndKeeps
<1>4. CASE gd' = Append(gd, g) /\ Answer(r, Len(gd) + 1)
  <2>1. GoesOn(r) /\ Wiser
    BY <1>2, <1>4, AnswerGoesOn
  <2>2. /\ {"lop", "pupil", "class", "staff"} \subseteq DOMAIN g /\ ~g.class
        /\ g.lop = q.lop /\ (g.staff <=> q.op = "staff")
    OBVIOUS
  <2> HIDE DEF g
  <2>3. /\ GdInv' /\ GdGrows /\ Len(gd') = Len(gd) + 1 /\ Len(gd) \in Nat /\ SeatsStay
        /\ Len(gd) + 1 \in DOMAIN gd' \ DOMAIN StartGd /\ gd'[Len(gd) + 1] = g
    BY <1>1, <1>2, <1>4, <2>2, GdIsAppended DEF ShapeInv
  <2>4. Len(gd') \in Nat /\ Len(gd) <= Len(gd') /\ UNCHANGED <<appVars, timer>>
    BY <1>1, <2>3
  <2>5. AppGrows /\ NewestStays /\ ((app = <<>> => saving = <<>>) => (app = <<>> => saving = <<>>)')
    BY <1>2, <2>3, <2>4, AppStays
  <2>6. \/ req'[r] = [Idle EXCEPT !.pc = "done"]
        \/ req'[r].ref = Len(gd) + 1
    BY <1>1, <1>2, <1>4, TiesToEnrol, AnswerRef DEF Tying
  <2>7. ReqInv'
    BY <1>1, <1>2, <2>1, <2>2, <2>3, <2>4, <2>5, <2>6, TyingCall DEF Tying
  <2>8. \A p \in Requests : Calm(p)
    BY <1>1, <1>2, <2>1, GoingOnIsCalm
  <2>9. SizeInv'
    BY <1>2, <2>1, <2>3, <2>5, <2>7, <2>8, SizeStays DEF ShapeInv, SizeInv, ClassInv, Wiser
  <2>10. MarkInv'
    BY <1>1, <2>3, <2>4, MarksStay DEF ClassInv
  <2>11. UNCHANGED <<wish, appVars, timer>>
    BY <1>1
  <2>12. QED
    BY <2>1, <2>3, <2>4, <2>7, <2>9, <2>10, <2>11, NearStep
<1>5. QED
  BY <1>1, <1>3, <1>4

\* What a request tied to its student or class: an enrolment that it made.
LEMMA HeldEnrolment ==
    ASSUME ClassInv, NEW r \in Requests, Holding(r)
    PROVE  /\ req[r].ref \in DOMAIN gd /\ req[r].ref \notin DOMAIN StartGd
           /\ {"lop", "pupil", "class", "staff"} \subseteq DOMAIN gd[req[r].ref]
           /\ gd[req[r].ref].lop = req[r].q.lop
           /\ gd[req[r].ref].staff <=> req[r].q.op = "staff"
           /\ gd[req[r].ref].class => gd[req[r].ref].pupil
           /\ Step(r, "linkClass") => gd[req[r].ref].pupil
<1>1. RefIsSound(r)
  BY DEF ClassInv, ShapeInv, ReqInv, RequestIsSound
<1>2. QED
  BY <1>1 DEF RefIsSound, ClassInv, ShapeInv, GdInv, GdIsSound

LEMMA LinkPupilKeeps ==
    ASSUME ClassInv, NEW r \in Requests, LinkPupil(r)
    PROVE  ClassInv'
<1> DEFINE i == req[r].ref
<1>1. /\ Step(r, "linkPupil") /\ UNCHANGED <<wish, listed, mark, appVars, timer>>
      /\ gd' = [gd EXCEPT ![i].pupil = TRUE] /\ Answer(r, i)
  BY DEF LinkPupil
<1>2. ShapeInv /\ Holding(r)
  BY <1>1 DEF Holding, ClassInv
<1>3. /\ i \in DOMAIN gd /\ i \notin DOMAIN StartGd
      /\ {"lop", "pupil", "class", "staff"} \subseteq DOMAIN gd[i]
      /\ gd[i].lop = req[r].q.lop /\ (gd[i].staff <=> req[r].q.op = "staff") /\ (gd[i].class => gd[i].pupil)
  BY <1>2, HeldEnrolment
<1>4. /\ gd' = [gd EXCEPT ![i] = gd'[i]] /\ {"lop", "pupil", "class", "staff"} \subseteq DOMAIN gd'[i]
      /\ gd'[i].lop = gd[i].lop /\ gd'[i].staff = gd[i].staff /\ gd'[i].pupil = TRUE /\ gd'[i].class = gd[i].class
  BY <1>1, <1>3
<1>5. /\ GdInv' /\ GdGrows /\ Len(gd') = Len(gd) /\ Len(gd) \in Nat /\ DOMAIN gd' = DOMAIN gd
      /\ \A l : (Linked(gd'[i]) <=> Linked(gd[i])) \/ l # gd[i].lop => SeatsOfStay(l)
  BY <1>1, <1>2, <1>3, <1>4, GdChanges DEF ShapeInv
<1>6. SeatsStay
  BY <1>3, <1>4, <1>5 DEF SeatsStay, Linked
<1>7. GoesOn(r) /\ Wiser
  BY <1>1, <1>2, AnswerGoesOn
<1>8. Len(gd') \in Nat /\ Len(gd) <= Len(gd') /\ UNCHANGED <<appVars, timer>>
  BY <1>1, <1>5
<1>9. AppGrows /\ NewestStays /\ ((app = <<>> => saving = <<>>) => (app = <<>> => saving = <<>>)')
  BY <1>2, <1>5, <1>8, AppStays
<1>10. req'[r] = [Idle EXCEPT !.pc = "done"] \/ req'[r].ref = i
  BY <1>1, <1>2, TiesToEnrol, AnswerRef DEF Tying
<1>11. ReqInv'
  BY <1>1, <1>2, <1>3, <1>4, <1>5, <1>7, <1>8, <1>9, <1>10, TyingCall DEF Tying
<1>12. \A p \in Requests : Calm(p)
  BY <1>1, <1>2, <1>7, GoingOnIsCalm
<1>13. SizeInv'
  BY <1>2, <1>6, <1>7, <1>9, <1>11, <1>12, SizeStays DEF ShapeInv, SizeInv, ClassInv, Wiser
<1>14. MarkInv'
  BY <1>1, <1>5, <1>8, MarksStay DEF ClassInv
<1>15. UNCHANGED <<wish, appVars, timer>>
  BY <1>1
<1>16. QED
  BY <1>5, <1>7, <1>8, <1>11, <1>13, <1>14, <1>15, NearStep

\* The app's own enrolment is in its class: only the overlay's row is still to come.
LEMMA PushComesNext ==
    ASSUME ShapeInv, NEW r \in Requests, Step(r, "linkClass"), req[r].q.op # "staff", After(r, 1, req[r].ref)
    PROVE  /\ Ahead(r, "push") /\ Ahead(r, "linkClass") /\ ~Ahead(r, "linkClass")'
           /\ Step(r, "push")' /\ req'[r].q = req[r].q /\ req'[r].ref = req[r].ref
<1> DEFINE op == req[r].q.op
           i  == req[r].at
<1>1. GoesOn(r)
  BY AfterGoesOn
<1>2. /\ op \in DOMAIN Calls /\ i \in CallsOf(op) /\ req[r].pc = "calls" /\ Calls[op][i] = "linkClass"
      /\ DOMAIN req[r] = RequestFields
  BY <1>1, CallMoves
<1>3. /\ Len(Calls[op]) \in Nat /\ i + 1 \in CallsOf(op) /\ Calls[op][i + 1] = "push"
      /\ \A j \in CallsOf(op) : Calls[op][j] = "linkClass" => j = i
  BY <1>2, CallsFollow
<1>4. req' = [req EXCEPT ![r].at = @ + 1, ![r].ref = req[r].ref]
  BY <1>2, <1>3 DEF After, CallsOf
<1>5. req = [p \in Requests |-> req[p]]
  BY DEF ShapeInv, ReqInv
<1>6. /\ req'[r].at = i + 1 /\ req'[r].ref = req[r].ref /\ req'[r].q = req[r].q /\ req'[r].pc = "calls"
  <2>1. req'[r] = [req[r] EXCEPT !.at = @ + 1, !.ref = req[r].ref]
    BY <1>4, <1>5
  <2>2. QED
    BY <2>1, <1>2 DEF RequestFields
<1>7. Ahead(r, "push") /\ Ahead(r, "linkClass")
  <2>1. i \in i..Len(Calls[op]) /\ i + 1 \in i..Len(Calls[op])
    BY <1>2, <1>3 DEF CallsOf
  <2>2. QED
    BY <1>2, <1>3, <2>1 DEF Ahead
<1>8. Step(r, "push")'
  BY <1>3, <1>6 DEF Step
<1>9. ~Ahead(r, "linkClass")'
  <2>1. \A k \in (i + 1)..Len(Calls[op]) : k \in CallsOf(op) /\ k # i
    BY <1>2, <1>3 DEF CallsOf
  <2>2. QED
    BY <1>3, <1>6, <2>1 DEF Ahead
<1>10. QED
  BY <1>6, <1>7, <1>8, <1>9

\* One seat more, in a class whose check can be trusted.
LEMMA SeatIsTaken ==
    ASSUME SizeInv, NEW l \in DOMAIN Size \ past.blind, NEW i,
           \A p \in Requests : StillIn(p, l), NewestStays,
           IsFiniteSet(Seats(gd, l)), Seats(gd', l) = Seats(gd, l) \cup {i},
           \A k \in Seats(gd, l) : k # i => (gd[k].staff <=> gd'[k].staff),
           \/ gd'[i].staff /\ ~Overfull(gd', l) /\ Entering(l) = {}
           \/ \E r \in Requests : /\ Ahead(r, "push") /\ req[r].q.lop = l /\ Ahead(r, "linkClass")
                                  /\ ~Ahead(r, "linkClass")' /\ Step(r, "push")'
                                  /\ req'[r].q.lop = l /\ req'[r].ref = i
    PROVE  NewestIsStored' /\ SeatsAreSeen(l)' /\ (Size[l] # 0 => SeatsAreLeft(l)')
<1>1. NewestIsStored /\ SeatsAreSeen(l) /\ (Size[l] # 0 => SeatsAreLeft(l)) /\ NewestIsStored' /\ Newest' = Newest
  BY DEF SizeInv, NewestStays
<1>2. SeatsAreSeen(l)'
  <2> SUFFICES ASSUME NEW k \in Seats(gd, l) \cup {i}
               PROVE  \/ k \in 1..StartBase \/ gd'[k].staff \/ ShownIn(Newest', k, l)
                      \/ \E r \in Requests : Step(r, "push")' /\ req'[r].q.lop = l /\ req'[r].ref = k
    BY DEF SeatsAreSeen
  <2>1. CASE k = i
    BY <2>1
  <2>2. CASE k \in Seats(gd, l) /\ k # i
    <3>1. \/ k \in 1..StartBase \/ gd[k].staff \/ ShownIn(Newest, k, l)
          \/ \E r \in Requests : Step(r, "push") /\ req[r].q.lop = l /\ req[r].ref = k
      BY <1>1, <2>2 DEF SeatsAreSeen
    <3>2. ASSUME NEW r \in Requests, Step(r, "push"), req[r].q.lop = l, req[r].ref = k
          PROVE  Step(r, "push")' /\ req'[r].q.lop = l /\ req'[r].ref = k
      BY <3>2 DEF StillIn
    <3>3. QED
      BY <1>1, <2>2, <3>1, <3>2
  <2>3. QED
    BY <2>1, <2>2
<1>3. ASSUME Size[l] # 0 PROVE SeatsAreLeft(l)'
  <2>1. \A r \in Entering(l)' : r \in Entering(l) /\ (Ahead(r, "linkClass")' => Ahead(r, "linkClass"))
    BY DEF Entering, StillIn
  <2>2. /\ \A r, s \in Entering(l) : r = s
        /\ \A r \in Entering(l) : Ahead(r, "linkClass") => Cardinality(Seats(gd, l)) < Size[l]
    BY <1>1, <1>3 DEF SeatsAreLeft
  <2>3. /\ Cardinality(Seats(gd, l)) \in Nat /\ Cardinality(Seats(gd', l)) \in Nat
        /\ Cardinality(Seats(gd', l)) <= Cardinality(Seats(gd, l)) + 1 /\ Size[l] \in Nat
    <3>1. /\ IsFiniteSet(Seats(gd, l) \cup {i})
          /\ Cardinality(Seats(gd, l) \cup {i}) = IF i \in Seats(gd, l) THEN Cardinality(Seats(gd, l))
                                                  ELSE Cardinality(Seats(gd, l)) + 1
      BY FS_AddElement
    <3>2. Cardinality(Seats(gd, l)) \in Nat
      BY FS_CardinalityType
    <3>3. QED
      BY <3>1, <3>2, SizeAssumption
  <2>4. CASE gd'[i].staff /\ ~Overfull(gd', l) /\ Entering(l) = {}
    <3>1. Cardinality(Seats(gd', l)) <= Size[l]
      BY <1>3, <2>3, <2>4 DEF Overfull
    <3>2. QED
      BY <2>1, <2>4, <3>1 DEF SeatsAreLeft
  <2>5. ASSUME NEW r \in Requests, Ahead(r, "push"), req[r].q.lop = l, Ahead(r, "linkClass"), ~Ahead(r, "linkClass")'
        PROVE  SeatsAreLeft(l)'
    <3>1. r \in Entering(l)
      BY <2>5 DEF Entering
    <3>2. Cardinality(Seats(gd', l)) <= Size[l]
      BY <2>2, <2>3, <2>5, <3>1
    <3>3. \A p \in Entering(l)' : p = r
      BY <2>1, <2>2, <3>1
    <3>4. QED
      BY <2>5, <3>2, <3>3 DEF SeatsAreLeft
  <2>6. QED
    BY <2>4, <2>5
<1>4. QED
  BY <1>1, <1>2, <1>3

LEMMA LinkClassKeeps ==
    ASSUME ClassInv, NEW r \in Requests, LinkClass(r)
    PROVE  ClassInv'
<1> DEFINE i  == req[r].ref
           l  == req[r].q.lop
           op == req[r].q.op
           noStaff == op = "staff" /\ (Overfull(gd', l) \/ Entering(l) # {})
<1>1. /\ Step(r, "linkClass") /\ UNCHANGED <<wish, listed, mark, appVars, timer>>
      /\ gd' = [gd EXCEPT ![i].class = TRUE]
      /\ \/ noStaff /\ After(r, 1, i) /\ Blinded({l})
         \/ ~noStaff /\ Answer(r, i)
  BY Zenon DEF LinkClass
<1> HIDE DEF noStaff
<1>2. ShapeInv /\ Holding(r)
  BY <1>1 DEF Holding, ClassInv
<1>3. /\ i \in DOMAIN gd /\ i \notin DOMAIN StartGd
      /\ {"lop", "pupil", "class", "staff"} \subseteq DOMAIN gd[i]
      /\ gd[i].lop = l /\ (gd[i].staff <=> op = "staff") /\ gd[i].pupil
  BY <1>1, <1>2, HeldEnrolment
<1>4. /\ gd' = [gd EXCEPT ![i] = gd'[i]] /\ {"lop", "pupil", "class", "staff"} \subseteq DOMAIN gd'[i]
      /\ gd'[i].lop = gd[i].lop /\ gd'[i].staff = gd[i].staff /\ gd'[i].pupil = gd[i].pupil /\ gd'[i].class = TRUE
  BY <1>1, <1>3
<1>5. /\ GdInv' /\ GdGrows /\ Len(gd') = Len(gd) /\ Len(gd) \in Nat /\ DOMAIN gd' = DOMAIN gd
      /\ \A k : (Linked(gd'[i]) <=> Linked(gd[i])) \/ k # gd[i].lop => SeatsOfStay(k)
  BY <1>1, <1>2, <1>3, <1>4, GdChanges DEF ShapeInv
<1>6. DOMAIN past = {"blind", "overlap"}
  BY <1>2 DEF ShapeInv
<1>7. Blinded({l}) => l \in past'.blind /\ Wiser
  BY <1>6 DEF Blinded, Wiser
<1>8. GoesOn(r) /\ Wiser
  <2>1. CASE After(r, 1, i) /\ Blinded({l})
    BY <2>1, <1>7, AfterGoesOn
  <2>2. CASE Answer(r, i)
    BY <2>2, <1>2, AnswerGoesOn
  <2>3. QED
    BY <1>1, <2>1, <2>2
<1>9. Len(gd') \in Nat /\ Len(gd) <= Len(gd') /\ UNCHANGED <<appVars, timer>>
  BY <1>1, <1>5
<1>10. AppGrows /\ NewestStays /\ ((app = <<>> => saving = <<>>) => (app = <<>> => saving = <<>>)')
  BY <1>2, <1>5, <1>9, AppStays
<1>11. req'[r] = [Idle EXCEPT !.pc = "done"] \/ req'[r].ref = i
  BY <1>1, <1>2, TiesToEnrol, AnswerRef DEF Tying
<1>12. ReqInv'
  <2>1. \/ req'[r] = [Idle EXCEPT !.pc = "done"]
        \/ /\ req'[r].ref \in DOMAIN gd' \ DOMAIN StartGd
           /\ gd'[req'[r].ref].lop = l
           /\ gd'[req'[r].ref].staff <=> op = "staff"
           /\ "linkClass" = "linkPupil" => gd'[req'[r].ref].pupil
    BY <1>3, <1>4, <1>5, <1>11
  <2>2. "linkClass" \in Tying
    BY DEF Tying
  <2>3. QED
    BY <1>1, <1>2, <1>5, <1>8, <1>9, <1>10, <2>1, <2>2, TyingCall
<1>13. \A p \in Requests : Calm(p)
  BY <1>1, <1>2, <1>8, GoingOnIsCalm
<1>14. \A p \in Requests : \A k : StillIn(p, k)
  BY <1>2, <1>12, <1>13, CalmKeeps DEF ShapeInv
<1>15. l \in past'.blind \/ (After(r, 1, i) /\ ~noStaff)
  <2>1. "lop" \in DOMAIN req[r].q
    <3>1. op \in Enrolling \cup {"staff"} /\ req[r].q \in AllWishes
      BY <1>1, <1>2, TiesToEnrol DEF Tying
    <3>2. QED
      BY <3>1, WishesAssumption DEF AllWishes, Enrolling
  <2>2. Answer(r, i) => After(r, 1, i) \/ Blinded({l})
    BY <2>1, Zenon DEF Answer
  <2>3. QED
    BY <1>1, <1>7, <2>2
<1>16. SizeInv'
  <2> SUFFICES ASSUME NEW k \in DOMAIN Size \ past'.blind
               PROVE  NewestIsStored' /\ SeatsAreSeen(k)' /\ (Size[k] # 0 => SeatsAreLeft(k)')
    BY <1>10 DEF SizeInv, ClassInv
  <2>1. k \in DOMAIN Size \ past.blind /\ SizeInv
    BY <1>8 DEF Wiser, ClassInv
  <2>2. CASE k # l
    BY <2>1, <2>2, <1>3, <1>5, <1>10, <1>14, SizeOfStays
  <2>3. CASE k = l
    <3>1. After(r, 1, i) /\ ~noStaff
      BY <1>15, <2>3
    <3>2. DOMAIN gd = 1..Len(gd)
      BY <1>2, ListIs DEF ShapeInv, GdInv, GdIsSound
    <3>3. IsFiniteSet(Seats(gd, l))
      <4>1. IsFiniteSet(1..Len(gd))
        <5>1. 1 \in Int /\ Len(gd) \in Int
          BY <1>5
        <5>2. QED
          BY <5>1, FS_Interval
      <4>2. Seats(gd, l) \in SUBSET (1..Len(gd))
        BY <3>2 DEF Seats
      <4>3. QED
        BY <4>1, <4>2, FS_Subset
    <3>4. \A p \in DOMAIN gd : p # i => gd'[p] = gd[p]
      BY <1>1
    <3>5. Seats(gd', l) = Seats(gd, l) \cup {i}
      BY <1>3, <1>4, <1>5, <3>4 DEF Seats, Linked
    <3>6. \A p \in Seats(gd, l) : p # i => (gd[p].staff <=> gd'[p].staff)
      BY <3>4 DEF Seats
    <3>7. CASE op = "staff"
      <4>1. gd'[i].staff /\ ~Overfull(gd', l) /\ Entering(l) = {}
        BY <1>3, <1>4, <3>1, <3>7 DEF noStaff
      <4>2. QED
        BY <2>1, <2>3, <1>10, <1>14, <3>3, <3>5, <3>6, <4>1, SeatIsTaken
    <3>8. CASE op # "staff"
      <4>1. /\ Ahead(r, "push") /\ Ahead(r, "linkClass") /\ ~Ahead(r, "linkClass")'
            /\ Step(r, "push")' /\ req'[r].q = req[r].q /\ req'[r].ref = i
        BY <1>1, <1>2, <3>1, <3>8, PushComesNext
      <4>2. \E p \in Requests : /\ Ahead(p, "push") /\ req[p].q.lop = l /\ Ahead(p, "linkClass")
                                /\ ~Ahead(p, "linkClass")' /\ Step(p, "push")'
                                /\ req'[p].q.lop = l /\ req'[p].ref = i
        BY <4>1
      <4>3. QED
        BY <2>1, <2>3, <1>10, <1>14, <3>3, <3>5, <3>6, <4>2, SeatIsTaken
    <3>9. QED
      BY <3>7, <3>8
  <2>4. QED
    BY <2>2, <2>3
<1>17. MarkInv'
  BY <1>1, <1>5, <1>9, MarksStay DEF ClassInv
<1>18. UNCHANGED <<wish, appVars, timer>>
  BY <1>1
<1>19. QED
  BY <1>5, <1>8, <1>9, <1>12, <1>16, <1>17, <1>18, NearStep

\* A call that ties nothing, and leaves every seat as it is.
LEMMA NearCall ==
    ASSUME ClassInv, UNCHANGED <<wish, appVars, timer>>, MarkInv', GdInv', GdGrows, SeatsStay, Len(gd') \in Nat,
           NEW r \in Requests, NEW c, Step(r, c), c \notin Tying \cup {"push"}, GoesOn(r), Wiser
    PROVE  ClassInv'
<1>1. ShapeInv /\ UNCHANGED <<appVars, timer>>
  BY DEF ClassInv
<1>2. Len(gd) \in Nat /\ Len(gd) <= Len(gd')
  BY <1>1, ListIs DEF ShapeInv, GdInv, GdIsSound, GdGrows
<1>3. AppGrows /\ NewestStays /\ ((app = <<>> => saving = <<>>) => (app = <<>> => saving = <<>>)')
  BY <1>1, <1>2, AppStays
<1>4. ReqInv'
  BY <1>1, <1>2, <1>3, PlainCall
<1>5. \A p \in Requests : Calm(p)
  BY <1>1, GoingOnIsCalm
<1>6. SizeInv'
  BY <1>1, <1>3, <1>4, <1>5, SizeStays DEF ShapeInv, SizeInv, ClassInv, Wiser
<1>7. QED
  BY <1>4, <1>6, NearStep

\* A field of an enrolment that says nothing of its class, or of one that is not there.
LEMMA FieldOfGd ==
    ASSUME GdInv, UNCHANGED listed, NEW i, NEW x,
           gd' = [gd EXCEPT ![i].st = x] \/ gd' = [gd EXCEPT ![i].done = x]
    PROVE  GdInv' /\ GdGrows /\ SeatsStay /\ Len(gd') \in Nat /\ Len(gd') = Len(gd)
<1>1. gd = [k \in DOMAIN gd |-> gd[k]]
  BY DEF GdInv, GdIsSound, IsSequence
<1>2. CASE i \notin DOMAIN gd
  <2>1. gd' = gd
    BY <1>1, <1>2
  <2>2. QED
    BY <2>1, GdStays
<1>3. CASE i \in DOMAIN gd
  <2>1. {"lop", "pupil", "class", "staff"} \subseteq DOMAIN gd[i] /\ (i \notin DOMAIN StartGd /\ gd[i].class => gd[i].pupil)
    BY <1>3 DEF GdInv, GdIsSound
  <2>2. gd'[i] = [gd[i] EXCEPT !.st = x] \/ gd'[i] = [gd[i] EXCEPT !.done = x]
    BY <1>1, <1>3
  <2>3. /\ gd' = [gd EXCEPT ![i] = gd'[i]] /\ {"lop", "pupil", "class", "staff"} \subseteq DOMAIN gd'[i]
        /\ gd'[i].lop = gd[i].lop /\ gd'[i].staff = gd[i].staff /\ gd'[i].pupil = gd[i].pupil
        /\ gd'[i].class = gd[i].class
    <3>1. gd' = [gd EXCEPT ![i] = gd'[i]]
      BY <1>1, <1>3
    <3>2. CASE gd'[i] = [gd[i] EXCEPT !.st = x]
      BY <2>1, <3>1, <3>2
    <3>3. CASE gd'[i] = [gd[i] EXCEPT !.done = x]
      BY <2>1, <3>1, <3>3
    <3>4. QED
      BY <2>2, <3>2, <3>3
  <2>4. Linked(gd'[i]) <=> Linked(gd[i])
    BY <2>3 DEF Linked
  <2>5. /\ GdInv' /\ GdGrows /\ Len(gd') = Len(gd) /\ Len(gd) \in Nat
        /\ \A l : (Linked(gd'[i]) <=> Linked(gd[i])) \/ l # gd[i].lop => SeatsOfStay(l)
    BY <1>3, <2>1, <2>3, <2>4, GdChanges
  <2>6. QED
    BY <2>4, <2>5 DEF SeatsStay
<1>4. QED
  BY <1>2, <1>3

LEMMA FieldKeeps ==
    ASSUME ClassInv, UNCHANGED <<wish, listed, mark, appVars, timer>>, NEW i, NEW x,
           gd' = [gd EXCEPT ![i].st = x] \/ gd' = [gd EXCEPT ![i].done = x],
           NEW r \in Requests, NEW c, Step(r, c), c \notin Tying \cup {"push"}, GoesOn(r), Wiser
    PROVE  ClassInv'
<1>1. UNCHANGED <<wish, appVars, timer>> /\ UNCHANGED listed /\ UNCHANGED mark
  OBVIOUS
<1>2. GdInv' /\ GdGrows /\ SeatsStay /\ Len(gd') \in Nat /\ Len(gd') = Len(gd)
  BY <1>1, FieldOfGd DEF ClassInv, ShapeInv
<1>3. MarkInv'
  BY <1>1, <1>2, MarksStay DEF ClassInv
<1>4. QED
  BY <1>1, <1>2, <1>3, NearCall

LEMMA StateAndCountKeep ==
    ASSUME ClassInv, NEW r \in Requests, SetGhiDanhTrangThai(r) \/ WriteCount(r)
    PROVE  ClassInv'
<1>1. CASE SetGhiDanhTrangThai(r)
  <2> DEFINE x == State(req[r].q)
             i == req[r].id
  <2>1. /\ Step(r, "close") /\ UNCHANGED <<wish, listed, mark, appVars, timer>>
        /\ \/ End(r) /\ UNCHANGED gd /\ UNCHANGED past
           \/ gd' = [gd EXCEPT ![i].st = x] /\ Answer(r, req[r].ref)
    BY <1>1 DEF SetGhiDanhTrangThai
  <2>2. CASE End(r) /\ UNCHANGED gd /\ UNCHANGED past
    <3>1. UNCHANGED farVars
      BY <2>1, <2>2 DEF farVars
    <3>2. ~Step(r, "push")
      BY <2>1 DEF Step
    <3>3. QED
      BY <2>2, <3>1, <3>2, SamePast, EndKeeps
  <2>3. CASE gd' = [gd EXCEPT ![i].st = x] /\ Answer(r, req[r].ref)
    <3>1. GoesOn(r) /\ Wiser
      BY <2>3, AnswerGoesOn DEF ClassInv
    <3>2. "close" \notin Tying \cup {"push"}
      BY DEF Tying
    <3>3. QED
      BY <2>1, <2>3, <3>1, <3>2, FieldKeeps
  <2>4. QED
    BY <2>1, <2>2, <2>3
<1>2. CASE WriteCount(r)
  <2>1. /\ Step(r, "bump") /\ UNCHANGED <<wish, listed, mark, appVars, timer>> /\ UNCHANGED past
        /\ gd' = [gd EXCEPT ![req[r].id].done = req[r].ref + 1] /\ After(r, 1, req[r].ref)
    BY <1>2 DEF WriteCount
  <2>2. GoesOn(r) /\ Wiser
    BY <2>1, AfterGoesOn, SamePast
  <2>3. "bump" \notin Tying \cup {"push"}
    BY DEF Tying
  <2>4. QED
    BY <2>1, <2>2, <2>3, FieldKeeps
<1>3. QED
  BY <1>1, <1>2

\* Records are made and tied to their student.
LEMMA MarkCallsKeep ==
    ASSUME ClassInv, NEW r \in Requests, CreateMark(r) \/ LinkMark(r)
    PROVE  ClassInv'
<1> DEFINE m == [gd |-> req[r].id, of |-> <<req[r].q.lop, req[r].q.day>>, linked |-> FALSE,
               own |-> req[r].q.op = "attend" /\ req[r].page = req[r].app]
<1>1. \E c \in {"newMark", "linkMark"} : Step(r, c)
  BY Zenon DEF CreateMark, LinkMark
<1>2. \E ref : Answer(r, ref)
  BY Zenon DEF CreateMark, LinkMark
<1>3. UNCHANGED <<wish, gd, listed, appVars, timer>>
  BY DEF CreateMark, LinkMark
<1>4. \/ (mark' = Append(mark, m) /\ Step(r, "newMark"))
      \/ mark' = [mark EXCEPT ![req[r].ref].linked = TRUE]
  BY Zenon DEF CreateMark, LinkMark
<1>5. UNCHANGED <<gd, listed>> /\ UNCHANGED <<wish, appVars, timer>> /\ UNCHANGED gd
  BY <1>3
<1>6. GdInv' /\ GdGrows /\ SeatsStay /\ Len(gd') \in Nat /\ Len(gd) \in Nat
  BY <1>5, GdStays DEF ClassInv, ShapeInv
<1>7. /\ IsSequence(mark)
      /\ \A i \in DOMAIN mark : {"gd", "of", "linked", "own"} \subseteq DOMAIN mark[i]
  BY DEF ClassInv, MarkInv
<1>8. MarkInv'
  <2>1. CASE mark' = Append(mark, m) /\ Step(r, "newMark")
    <3>1. {"gd", "of", "linked", "own"} \subseteq DOMAIN m
      OBVIOUS
    <3> HIDE DEF m
    <3>2. /\ IsSequence(mark') /\ mark'[Len(mark) + 1] = m
          /\ \A i \in DOMAIN mark' : (i \in DOMAIN mark /\ mark'[i] = mark[i]) \/ i = Len(mark) + 1
      BY <1>7, <2>1, ListGrows
    <3>3. QED
      BY <1>7, <3>1, <3>2 DEF MarkInv
  <2>2. CASE mark' = [mark EXCEPT ![req[r].ref].linked = TRUE]
    <3> DEFINE k == req[r].ref
    <3>1. mark = [i \in DOMAIN mark |-> mark[i]]
      BY <1>7 DEF IsSequence
    <3>2. CASE k \notin DOMAIN mark
      <4>1. mark' = mark
        BY <2>2, <3>1, <3>2
      <4>2. QED
        BY <4>1, MarksStay DEF ClassInv
    <3>3. CASE k \in DOMAIN mark
      <4>1. mark'[k] = [mark[k] EXCEPT !.linked = TRUE] /\ mark' = [mark EXCEPT ![k] = mark'[k]]
        BY <2>2, <3>1, <3>3
      <4>2. IsSequence(mark') /\ DOMAIN mark' = DOMAIN mark
        <5>1. PICK x : x = mark'[k]
          OBVIOUS
        <5>2. IsSequence([mark EXCEPT ![k] = x]) /\ DOMAIN [mark EXCEPT ![k] = x] = DOMAIN mark
          BY <1>7, <3>3, ListChanges
        <5>3. QED
          BY <4>1, <5>1, <5>2
      <4>3. \A i \in DOMAIN mark : i # k => mark'[i] = mark[i]
        BY <2>2, <3>1
      <4>4. {"gd", "of", "linked", "own"} \subseteq DOMAIN mark'[k]
        BY <1>7, <3>3, <4>1
      <4>5. QED
        BY <1>7, <4>2, <4>3, <4>4 DEF MarkInv
    <3>4. QED
      BY <3>2, <3>3
  <2>3. QED
    BY <1>4, <2>1, <2>2
<1>9. GoesOn(r) /\ Wiser
  BY <1>2, AnswerGoesOn DEF ClassInv
<1>10. QED
  <2>1. PICK c \in {"newMark", "linkMark"} : Step(r, c)
    BY <1>1
  <2>2. c \notin Tying \cup {"push"}
    BY <2>1 DEF Tying
  <2>3. QED
    BY <1>5, <1>6, <1>8, <1>9, <2>1, <2>2, NearCall

------------------------------------------------------------------------------
\* Overlays

\* A document changes, and a save of it is issued.
LEMMA DocumentChanges ==
    ASSUME AppInv, NEW a \in DOMAIN app, NEW doc \in DocNames, NEW value, Keep(a, doc, value),
           UNCHANGED <<gd, timer>>,
           doc = "enrol" => EnrolIsSound(value) /\ Longer(app[a].docs.enrol, value),
           doc = "over"  => OverIsSound(value)
    PROVE  /\ AppInv' /\ AppGrows /\ Len(app') = Len(app) /\ Len(app) \in Nat /\ app # <<>> /\ app' # <<>>
           /\ doc # "enrol" => NewestStays
           /\ doc = "enrol" /\ a = Len(app) => Newest = app[a].docs.enrol /\ Newest' = value /\ NewestIsStored'
<1> DEFINE save == [doc |-> doc, value |-> value]
           new  == [app[a] EXCEPT !.docs[doc] = value]
<1>1. /\ app' = [app EXCEPT ![a].docs[doc] = value] /\ saving' = Append(saving, save)
      /\ UNCHANGED <<now, store>>
  BY DEF Keep
<1>2. IsSequence(app) /\ IsSequence(saving) /\ ObjectIsSound(app[a])
  BY DEF AppInv
<1>3. Len(app) \in Nat /\ DOMAIN app = 1..Len(app) /\ Len(saving) \in Nat /\ DOMAIN saving = 1..Len(saving)
  BY <1>2, ListIs
<1>4. app' = [app EXCEPT ![a] = new]
  BY <1>1
<1>5. /\ DOMAIN new = {"base", "docs"} /\ new.base = app[a].base /\ DOMAIN new.docs = DocNames
      /\ new.docs[doc] = value /\ \A d \in DocNames : d # doc => new.docs[d] = app[a].docs[d]
  BY <1>2 DEF ObjectIsSound
<1> HIDE DEF new
<1>6. IsSequence(app') /\ Len(app') = Len(app) /\ DOMAIN app' = DOMAIN app
  BY <1>2, <1>4, ListChanges
<1>7. app'[a] = new /\ \A b \in DOMAIN app : b # a => app'[b] = app[b]
  BY <1>2, <1>4 DEF IsSequence
<1>8. EnrolIsSound(new.docs.enrol) /\ Longer(app[a].docs.enrol, new.docs.enrol)
  BY <1>2, <1>5 DEF DocNames, ObjectIsSound, Readable, Longer
<1>9. OverIsSound(new.docs.over)
  BY <1>2, <1>5 DEF DocNames, ObjectIsSound, Readable
<1>10. \A b \in DOMAIN app : BaseIsSound(app[b].base)'
  <2> SUFFICES ASSUME NEW b \in DOMAIN app PROVE BaseIsSound(app[b].base)'
    OBVIOUS
  <2>1. app'[b].base = app[b].base
    BY <1>5, <1>7
  <2>2. BaseIsSound(app[b].base)
    BY DEF AppInv, ObjectIsSound
  <2>3. QED
    BY <2>1, <2>2 DEF BaseIsSound
<1>11. \A b \in DOMAIN app : ObjectIsSound(app[b])'
  <2> SUFFICES ASSUME NEW b \in DOMAIN app PROVE ObjectIsSound(app[b])'
    OBVIOUS
  <2>1. BaseIsSound(app[b].base)'
    BY <1>10
  <2>2. CASE b = a
    <3>1. Readable(new)
      BY <1>2, <1>5, <1>8, <1>9 DEF ObjectIsSound, Readable
    <3>2. QED
      BY <1>5, <1>7, <2>1, <2>2, <3>1 DEF ObjectIsSound
  <2>3. CASE b # a
    BY <1>7, <2>1, <2>3 DEF AppInv, ObjectIsSound
  <2>4. QED
    BY <2>2, <2>3
<1>12. /\ IsSequence(saving') /\ saving'[Len(saving) + 1] = save /\ Len(saving') = Len(saving) + 1
       /\ \A i \in DOMAIN saving : i \in DOMAIN saving' /\ saving'[i] = saving[i]
       /\ \A i \in DOMAIN saving' : i \in DOMAIN saving \/ i = Len(saving) + 1
  BY <1>1, <1>2, ListGrows
<1>13. SaveIsSound(save)
  BY DEF SaveIsSound
<1>14. \A i \in DOMAIN saving' : SaveIsSound(saving'[i])
  BY <1>12, <1>13 DEF AppInv
<1>15. ObjectIsSound(store)' /\ now' \in 0..Len(app') /\ (timer.pc \in {"first", "second"} => BaseIsSound(timer.read))'
  <2>1. UNCHANGED store /\ UNCHANGED now /\ UNCHANGED gd /\ UNCHANGED timer
    BY <1>1
  <2>2. QED
    BY <1>6, <2>1 DEF AppInv, ObjectIsSound, BaseIsSound
<1>16. AppInv'
  BY <1>6, <1>11, <1>12, <1>14, <1>15 DEF AppInv, SaveIsSound
<1>17. AppGrows
  <2>1. \A b \in DOMAIN app : app'[b].base = app[b].base /\ Longer(app[b].docs.enrol, app'[b].docs.enrol)
    BY <1>5, <1>7, <1>8 DEF Longer
  <2>2. \A b \in DOMAIN app' : Readable(app'[b])
    BY <1>6, <1>11 DEF ObjectIsSound
  <2>3. QED
    BY <1>6, <2>1, <2>2 DEF AppGrows
<1>18. app # <<>> /\ app' # <<>>
  BY <1>3, <1>6
<1>19. ASSUME doc # "enrol" PROVE NewestStays
  <2>1. Newest' = Newest
    BY <1>3, <1>5, <1>6, <1>7, <1>18, <1>19 DEF Newest, DocNames
  <2>2. save.doc # "enrol"
    BY <1>19
  <2> HIDE DEF save
  <2>2a. \A k \in DOMAIN saving' : (k \in DOMAIN saving /\ saving'[k] = saving[k]) \/ saving'[k].doc # "enrol"
    BY <1>12, <2>2
  <2>3. CASE store.docs.enrol = Newest /\ \A i \in DOMAIN saving : saving[i].doc # "enrol"
    <3>1. store'.docs.enrol = Newest'
      BY <1>1, <2>1, <2>3
    <3>2. \A k \in DOMAIN saving' : saving'[k].doc # "enrol"
      BY <2>2a, <2>3
    <3>3. QED
      BY <2>1, <3>1, <3>2 DEF NewestIsStored, NewestStays
  <2>4. ASSUME NEW i \in DOMAIN saving, saving[i].doc = "enrol" /\ saving[i].value = Newest,
               \A k \in DOMAIN saving : k > i => saving[k].doc # "enrol"
        PROVE  NewestIsStored'
    <3>1. i \in DOMAIN saving' /\ saving'[i].doc = "enrol" /\ saving'[i].value = Newest'
      BY <1>12, <2>1, <2>4
    <3>2. \A k \in DOMAIN saving' : k > i => saving'[k].doc # "enrol"
      BY <2>2a, <2>4
    <3>3. QED
      BY <3>1, <3>2 DEF NewestIsStored
  <2>5. QED
    BY <2>1, <2>3, <2>4 DEF NewestIsStored, NewestStays
<1>20. ASSUME doc = "enrol", a = Len(app)
       PROVE  Newest = app[a].docs.enrol /\ Newest' = value /\ NewestIsStored'
  <2>1. Newest = app[a].docs.enrol /\ Newest' = value
    <3>1. app'[Len(app')].docs.enrol = value
      BY <1>5, <1>6, <1>7, <1>20
    <3>2. QED
      BY <1>18, <1>20, <3>1 DEF Newest
  <2>2. Len(saving) + 1 \in DOMAIN saving' /\ \A k \in DOMAIN saving' : ~(k > Len(saving) + 1)
    BY <1>3, <1>12, ListIs
  <2>3. saving'[Len(saving) + 1].doc = "enrol" /\ saving'[Len(saving) + 1].value = Newest'
    BY <1>12, <1>20, <2>1
  <2>4. QED
    BY <2>1, <2>2, <2>3 DEF NewestIsStored
<1>21. QED
  BY <1>3, <1>6, <1>16, <1>17, <1>18, <1>19, <1>20

\* A request that notes something does it in an object there is.
LEMMA NotesInObject ==
    ASSUME ShapeInv, NEW r \in Requests, NEW c \in AppSide, Step(r, c), After(r, 1, req[r].ref)
    PROVE  req[r].app \in DOMAIN app /\ GoesOn(r)
<1>1. GoesOn(r)
  BY AfterGoesOn
<1>2. req[r].q.op \notin Direct /\ req[r].pc = "calls"
  <2>1. /\ req[r].q.op \in DOMAIN Calls /\ req[r].at \in CallsOf(req[r].q.op) /\ req[r].pc = "calls"
        /\ Calls[req[r].q.op][req[r].at] = c
    BY <1>1, CallMoves
  <2>2. QED
    BY <2>1, CallsFollow
<1>3. QED
  BY <1>1, <1>2 DEF ShapeInv, ReqInv, RequestIsSound

LEMMA NoteKeeps ==
    ASSUME ClassInv, NEW r \in Requests, NEW c \in AppSide \ {"push"}, Step(r, c), After(r, 1, req[r].ref),
           UNCHANGED <<wish, recordVars, timer, past>>,
           NEW doc \in DocNames \ {"enrol"}, NEW value, Keep(req[r].app, doc, value),
           doc = "over" => OverIsSound(value)
    PROVE  ClassInv'
<1>1. ShapeInv /\ UNCHANGED <<gd, timer>> /\ UNCHANGED <<gd, listed>> /\ UNCHANGED mark /\ UNCHANGED wish /\ UNCHANGED past
  BY DEF recordVars, ClassInv
<1>2. req[r].app \in DOMAIN app /\ GoesOn(r)
  BY <1>1, NotesInObject
<1>3. /\ AppInv' /\ AppGrows /\ app' # <<>> /\ NewestStays
  BY <1>1, <1>2, DocumentChanges DEF ShapeInv
<1>4. GdInv' /\ GdGrows /\ Len(gd) \in Nat /\ Len(gd') \in Nat /\ SeatsStay
  BY <1>1, GdStays DEF ShapeInv
<1>5. c \notin Tying /\ c # "push"
  BY DEF Tying, AppSide
<1>6. ReqInv'
  BY <1>1, <1>2, <1>3, <1>4, <1>5, PlainCall
<1>7. \A p \in Requests : Calm(p)
  BY <1>1, <1>2, <1>5, GoingOnIsCalm
<1>8. SizeInv'
  BY <1>1, <1>3, <1>4, <1>6, <1>7, SizeStays DEF ShapeInv, ClassInv
<1>9. MarkInv'
  BY <1>1, <1>4, MarksStay DEF ClassInv, GdGrows
<1>10. QED
  BY <1>1, <1>3, <1>4, <1>6, <1>8, <1>9 DEF ClassInv, ShapeInv

\* An override of a state is all that the overlay of the rows has.
LEMMA StateIsOver ==
    ASSUME NEW v, OverIsSound(v), NEW k, NEW x
    PROVE  OverIsSound(With(v, k, [st |-> x]))
  BY DEF OverIsSound, With, Put, Over, At

LEMMA NotesKeep ==
    ASSUME ClassInv, NEW r \in Requests,
           NoteState(r) \/ NoteHour(r) \/ NoteTeacher(r) \/ NoteClass(r) \/ NoteMark(r) \/ NoteBooking(r)
    PROVE  ClassInv'
<1> DEFINE a == req[r].app
           q == req[r].q
<1>1. After(r, 1, req[r].ref) /\ UNCHANGED <<wish, recordVars, timer, past>>
  BY DEF NoteState, NoteHour, NoteTeacher, NoteClass, NoteMark, NoteBooking
<1>2. CASE NoteState(r)
  <2>1. Step(r, "note") /\ Keep(a, "over", With(app[a].docs.over, req[r].id, [st |-> State(q)]))
    BY <1>2 DEF NoteState
  <2>2. "note" \in AppSide \ {"push"} /\ "over" \in DocNames \ {"enrol"}
    BY DEF AppSide, DocNames
  <2>3. OverIsSound(app[a].docs.over)
    BY <1>1, <2>1, <2>2, NotesInObject DEF ClassInv, ShapeInv, AppInv, ObjectIsSound, Readable
  <2>4. OverIsSound(With(app[a].docs.over, req[r].id, [st |-> State(q)]))
    BY <2>3, StateIsOver
  <2>5. QED
    BY <1>1, <2>1, <2>2, <2>4, NoteKeeps
<1>3. CASE NoteHour(r) \/ NoteTeacher(r) \/ NoteClass(r) \/ NoteMark(r) \/ NoteBooking(r)
  <2>1. \E c \in {"noteHour", "noteTeacher", "noteClass", "noteMark", "noteBooking"} :
          \E doc \in {"lops", "made", "marks", "booked"} : \E value : Step(r, c) /\ Keep(a, doc, value)
    <3>1. CASE NoteHour(r)
      BY <3>1, Zenon DEF NoteHour
    <3>2. CASE NoteTeacher(r)
      BY <3>2, Zenon DEF NoteTeacher
    <3>3. CASE NoteClass(r)
      BY <3>3, Zenon DEF NoteClass
    <3>4. CASE NoteMark(r)
      BY <3>4, Zenon DEF NoteMark
    <3>5. CASE NoteBooking(r)
      BY <3>5, Zenon DEF NoteBooking
    <3>6. QED
      BY <1>3, <3>1, <3>2, <3>3, <3>4, <3>5
  <2>2. PICK c \in {"noteHour", "noteTeacher", "noteClass", "noteMark", "noteBooking"},
             doc \in {"lops", "made", "marks", "booked"} : \E value : Step(r, c) /\ Keep(a, doc, value)
    BY <2>1
  <2>3. PICK value : Step(r, c) /\ Keep(a, doc, value)
    BY <2>2
  <2>4. c \in AppSide \ {"push"} /\ doc \in DocNames \ {"enrol"} /\ doc # "over"
    BY <2>2 DEF AppSide, DocNames
  <2>5. QED
    BY <1>1, <2>3, <2>4, NoteKeeps
<1>4. QED
  BY <1>2, <1>3, Zenon

\* The overlay's new row shows the seat that only the request knew.
LEMMA PushKeeps ==
    ASSUME ClassInv, NEW r \in Requests, Push(r)
    PROVE  ClassInv'
<1> DEFINE a   == req[r].app
           q   == req[r].q
           old == app[a].docs.enrol
           row == [n |-> NextEnrollN(app[a], q.lop), gd |-> req[r].ref, hv |-> q.hv, lop |-> q.lop, st |-> "dang_hoc"]
           new == Append(old, row)
<1>1. /\ Step(r, "push") /\ Keep(a, "enrol", new) /\ After(r, 1, req[r].ref)
      /\ UNCHANGED <<wish, recordVars, timer>>
      /\ IF a # Len(app) THEN Blinded(DOMAIN Size) ELSE UNCHANGED past
  BY DEF Push
<1>2. ShapeInv /\ UNCHANGED <<gd, timer>> /\ UNCHANGED <<gd, listed>> /\ UNCHANGED mark /\ UNCHANGED wish
  BY <1>1 DEF recordVars, ClassInv
<1>3. a \in DOMAIN app /\ GoesOn(r)
  BY <1>1, <1>2, NotesInObject DEF AppSide
<1>4. EnrolIsSound(old) /\ IsSequence(old)
  BY <1>2, <1>3 DEF ShapeInv, AppInv, ObjectIsSound, Readable, EnrolIsSound
<1>5. /\ {"n", "gd", "lop"} \subseteq DOMAIN row /\ row.n = 1000 + Len(old)
      /\ row.gd = req[r].ref /\ row.lop = q.lop
  BY DEF NextEnrollN
<1> HIDE DEF row
<1>6. /\ IsSequence(new) /\ Len(old) \in Nat /\ new[Len(old) + 1] = row
      /\ \A k \in DOMAIN old : k \in DOMAIN new /\ new[k] = old[k]
      /\ \A k \in DOMAIN new : k \in DOMAIN old \/ k = Len(old) + 1
      /\ Len(new) = Len(old) + 1
  BY <1>4, ListGrows, ListIs
<1>7. Longer(old, new)
  BY DEF Longer
<1> HIDE DEF new
<1>8. EnrolIsSound(new)
  <2>1. \A k \in DOMAIN old : {"n", "gd", "lop"} \subseteq DOMAIN old[k] /\ old[k].n = 999 + k
    BY <1>4 DEF EnrolIsSound
  <2>2. row.n = 999 + (Len(old) + 1)
    BY <1>5, <1>6
  <2>3. \A k \in DOMAIN new : {"n", "gd", "lop"} \subseteq DOMAIN new[k] /\ new[k].n = 999 + k
    <3> SUFFICES ASSUME NEW k \in DOMAIN new
                 PROVE  {"n", "gd", "lop"} \subseteq DOMAIN new[k] /\ new[k].n = 999 + k
      OBVIOUS
    <3>1. CASE k \in DOMAIN old
      <4>1. new[k] = old[k]
        BY <1>6, <3>1
      <4>2. QED
        BY <2>1, <3>1, <4>1
    <3>2. CASE k = Len(old) + 1
      BY <1>5, <1>6, <2>2, <3>2
    <3>3. QED
      BY <1>6, <3>1, <3>2
  <2>4. QED
    BY <1>6, <2>3 DEF EnrolIsSound
<1>9. /\ AppInv' /\ AppGrows /\ app' # <<>>
      /\ a = Len(app) => Newest = old /\ Newest' = new /\ NewestIsStored'
  <2>1. "enrol" \in DocNames /\ AppInv
    BY <1>2 DEF DocNames, ShapeInv
  <2>2. "enrol" = "over" => OverIsSound(new)
    OBVIOUS
  <2>3. QED
    BY <1>1, <1>2, <1>3, <1>7, <1>8, <2>1, <2>2, DocumentChanges
<1>10. GdInv' /\ GdGrows /\ Len(gd) \in Nat /\ Len(gd') \in Nat /\ SeatsStay
  BY <1>2, GdStays DEF ShapeInv
<1>11. ReqInv'
  <2>1. "push" \notin Tying
    BY DEF Tying
  <2>2. QED
    BY <1>1, <1>2, <1>3, <1>9, <1>10, <2>1, PlainCall
<1>12. Wiser
  <2>1. DOMAIN past = {"blind", "overlap"}
    BY <1>2 DEF ShapeInv
  <2>2. QED
    BY <1>1, <2>1 DEF Blinded, Wiser
<1>13. SizeInv'
  <2>1. CASE a # Len(app)
    <3>1. DOMAIN Size \subseteq past'.blind
      <4>1. DOMAIN past = {"blind", "overlap"}
        BY <1>2 DEF ShapeInv
      <4>2. QED
        BY <1>1, <2>1, <4>1 DEF Blinded
    <3>2. QED
      BY <1>9, <3>1, AllBlind
  <2>2. CASE a = Len(app)
    <3> SUFFICES ASSUME NEW l \in DOMAIN Size \ past'.blind
                 PROVE  NewestIsStored' /\ SeatsAreSeen(l)' /\ (Size[l] # 0 => SeatsAreLeft(l)')
      BY <1>9 DEF SizeInv
    <3>1. SeatsAreSeen(l) /\ (Size[l] # 0 => SeatsAreLeft(l))
      BY <1>12 DEF ClassInv, SizeInv, Wiser
    <3>2. Newest = old /\ Newest' = new /\ NewestIsStored' /\ gd' = gd
      BY <1>2, <1>9, <2>2
    <3>3. /\ req' = [req EXCEPT ![r] = req'[r]] /\ req[r].pc = "calls"
          /\ req'[r].pc = "calls" => req'[r].q = req[r].q /\ req'[r].at >= req[r].at
      <4>1. /\ req' = [req EXCEPT ![r] = req'[r]]
            /\ \/ req'[r] = [Idle EXCEPT !.pc = "done"]
               \/ req'[r].q = req[r].q /\ req'[r].at \in CallsOf(q.op) /\ req'[r].at >= req[r].at
            /\ req[r].pc = "calls" /\ req[r].at \in CallsOf(q.op)
        BY <1>1, <1>2, <1>3, CallMoves
      <4>2. req'[r] = [Idle EXCEPT !.pc = "done"] => req'[r].pc # "calls"
        BY DEF Idle
      <4>3. QED
        BY <4>1, <4>2 DEF CallsOf
    <3>4. \A p \in Requests : p # r => req'[p] = req[p]
      BY <1>2, <3>3 DEF ShapeInv, ReqInv
    <3>5. SeatsAreSeen(l)'
      <4> SUFFICES ASSUME NEW i \in Seats(gd, l)
                   PROVE  \/ i \in 1..StartBase \/ gd[i].staff \/ ShownIn(new, i, l)
                          \/ \E p \in Requests : Step(p, "push")' /\ req'[p].q.lop = l /\ req'[p].ref = i
        BY <3>2 DEF SeatsAreSeen
      <4>1. \/ i \in 1..StartBase \/ gd[i].staff \/ ShownIn(old, i, l)
            \/ \E p \in Requests : Step(p, "push") /\ req[p].q.lop = l /\ req[p].ref = i
        BY <3>1, <3>2 DEF SeatsAreSeen
      <4>2. CASE ShownIn(old, i, l)
        BY <1>6, <4>2 DEF ShownIn
      <4>3. ASSUME NEW p \in Requests, Step(p, "push"), req[p].q.lop = l, req[p].ref = i
            PROVE  \/ ShownIn(new, i, l)
                   \/ Step(p, "push")' /\ req'[p].q.lop = l /\ req'[p].ref = i
        <5>1. CASE p = r
          <6>1. Len(old) + 1 \in DOMAIN new
            BY <1>6, ListIs
          <6>2. QED
            BY <1>5, <1>6, <4>3, <5>1, <6>1 DEF ShownIn
        <5>2. CASE p # r
          BY <3>4, <4>3, <5>2 DEF Step
        <5>3. QED
          BY <5>1, <5>2
      <4>4. QED
        BY <4>1, <4>2, <4>3
    <3>6. ASSUME NEW p \in Requests, NEW c, Ahead(p, c)' PROVE Ahead(p, c) /\ req'[p].q = req[p].q
      <4>1. req'[p].pc = "calls" => req[p].pc = "calls" /\ req'[p].q = req[p].q /\ req'[p].at >= req[p].at
        <5>1. CASE p = r
          BY <3>3, <5>1
        <5>2. CASE p # r
          <6>1. req'[p] = req[p]
            BY <3>4, <5>2
          <6>2. req[p].pc = "calls" => req[p].at \in CallsOf(req[p].q.op)
            BY <1>2 DEF ShapeInv, ReqInv, RequestIsSound, CallsOf
          <6>3. QED
            BY <6>1, <6>2 DEF CallsOf
        <5>3. QED
          BY <5>1, <5>2
      <4>2. QED
        BY <1>2, <1>11, <3>6, <4>1, AheadBefore DEF ShapeInv
    <3>7. Size[l] # 0 => SeatsAreLeft(l)'
      BY <3>1, <3>2, <3>6 DEF SeatsAreLeft, Entering
    <3>8. QED
      BY <3>2, <3>5, <3>7
  <2>3. QED
    BY <2>1, <2>2
<1>14. MarkInv'
  BY <1>2, <1>10, MarksStay DEF ClassInv, GdGrows
<1>15. QED
  BY <1>2, <1>9, <1>10, <1>11, <1>12, <1>13, <1>14 DEF ClassInv, ShapeInv, Wiser

------------------------------------------------------------------------------
\* The background

LEMMA RequestsWait ==
    ASSUME ClassInv, UNCHANGED <<gd, req>>, AppGrows
    PROVE  ReqInv' /\ (\A p \in Requests : Calm(p)) /\ SeatsStay
<1>1. ShapeInv /\ GdGrows /\ Len(gd') \in Nat /\ SeatsStay
  BY ListIs DEF ClassInv, ShapeInv, GdInv, GdIsSound, GdGrows, SeatsStay, SeatsOfStay
<1>2. \A p \in Requests : RequestIsSound(p)'
  BY <1>1, OthersStay
<1>3. req' = [p \in Requests |-> req'[p]]
  BY <1>1 DEF ShapeInv, ReqInv
<1>4. ReqInv'
  BY <1>2, <1>3 DEF ReqInv
<1>5. QED
  BY <1>1, <1>4 DEF Calm

LEMMA BackgroundStep ==
    ASSUME ClassInv, UNCHANGED <<wish, gd, mark, req>>, GdIsSound(listed.gd)', AppInv', AppGrows, Wiser,
           (app = <<>> => saving = <<>>)', NewestStays \/ DOMAIN Size \subseteq past'.blind
    PROVE  ClassInv'
<1>1. ReqInv' /\ (\A p \in Requests : Calm(p)) /\ SeatsStay
  BY RequestsWait
<1>2. GdInv'
  BY DEF ClassInv, ShapeInv, GdInv, GdIsSound
<1>3. SizeInv'
  BY <1>1, SizeStays, AllBlind DEF ClassInv, ShapeInv, Wiser
<1>4. MarkInv'
  BY DEF ClassInv, MarkInv
<1>5. QED
  BY <1>1, <1>2, <1>3, <1>4 DEF ClassInv, ShapeInv, Wiser

LEMMA BaseWaits ==
    ASSUME NEW b, BaseIsSound(b), UNCHANGED gd
    PROVE  BaseIsSound(b)'
  BY DEF BaseIsSound

LEMMA ObjectsWait ==
    ASSUME ClassInv, UNCHANGED <<gd, app>>
    PROVE  AppGrows /\ \A a \in DOMAIN app' : ObjectIsSound(app[a])'
<1>1. \A a \in DOMAIN app : ObjectIsSound(app[a])
  BY DEF ClassInv, ShapeInv, AppInv
<1>2. \A a \in DOMAIN app : ObjectIsSound(app[a])'
  <2> SUFFICES ASSUME NEW a \in DOMAIN app PROVE ObjectIsSound(app[a])'
    OBVIOUS
  <2>1. ObjectIsSound(app[a]) /\ app' = app
    BY <1>1
  <2>2. BaseIsSound(app[a].base)'
    BY <2>1, BaseWaits DEF ObjectIsSound
  <2>3. QED
    BY <2>1, <2>2 DEF ObjectIsSound
<1>3. AppGrows
  BY <1>1 DEF AppGrows, Longer, ObjectIsSound
<1>4. QED
  BY <1>2, <1>3

LEMMA ListingIsSound ==
    ASSUME ClassInv, NEW rooms
    PROVE  BaseIsSound(Snapshot(listed.gd, rooms))
<1> DEFINE g == listed.gd
           s == Snapshot(g, rooms)
<1>1. GdIsSound(g)
  BY DEF ClassInv, ShapeInv, GdInv
<1>2. IsSequence(g) /\ Len(StartGd) <= Len(g) /\ Len(g) <= Len(gd)
  BY <1>1 DEF GdIsSound
<1>3. /\ RowsAreSound(s.rows) /\ Len(s.rows) <= Len(g)
      /\ \A i \in DOMAIN g : Linked(g[i]) => ShownIn(s.rows, i, g[i].lop)
  BY <1>2, SnapshotShows
<1>4. Len(g) \in Nat /\ DOMAIN g = 1..Len(g) /\ Len(gd) \in Nat /\ Len(s.rows) \in Nat
  BY <1>2, <1>3, ListIs DEF ClassInv, ShapeInv, GdInv, GdIsSound, RowsAreSound
<1>5. /\ StartBase \in 0..Len(StartGd) /\ Len(StartGd) \in Nat /\ DOMAIN StartGd = 1..Len(StartGd)
  BY StartAssumption, LenProperties
<1> HIDE DEF g, s
<1>6. ASSUME NEW i \in 1..StartBase, Linked(StartGd[i]) PROVE ShownIn(s.rows, i, StartGd[i].lop)
  <2>1. i \in DOMAIN StartGd /\ i \in DOMAIN g
    BY <1>2, <1>4, <1>5
  <2>2. g[i].lop = StartGd[i].lop /\ Linked(g[i])
    BY <1>1, <1>6, <2>1 DEF GdIsSound
  <2>3. QED
    BY <1>3, <2>1, <2>2
<1>7. Len(s.rows) <= Len(gd)
  BY <1>2, <1>3, <1>4
<1>8. BaseIsSound(s)
  BY <1>3, <1>6, <1>7 DEF BaseIsSound
<1>9. QED
  BY <1>8 DEF s, g

LEMMA SearchCatchesUpKeeps ==
    ASSUME ClassInv, SearchCatchesUp
    PROVE  ClassInv'
<1>1. /\ listed' = [gd |-> gd, lesson |-> lesson] /\ UNCHANGED <<wish, gd, mark, req>> /\ UNCHANGED <<appVars, timer>>
      /\ UNCHANGED past /\ UNCHANGED gd
  BY DEF SearchCatchesUp
<1>2. ShapeInv /\ Len(gd) \in Nat
  BY ListIs DEF ClassInv, ShapeInv, GdInv, GdIsSound
<1>3. AppInv' /\ AppGrows /\ NewestStays /\ ((app = <<>> => saving = <<>>) => (app = <<>> => saving = <<>>)')
  BY <1>1, <1>2, AppStays
<1>4. GdIsSound(listed.gd)'
  <2>1. GdIsSound(gd)
    BY <1>2 DEF ShapeInv, GdInv
  <2>2. listed'.gd = gd
    BY <1>1
  <2>3. QED
    BY <1>1, <2>1, <2>2 DEF GdIsSound
<1>5. QED
  BY <1>1, <1>3, <1>4, SamePast, BackgroundStep DEF ClassInv, SizeInv

LEMMA ListingStays ==
    ASSUME ClassInv, UNCHANGED <<gd, listed>>
    PROVE  GdIsSound(listed.gd)'
  BY DEF ClassInv, ShapeInv, GdInv, GdIsSound

LEMMA TimerKeeps ==
    ASSUME ClassInv, Webhook \/ ResyncReads
    PROVE  ClassInv'
<1>1. /\ UNCHANGED <<wish, gd, mark, req>> /\ UNCHANGED <<gd, app>> /\ UNCHANGED <<gd, listed>> /\ UNCHANGED past
      /\ UNCHANGED <<app, now, store, saving>> /\ UNCHANGED gd
  BY DEF Webhook, ResyncReads, recordVars, appVars
<1>2. AppGrows /\ \A a \in DOMAIN app' : ObjectIsSound(app[a])'
  BY <1>1, ObjectsWait
<1>3. DOMAIN timer' = {"pc", "read"} /\ (timer'.pc \in {"first", "second"} => BaseIsSound(timer'.read))
  <2>1. CASE Webhook
    <3>1. DOMAIN timer = {"pc", "read"} /\ timer' = [timer EXCEPT !.pc = "due"]
      BY <2>1 DEF Webhook, ClassInv, ShapeInv, AppInv
    <3>2. QED
      BY <3>1
  <2>2. CASE ResyncReads
    <3>1. timer' = [pc |-> IF timer.pc = "due" THEN "first" ELSE "second", read |-> Snapshot(listed.gd, room)]
      BY <2>2 DEF ResyncReads
    <3>2. QED
      BY <3>1, ListingIsSound
  <2>3. QED
    BY <2>1, <2>2
<1>4. ObjectIsSound(store)'
  BY <1>1 DEF ClassInv, ShapeInv, AppInv, ObjectIsSound, BaseIsSound
<1>5. (timer.pc \in {"first", "second"} => BaseIsSound(timer.read))'
  BY <1>1, <1>3 DEF BaseIsSound
<1>6. AppInv'
  BY <1>1, <1>2, <1>3, <1>4, <1>5 DEF ClassInv, ShapeInv, AppInv, SaveIsSound
<1>7. NewestStays /\ (app = <<>> => saving = <<>>)'
  BY <1>1 DEF NewestStays, Newest, NewestIsStored, ClassInv, SizeInv
<1>8. GdIsSound(listed.gd)'
  BY <1>1, ListingStays
<1>9. QED
  BY <1>1, <1>2, <1>6, <1>7, <1>8, SamePast, BackgroundStep

LEMMA ResyncStoresKeeps ==
    ASSUME ClassInv, ResyncStores
    PROVE  ClassInv'
<1>1. /\ UNCHANGED <<wish, gd, mark, req>> /\ UNCHANGED <<gd, app>> /\ UNCHANGED <<gd, listed>> /\ UNCHANGED past
      /\ UNCHANGED <<app, saving>> /\ UNCHANGED gd /\ now' = 0
      /\ store' = [store EXCEPT !.base = timer.read] /\ timer.pc \in {"first", "second"}
      /\ timer' = [pc |-> IF timer.pc = "first" THEN "again" ELSE "off", read |-> None]
  BY DEF ResyncStores, recordVars
<1>2. AppGrows /\ \A a \in DOMAIN app' : ObjectIsSound(app[a])'
  BY <1>1, ObjectsWait
<1>3. IsSequence(app) /\ IsSequence(saving) /\ (\A i \in DOMAIN saving : SaveIsSound(saving[i])) /\ Len(app) \in Nat
  BY ListIs DEF ClassInv, ShapeInv, AppInv
<1>4. ObjectIsSound(store) /\ BaseIsSound(timer.read)
  BY <1>1 DEF ClassInv, ShapeInv, AppInv
<1>5. DOMAIN store' = {"base", "docs"} /\ store'.base = timer.read /\ store'.docs = store.docs
  BY <1>1, <1>4 DEF ObjectIsSound
<1>6. ObjectIsSound(store)'
  BY <1>1, <1>4, <1>5 DEF ObjectIsSound, BaseIsSound, Readable
<1>7. AppInv'
  BY <1>1, <1>2, <1>3, <1>6 DEF AppInv, SaveIsSound
<1>8. NewestStays /\ (app = <<>> => saving = <<>>)'
  BY <1>1, <1>5 DEF NewestStays, Newest, NewestIsStored, ClassInv, SizeInv
<1>9. GdIsSound(listed.gd)'
  BY <1>1, ListingStays
<1>10. QED
  BY <1>1, <1>2, <1>7, <1>8, <1>9, SamePast, BackgroundStep

\* A save that lands: the last one of the rows is the newest, and stays so.
LEMMA SaveLands ==
    ASSUME IsSequence(saving), NEW i \in DOMAIN saving, saving' = RemoveAt(saving, i), app # <<>>, app' = app,
           \A k \in 1..(i - 1) : saving[k].doc # saving[i].doc,
           saving[i].doc = "enrol" => store'.docs.enrol = saving[i].value,
           saving[i].doc # "enrol" => store'.docs.enrol = store.docs.enrol
    PROVE  NewestStays
<1> SUFFICES ASSUME NewestIsStored PROVE Newest' = Newest /\ NewestIsStored'
  BY DEF NewestStays
<1>1. Newest' = Newest
  BY DEF Newest
<1>2. Len(saving) \in Nat /\ DOMAIN saving = 1..Len(saving) /\ i \in 1..Len(saving)
  BY ListIs
<1>3. /\ IsSequence(saving') /\ Len(saving') = Len(saving) - 1
      /\ \A k \in DOMAIN saving' : /\ k < i  => k \in DOMAIN saving /\ saving'[k] = saving[k]
                                   /\ k >= i => k + 1 \in DOMAIN saving /\ saving'[k] = saving[k + 1]
  BY ListShrinks
<1>4. DOMAIN saving' = 1..(Len(saving) - 1)
  BY <1>3, ListIs
<1>5. CASE store.docs.enrol = Newest /\ \A k \in DOMAIN saving : saving[k].doc # "enrol"
  <2>1. store'.docs.enrol = Newest'
    BY <1>1, <1>5
  <2>2. \A k \in DOMAIN saving' : saving'[k].doc # "enrol"
    BY <1>2, <1>3, <1>4, <1>5
  <2>3. QED
    BY <1>1, <2>1, <2>2 DEF NewestIsStored
<1>6. ASSUME NEW j \in DOMAIN saving, saving[j].doc = "enrol", saving[j].value = Newest,
             \A k \in DOMAIN saving : k > j => saving[k].doc # "enrol"
      PROVE  NewestIsStored'
  <2>1. CASE j = i
    <3>1. store'.docs.enrol = Newest'
      BY <1>1, <1>6, <2>1
    <3>2. \A k \in DOMAIN saving' : saving'[k].doc # "enrol"
      <4> SUFFICES ASSUME NEW k \in DOMAIN saving' PROVE saving'[k].doc # "enrol"
        OBVIOUS
      <4>1. CASE k < i
        <5>1. k \in 1..(i - 1) /\ saving'[k] = saving[k]
          BY <1>2, <1>3, <1>4, <4>1
        <5>2. QED
          BY <1>6, <2>1, <5>1
      <4>2. CASE k >= i
        <5>1. k + 1 > i /\ k + 1 \in DOMAIN saving /\ saving'[k] = saving[k + 1]
          BY <1>2, <1>3, <1>4, <4>2
        <5>2. QED
          BY <1>6, <2>1, <5>1
      <4>3. QED
        BY <1>2, <1>4, <4>1, <4>2
    <3>3. QED
      BY <3>1, <3>2 DEF NewestIsStored
  <2>2. CASE j > i
    <3>1. j - 1 \in DOMAIN saving' /\ j - 1 >= i /\ (j - 1) + 1 = j
      BY <1>2, <1>4, <2>2
    <3>2. saving'[j - 1] = saving[j]
      BY <1>3, <3>1
    <3>3. \A k \in DOMAIN saving' : k > j - 1 => saving'[k].doc # "enrol"
      <4> SUFFICES ASSUME NEW k \in DOMAIN saving', k > j - 1 PROVE saving'[k].doc # "enrol"
        OBVIOUS
      <4>1. k >= i /\ k + 1 > j
        BY <1>2, <1>4, <2>2
      <4>2. k + 1 \in DOMAIN saving /\ saving'[k] = saving[k + 1]
        BY <1>3, <4>1
      <4>3. QED
        BY <1>6, <4>1, <4>2
    <3>4. saving'[j - 1].doc = "enrol" /\ saving'[j - 1].value = Newest'
      BY <1>1, <1>6, <3>2
    <3>5. QED
      BY <3>1, <3>3, <3>4 DEF NewestIsStored
  <2>3. CASE j < i
    <3>1. j \in DOMAIN saving' /\ saving'[j] = saving[j]
      BY <1>2, <1>3, <1>4, <2>3
    <3>2. \A k \in DOMAIN saving' : k > j => saving'[k].doc # "enrol"
      <4> SUFFICES ASSUME NEW k \in DOMAIN saving', k > j PROVE saving'[k].doc # "enrol"
        OBVIOUS
      <4>1. CASE k < i
        BY <1>3, <1>6, <4>1
      <4>2. CASE k >= i
        <5>1. k + 1 > j /\ k + 1 \in DOMAIN saving /\ saving'[k] = saving[k + 1]
          BY <1>2, <1>3, <1>4, <4>2
        <5>2. QED
          BY <1>6, <5>1
      <4>3. QED
        BY <1>2, <1>4, <4>1, <4>2
    <3>3. saving'[j].doc = "enrol" /\ saving'[j].value = Newest'
      BY <1>1, <1>6, <3>1
    <3>4. QED
      BY <3>1, <3>2, <3>3 DEF NewestIsStored
  <2>4. QED
    BY <1>2, <2>1, <2>2, <2>3
<1>7. QED
  BY <1>1, <1>5, <1>6 DEF NewestIsStored

LEMMA SaveKeeps ==
    ASSUME ClassInv, Save
    PROVE  ClassInv'
<1>1. PICK i \in DOMAIN saving :
        /\ saving' = RemoveAt(saving, i)
        /\ \/ /\ store' = [store EXCEPT !.docs[saving[i].doc] = saving[i].value]
              /\ IF \E k \in 1..(i - 1) : saving[k].doc = saving[i].doc
                 THEN Blinded(DOMAIN Size) ELSE UNCHANGED past
           \/ Blinded(DOMAIN Size) /\ UNCHANGED store
        /\ UNCHANGED <<wish, recordVars, app, now, writer, timer, req>>
  BY Zenon DEF Save
<1>2. /\ UNCHANGED <<wish, gd, mark, req>> /\ UNCHANGED <<gd, app>> /\ UNCHANGED <<gd, listed>>
      /\ UNCHANGED app /\ UNCHANGED now /\ UNCHANGED timer /\ UNCHANGED gd
  BY <1>1 DEF recordVars
<1>3. AppGrows /\ \A a \in DOMAIN app' : ObjectIsSound(app[a])'
  BY <1>2, ObjectsWait
<1>4. IsSequence(app) /\ IsSequence(saving) /\ (\A k \in DOMAIN saving : SaveIsSound(saving[k])) /\ ObjectIsSound(store)
  BY DEF ClassInv, ShapeInv, AppInv
<1>5. Len(saving) \in Nat /\ DOMAIN saving = 1..Len(saving)
  BY <1>4, ListIs
<1>6. app # <<>>
  <2>1. saving # <<>>
    BY <1>1
  <2>2. QED
    BY <2>1 DEF ClassInv, SizeInv
<1>7. IsSequence(saving') /\ \A k \in DOMAIN saving' : \E j \in DOMAIN saving : saving'[k] = saving[j]
  <2>1. /\ IsSequence(saving') /\ Len(saving') = Len(saving) - 1
        /\ \A k \in DOMAIN saving' : /\ k < i  => k \in DOMAIN saving /\ saving'[k] = saving[k]
                                     /\ k >= i => k + 1 \in DOMAIN saving /\ saving'[k] = saving[k + 1]
    BY <1>1, <1>4, ListShrinks
  <2>2. \A k \in DOMAIN saving' : k \in Nat
    BY <2>1, ListIs
  <2>3. QED
    BY <1>5, <2>1, <2>2
<1>8. \A k \in DOMAIN saving' : SaveIsSound(saving'[k])
  BY <1>4, <1>7
<1>9. SaveIsSound(saving[i]) /\ saving[i].doc \in DocNames
  BY <1>4 DEF SaveIsSound
<1>10. ASSUME store' = [store EXCEPT !.docs[saving[i].doc] = saving[i].value]
       PROVE  /\ ObjectIsSound(store)'
              /\ saving[i].doc = "enrol" => store'.docs.enrol = saving[i].value
              /\ saving[i].doc # "enrol" => store'.docs.enrol = store.docs.enrol
  <2> DEFINE doc == saving[i].doc
             new == [store EXCEPT !.docs[doc] = saving[i].value]
  <2>1. /\ DOMAIN new = {"base", "docs"} /\ new.base = store.base /\ DOMAIN new.docs = DocNames
        /\ new.docs[doc] = saving[i].value /\ \A d \in DocNames : d # doc => new.docs[d] = store.docs[d]
    BY <1>4, <1>9 DEF ObjectIsSound
  <2>2. store' = new
    BY <1>10
  <2> HIDE DEF new
  <2>3. /\ doc = "enrol" => new.docs.enrol = saving[i].value
        /\ doc # "enrol" => new.docs.enrol = store.docs.enrol
    BY <2>1 DEF DocNames
  <2>4. EnrolIsSound(new.docs.enrol)
    BY <1>4, <1>9, <2>3 DEF SaveIsSound, ObjectIsSound, Readable
  <2>5. OverIsSound(new.docs.over)
    BY <1>4, <1>9, <2>1 DEF SaveIsSound, ObjectIsSound, Readable, DocNames
  <2>6. Readable(new)
    BY <1>4, <2>1, <2>4, <2>5 DEF ObjectIsSound, Readable
  <2>7. BaseIsSound(store.base)'
    <3>1. BaseIsSound(store.base)
      BY <1>4 DEF ObjectIsSound
    <3>2. store'.base = store.base
      BY <2>1, <2>2
    <3>3. QED
      BY <1>2, <3>1, <3>2 DEF BaseIsSound
  <2>8. QED
    BY <2>1, <2>2, <2>3, <2>6, <2>7 DEF ObjectIsSound
<1>11. ObjectIsSound(store)'
  <2>1. CASE UNCHANGED store
    BY <1>2, <1>4, <2>1 DEF ObjectIsSound, BaseIsSound
  <2>2. QED
    BY <1>1, <1>10, <2>1
<1>12. AppInv'
  <2>1. (timer.pc \in {"first", "second"} => BaseIsSound(timer.read))'
    BY <1>2 DEF ClassInv, ShapeInv, AppInv, BaseIsSound
  <2>2. QED
    BY <1>2, <1>3, <1>4, <1>7, <1>8, <1>11, <2>1 DEF ClassInv, ShapeInv, AppInv, SaveIsSound
<1>13. DOMAIN past = {"blind", "overlap"}
  BY DEF ClassInv, ShapeInv
<1>14. Blinded(DOMAIN Size) => DOMAIN Size \subseteq past'.blind /\ Wiser
  BY <1>13 DEF Blinded, Wiser
<1>15. Wiser /\ (NewestStays \/ DOMAIN Size \subseteq past'.blind)
  <2>1. CASE Blinded(DOMAIN Size)
    BY <1>14, <2>1
  <2>2. CASE /\ store' = [store EXCEPT !.docs[saving[i].doc] = saving[i].value]
             /\ UNCHANGED past /\ ~\E k \in 1..(i - 1) : saving[k].doc = saving[i].doc
    BY <1>1, <1>2, <1>4, <1>6, <1>10, <2>2, SaveLands, SamePast
  <2>3. QED
    BY <1>1, <2>1, <2>2
<1>16. (app = <<>> => saving = <<>>)'
  BY <1>2, <1>6
<1>17. GdIsSound(listed.gd)'
  BY <1>2, ListingStays
<1>18. QED
  BY <1>2, <1>3, <1>12, <1>15, <1>16, <1>17, BackgroundStep

LEMMA RestartAppKeeps ==
    ASSUME ClassInv, RestartApp
    PROVE  ClassInv'
<1>1. /\ UNCHANGED <<wish, recordVars, app, store>> /\ now' = 0 /\ saving' = <<>>
      /\ timer' = [pc |-> "off", read |-> None] /\ Blinded(DOMAIN Size)
      /\ req' = [r \in Requests |-> IF req[r].pc = "idle" \/ (req[r].q # None /\ req[r].q.op = "staff")
                                    THEN req[r] ELSE [Idle EXCEPT !.pc = "done"]]
  BY DEF RestartApp
<1>2. /\ UNCHANGED gd /\ UNCHANGED mark /\ UNCHANGED wish /\ UNCHANGED app /\ UNCHANGED store
      /\ UNCHANGED <<gd, app>> /\ UNCHANGED <<gd, listed>>
  BY <1>1 DEF recordVars
<1>3. AppGrows /\ \A a \in DOMAIN app' : ObjectIsSound(app[a])'
  BY <1>2, ObjectsWait
<1>4. ShapeInv /\ DOMAIN past = {"blind", "overlap"} /\ GdInv
  BY DEF ClassInv, ShapeInv
<1>5. GdGrows /\ GdInv' /\ Len(gd') \in Nat /\ Len(gd) \in Nat
  BY <1>2, <1>4, GdStays
<1>6. \A p \in Requests : RequestIsSound(p)'
  <2> SUFFICES ASSUME NEW p \in Requests PROVE RequestIsSound(p)'
    OBVIOUS
  <2>1. req'[p] = req[p] \/ req'[p] = [Idle EXCEPT !.pc = "done"]
    BY <1>1
  <2>2. QED
    BY <1>3, <1>4, <1>5, <2>1, OthersStay, DoneIsSound
<1>7. ReqInv'
  <2>1. req' = [r \in Requests |-> req'[r]]
    BY <1>1
  <2>2. QED
    BY <1>6, <2>1 DEF ReqInv
<1>8. AppInv'
  <2>1. ObjectIsSound(store)'
    BY <1>2 DEF ClassInv, ShapeInv, AppInv, ObjectIsSound, BaseIsSound
  <2>2. IsSequence(app) /\ Len(app) \in Nat
    BY ListIs DEF ClassInv, ShapeInv, AppInv
  <2>3. IsSequence(<<>>) /\ DOMAIN <<>> = {}
    BY DEF IsSequence
  <2>4. DOMAIN timer' = {"pc", "read"} /\ timer'.pc \notin {"first", "second"}
    BY <1>1
  <2>5. QED
    BY <1>1, <1>2, <1>3, <2>1, <2>2, <2>3, <2>4 DEF AppInv
<1>9. DOMAIN Size \subseteq past'.blind /\ DOMAIN past' = DOMAIN past
  BY <1>1, <1>4 DEF Blinded
<1>10. SizeInv'
  BY <1>1, <1>9, AllBlind
<1>11. MarkInv'
  BY <1>2 DEF ClassInv, MarkInv
<1>12. QED
  BY <1>2, <1>4, <1>5, <1>7, <1>8, <1>9, <1>10, <1>11 DEF ClassInv, ShapeInv

------------------------------------------------------------------------------
\* The start, every step, and what follows

LEMMA StartBaseIsSound ==
    LET s == Snapshot(SubSeq(StartGd, 1, StartBase), StartRooms) IN
    /\ RowsAreSound(s.rows) /\ Len(s.rows) <= Len(StartGd) /\ TrueIn(StartGd, s.rows)
    /\ \A i \in 1..StartBase : Linked(StartGd[i]) => ShownIn(s.rows, i, StartGd[i].lop)
<1> DEFINE S == {StartGd[i] : i \in DOMAIN StartGd}
           g == SubSeq(StartGd, 1, StartBase)
           s == Snapshot(g, StartRooms)
<1>1. StartGd \in Seq(S) /\ StartBase \in 0..Len(StartGd) /\ Len(StartGd) \in Nat /\ DOMAIN StartGd = 1..Len(StartGd)
  BY StartAssumption, LenProperties
<1>2. g \in Seq(S) /\ Len(g) = StartBase /\ \A i \in 1..StartBase : g[i] = StartGd[i]
  <2>1. \A k \in 1..StartBase : StartGd[k] \in S
    BY <1>1
  <2>2. /\ g \in Seq(S) /\ Len(g) = (IF 1 <= StartBase THEN StartBase - 1 + 1 ELSE 0)
        /\ \A k \in 1..(StartBase - 1 + 1) : g[k] = StartGd[1 + k - 1]
    BY <1>1, <2>1, SubSeqProperties
  <2>3. QED
    BY <1>1, <2>2
<1> HIDE DEF g
<1>3. IsSequence(g) /\ DOMAIN g = 1..StartBase
  <2>1. g = [i \in 1..StartBase |-> g[i]]
    BY <1>2, LenProperties
  <2>2. QED
    BY <1>1, <2>1, ListFrom
<1>4. /\ RowsAreSound(s.rows) /\ Len(s.rows) <= Len(g) /\ TrueIn(g, s.rows)
      /\ \A i \in DOMAIN g : Linked(g[i]) => ShownIn(s.rows, i, g[i].lop)
  BY <1>3, SnapshotShows
<1>5. Len(s.rows) \in Nat
  BY <1>4, ListIs DEF RowsAreSound
<1> HIDE DEF s
<1>6. /\ Len(s.rows) <= Len(StartGd)
      /\ \A i \in 1..StartBase : Linked(StartGd[i]) => ShownIn(s.rows, i, StartGd[i].lop)
  BY <1>1, <1>2, <1>3, <1>4, <1>5
<1>7. RowsAreSound(s.rows)
  BY <1>4
<1>8. TrueIn(StartGd, s.rows)
  <2> SUFFICES ASSUME NEW k \in DOMAIN s.rows
               PROVE  s.rows[k].gd \in DOMAIN StartGd /\ StartGd[s.rows[k].gd].lop = s.rows[k].lop
    BY DEF TrueIn
  <2>1. s.rows[k].gd \in 1..StartBase /\ g[s.rows[k].gd].lop = s.rows[k].lop
    BY <1>3, <1>4 DEF TrueIn
  <2>2. g[s.rows[k].gd] = StartGd[s.rows[k].gd]
    BY <1>2, <2>1
  <2>3. s.rows[k].gd \in DOMAIN StartGd
    BY <1>1, <2>1
  <2>4. QED
    BY <2>1, <2>2, <2>3
<1>9. QED
  BY <1>6, <1>7, <1>8 DEF s, g

LEMMA ClassStart ==
    ASSUME ClassInit
    PROVE  ClassInv
<1> DEFINE base == Snapshot(SubSeq(StartGd, 1, StartBase), StartRooms)
<1>1. /\ wish \in Wishes /\ gd = StartGd /\ mark = <<>> /\ listed = [gd |-> StartGd, lesson |-> <<>>]
      /\ app = <<>> /\ now = 0 /\ saving = <<>>
      /\ store = [base |-> base, docs |-> [NoDocs EXCEPT !.enrol = StartEnrol]]
      /\ timer = [pc |-> "off", read |-> None] /\ req = [r \in Requests |-> Idle]
      /\ past = [blind |-> {l \in DOMAIN Size : Overfull(gd, l)}, overlap |-> FALSE]
  BY DEF ClassInit
<1>2. /\ RowsAreSound(base.rows) /\ Len(base.rows) <= Len(StartGd)
      /\ \A i \in 1..StartBase : Linked(StartGd[i]) => ShownIn(base.rows, i, StartGd[i].lop)
  BY StartBaseIsSound
<1> HIDE DEF base
<1>3. IsSequence(StartGd) /\ IsSequence(StartEnrol) /\ StartBase \in 0..Len(StartGd)
  BY StartAssumption DEF IsSequence
<1>4. Len(StartGd) \in Nat /\ DOMAIN StartGd = 1..Len(StartGd)
  BY <1>3, ListIs
<1>5. IsSequence(<<>>) /\ DOMAIN <<>> = {} /\ Len(<<>>) = 0
  BY DEF IsSequence
<1>6. \A i \in DOMAIN StartGd :
        /\ {"lop", "pupil", "class", "staff"} \subseteq DOMAIN StartGd[i]
        /\ i > StartBase /\ StartGd[i].pupil /\ StartGd[i].class /\ ~StartGd[i].staff =>
             ShownIn(StartEnrol, i, StartGd[i].lop)
  BY StartAssumption DEF ShownIn
<1>7. GdInv
  BY <1>1, <1>3, <1>4, <1>6 DEF GdInv, GdIsSound
<1>8. \A r \in Requests : DOMAIN req[r] = RequestFields /\ req[r].pc = "idle" /\ req[r].at = 1
  BY <1>1 DEF Idle, RequestFields
<1>9. ReqInv
  <2>1. req = [r \in Requests |-> req[r]]
    BY <1>1
  <2>2. ASSUME NEW r \in Requests PROVE RequestIsSound(r)
    <3>1. \A c : ~Step(r, c)
      BY <1>8 DEF Step
    <3>2. RefIsSound(r)
      BY <3>1 DEF RefIsSound, Holding
    <3>3. QED
      BY <1>8, <3>2 DEF RequestIsSound
  <2>3. QED
    BY <2>1, <2>2 DEF ReqInv
<1>10. store.docs.enrol = StartEnrol
  BY <1>1 DEF NoDocs
<1>11. AppInv
  <2>1. EnrolIsSound(StartEnrol)
    BY <1>3, StartAssumption DEF EnrolIsSound
  <2>2. BaseIsSound(base)
    BY <1>1, <1>2 DEF BaseIsSound
  <2>3. OverIsSound(store.docs.over)
    BY <1>1, <1>5 DEF NoDocs, OverIsSound
  <2>4. DOMAIN store = {"base", "docs"} /\ DOMAIN store.docs = DocNames /\ store.base = base
    BY <1>1 DEF NoDocs, DocNames
  <2>5. ObjectIsSound(store)
    BY <1>2, <1>10, <2>1, <2>2, <2>3, <2>4 DEF ObjectIsSound, Readable
  <2>6. DOMAIN timer = {"pc", "read"} /\ timer.pc \notin {"first", "second"}
    BY <1>1
  <2>7. QED
    BY <1>1, <1>5, <2>5, <2>6 DEF AppInv
<1>12. MarkInv
  BY <1>1, <1>5 DEF MarkInv
<1>13. SizeInv
  <2> SUFFICES ASSUME NEW l \in DOMAIN Size, ~Overfull(gd, l)
               PROVE  NewestIsStored /\ SeatsAreSeen(l) /\ (Size[l] # 0 => SeatsAreLeft(l))
    BY <1>1 DEF SizeInv
  <2>1. Newest = StartEnrol
    BY <1>1, <1>10 DEF Newest
  <2>2. NewestIsStored
    BY <1>1, <1>5, <1>10, <2>1 DEF NewestIsStored
  <2>3. SeatsAreSeen(l)
    <3> SUFFICES ASSUME NEW i \in Seats(gd, l)
                 PROVE  i \in 1..StartBase \/ gd[i].staff \/ ShownIn(Newest, i, l)
      BY DEF SeatsAreSeen
    <3>1. i \in DOMAIN StartGd /\ StartGd[i].lop = l /\ StartGd[i].pupil /\ StartGd[i].class
      BY <1>1 DEF Seats, Linked
    <3>2. i > StartBase \/ i \in 1..StartBase
      BY <1>3, <1>4, <3>1
    <3>3. QED
      BY <1>1, <1>6, <2>1, <3>1, <3>2
  <2>4. Entering(l) = {}
    BY <1>8 DEF Entering, Ahead
  <2>5. ASSUME Size[l] # 0 PROVE Cardinality(Seats(gd, l)) <= Size[l]
    <3>1. IsFiniteSet(1..Len(gd))
      <4>1. 1 \in Int /\ Len(gd) \in Int
        BY <1>1, <1>4
      <4>2. QED
        BY <4>1, FS_Interval
    <3>2. Seats(gd, l) \in SUBSET (1..Len(gd))
      BY <1>1, <1>4 DEF Seats
    <3>3. Cardinality(Seats(gd, l)) \in Nat
      BY <3>1, <3>2, FS_Subset, FS_CardinalityType
    <3>4. QED
      BY <2>5, <3>3, SizeAssumption DEF Overfull
  <2>6. QED
    BY <2>2, <2>3, <2>4, <2>5 DEF SeatsAreLeft
<1>14. wish \subseteq AllWishes /\ DOMAIN past = {"blind", "overlap"}
  BY <1>1 DEF AllWishes
<1>15. QED
  BY <1>7, <1>9, <1>11, <1>12, <1>13, <1>14 DEF ClassInv, ShapeInv

LEMMA ClassStutter ==
    ASSUME ClassInv, UNCHANGED classVars
    PROVE  ClassInv'
<1>1. /\ UNCHANGED <<wish, gd, mark, req>> /\ UNCHANGED <<gd, listed>> /\ UNCHANGED <<appVars, timer>>
      /\ UNCHANGED past /\ UNCHANGED gd
  BY DEF classVars, recordVars
<1>2. ShapeInv /\ Len(gd) \in Nat
  BY ListIs DEF ClassInv, ShapeInv, GdInv, GdIsSound
<1>3. AppInv' /\ AppGrows /\ NewestStays /\ ((app = <<>> => saving = <<>>) => (app = <<>> => saving = <<>>)')
  BY <1>1, <1>2, AppStays
<1>4. GdIsSound(listed.gd)'
  BY <1>1, ListingStays
<1>5. QED
  BY <1>1, <1>3, <1>4, SamePast, BackgroundStep DEF ClassInv, SizeInv

LEMMA ClassStep ==
    ASSUME ClassInv, ClassNext
    PROVE  ClassInv'
<1>1. ASSUME NEW r \in Requests,
             \/ Ask(r) \/ GetAppState(r) \/ LoadSnapshot(r) \/ LoadOverlays(r) \/ OpenRoster(r) \/ Check(r)
             \/ Refused(r) \/ CreateNewcomer(r) \/ CreateEnrolment(r) \/ LinkPupil(r) \/ LinkClass(r) \/ Push(r)
             \/ SetGhiDanhTrangThai(r) \/ NoteState(r) \/ SetLichHoc(r) \/ NoteHour(r)
             \/ UnlinkTeacher(r) \/ LinkTeacher(r) \/ NoteTeacher(r) \/ CreateLop(r) \/ NoteClass(r)
             \/ FindLesson(r) \/ CreateLesson(r) \/ LinkLesson(r) \/ CreateMark(r) \/ LinkMark(r)
             \/ ReadCount(r) \/ WriteCount(r) \/ NoteMark(r) \/ NoteBooking(r)
             \/ CreateHocVien(r) \/ LinkDeal(r)
      PROVE  ClassInv'
  <2>1. CASE Ask(r) \/ GetAppState(r) \/ LoadSnapshot(r) \/ LoadOverlays(r) \/ OpenRoster(r) \/ Check(r)
    BY <2>1, AskKeeps, GetAppStateKeeps, LoadSnapshotKeeps, LoadOverlaysKeeps, OpenRosterKeeps, CheckKeeps, Zenon
  <2>2. CASE Refused(r) \/ CreateNewcomer(r) \/ CreateHocVien(r) \/ LinkDeal(r)
    BY <2>2, RefusedKeeps, HocVienCalls, Zenon
  <2>3. CASE CreateEnrolment(r) \/ LinkPupil(r) \/ LinkClass(r) \/ Push(r)
    BY <2>3, CreateEnrolmentKeeps, LinkPupilKeeps, LinkClassKeeps, PushKeeps, Zenon
  <2>4. CASE SetGhiDanhTrangThai(r) \/ WriteCount(r) \/ CreateMark(r) \/ LinkMark(r)
    BY <2>4, StateAndCountKeep, MarkCallsKeep, Zenon
  <2>5. CASE SetLichHoc(r) \/ UnlinkTeacher(r) \/ LinkTeacher(r) \/ CreateLop(r)
    BY <2>5, RoomCalls, Zenon
  <2>6. CASE FindLesson(r) \/ CreateLesson(r) \/ LinkLesson(r) \/ ReadCount(r)
    BY <2>6, LessonCalls, Zenon
  <2>7. CASE NoteState(r) \/ NoteHour(r) \/ NoteTeacher(r) \/ NoteClass(r) \/ NoteMark(r) \/ NoteBooking(r)
    BY <2>7, NotesKeep, Zenon
  <2>8. QED
    BY <1>1, <2>1, <2>2, <2>3, <2>4, <2>5, <2>6, <2>7, Zenon
<1>2. CASE SearchCatchesUp \/ Save \/ Webhook \/ ResyncReads \/ ResyncStores \/ RestartApp
  BY <1>2, SearchCatchesUpKeeps, SaveKeeps, TimerKeeps, ResyncStoresKeeps, RestartAppKeeps, Zenon
<1>3. QED
  BY <1>1, <1>2, Zenon DEF ClassNext

\* The records, the objects of the app and its requests fit each other throughout, every
\* seat of a class is either shown by the newest object or known to be missing there.
THEOREM ClassesAreSound == ClassSpec => []ClassInv
<1>1. ClassInit => ClassInv
  BY ClassStart
<1>2. ClassInv /\ [ClassNext]_classVars => ClassInv'
  BY ClassStep, ClassStutter
<1>3. QED
  BY <1>1, <1>2, PTL DEF ClassSpec

\* server.mjs:526 and 582: the app never puts more students into a class than it holds, for
\* any number of requests, classes and enrolments, but for what the property excuses.
THEOREM ClassKeepsToItsSizeHolds == ClassSpec => []ClassKeepsToItsSize
<1>1. ClassInv => ClassKeepsToItsSize
  <2> SUFFICES ASSUME ClassInv, NEW l \in DOMAIN Size, l \notin past.blind, Size[l] # 0
               PROVE  ~(Cardinality(Attended(gd, l)) > Size[l])
    BY DEF ClassKeepsToItsSize
  <2>1. Cardinality(Seats(gd, l)) <= Size[l]
    BY DEF ClassInv, SizeInv, SeatsAreLeft
  <2>2. Len(gd) \in Nat /\ DOMAIN gd = 1..Len(gd)
    BY ListIs DEF ClassInv, ShapeInv, GdInv, GdIsSound
  <2>3. IsFiniteSet(1..Len(gd))
    <3>1. 1 \in Int /\ Len(gd) \in Int
      BY <2>2
    <3>2. QED
      BY <3>1, FS_Interval
  <2>4. Seats(gd, l) \in SUBSET (1..Len(gd)) /\ Attended(gd, l) \in SUBSET Seats(gd, l)
    BY <2>2 DEF Seats, Attended
  <2>5. IsFiniteSet(Seats(gd, l))
    BY <2>3, <2>4, FS_Subset
  <2>6. /\ IsFiniteSet(Attended(gd, l)) /\ Cardinality(Attended(gd, l)) <= Cardinality(Seats(gd, l))
        /\ Cardinality(Attended(gd, l)) \in Nat /\ Cardinality(Seats(gd, l)) \in Nat
    BY <2>4, <2>5, FS_Subset, FS_CardinalityType
  <2>7. QED
    BY <2>1, <2>6, SizeAssumption
<1>2. QED
  BY <1>1, ClassesAreSound, PTL

------------------------------------------------------------------------------
\* Rows show the class an enrolment has, wherever they are kept

InClass(g, i, l) == i \in DOMAIN g /\ g[i].lop = l

\* What the index lists, the snapshots and the overlays have.
IndexIsTrue   == \A i \in DOMAIN listed.gd : InClass(gd, i, listed.gd[i].lop)
ObjectsAreTrue ==
    /\ \A a \in DOMAIN app : TrueIn(gd, app[a].base.rows) /\ TrueIn(gd, app[a].docs.enrol)
    /\ TrueIn(gd, store.base.rows) /\ TrueIn(gd, store.docs.enrol)
SavesAreTrue  == \A i \in DOMAIN saving : saving[i].doc = "enrol" => TrueIn(gd, saving[i].value)
TimerIsTrue   == timer.pc \in {"first", "second"} => TrueIn(gd, timer.read.rows)

\* What a request read, and the enrolment it is going to write a mark for.
ReadIsTrue(r) == req[r].pc \in {"pageLoad", "load"} => TrueIn(gd, req[r].got.rows)
IdIsTrue(r)   ==
    Few /\ Ahead(r, "newMark") /\ req[r].q.op = "attend" /\ req[r].page = req[r].app =>
        InClass(gd, req[r].id, req[r].q.lop)

MarksAreTrue  == Few => \A i \in DOMAIN mark : mark[i].own => InClass(gd, mark[i].gd, mark[i].of[1])

TrueInv ==
    /\ IndexIsTrue /\ ObjectsAreTrue /\ SavesAreTrue /\ TimerIsTrue
    /\ \A r \in Requests : ReadIsTrue(r) /\ IdIsTrue(r)
    /\ MarksAreTrue

\* Enrolments stay where they are and in their class.
ClassesStay == \A i \in DOMAIN gd : InClass(gd', i, gd[i].lop)

LEMMA TruthStays ==
    ASSUME ClassInv, ClassInv', ClassesStay
    PROVE  /\ \A rows : TrueIn(gd, rows) => TrueIn(gd', rows)
           /\ \A i, l : InClass(gd, i, l) => InClass(gd', i, l)
           /\ Few' => Few
<1>1. /\ Len(gd) \in Nat /\ DOMAIN gd = 1..Len(gd)
      /\ Len(gd') \in Nat /\ DOMAIN gd' = 1..Len(gd')
  BY ListIs DEF ClassInv, ShapeInv, GdInv, GdIsSound
<1>2. Len(gd) <= Len(gd')
  <2>1. CASE Len(gd) = 0
    BY <1>1, <2>1
  <2>2. CASE Len(gd) # 0
    <3>1. Len(gd) \in DOMAIN gd
      BY <1>1, <2>2
    <3>2. Len(gd) \in 1..Len(gd')
      BY <1>1, <3>1 DEF ClassesStay, InClass
    <3>3. QED
      BY <1>1, <3>2
  <2>3. QED
    BY <2>1, <2>2
<1>3. Few' => Few
  BY <1>1, <1>2 DEF Few
<1>4. \A i, l : InClass(gd, i, l) => InClass(gd', i, l)
  BY DEF ClassesStay, InClass
<1>5. \A rows : TrueIn(gd, rows) => TrueIn(gd', rows)
  BY <1>4 DEF TrueIn, InClass
<1>6. QED
  BY <1>3, <1>4, <1>5

\* What one request knows is as true as it was.
Knows(p) ==
    \/ req'[p] = req[p]
    \/ /\ req'[p].pc \notin {"pageLoad", "load"}
       /\ req'[p].pc = "calls" =>
            /\ req[p].pc = "calls" /\ req'[p].q = req[p].q /\ req'[p].at >= req[p].at
            /\ req'[p].app = req[p].app /\ req'[p].page = req[p].page /\ req'[p].id = req[p].id

LEMMA KnowledgeStays ==
    ASSUME ClassInv, ClassInv', TrueInv, ClassesStay, NEW p \in Requests, Knows(p)
    PROVE  ReadIsTrue(p)' /\ IdIsTrue(p)'
<1>1. ReqInv /\ ReqInv'
  BY DEF ClassInv, ShapeInv
<1>2. ReadIsTrue(p) /\ IdIsTrue(p)
  BY DEF TrueInv
<1>3. ReadIsTrue(p)'
  BY <1>2, TruthStays DEF Knows, ReadIsTrue
<1>4. IdIsTrue(p)'
  <2> SUFFICES ASSUME Few', Ahead(p, "newMark")', req'[p].q.op = "attend", req'[p].page = req'[p].app
               PROVE  InClass(gd', req'[p].id, req'[p].q.lop)
    BY DEF IdIsTrue
  <2>1. CASE req'[p] = req[p]
    <3>1. Ahead(p, "newMark")
      BY <2>1 DEF Ahead
    <3>2. QED
      BY <1>2, <2>1, <3>1, TruthStays DEF IdIsTrue
  <2>2. CASE /\ req'[p].pc = "calls" =>
                  /\ req[p].pc = "calls" /\ req'[p].q = req[p].q /\ req'[p].at >= req[p].at
                  /\ req'[p].app = req[p].app /\ req'[p].page = req[p].page /\ req'[p].id = req[p].id
    <3>1. req'[p].pc = "calls"
      BY DEF Ahead
    <3>2. Ahead(p, "newMark") /\ req'[p].q = req[p].q
      BY <1>1, <2>2, AheadBefore
    <3>3. req'[p].app = req[p].app /\ req'[p].page = req[p].page /\ req'[p].id = req[p].id
      BY <2>2, <3>1
    <3>4. QED
      BY <1>2, <3>2, <3>3, TruthStays DEF IdIsTrue
  <2>3. QED
    BY <2>1, <2>2 DEF Knows
<1>5. QED
  BY <1>3, <1>4

\* The call a request is at, whichever it is.
LEMMA CallKnows ==
    ASSUME ClassInv, NEW r \in Requests, req[r].pc = "calls", GoesOn(r), NEW p \in Requests
    PROVE  Knows(p)
<1>1. PICK c : c = Calls[req[r].q.op][req[r].at]
  OBVIOUS
<1>2. ShapeInv /\ Step(r, c)
  BY <1>1 DEF ClassInv, Step
<1>3. req = [q \in Requests |-> req[q]]
  BY <1>2 DEF ShapeInv, ReqInv
<1>4. CASE p # r
  BY <1>2, <1>3, <1>4, CallMoves DEF Knows
<1>5. CASE p = r
  <2>1. req'[r] = [Idle EXCEPT !.pc = "done"] => req'[r].pc = "done"
    BY DEF Idle
  <2>2. QED
    BY <1>2, <1>5, <2>1, CallMoves DEF Knows
<1>6. QED
  BY <1>4, <1>5

RowsRemain == UNCHANGED <<listed, app, store, saving, timer>>

LEMMA RowsStay ==
    ASSUME ClassInv, ClassInv', TrueInv, ClassesStay, RowsRemain
    PROVE  (IndexIsTrue /\ ObjectsAreTrue /\ SavesAreTrue /\ TimerIsTrue)'
<1>1. /\ listed' = listed /\ app' = app /\ store' = store /\ saving' = saving /\ timer' = timer
  BY DEF RowsRemain
<1>2. IndexIsTrue /\ ObjectsAreTrue /\ SavesAreTrue /\ TimerIsTrue
  BY DEF TrueInv
<1>3. IndexIsTrue'
  BY <1>1, <1>2, TruthStays DEF IndexIsTrue
<1>4. ObjectsAreTrue'
  BY <1>1, <1>2, TruthStays DEF ObjectsAreTrue
<1>5. SavesAreTrue'
  BY <1>1, <1>2, TruthStays DEF SavesAreTrue
<1>6. TimerIsTrue'
  BY <1>1, <1>2, TruthStays DEF TimerIsTrue
<1>7. QED
  BY <1>3, <1>4, <1>5, <1>6

\* Records keep the enrolment and the lesson that they are of.
MarksRemain == /\ DOMAIN mark' = DOMAIN mark
               /\ \A i \in DOMAIN mark : /\ mark'[i].own <=> mark[i].own
                                         /\ mark'[i].gd = mark[i].gd /\ mark'[i].of = mark[i].of

LEMMA MarksStayTrue ==
    ASSUME ClassInv, ClassInv', TrueInv, ClassesStay, MarksRemain
    PROVE  MarksAreTrue'
<1> SUFFICES ASSUME Few', NEW i \in DOMAIN mark', mark'[i].own
             PROVE  InClass(gd', mark'[i].gd, mark'[i].of[1])
  BY DEF MarksAreTrue
<1>1. i \in DOMAIN mark /\ mark[i].own /\ mark'[i].gd = mark[i].gd /\ mark'[i].of = mark[i].of
  BY DEF MarksRemain
<1>2. InClass(gd, mark[i].gd, mark[i].of[1])
  BY <1>1, TruthStays DEF TrueInv, MarksAreTrue
<1>3. QED
  BY <1>1, <1>2, TruthStays

\* A step of which only requests and the classes' enrolments know anything.
LEMMA KnowingStep ==
    ASSUME ClassInv, ClassInv', TrueInv, ClassesStay, RowsRemain, MarksRemain, \A p \in Requests : Knows(p)
    PROVE  TrueInv'
  BY RowsStay, MarksStayTrue, KnowledgeStays DEF TrueInv

LEMMA NothingChanges ==
    ASSUME UNCHANGED <<gd, mark>>
    PROVE  (ClassInv => ClassesStay) /\ MarksRemain
  BY DEF ClassesStay, InClass, MarksRemain

\* A field other than the class of an enrolment changes.
LEMMA FieldStays ==
    ASSUME ClassInv, NEW i, NEW x,
           \/ gd' = [gd EXCEPT ![i].pupil = x] \/ gd' = [gd EXCEPT ![i].class = x]
           \/ gd' = [gd EXCEPT ![i].st = x]    \/ gd' = [gd EXCEPT ![i].done = x]
    PROVE  ClassesStay
<1>1. \A k \in DOMAIN gd : "lop" \in DOMAIN gd[k]
  BY DEF ClassInv, ShapeInv, GdInv, GdIsSound
<1>2. \A k \in DOMAIN gd : k \in DOMAIN gd' /\ gd'[k].lop = gd[k].lop
  <2>1. CASE gd' = [gd EXCEPT ![i].pupil = x]
    BY <1>1, <2>1
  <2>2. CASE gd' = [gd EXCEPT ![i].class = x]
    BY <1>1, <2>2
  <2>3. CASE gd' = [gd EXCEPT ![i].st = x]
    BY <1>1, <2>3
  <2>4. CASE gd' = [gd EXCEPT ![i].done = x]
    BY <1>1, <2>4
  <2>5. QED
    BY <2>1, <2>2, <2>3, <2>4
<1>3. QED
  BY <1>2 DEF ClassesStay, InClass

LEMMA AppendStays ==
    ASSUME ClassInv, NEW x, gd' = Append(gd, x)
    PROVE  ClassesStay
<1>1. IsSequence(gd)
  BY DEF ClassInv, ShapeInv, GdInv, GdIsSound
<1>2. QED
  BY <1>1, ListGrows DEF ClassesStay, InClass

------------------------------------------------------------------------------
\* Calls to HighLevel

\* Of a call only the enrolments and the records may change.
LEMMA CallIsTrue ==
    ASSUME ClassInv, ClassInv', TrueInv, NEW r \in Requests, req[r].pc = "calls", GoesOn(r),
           ClassesStay, RowsRemain, MarksRemain
    PROVE  TrueInv'
  BY CallKnows, KnowingStep

LEMMA OutsideCallsAreTrue ==
    ASSUME ClassInv, ClassInv', TrueInv, NEW r \in Requests,
           \/ CreateNewcomer(r) \/ CreateHocVien(r) \/ LinkDeal(r)
           \/ SetLichHoc(r) \/ UnlinkTeacher(r) \/ LinkTeacher(r) \/ CreateLop(r)
           \/ FindLesson(r) \/ CreateLesson(r) \/ LinkLesson(r) \/ ReadCount(r) \/ Refused(r)
    PROVE  TrueInv'
<1>0. ShapeInv
  BY DEF ClassInv
<1>1. req[r].pc = "calls" /\ GoesOn(r) /\ UNCHANGED <<gd, mark>> /\ RowsRemain
  <2> USE DEF RowsRemain, recordVars, appVars
  <2>1. CASE CreateNewcomer(r) \/ CreateHocVien(r)
    <3>1. req[r].pc = "calls" /\ UNCHANGED <<gd, mark>> /\ RowsRemain /\ \E ref : Answer(r, ref)
      BY <2>1, Zenon DEF CreateNewcomer, CreateHocVien, Step
    <3>2. QED
      BY <1>0, <3>1, AnswerGoesOn
  <2>2. CASE LinkDeal(r)
    <3>1. req[r].pc = "calls" /\ UNCHANGED <<gd, mark>> /\ RowsRemain /\ After(r, 1, req[r].ref)
      BY <2>2, Zenon DEF LinkDeal, Step
    <3>2. QED
      BY <3>1, AfterGoesOn
  <2>3. CASE SetLichHoc(r) \/ LinkTeacher(r) \/ CreateLop(r)
    <3>1. /\ req[r].pc = "calls" /\ UNCHANGED <<gd, mark>> /\ RowsRemain
          /\ End(r) \/ Answer(r, req[r].ref)
      BY <2>3, Zenon DEF SetLichHoc, LinkTeacher, CreateLop, Step
    <3>2. QED
      BY <1>0, <3>1, AnswerGoesOn, EndGoesOn
  <2>4. CASE UnlinkTeacher(r)
    <3>1. /\ req[r].pc = "calls" /\ UNCHANGED <<gd, mark>> /\ RowsRemain
          /\ End(r) \/ After(r, 1, req[r].ref)
      BY <2>4, Zenon DEF UnlinkTeacher, Step
    <3>2. QED
      BY <3>1, AfterGoesOn, EndGoesOn
  <2>5. CASE FindLesson(r)
    <3>1. /\ Step(r, "find") /\ UNCHANGED <<gd, mark>> /\ RowsRemain
          /\ Fails(r) \/ After(r, 3, req[r].ref) \/ After(r, 1, req[r].ref)
      BY <2>5, Zenon DEF FindLesson
    <3>2. req[r].pc = "calls"
      BY <3>1 DEF Step
    <3>3. QED
      BY <3>1, <3>2, AfterGoesOn, FailsGoesOn
  <2>6. CASE CreateLesson(r) \/ LinkLesson(r)
    <3>1. req[r].pc = "calls" /\ UNCHANGED <<gd, mark>> /\ RowsRemain /\ \E ref : Answer(r, ref)
      BY <2>6, Zenon DEF CreateLesson, LinkLesson, Step
    <3>2. QED
      BY <1>0, <3>1, AnswerGoesOn
  <2>7. CASE ReadCount(r)
    <3>1. req[r].pc = "calls" /\ UNCHANGED <<gd, mark>> /\ RowsRemain /\ After(r, 1, gd[req[r].id].done)
      BY <2>7, Zenon DEF ReadCount, Step
    <3>2. QED
      BY <3>1, AfterGoesOn
  <2>8. CASE Refused(r)
    <3>1. /\ req[r].pc = "calls" /\ UNCHANGED <<gd, mark>> /\ RowsRemain
          /\ \/ Step(r, "count") /\ After(r, 2, req[r].ref)
             \/ After(r, 1, req[r].ref)
             \/ Fails(r)
      BY <2>8, Zenon DEF Refused
    <3>2. QED
      BY <3>1, AfterGoesOn, FailsGoesOn
  <2>9. QED
    BY <2>1, <2>2, <2>3, <2>4, <2>5, <2>6, <2>7, <2>8
<1>2. QED
  BY <1>1, NothingChanges, CallIsTrue

LEMMA EnrolmentCallsAreTrue ==
    ASSUME ClassInv, ClassInv', TrueInv, NEW r \in Requests,
           CreateEnrolment(r) \/ LinkPupil(r) \/ LinkClass(r) \/ SetGhiDanhTrangThai(r) \/ WriteCount(r)
    PROVE  TrueInv'
<1>0. ShapeInv
  BY DEF ClassInv
<1> USE DEF RowsRemain, appVars
<1>1. CASE CreateEnrolment(r)
  <2>1. /\ req[r].pc = "calls" /\ UNCHANGED mark /\ RowsRemain
        /\ \/ End(r) /\ UNCHANGED gd
           \/ Answer(r, Len(gd) + 1) /\ \E x : gd' = Append(gd, x)
    BY <1>1, Zenon DEF CreateEnrolment, Step
  <2>2. ClassesStay /\ MarksRemain
    BY <2>1, AppendStays, NothingChanges DEF ClassesStay, InClass, MarksRemain
  <2>3. GoesOn(r)
    BY <1>0, <2>1, AnswerGoesOn, EndGoesOn
  <2>4. QED
    BY <2>1, <2>2, <2>3, CallIsTrue
<1>2. CASE LinkPupil(r) \/ LinkClass(r)
  <2>1. /\ req[r].pc = "calls" /\ UNCHANGED mark /\ RowsRemain
        /\ After(r, 1, req[r].ref) \/ Answer(r, req[r].ref)
        /\ gd' = [gd EXCEPT ![req[r].ref].pupil = TRUE] \/ gd' = [gd EXCEPT ![req[r].ref].class = TRUE]
    BY <1>2, Zenon DEF LinkPupil, LinkClass, Step
  <2>2. ClassesStay /\ MarksRemain
    BY <2>1, FieldStays DEF MarksRemain
  <2>3. GoesOn(r)
    BY <1>0, <2>1, AnswerGoesOn, AfterGoesOn
  <2>4. QED
    BY <2>1, <2>2, <2>3, CallIsTrue
<1>3. CASE SetGhiDanhTrangThai(r)
  <2>1. /\ req[r].pc = "calls" /\ UNCHANGED mark /\ RowsRemain
        /\ \/ End(r) /\ UNCHANGED gd
           \/ Answer(r, req[r].ref) /\ gd' = [gd EXCEPT ![req[r].id].st = State(req[r].q)]
    BY <1>3, Zenon DEF SetGhiDanhTrangThai, Step
  <2>2. ClassesStay /\ MarksRemain
    BY <2>1, FieldStays DEF ClassesStay, InClass, MarksRemain
  <2>3. GoesOn(r)
    BY <1>0, <2>1, AnswerGoesOn, EndGoesOn
  <2>4. QED
    BY <2>1, <2>2, <2>3, CallIsTrue
<1>4. CASE WriteCount(r)
  <2>1. /\ req[r].pc = "calls" /\ UNCHANGED mark /\ RowsRemain /\ After(r, 1, req[r].ref)
        /\ gd' = [gd EXCEPT ![req[r].id].done = req[r].ref + 1]
    BY <1>4, Zenon DEF WriteCount, Step
  <2>2. ClassesStay /\ MarksRemain
    BY <2>1, FieldStays DEF MarksRemain
  <2>3. GoesOn(r)
    BY <2>1, AfterGoesOn
  <2>4. QED
    BY <2>1, <2>2, <2>3, CallIsTrue
<1>5. QED
  BY <1>1, <1>2, <1>3, <1>4

\* A record is of the enrolment that the request was to write it for.
LEMMA CreateMarkIsTrue ==
    ASSUME ClassInv, ClassInv', TrueInv, NEW r \in Requests, CreateMark(r)
    PROVE  TrueInv'
<1> DEFINE m == [gd |-> req[r].id, of |-> <<req[r].q.lop, req[r].q.day>>, linked |-> FALSE,
                 own |-> req[r].q.op = "attend" /\ req[r].page = req[r].app]
<1>1. /\ Step(r, "newMark") /\ mark' = Append(mark, m) /\ Answer(r, Len(mark) + 1)
      /\ UNCHANGED gd /\ RowsRemain
  BY DEF CreateMark, RowsRemain, appVars
<1>2. m.gd = req[r].id /\ m.of[1] = req[r].q.lop /\ (m.own <=> req[r].q.op = "attend" /\ req[r].page = req[r].app)
  OBVIOUS
<1> HIDE DEF m
<1>3. ShapeInv /\ IsSequence(mark) /\ req[r].pc = "calls"
  BY <1>1 DEF ClassInv, MarkInv, Step
<1>4. GoesOn(r) /\ ClassesStay
  BY <1>1, <1>3, AnswerGoesOn DEF ClassesStay, InClass
<1>5. \A p \in Requests : Knows(p)
  BY <1>3, <1>4, CallKnows
<1>6. Ahead(r, "newMark")
  <2>1. req[r].at \in CallsOf(req[r].q.op) /\ req[r].q.op \in DOMAIN Calls
    BY <1>1, <1>3, <1>4, CallMoves
  <2>2. req[r].at \in req[r].at..Len(Calls[req[r].q.op])
    BY <2>1, CallsFollow DEF CallsOf
  <2>3. QED
    BY <1>1, <2>2 DEF Step, Ahead
<1>7. MarksAreTrue'
  <2> SUFFICES ASSUME Few', NEW i \in DOMAIN mark', mark'[i].own
               PROVE  InClass(gd, mark'[i].gd, mark'[i].of[1])
    BY <1>1 DEF MarksAreTrue, InClass
  <2>1. Few
    BY <1>1 DEF Few
  <2>2. CASE i \in DOMAIN mark
    <3>1. mark'[i] = mark[i]
      BY <1>1, <1>3, <2>2, ListGrows
    <3>2. QED
      BY <2>1, <2>2, <3>1 DEF TrueInv, MarksAreTrue
  <2>3. CASE i = Len(mark) + 1
    <3>1. mark'[i] = m
      BY <1>1, <1>3, <2>3, ListGrows
    <3>2. IdIsTrue(r)
      BY DEF TrueInv
    <3>3. QED
      BY <1>2, <1>6, <2>1, <3>1, <3>2 DEF IdIsTrue
  <2>4. QED
    BY <1>1, <1>3, <2>2, <2>3, ListGrows
<1>8. QED
  BY <1>1, <1>4, <1>5, <1>7, RowsStay, KnowledgeStays DEF TrueInv

LEMMA LinkMarkIsTrue ==
    ASSUME ClassInv, ClassInv', TrueInv, NEW r \in Requests, LinkMark(r)
    PROVE  TrueInv'
<1>1. /\ req[r].pc = "calls" /\ mark' = [mark EXCEPT ![req[r].ref].linked = TRUE] /\ Answer(r, req[r].ref)
      /\ UNCHANGED gd /\ RowsRemain
  BY Zenon DEF LinkMark, RowsRemain, appVars, Step
<1>2. \A i \in DOMAIN mark : {"gd", "of", "linked", "own"} \subseteq DOMAIN mark[i]
  BY DEF ClassInv, MarkInv
<1>3. MarksRemain
  BY <1>1, <1>2 DEF MarksRemain
<1>4. GoesOn(r) /\ ClassesStay
  BY <1>1, AnswerGoesOn DEF ClassesStay, InClass, ClassInv
<1>5. QED
  BY <1>1, <1>3, <1>4, CallIsTrue

------------------------------------------------------------------------------
\* The app's own documents

\* Rows of an overlay change only where the enrolments' rows do.
LEMMA DocumentIsTrue ==
    ASSUME ClassInv, TrueInv, UNCHANGED gd, NEW a \in DOMAIN app, NEW doc \in DocNames, NEW value,
           Keep(a, doc, value), doc = "enrol" => TrueIn(gd, value)
    PROVE  (ObjectsAreTrue /\ SavesAreTrue)'
<1> DEFINE new  == [app[a] EXCEPT !.docs[doc] = value]
           save == [doc |-> doc, value |-> value]
<1>1. app' = [app EXCEPT ![a].docs[doc] = value] /\ saving' = Append(saving, save) /\ UNCHANGED store
  BY DEF Keep
<1>2. IsSequence(app) /\ IsSequence(saving) /\ ObjectIsSound(app[a])
  BY DEF ClassInv, ShapeInv, AppInv
<1>3. app' = [app EXCEPT ![a] = new]
  BY <1>1
<1>4. /\ new.base = app[a].base
      /\ new.docs[doc] = value /\ \A d \in DocNames : d # doc => new.docs[d] = app[a].docs[d]
  BY <1>2 DEF ObjectIsSound
<1> HIDE DEF new
<1>5. DOMAIN app' = DOMAIN app /\ app'[a] = new /\ \A b \in DOMAIN app : b # a => app'[b] = app[b]
  BY <1>2, <1>3 DEF IsSequence
<1>6. TrueIn(gd, new.base.rows) /\ TrueIn(gd, new.docs.enrol)
  BY <1>4 DEF DocNames, TrueInv, ObjectsAreTrue
<1>7. ObjectsAreTrue'
  <2>1. \A b \in DOMAIN app' : TrueIn(gd, app'[b].base.rows) /\ TrueIn(gd, app'[b].docs.enrol)
    BY <1>5, <1>6 DEF TrueInv, ObjectsAreTrue
  <2>2. QED
    BY <1>1, <2>1 DEF TrueInv, ObjectsAreTrue
<1>8. SavesAreTrue'
  <2>1. /\ \A i \in DOMAIN saving : saving'[i] = saving[i]
        /\ \A i \in DOMAIN saving' : i \in DOMAIN saving \/ saving'[i] = save
    BY <1>1, <1>2, ListGrows
  <2>2. QED
    BY <2>1 DEF TrueInv, SavesAreTrue
<1>9. QED
  BY <1>7, <1>8

\* A request that stores a document goes on with what it knew.
LEMMA NoteIsTrue ==
    ASSUME ClassInv, ClassInv', TrueInv, UNCHANGED <<recordVars, timer>>,
           NEW r \in Requests, NEW c \in AppSide, Step(r, c), After(r, 1, req[r].ref),
           NEW doc \in DocNames, NEW value, Keep(req[r].app, doc, value), doc = "enrol" => TrueIn(gd, value)
    PROVE  TrueInv'
<1>1. ShapeInv /\ req[r].pc = "calls"
  BY DEF ClassInv, Step
<1>2. req[r].app \in DOMAIN app /\ GoesOn(r)
  BY <1>1, NotesInObject
<1>3. UNCHANGED <<gd, mark>> /\ UNCHANGED gd /\ UNCHANGED listed /\ UNCHANGED timer
  BY DEF recordVars
<1>4. (ObjectsAreTrue /\ SavesAreTrue)'
  BY <1>2, <1>3, DocumentIsTrue
<1>5. (IndexIsTrue /\ TimerIsTrue)'
  BY <1>3 DEF TrueInv, IndexIsTrue, TimerIsTrue, InClass, TrueIn
<1>6. ClassesStay /\ MarksRemain
  BY <1>3, NothingChanges
<1>7. \A p \in Requests : Knows(p)
  BY <1>1, <1>2, CallKnows
<1>8. QED
  BY <1>4, <1>5, <1>6, <1>7, MarksStayTrue, KnowledgeStays DEF TrueInv

LEMMA DocumentCallsAreTrue ==
    ASSUME ClassInv, ClassInv', TrueInv, NEW r \in Requests,
           \/ Push(r)
           \/ NoteState(r) \/ NoteHour(r) \/ NoteTeacher(r) \/ NoteClass(r) \/ NoteMark(r) \/ NoteBooking(r)
    PROVE  TrueInv'
<1>1. CASE Push(r)
  <2> DEFINE q   == req[r].q
             a   == req[r].app
             old == app[a].docs.enrol
             row == [n |-> NextEnrollN(app[a], q.lop), gd |-> req[r].ref, hv |-> q.hv, lop |-> q.lop, st |-> "dang_hoc"]
  <2>1. /\ Step(r, "push") /\ Keep(a, "enrol", Append(old, row)) /\ After(r, 1, req[r].ref)
        /\ UNCHANGED <<recordVars, timer>>
    BY <1>1 DEF Push
  <2>2. InClass(gd, row.gd, row.lop)
    BY <2>1, HeldEnrolment DEF Holding, InClass
  <2>3. a \in DOMAIN app /\ "push" \in AppSide /\ "enrol" \in DocNames
    BY <2>1, NotesInObject DEF AppSide, DocNames, ClassInv
  <2>4. IsSequence(old) /\ TrueIn(gd, old)
    BY <2>3 DEF ClassInv, ShapeInv, AppInv, ObjectIsSound, Readable, EnrolIsSound, TrueInv, ObjectsAreTrue
  <2> HIDE DEF row, old
  <2>5. TrueIn(gd, Append(old, row))
    <3>1. \A k \in DOMAIN Append(old, row) :
            (k \in DOMAIN old /\ Append(old, row)[k] = old[k]) \/ Append(old, row)[k] = row
      BY <2>4, ListGrows
    <3>2. QED
      BY <2>2, <2>4, <3>1 DEF TrueIn, InClass
  <2>6. QED
    BY <2>1, <2>3, <2>5, NoteIsTrue
<1>2. CASE NoteState(r) \/ NoteHour(r) \/ NoteTeacher(r) \/ NoteClass(r) \/ NoteMark(r) \/ NoteBooking(r)
  <2>1. UNCHANGED <<recordVars, timer>> /\ After(r, 1, req[r].ref)
    BY <1>2 DEF NoteState, NoteHour, NoteTeacher, NoteClass, NoteMark, NoteBooking
  <2>2. \E c \in AppSide, doc \in DocNames \ {"enrol"} : \E value : Step(r, c) /\ Keep(req[r].app, doc, value)
    <3>1. /\ {"note", "noteHour", "noteTeacher", "noteClass", "noteMark", "noteBooking"} \subseteq AppSide
          /\ {"over", "lops", "made", "marks", "booked"} \subseteq DocNames \ {"enrol"}
      BY DEF AppSide, DocNames
    <3>2. \E c \in {"note", "noteHour", "noteTeacher", "noteClass", "noteMark", "noteBooking"} :
            \E doc \in {"over", "lops", "made", "marks", "booked"} :
              \E value : Step(r, c) /\ Keep(req[r].app, doc, value)
      <4>1. CASE NoteState(r)
        BY <4>1, Zenon DEF NoteState
      <4>2. CASE NoteHour(r)
        BY <4>2, Zenon DEF NoteHour
      <4>3. CASE NoteTeacher(r)
        BY <4>3, Zenon DEF NoteTeacher
      <4>4. CASE NoteClass(r)
        BY <4>4, Zenon DEF NoteClass
      <4>5. CASE NoteMark(r)
        BY <4>5, Zenon DEF NoteMark
      <4>6. CASE NoteBooking(r)
        BY <4>6, Zenon DEF NoteBooking
      <4>7. QED
        BY <1>2, <4>1, <4>2, <4>3, <4>4, <4>5, <4>6
    <3>3. QED
      BY <3>1, <3>2
  <2>3. PICK c \in AppSide, doc \in DocNames \ {"enrol"} : \E value : Step(r, c) /\ Keep(req[r].app, doc, value)
    BY <2>2
  <2>4. PICK value : Step(r, c) /\ Keep(req[r].app, doc, value)
    BY <2>3
  <2>5. doc \in DocNames /\ doc # "enrol"
    BY <2>3
  <2>6. QED
    BY <2>1, <2>4, <2>5, NoteIsTrue
<1>3. QED
  BY <1>1, <1>2

------------------------------------------------------------------------------
\* Before the calls

\* What an object shows of a student is so.
LEMMA StudentsAreTrue ==
    ASSUME NEW a, Readable(a), TrueIn(gd, a.base.rows), TrueIn(gd, a.docs.enrol), NEW k \in DOMAIN AllStudents(a)
    PROVE  InClass(gd, AllStudents(a)[k].gd, AllStudents(a)[k].lop)
<1> DEFINE b == a.base.rows
           e == a.docs.enrol
           s == AllStudents(a)
<1>1. StudentsShow(a) /\ IsSequence(b) /\ IsSequence(e)
  BY StudentsAre DEF Readable, RowsAreSound, EnrolIsSound
<1>2. /\ DOMAIN s = 1..(Len(b) + Len(e)) /\ Len(b) \in Nat /\ Len(e) \in Nat
      /\ DOMAIN b = 1..Len(b) /\ DOMAIN e = 1..Len(e)
  BY <1>1 DEF StudentsShow
<1>3. \A i \in 1..(Len(b) + Len(e)) : s[i].gd = (b \o e)[i].gd /\ s[i].lop = (b \o e)[i].lop
  BY <1>1 DEF StudentsShow
<1>4. TrueIn(gd, b) /\ TrueIn(gd, e) /\ k \in DOMAIN s
  OBVIOUS
<1> HIDE DEF b, e, s
<1>5. (\E i \in DOMAIN b : (b \o e)[k] = b[i]) \/ (\E i \in DOMAIN e : (b \o e)[k] = e[i])
  <2>1. CASE k <= Len(b)
    <3>1. k \in DOMAIN b
      BY <1>2, <1>4, <2>1
    <3>2. QED
      BY <1>1, <3>1, ListsJoin
  <2>2. CASE ~(k <= Len(b))
    <3> DEFINE i == k - Len(b)
    <3>1. i \in 1..Len(e) /\ Len(b) + i = k
      BY <1>2, <1>4, <2>2
    <3> HIDE DEF i
    <3>2. \A m \in 1..Len(e) : (b \o e)[Len(b) + m] = e[m]
      BY <1>1, ListsJoin
    <3>3. QED
      BY <1>2, <3>1, <3>2
  <2>3. QED
    BY <2>1, <2>2
<1>6. QED
  BY <1>2, <1>3, <1>4, <1>5 DEF TrueIn, InClass, s

\* Nothing but the request itself has changed: what it knows must be so.
LEMMA WaitIsTrue ==
    ASSUME ClassInv, ClassInv', TrueInv, NEW r \in Requests, req' = [req EXCEPT ![r] = req'[r]],
           UNCHANGED <<gd, mark>>, RowsRemain, (ReadIsTrue(r) /\ IdIsTrue(r))'
    PROVE  TrueInv'
<1>1. ClassesStay /\ MarksRemain
  BY NothingChanges
<1>2. \A p \in Requests : p # r => Knows(p)
  <2>1. req = [p \in Requests |-> req[p]]
    BY DEF ClassInv, ShapeInv, ReqInv
  <2>2. QED
    BY <2>1 DEF Knows
<1>3. \A p \in Requests : (ReadIsTrue(p) /\ IdIsTrue(p))'
  BY <1>1, <1>2, KnowledgeStays
<1>4. QED
  BY <1>1, <1>3, RowsStay, MarksStayTrue DEF TrueInv

LEMMA WaitsAreTrue ==
    ASSUME ClassInv, ClassInv', TrueInv, NEW r \in Requests,
           Ask(r) \/ GetAppState(r) \/ LoadSnapshot(r) \/ OpenRoster(r)
    PROVE  TrueInv'
<1>1. req = [p \in Requests |-> req[p]] /\ DOMAIN req[r] = RequestFields
  BY DEF ClassInv, ShapeInv, ReqInv, RequestIsSound
<1>2. UNCHANGED <<gd, mark>> /\ RowsRemain
  BY Zenon DEF Ask, GetAppState, LoadSnapshot, OpenRoster, recordVars, appVars, RowsRemain
<1>3. CASE LoadSnapshot(r)
  <2>1. req' = [req EXCEPT ![r].pc = IF @ = "page" THEN "pageLoad" ELSE "load", ![r].got = store.base]
    BY <1>3 DEF LoadSnapshot
  <2>2. req' = [req EXCEPT ![r] = req'[r]] /\ req'[r].pc \in {"pageLoad", "load"} /\ req'[r].got = store.base
    BY <1>1, <2>1 DEF RequestFields
  <2>3. ReadIsTrue(r)'
    BY <1>2, <2>2 DEF ReadIsTrue, TrueInv, ObjectsAreTrue
  <2>4. IdIsTrue(r)'
    BY <2>2 DEF IdIsTrue, Ahead
  <2>5. QED
    BY <1>2, <2>2, <2>3, <2>4, WaitIsTrue
<1>4. CASE Ask(r) \/ GetAppState(r) \/ OpenRoster(r)
  <2>1. req' = [req EXCEPT ![r] = req'[r]] /\ req'[r].pc \notin {"pageLoad", "load", "calls"}
    <3>1. CASE Ask(r)
      <4>1. PICK q \in wish :
              req' = [req EXCEPT ![r] = [Idle EXCEPT !.q = q,
                        !.pc = IF q.op \in Direct THEN "check" ELSE IF q.op = "attend" THEN "page" ELSE "state"]]
        BY <3>1 DEF Ask
      <4>2. QED
        BY <1>1, <4>1 DEF Idle
    <3>2. CASE GetAppState(r)
      <4>1. req' = [req EXCEPT ![r].pc = IF @ = "page" THEN "roster" ELSE "check", ![r].app = now]
        BY <3>2 DEF GetAppState
      <4>2. QED
        BY <1>1, <4>1 DEF RequestFields
    <3>3. CASE OpenRoster(r)
      <4>1. \/ End(r)
            \/ \E n : req' = [req EXCEPT ![r].pc = "state", ![r].page = req[r].app, ![r].n = n]
        BY <3>3, Zenon DEF OpenRoster
      <4>2. CASE End(r)
        BY <1>1, <4>2 DEF End, Idle
      <4>3. ASSUME NEW n, req' = [req EXCEPT ![r].pc = "state", ![r].page = req[r].app, ![r].n = n]
            PROVE  req' = [req EXCEPT ![r] = req'[r]] /\ req'[r].pc \notin {"pageLoad", "load", "calls"}
        BY <1>1, <4>3 DEF RequestFields
      <4>4. QED
        BY <4>1, <4>2, <4>3
    <3>4. QED
      BY <1>4, <3>1, <3>2, <3>3
  <2>2. (ReadIsTrue(r) /\ IdIsTrue(r))'
    BY <2>1 DEF ReadIsTrue, IdIsTrue, Ahead
  <2>3. QED
    BY <1>2, <2>1, <2>2, WaitIsTrue
<1>5. QED
  BY <1>3, <1>4

\* An object is built of what the request had read and of what is stored.
LEMMA LoadOverlaysIsTrue ==
    ASSUME ClassInv, ClassInv', TrueInv, NEW r \in Requests, LoadOverlays(r)
    PROVE  TrueInv'
<1> DEFINE o == [base |-> req[r].got, docs |-> store.docs]
<1>1. /\ req[r].pc \in {"pageLoad", "load"} /\ app' = Append(app, o)
      /\ req' = [req EXCEPT ![r].pc = IF @ = "pageLoad" THEN "roster" ELSE "check",
                            ![r].app = Len(app) + 1, ![r].got = None]
      /\ UNCHANGED <<gd, mark>> /\ UNCHANGED <<listed, store, saving, timer>> /\ UNCHANGED gd
  BY DEF LoadOverlays, recordVars
<1>2. req = [p \in Requests |-> req[p]] /\ DOMAIN req[r] = RequestFields /\ IsSequence(app)
  BY DEF ClassInv, ShapeInv, ReqInv, AppInv, RequestIsSound
<1>3. TrueIn(gd, o.base.rows) /\ TrueIn(gd, o.docs.enrol)
  BY <1>1 DEF TrueInv, ReadIsTrue, ObjectsAreTrue
<1> HIDE DEF o
<1>4. ObjectsAreTrue'
  <2>1. \A a \in DOMAIN app' : (a \in DOMAIN app /\ app'[a] = app[a]) \/ app'[a] = o
    BY <1>1, <1>2, ListGrows
  <2>2. \A a \in DOMAIN app' : TrueIn(gd, app'[a].base.rows) /\ TrueIn(gd, app'[a].docs.enrol)
    BY <1>3, <2>1 DEF TrueInv, ObjectsAreTrue
  <2>3. QED
    BY <1>1, <2>2 DEF TrueInv, ObjectsAreTrue
<1>5. (IndexIsTrue /\ SavesAreTrue /\ TimerIsTrue)'
  BY <1>1 DEF TrueInv, IndexIsTrue, SavesAreTrue, TimerIsTrue, InClass, TrueIn
<1>6. ClassesStay /\ MarksRemain
  BY <1>1, NothingChanges
<1>7. \A p \in Requests : Knows(p)
  <2>1. req'[r].pc \notin {"pageLoad", "load", "calls"}
    BY <1>1, <1>2 DEF RequestFields
  <2>2. \A p \in Requests : p # r => req'[p] = req[p]
    BY <1>1, <1>2
  <2>3. QED
    BY <2>1, <2>2 DEF Knows
<1>8. QED
  BY <1>4, <1>5, <1>6, <1>7, MarksStayTrue, KnowledgeStays DEF TrueInv

\* The number that the page sent is of a student of the class, where it is still the same object.
LEMMA CheckIsTrue ==
    ASSUME ClassInv, ClassInv', TrueInv, NEW r \in Requests, Check(r)
    PROVE  TrueInv'
<1> DEFINE j  == req[r]
           q  == j.q
           a  == IF q.op \in Direct THEN None ELSE app[j.app]
<1>1. /\ j.pc = "check" /\ UNCHANGED <<gd, mark>> /\ RowsRemain
      /\ \/ End(r)
         \/ /\ q.op = "attend"
            /\ req' = [req EXCEPT ![r].pc = "calls", ![r].at = Len(Calls.attend), ![r].ref = None,
                                  ![r].got = a.docs.marks]
         \/ req' = [req EXCEPT ![r].pc = "calls", ![r].id = About(q, a, r),
                               ![r].got = IF q.op = "attend" THEN a.docs.marks ELSE None]
  BY Zenon DEF Check, Dismiss, recordVars, appVars, RowsRemain
<1>2. req = [p \in Requests |-> req[p]] /\ DOMAIN j = RequestFields /\ RequestIsSound(r) /\ ShapeInv
  BY DEF ClassInv, ShapeInv, ReqInv, RequestIsSound
<1>3. CASE End(r)
  <2>1. req' = [req EXCEPT ![r] = req'[r]] /\ req'[r].pc = "done"
    BY <1>2, <1>3 DEF End, Idle
  <2>2. (ReadIsTrue(r) /\ IdIsTrue(r))'
    BY <2>1 DEF ReadIsTrue, IdIsTrue, Ahead
  <2>3. QED
    BY <1>1, <2>1, <2>2, WaitIsTrue
<1>4. CASE /\ q.op = "attend"
           /\ req' = [req EXCEPT ![r].pc = "calls", ![r].at = Len(Calls.attend), ![r].ref = None,
                                 ![r].got = a.docs.marks]
  <2>1. /\ req' = [req EXCEPT ![r] = req'[r]] /\ req'[r].pc = "calls"
        /\ req'[r].at = Len(Calls.attend) /\ req'[r].q = q
    BY <1>2, <1>4 DEF RequestFields
  <2>2. ~Ahead(r, "newMark")'
    <3>1. Calls.attend = <<"find", "newLesson", "linkLesson", "newMark", "linkMark", "count", "bump", "noteMark">>
      BY DEF Calls
    <3>2. Len(Calls.attend) = 8 /\ Calls.attend[8] = "noteMark"
      BY <3>1
    <3>3. \A k \in 8..8 : k = 8
      OBVIOUS
    <3>4. Calls[q.op] = Calls.attend
      BY <1>4
    <3>5. QED
      BY <2>1, <3>2, <3>3, <3>4 DEF Ahead
  <2>3. (ReadIsTrue(r) /\ IdIsTrue(r))'
    BY <2>1, <2>2 DEF ReadIsTrue, IdIsTrue
  <2>4. QED
    BY <1>1, <2>1, <2>3, WaitIsTrue
<1>5. CASE req' = [req EXCEPT ![r].pc = "calls", ![r].id = About(q, a, r),
                              ![r].got = IF q.op = "attend" THEN a.docs.marks ELSE None]
  <2>1. /\ req' = [req EXCEPT ![r] = req'[r]] /\ req'[r].pc = "calls" /\ req'[r].q = q
        /\ req'[r].app = j.app /\ req'[r].page = j.page /\ req'[r].id = About(q, a, r)
    BY <1>2, <1>5 DEF RequestFields
  <2>2. ReadIsTrue(r)'
    BY <2>1 DEF ReadIsTrue
  <2>3. IdIsTrue(r)'
    <3> SUFFICES ASSUME Few', q.op = "attend", j.page = j.app
                 PROVE  InClass(gd, About(q, a, r), q.lop)
      BY <1>1, <2>1 DEF IdIsTrue, InClass
    <3>1. Few
      BY <1>1 DEF Few
    <3>2. PageIsSound(j) /\ a = app[j.app]
      BY <1>1, <1>2 DEF RequestIsSound, Direct
    <3>3. PICK k \in DOMAIN AllStudents(app[j.app]) :
             /\ About(q, app[j.app], r) = AllStudents(app[j.app])[k].gd
             /\ AllStudents(app[j.app])[k].lop = q.lop
      BY <1>2, <3>1, <3>2, NumberIsTheirs
    <3>4. j.app \in DOMAIN app
      BY <3>2 DEF PageIsSound
    <3>5. Readable(app[j.app]) /\ TrueIn(gd, app[j.app].base.rows) /\ TrueIn(gd, app[j.app].docs.enrol)
      BY <1>2, <3>4 DEF ShapeInv, AppInv, ObjectIsSound, TrueInv, ObjectsAreTrue
    <3>6. InClass(gd, AllStudents(app[j.app])[k].gd, AllStudents(app[j.app])[k].lop)
      BY <3>5, StudentsAreTrue
    <3>7. QED
      BY <3>2, <3>3, <3>6
  <2>4. QED
    BY <1>1, <2>1, <2>2, <2>3, WaitIsTrue
<1>6. QED
  BY <1>1, <1>3, <1>4, <1>5

------------------------------------------------------------------------------
\* The background

\* Neither requests nor records change.
LEMMA BackgroundIsTrue ==
    ASSUME ClassInv, ClassInv', TrueInv, UNCHANGED <<gd, mark, req>>,
           (IndexIsTrue /\ ObjectsAreTrue /\ SavesAreTrue /\ TimerIsTrue)'
    PROVE  TrueInv'
<1>1. ClassesStay /\ MarksRemain
  BY NothingChanges
<1>2. \A p \in Requests : Knows(p)
  BY DEF Knows
<1>3. QED
  BY <1>1, <1>2, MarksStayTrue, KnowledgeStays DEF TrueInv

LEMMA ResyncIsTrue ==
    ASSUME ClassInv, ClassInv', TrueInv, SearchCatchesUp \/ Webhook \/ ResyncReads \/ ResyncStores
    PROVE  TrueInv'
<1>1. UNCHANGED <<gd, mark, req>> /\ UNCHANGED app /\ UNCHANGED saving /\ UNCHANGED gd
  BY DEF SearchCatchesUp, Webhook, ResyncReads, ResyncStores, recordVars, appVars
<1>2. IndexIsTrue'
  <2>1. CASE UNCHANGED listed
    BY <1>1, <2>1 DEF TrueInv, IndexIsTrue, InClass
  <2>2. CASE SearchCatchesUp
    <3>1. listed'.gd = gd
      BY <2>2 DEF SearchCatchesUp
    <3>2. QED
      BY <1>1, <3>1 DEF IndexIsTrue, InClass
  <2>3. QED
    BY <2>1, <2>2 DEF Webhook, ResyncReads, ResyncStores, recordVars
<1>3. SavesAreTrue'
  BY <1>1 DEF TrueInv, SavesAreTrue, TrueIn
<1>4. TimerIsTrue'
  <2>1. CASE SearchCatchesUp
    BY <1>1, <2>1 DEF SearchCatchesUp, TrueInv, TimerIsTrue, TrueIn
  <2>2. CASE Webhook
    <3>1. DOMAIN timer = {"pc", "read"} /\ timer' = [timer EXCEPT !.pc = "due"]
      BY <2>2 DEF Webhook, ClassInv, ShapeInv, AppInv
    <3>2. timer'.pc = "due"
      BY <3>1
    <3>3. QED
      BY <3>2 DEF TimerIsTrue
  <2>3. CASE ResyncReads
    <3>1. timer'.read = Snapshot(listed.gd, room)
      BY <2>3 DEF ResyncReads
    <3>2. IsSequence(listed.gd)
      BY DEF ClassInv, ShapeInv, GdInv, GdIsSound
    <3>3. TrueIn(listed.gd, Snapshot(listed.gd, room).rows)
      BY <3>2, SnapshotShows
    <3>4. TrueIn(gd, Snapshot(listed.gd, room).rows)
      BY <3>3 DEF TrueInv, IndexIsTrue, TrueIn, InClass
    <3>5. QED
      BY <1>1, <3>1, <3>4 DEF TimerIsTrue
  <2>4. CASE ResyncStores
    <3>1. timer'.pc \notin {"first", "second"}
      BY <2>4 DEF ResyncStores
    <3>2. QED
      BY <3>1 DEF TimerIsTrue
  <2>5. QED
    BY <2>1, <2>2, <2>3, <2>4
<1>5. ObjectsAreTrue'
  <2>1. CASE UNCHANGED store
    BY <1>1, <2>1 DEF TrueInv, ObjectsAreTrue, TrueIn
  <2>2. CASE ResyncStores
    <3>1. timer.pc \in {"first", "second"} /\ store' = [store EXCEPT !.base = timer.read]
      BY <2>2 DEF ResyncStores
    <3>2. DOMAIN store = {"base", "docs"}
      BY DEF ClassInv, ShapeInv, AppInv, ObjectIsSound
    <3>3. store'.base = timer.read /\ store'.docs = store.docs
      BY <3>1, <3>2
    <3>4. TrueIn(gd, timer.read.rows)
      BY <3>1 DEF TrueInv, TimerIsTrue
    <3>5. QED
      BY <1>1, <3>3, <3>4 DEF TrueInv, ObjectsAreTrue
  <2>3. QED
    BY <2>1, <2>2 DEF SearchCatchesUp, Webhook, ResyncReads, appVars
<1>6. QED
  BY <1>1, <1>2, <1>3, <1>4, <1>5, BackgroundIsTrue

LEMMA SaveIsTrue ==
    ASSUME ClassInv, ClassInv', TrueInv, Save
    PROVE  TrueInv'
<1>1. PICK i \in DOMAIN saving :
        /\ saving' = RemoveAt(saving, i)
        /\ store' = [store EXCEPT !.docs[saving[i].doc] = saving[i].value] \/ UNCHANGED store
        /\ UNCHANGED <<gd, mark, req>> /\ UNCHANGED <<gd, listed, app, timer>>
  <2>1. PICK i \in DOMAIN saving :
          /\ saving' = RemoveAt(saving, i)
          /\ store' = [store EXCEPT !.docs[saving[i].doc] = saving[i].value] \/ UNCHANGED store
          /\ UNCHANGED <<wish, recordVars, app, now, writer, timer, req>>
    BY Zenon DEF Save
  <2>2. UNCHANGED <<gd, mark, req>> /\ UNCHANGED <<gd, listed, app, timer>>
    BY <2>1 DEF recordVars
  <2>3. QED
    BY <2>1, <2>2
<1>2. IsSequence(saving) /\ SaveIsSound(saving[i]) /\ ObjectIsSound(store)
  BY DEF ClassInv, ShapeInv, AppInv
<1>3. (IndexIsTrue /\ TimerIsTrue)'
  BY <1>1 DEF TrueInv, IndexIsTrue, TimerIsTrue, InClass, TrueIn
<1>4. SavesAreTrue'
  <2>1. \A k \in DOMAIN saving' : \E m \in DOMAIN saving : saving'[k] = saving[m]
    <3>1. /\ IsSequence(saving')
          /\ \A k \in DOMAIN saving' : /\ k < i  => k \in DOMAIN saving /\ saving'[k] = saving[k]
                                       /\ k >= i => k + 1 \in DOMAIN saving /\ saving'[k] = saving[k + 1]
      BY <1>1, <1>2, ListShrinks
    <3>2. i \in Nat /\ \A k \in DOMAIN saving' : k \in Nat
      BY <1>2, <3>1, ListIs
    <3>3. QED
      BY <3>1, <3>2
  <2>2. QED
    BY <1>1, <2>1 DEF TrueInv, SavesAreTrue
<1>5. ObjectsAreTrue'
  <2>1. TrueIn(gd, store'.base.rows) /\ TrueIn(gd, store'.docs.enrol)
    <3>1. CASE UNCHANGED store
      BY <3>1 DEF TrueInv, ObjectsAreTrue
    <3>2. CASE store' = [store EXCEPT !.docs[saving[i].doc] = saving[i].value]
      <4>1. /\ store'.base = store.base
            /\ store'.docs.enrol = IF saving[i].doc = "enrol" THEN saving[i].value ELSE store.docs.enrol
        BY <1>2, <3>2 DEF ObjectIsSound, SaveIsSound, DocNames
      <4>2. QED
        BY <4>1 DEF TrueInv, ObjectsAreTrue, SavesAreTrue
    <3>3. QED
      BY <1>1, <3>1, <3>2
  <2>2. QED
    BY <1>1, <2>1 DEF TrueInv, ObjectsAreTrue
<1>6. QED
  BY <1>1, <1>3, <1>4, <1>5, BackgroundIsTrue

LEMMA RestartAppIsTrue ==
    ASSUME ClassInv, ClassInv', TrueInv, RestartApp
    PROVE  TrueInv'
<1>1. /\ UNCHANGED <<gd, mark>> /\ UNCHANGED <<gd, listed, app, store>> /\ saving' = <<>>
      /\ timer' = [pc |-> "off", read |-> None]
      /\ req' = [r \in Requests |-> IF req[r].pc = "idle" \/ (req[r].q # None /\ req[r].q.op = "staff")
                                    THEN req[r] ELSE [Idle EXCEPT !.pc = "done"]]
  BY DEF RestartApp, recordVars
<1>2. \A p \in Requests : Knows(p)
  <2>1. \A p \in Requests : req'[p] = req[p] \/ req'[p].pc = "done"
    BY <1>1 DEF Idle
  <2>2. QED
    BY <2>1 DEF Knows
<1>3. ClassesStay /\ MarksRemain
  BY <1>1, NothingChanges
<1>4. (IndexIsTrue /\ ObjectsAreTrue)'
  BY <1>1 DEF TrueInv, IndexIsTrue, ObjectsAreTrue, InClass, TrueIn
<1>5. SavesAreTrue' /\ TimerIsTrue'
  BY <1>1 DEF SavesAreTrue, TimerIsTrue
<1>6. QED
  BY <1>2, <1>3, <1>4, <1>5, MarksStayTrue, KnowledgeStays DEF TrueInv

LEMMA TruthStart ==
    ASSUME ClassInit
    PROVE  TrueInv
<1> DEFINE base == Snapshot(SubSeq(StartGd, 1, StartBase), StartRooms)
<1>1. /\ gd = StartGd /\ mark = <<>> /\ listed = [gd |-> StartGd, lesson |-> <<>>]
      /\ app = <<>> /\ saving = <<>>
      /\ store = [base |-> base, docs |-> [NoDocs EXCEPT !.enrol = StartEnrol]]
      /\ timer = [pc |-> "off", read |-> None] /\ req = [r \in Requests |-> Idle]
  BY DEF ClassInit
<1>2. TrueIn(StartGd, base.rows)
  BY StartBaseIsSound
<1> HIDE DEF base
<1>3. TrueIn(StartGd, StartEnrol)
  BY StartAssumption DEF TrueIn
<1>4. ObjectsAreTrue
  BY <1>1, <1>2, <1>3 DEF ObjectsAreTrue, NoDocs
<1>5. IndexIsTrue /\ SavesAreTrue /\ TimerIsTrue
  BY <1>1 DEF IndexIsTrue, SavesAreTrue, TimerIsTrue, InClass
<1>6. MarksAreTrue /\ \A r \in Requests : ReadIsTrue(r) /\ IdIsTrue(r)
  BY <1>1 DEF MarksAreTrue, ReadIsTrue, IdIsTrue, Ahead, Idle
<1>7. QED
  BY <1>4, <1>5, <1>6 DEF TrueInv

LEMMA TruthStep ==
    ASSUME ClassInv, ClassInv', TrueInv, [ClassNext]_classVars
    PROVE  TrueInv'
<1>1. ASSUME NEW r \in Requests,
             \/ Ask(r) \/ GetAppState(r) \/ LoadSnapshot(r) \/ LoadOverlays(r) \/ OpenRoster(r) \/ Check(r)
             \/ Refused(r) \/ CreateNewcomer(r) \/ CreateEnrolment(r) \/ LinkPupil(r) \/ LinkClass(r) \/ Push(r)
             \/ SetGhiDanhTrangThai(r) \/ NoteState(r) \/ SetLichHoc(r) \/ NoteHour(r)
             \/ UnlinkTeacher(r) \/ LinkTeacher(r) \/ NoteTeacher(r) \/ CreateLop(r) \/ NoteClass(r)
             \/ FindLesson(r) \/ CreateLesson(r) \/ LinkLesson(r) \/ CreateMark(r) \/ LinkMark(r)
             \/ ReadCount(r) \/ WriteCount(r) \/ NoteMark(r) \/ NoteBooking(r)
             \/ CreateHocVien(r) \/ LinkDeal(r)
      PROVE  TrueInv'
  BY <1>1, WaitsAreTrue, LoadOverlaysIsTrue, CheckIsTrue, OutsideCallsAreTrue, EnrolmentCallsAreTrue,
     DocumentCallsAreTrue, CreateMarkIsTrue, LinkMarkIsTrue, Zenon
<1>2. CASE SearchCatchesUp \/ Save \/ Webhook \/ ResyncReads \/ ResyncStores \/ RestartApp
  BY <1>2, ResyncIsTrue, SaveIsTrue, RestartAppIsTrue, Zenon
<1>3. CASE UNCHANGED classVars
  <2>1. UNCHANGED <<gd, mark>> /\ UNCHANGED req /\ RowsRemain
    BY <1>3 DEF classVars, recordVars, appVars, RowsRemain
  <2>2. QED
    BY <2>1, NothingChanges, KnowingStep DEF Knows
<1>4. QED
  BY <1>1, <1>2, <1>3, Zenon DEF ClassNext

\* server.mjs:480 and 912: a student's attendance is recorded for a lesson of a class of
\* theirs, for any number of requests, classes and enrolments, resyncs and restarts, but
\* for what the property excuses.
THEOREM MarkStaysInItsClassHolds == ClassSpec => []MarkStaysInItsClass
<1>1. ClassInit => TrueInv
  BY TruthStart
<1>2. ClassInv /\ ClassInv' /\ TrueInv /\ [ClassNext]_classVars => TrueInv'
  BY TruthStep
<1>3. ClassSpec => []TrueInv
  BY <1>1, <1>2, ClassesAreSound, PTL DEF ClassSpec
<1>4. TrueInv => MarkStaysInItsClass
  BY DEF TrueInv, MarksAreTrue, Few, InClass, MarkStaysInItsClass
<1>5. QED
  BY <1>3, <1>4, PTL

=============================================================================

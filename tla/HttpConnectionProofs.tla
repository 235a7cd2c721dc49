------------------------ MODULE HttpConnectionProofs ------------------------
(***************************************************************************)
(* Proofs about one HTTP connection, for any requests, any number of them  *)
(* and any way their bytes are cut into reads.                             *)
(***************************************************************************)
EXTENDS HttpConnection, SequenceTheorems, WellFoundedInduction, TLAPS

(* A sequence is one over its elements: units of different kinds need no   *)
(* common type.                                                            *)
LEMMA SequenceOver ==
  ASSUME NEW s, IsSequence(s)
  PROVE  \E S : s \in Seq(S)
<1> DEFINE S == {s[k] : k \in 1..Len(s)}
<1>1. s \in [1..Len(s) -> S]
  BY DEF IsSequence
<1>2. s \in Seq(S)
  BY <1>1, SeqDef DEF IsSequence
<1> QED
  BY <1>2

LEMMA SequenceOf ==
  ASSUME NEW S, NEW s \in Seq(S)
  PROVE  IsSequence(s)
BY LenProperties DEF IsSequence

LEMMA Appended ==
  ASSUME NEW s, IsSequence(s), NEW e
  PROVE  /\ IsSequence(Append(s, e)) /\ Len(Append(s, e)) = Len(s) + 1
         /\ \A k \in 1..Len(s) : Append(s, e)[k] = s[k]
         /\ Append(s, e)[Len(s) + 1] = e
<1>1. PICK S : s \in Seq(S)
  BY SequenceOver
<1>2. s \in Seq(S \cup {e})
  BY <1>1, SeqMonotonic
<1>3. Append(s, e) \in Seq(S \cup {e})
  BY <1>2, AppendProperties
<1>4. IsSequence(Append(s, e))
  BY <1>3, SequenceOf
<1>5. e \in S \cup {e}
  OBVIOUS
<1> HIDE DEF IsSequence
<1> QED
  BY <1>2, <1>4, <1>5, AppendProperties

LEMMA Joined ==
  ASSUME NEW s, NEW t, IsSequence(s), IsSequence(t)
  PROVE  /\ IsSequence(s \o t) /\ Len(s \o t) = Len(s) + Len(t)
         /\ \A k \in 1..Len(s) : (s \o t)[k] = s[k]
         /\ \A k \in 1..Len(t) : (s \o t)[Len(s) + k] = t[k]
<1>1. PICK S, T : s \in Seq(S) /\ t \in Seq(T)
  BY SequenceOver
<1>2. s \in Seq(S \cup T) /\ t \in Seq(S \cup T)
  BY <1>1, SeqMonotonic
<1>3. Len(s) \in Nat /\ Len(t) \in Nat
  BY DEF IsSequence
<1>4. /\ s \o t \in Seq(S \cup T)
      /\ Len(s \o t) = Len(s) + Len(t)
      /\ \A k \in 1..(Len(s) + Len(t)) :
           (s \o t)[k] = IF k <= Len(s) THEN s[k] ELSE t[k - Len(s)]
  BY <1>2, ConcatProperties
<1>5. IsSequence(s \o t)
  BY <1>4, SequenceOf
<1>6. \A k \in 1..Len(s) : (s \o t)[k] = s[k]
  BY <1>3, <1>4
<1>7. ASSUME NEW k \in 1..Len(t)
      PROVE  (s \o t)[Len(s) + k] = t[k]
  <2>1. Len(s) + k \in 1..(Len(s) + Len(t)) /\ ~(Len(s) + k <= Len(s))
        /\ (Len(s) + k) - Len(s) = k
    BY <1>3
  <2> QED
    BY <1>4, <2>1
<1> QED
  BY <1>4, <1>5, <1>6, <1>7

LEMMA Cut ==
  ASSUME NEW s, IsSequence(s), NEW m \in Nat \ {0}, NEW n \in 0..Len(s), m <= n + 1
  PROVE  /\ IsSequence(SubSeq(s, m, n)) /\ Len(SubSeq(s, m, n)) = n + 1 - m
         /\ \A k \in 1..(n + 1 - m) : SubSeq(s, m, n)[k] = s[m + k - 1]
<1>1. PICK S : s \in Seq(S)
  BY SequenceOver
<1>2. Len(s) \in Nat /\ \A k \in m..n : s[k] \in S
  BY <1>1, ElementOfSeq DEF IsSequence
<1>3. /\ SubSeq(s, m, n) \in Seq(S)
      /\ Len(SubSeq(s, m, n)) = IF m <= n THEN n - m + 1 ELSE 0
      /\ \A k \in 1..(n - m + 1) : SubSeq(s, m, n)[k] = s[m + k - 1]
  BY <1>2, SubSeqProperties
<1>4. IsSequence(SubSeq(s, m, n))
  BY <1>3, SequenceOf
<1>5. /\ n - m + 1 = n + 1 - m
      /\ (IF m <= n THEN n - m + 1 ELSE 0) = n + 1 - m
  BY <1>2
<1> QED
  BY <1>3, <1>4, <1>5

-----------------------------------------------------------------------------
(* What the lines of a request are.                                        *)
LEMMA Lines ==
  ASSUME NEW r
  PROVE  /\ Given(r.length) \in {0, 1} /\ Given(r.connection) \in {0, 1}
         /\ GoodLines(r) \in 1..3 /\ BlankLine(r) \in 2..5
BY DEF Given, GoodLines, BlankLine

LEMMA OneUnit ==
  ASSUME NEW u
  PROVE  IsSequence(<<u>>) /\ Len(<<u>>) = 1 /\ <<u>>[1] = u
<1>1. <<u>> \in Seq({u})
  OBVIOUS
<1> QED
  BY <1>1, SequenceOf

LEMMA NoUnit == IsSequence(<<>>) /\ Len(<<>>) = 0
BY EmptySeq, SequenceOf

LEMMA HeaderUnits ==
  ASSUME NEW i, NEW name, NEW value
  PROVE  /\ IsSequence(Header(i, name, value)) /\ Len(Header(i, name, value)) = Given(value)
         /\ value # None =>
              Header(i, name, value)[1]
                = [kind |-> "header", of |-> i, name |-> name, value |-> value]
BY OneUnit, NoUnit DEF Header, Given

(* The units of the i-th request r, one by one.                            *)
AreUnits(units, i, r) ==
  /\ IsSequence(units) /\ Len(units) = BlankLine(r) + r.body
  /\ units[1] = [kind |-> "start", of |-> i, method |-> r.method, version |-> r.version]
  /\ r.length # None =>
       units[2] = [kind |-> "header", of |-> i, name |-> "Content-Length",
                   value |-> r.length]
  /\ r.connection # None =>
       units[GoodLines(r)] = [kind |-> "header", of |-> i, name |-> "Connection",
                              value |-> r.connection]
  /\ r.malformedHeader => units[GoodLines(r) + 1] = [kind |-> "no colon", of |-> i]
  /\ units[BlankLine(r)] = [kind |-> "blank", of |-> i]
  /\ \A k \in 1..r.body : units[BlankLine(r) + k] = [kind |-> "byte", of |-> i]

LEMMA UnitsOfRequest ==
  ASSUME NEW i, NEW r, r.body \in Nat
  PROVE  AreUnits(Units(i, r), i, r)
<1> DEFINE s == <<[kind |-> "start", of |-> i, method |-> r.method, version |-> r.version]>>
           h == Header(i, "Content-Length", r.length)
           c == Header(i, "Connection", r.connection)
           m == IF r.malformedHeader THEN <<[kind |-> "no colon", of |-> i]>> ELSE <<>>
           b == <<[kind |-> "blank", of |-> i]>>
           d == [k \in 1..r.body |-> [kind |-> "byte", of |-> i]]
           lm == IF r.malformedHeader THEN 1 ELSE 0
<1>1. /\ IsSequence(s) /\ Len(s) = 1 /\ IsSequence(b) /\ Len(b) = 1
      /\ s[1] = [kind |-> "start", of |-> i, method |-> r.method, version |-> r.version]
      /\ b[1] = [kind |-> "blank", of |-> i]
  BY OneUnit
<1>2. /\ IsSequence(m) /\ Len(m) = lm
      /\ r.malformedHeader => m[1] = [kind |-> "no colon", of |-> i]
  BY OneUnit, NoUnit
<1>3. IsSequence(d) /\ Len(d) = r.body /\ \A k \in 1..r.body : d[k] = [kind |-> "byte", of |-> i]
  <2>1. d \in [1..r.body -> {[kind |-> "byte", of |-> i]}]
    OBVIOUS
  <2>2. d \in Seq({[kind |-> "byte", of |-> i]})
    BY <2>1, SeqDef
  <2> QED
    BY <2>1, <2>2, LenProperties, SequenceOf
<1>4. /\ IsSequence(h) /\ Len(h) = Given(r.length)
      /\ IsSequence(c) /\ Len(c) = Given(r.connection)
      /\ r.length # None => h[1] = [kind |-> "header", of |-> i,
                                    name |-> "Content-Length", value |-> r.length]
      /\ r.connection # None => c[1] = [kind |-> "header", of |-> i,
                                        name |-> "Connection", value |-> r.connection]
  BY HeaderUnits
<1>5. Units(i, r) = ((((s \o h) \o c) \o m) \o b) \o d
  BY DEF Units
<1> HIDE DEF s, h, c, m, b, d
<1>6p. /\ IsSequence(s) /\ IsSequence(h) /\ IsSequence(c)
      /\ IsSequence(m) /\ IsSequence(b) /\ IsSequence(d)
  BY <1>1, <1>2, <1>3, <1>4
<1>6. /\ IsSequence(s \o h) /\ Len(s \o h) = 1 + Given(r.length)
      /\ (s \o h)[1] = s[1]
      /\ r.length # None => (s \o h)[2] = h[1]
  <2> DEFINE x == s \o h
  <2>1. /\ IsSequence(x) /\ Len(x) = Len(s) + Len(h)
        /\ \A k \in 1..Len(s) : x[k] = s[k]
        /\ \A k \in 1..Len(h) : x[Len(s) + k] = h[k]
    BY <1>6p, Joined
  <2> HIDE DEF x
  <2>2. r.length # None => Len(h) = 1
    BY <1>4 DEF Given
  <2>3. /\ x[1] = s[1]
        /\ r.length # None => x[2] = h[1]
    BY <1>1, <2>1, <2>2
  <2> QED
    BY <1>1, <1>4, <2>1, <2>3 DEF x
<1>7. /\ IsSequence((s \o h) \o c) /\ Len((s \o h) \o c) = GoodLines(r)
      /\ ((s \o h) \o c)[1] = s[1]
      /\ r.length # None => ((s \o h) \o c)[2] = h[1]
      /\ r.connection # None => ((s \o h) \o c)[GoodLines(r)] = c[1]
  <2> DEFINE x == (s \o h) \o c
             y == s \o h
  <2>1. /\ IsSequence(x) /\ Len(x) = Len(y) + Len(c)
        /\ \A k \in 1..Len(y) : x[k] = y[k]
        /\ \A k \in 1..Len(c) : x[Len(y) + k] = c[k]
    <3>1. IsSequence(y)
      BY <1>6
    <3> HIDE DEF y
    <3>2. x = y \o c
      BY DEF y
    <3> QED
      BY <1>6p, <3>1, <3>2, Joined
  <2>2. /\ Len(y) = 1 + Given(r.length)
        /\ y[1] = s[1]
        /\ r.length # None => y[2] = h[1]
    BY <1>6
  <2> HIDE DEF x, y
  <2>3. /\ x[1] = s[1]
        /\ r.length # None => x[2] = h[1]
        /\ r.connection # None => x[GoodLines(r)] = c[1]
    BY <1>4, <2>1, <2>2, Lines DEF Given, GoodLines
  <2> QED
    BY <1>4, <2>1, <2>2, <2>3 DEF x, GoodLines
<1> DEFINE u == (s \o h) \o c
<1> HIDE DEF u
<1>8. /\ IsSequence(u \o m) /\ Len(u \o m) = GoodLines(r) + lm
      /\ (u \o m)[1] = s[1]
      /\ r.length # None => (u \o m)[2] = h[1]
      /\ r.connection # None => (u \o m)[GoodLines(r)] = c[1]
      /\ r.malformedHeader => (u \o m)[GoodLines(r) + 1] = m[1]
  <2>1. r.length # None => GoodLines(r) >= 2
    BY Lines DEF GoodLines, Given
  <2> DEFINE x == u \o m
  <2>2. /\ IsSequence(x) /\ Len(x) = Len(u) + Len(m)
        /\ \A k \in 1..Len(u) : x[k] = u[k]
        /\ \A k \in 1..Len(m) : x[Len(u) + k] = m[k]
    <3>1. IsSequence(u)
      BY <1>7 DEF u
    <3> QED
      BY <1>6p, <3>1, Joined
  <2> HIDE DEF x
  <2>3. /\ x[1] = s[1]
        /\ r.length # None => x[2] = h[1]
        /\ r.connection # None => x[GoodLines(r)] = c[1]
        /\ r.malformedHeader => x[GoodLines(r) + 1] = m[1]
    <3>1. /\ 1 \in 1..Len(u) /\ GoodLines(r) \in 1..Len(u)
          /\ r.length # None => 2 \in 1..Len(u)
          /\ Len(u) = GoodLines(r)
      BY <1>7, <2>1, Lines DEF u
    <3>2. ASSUME r.malformedHeader PROVE 1 \in 1..Len(m)
      <4>1. Len(m) = 1
        BY <1>2, <3>2
      <4> QED
        BY <4>1
    <3> QED
      BY <1>7, <2>2, <3>1, <3>2 DEF u
  <2> QED
    BY <1>2, <1>7, <2>2, <2>3 DEF u, x
<1> DEFINE v == u \o m
<1> HIDE DEF v
<1>9. /\ IsSequence(v \o b) /\ Len(v \o b) = BlankLine(r)
      /\ (v \o b)[1] = s[1]
      /\ r.length # None => (v \o b)[2] = h[1]
      /\ r.connection # None => (v \o b)[GoodLines(r)] = c[1]
      /\ r.malformedHeader => (v \o b)[GoodLines(r) + 1] = m[1]
      /\ (v \o b)[BlankLine(r)] = b[1]
  <2>1. /\ r.length # None => GoodLines(r) >= 2
        /\ BlankLine(r) = GoodLines(r) + lm + 1
    BY Lines DEF GoodLines, Given, BlankLine
  <2> DEFINE x == v \o b
  <2>2. /\ IsSequence(x) /\ Len(x) = Len(v) + Len(b)
        /\ \A k \in 1..Len(v) : x[k] = v[k]
        /\ \A k \in 1..Len(b) : x[Len(v) + k] = b[k]
    <3>1. IsSequence(v)
      BY <1>8 DEF v
    <3> QED
      BY <1>6p, <3>1, Joined
  <2> HIDE DEF x
  <2>3. /\ x[1] = s[1]
        /\ r.length # None => x[2] = h[1]
        /\ r.connection # None => x[GoodLines(r)] = c[1]
        /\ r.malformedHeader => x[GoodLines(r) + 1] = m[1]
        /\ x[BlankLine(r)] = b[1]
    <3>1. /\ 1 \in 1..Len(v) /\ GoodLines(r) \in 1..Len(v)
          /\ r.length # None => 2 \in 1..Len(v)
          /\ r.malformedHeader => GoodLines(r) + 1 \in 1..Len(v)
          /\ Len(v) + 1 = BlankLine(r)
      BY <1>8, <2>1, Lines DEF v
    <3>2. 1 \in 1..Len(b)
      BY <1>1
    <3> QED
      BY <1>8, <2>2, <3>1, <3>2 DEF v
  <2> QED
    BY <1>1, <1>8, <2>1, <2>2, <2>3 DEF v, x
<1> DEFINE w == v \o b
<1> HIDE DEF w
<1>10. /\ IsSequence(w \o d) /\ Len(w \o d) = BlankLine(r) + r.body
       /\ (w \o d)[1] = s[1]
       /\ r.length # None => (w \o d)[2] = h[1]
       /\ r.connection # None => (w \o d)[GoodLines(r)] = c[1]
       /\ r.malformedHeader => (w \o d)[GoodLines(r) + 1] = m[1]
       /\ (w \o d)[BlankLine(r)] = b[1]
       /\ \A k \in 1..r.body : (w \o d)[BlankLine(r) + k] = d[k]
  <2>1. /\ GoodLines(r) <= BlankLine(r)
        /\ r.malformedHeader => GoodLines(r) + 1 <= BlankLine(r)
    BY Lines DEF BlankLine
  <2> DEFINE x == w \o d
  <2>2. /\ IsSequence(x) /\ Len(x) = Len(w) + Len(d)
        /\ \A k \in 1..Len(w) : x[k] = w[k]
        /\ \A k \in 1..Len(d) : x[Len(w) + k] = d[k]
    <3>1. IsSequence(w)
      BY <1>9 DEF w
    <3> QED
      BY <1>6p, <3>1, Joined
  <2> HIDE DEF x
  <2>3. /\ x[1] = s[1]
        /\ r.length # None => x[2] = h[1]
        /\ r.connection # None => x[GoodLines(r)] = c[1]
        /\ r.malformedHeader => x[GoodLines(r) + 1] = m[1]
        /\ x[BlankLine(r)] = b[1]
    <3>1. /\ 1 \in 1..Len(w) /\ GoodLines(r) \in 1..Len(w)
          /\ r.length # None => 2 \in 1..Len(w)
          /\ r.malformedHeader => GoodLines(r) + 1 \in 1..Len(w)
          /\ BlankLine(r) \in 1..Len(w)
      BY <1>9, <2>1, Lines DEF w
    <3> QED
      BY <1>9, <2>2, <3>1 DEF w
  <2> QED
    BY <1>3, <1>9, <2>2, <2>3 DEF w, x
<1> QED
  BY <1>1, <1>2, <1>3, <1>4, <1>5, <1>10 DEF u, v, w, AreUnits

-----------------------------------------------------------------------------
(* The first line end of the buffer, if there is one.                      *)
LEMMA Least ==
  ASSUME NEW T \in SUBSET Nat, T # {}
  PROVE  \E x \in T : \A y \in T : x <= y
<1>1. PICK x \in T : \A y \in T : ~(<<y, x>> \in OpToRel(<, Nat))
  BY NatLessThanWellFounded, WFMin, Zenon
<1>2. \A y \in T : ~(y < x)
  BY <1>1 DEF OpToRel
<1> QED
  BY <1>2

LEMMA LineEndIsFirst ==
  ASSUME IsSequence(buf)
  PROVE  /\ LineEnd \in 0..Len(buf)
         /\ Len(buf) > 0 /\ buf[1].kind # "byte" => LineEnd = 1
<1> DEFINE ends == {k \in 1..Len(buf) : buf[k].kind # "byte"}
<1>1. LineEnd = IF ends # {} THEN Min(ends) ELSE 0
  BY DEF LineEnd, SelectInSeq
<1>2. Len(buf) \in Nat
  BY DEF IsSequence
<1>3. ASSUME ends # {}
      PROVE  Min(ends) \in ends /\ \A k \in ends : Min(ends) <= k
  <2>1. ends \in SUBSET Nat
    BY <1>2
  <2> HIDE DEF ends
  <2>2. \E x \in ends : \A y \in ends : x <= y
    BY <1>3, <2>1, Least
  <2> QED
    BY <2>2 DEF Min
<1>4. CASE ends = {}
  <2>1. LineEnd = 0
    BY <1>1, <1>4
  <2>2. ~(Len(buf) > 0 /\ buf[1].kind # "byte")
    BY <1>2, <1>4
  <2> QED
    BY <1>2, <2>1, <2>2
<1>5. CASE ends # {}
  <2>1. LineEnd \in ends /\ \A k \in ends : LineEnd <= k
    BY <1>1, <1>3, <1>5
  <2>2. Len(buf) > 0 /\ buf[1].kind # "byte" => 1 \in ends
    BY <1>2
  <2> QED
    BY <1>2, <2>1, <2>2
<1> QED
  BY <1>4, <1>5

(* A request keeps its fields when one is set.                             *)
LEMMA FieldSet ==
  ASSUME NEW q, IsRequest(q), NEW v
  PROVE  /\ [q EXCEPT !.of = v] = [of |-> v, method |-> q.method, version |-> q.version,
              headers |-> q.headers, length |-> q.length, body |-> q.body]
         /\ [q EXCEPT !.method = v] = [of |-> q.of, method |-> v, version |-> q.version,
              headers |-> q.headers, length |-> q.length, body |-> q.body]
         /\ [q EXCEPT !.version = v] = [of |-> q.of, method |-> q.method, version |-> v,
              headers |-> q.headers, length |-> q.length, body |-> q.body]
         /\ [q EXCEPT !.headers = v] = [of |-> q.of, method |-> q.method,
              version |-> q.version, headers |-> v, length |-> q.length, body |-> q.body]
         /\ [q EXCEPT !.length = v] = [of |-> q.of, method |-> q.method,
              version |-> q.version, headers |-> q.headers, length |-> v, body |-> q.body]
         /\ [q EXCEPT !.body = v] = [of |-> q.of, method |-> q.method,
              version |-> q.version, headers |-> q.headers, length |-> q.length, body |-> v]
<1>1. PICK o, m, w, h, l, b :
        q = [of |-> o, method |-> m, version |-> w, headers |-> h, length |-> l, body |-> b]
  BY DEF IsRequest
<1> QED
  BY <1>1

LEMMA Sent ==
  ASSUME NEW r \in Requests
  PROVE  /\ WellSent(r) /\ r.body \in 0..MaxBody /\ r.body \in Nat
         /\ MaxBody \in Nat /\ MaxRequests \in Nat /\ Width \in Nat /\ 0 < Width
         /\ r.length \in Int => r.length % Width \in 0..(Width - 1)
         /\ None \notin Int /\ NotANumber \notin Int
<1>1. WellSent(r) /\ MaxBody \in Nat /\ Width \in Nat /\ MaxBody < Width
  BY HttpAssumption
<1>2. r.body \in 0..MaxBody
  BY <1>1 DEF WellSent
<1>3. 0 < Width
  BY <1>1
<1>4. r.length \in Int => r.length % Width \in 0..(Width - 1)
  BY <1>1, <1>3
<1> QED
  BY <1>1, <1>2, <1>3, <1>4, HttpAssumption

-----------------------------------------------------------------------------
(* Whatever was sent, the variables keep their shape.                      *)
Shaped(q) ==
  /\ IsRequest(q) /\ q.length \in 0..(Width - 1)
  /\ q.body = <<>>

LEMMA EmptyShaped == Shaped(EmptyRequest)
<1>1. 0 \in 0..(Width - 1)
  BY HttpAssumption
<1> QED
  BY <1>1 DEF Shaped, IsRequest, EmptyRequest

LEMMA InitInv == Init => Inv
<1> SUFFICES ASSUME Init PROVE Inv
  OBVIOUS
<1>1. /\ script \in Seq(Requests) /\ Len(script) = 0
      /\ IsSequence(<<>>) /\ Len(<<>>) = 0
  BY NoUnit, EmptySeq DEF Init
<1>2. ShapeInv
  <2>1. TypeOK
    BY <1>1, EmptyShaped DEF TypeOK, Init, Shaped
  <2>2. Len(buf) + Len(wire) <= Len(script) * (MaxBody + 5)
    <3>1. Len(script) * (MaxBody + 5) = 0
      BY <1>1, HttpAssumption
    <3> QED
      BY <1>1, <3>1 DEF Init
  <2> QED
    BY <1>1, <2>1, <2>2, EmptyShaped, HttpAssumption DEF ShapeInv, Init, Shaped
<1>3. AnswersInOrder
  BY <1>1 DEF AnswersInOrder, Init
<1>4. InStep
  <2> DEFINE starts == [i \in {1} |-> 0]
  <2>1. ParsesFrom(<<>>, starts, 0)
    BY <1>1 DEF ParsesFrom, IsStream, Holds, Init
  <2>2. \A i \in 1..Len(handled) : FALSE
    BY <1>1 DEF Init
  <2>3. \A k \in 1..Len(answers) : FALSE
    BY <1>1 DEF Init
  <2> HIDE DEF starts
  <2> QED
    BY <1>1, <2>1, <2>2, <2>3 DEF InStep, Init
<1> QED
  BY <1>2, <1>3, <1>4 DEF Inv

LEMMA DropShape ==
  ASSUME IsSequence(buf), NEW n \in 0..Len(buf), Drop(n)
  PROVE  /\ IsSequence(buf') /\ Len(buf') = Len(buf) - n /\ Len(buf') <= Len(buf)
         /\ \A k \in 1..(Len(buf) - n) : buf'[k] = buf[n + k]
<1>1. Len(buf) \in Nat
  BY DEF IsSequence
<1>2. n + 1 \in Nat \ {0} /\ Len(buf) \in 0..Len(buf) /\ n + 1 <= Len(buf) + 1
  BY <1>1
<1>3. /\ IsSequence(buf') /\ Len(buf') = Len(buf) + 1 - (n + 1)
      /\ \A k \in 1..(Len(buf) + 1 - (n + 1)) : buf'[k] = buf[(n + 1) + k - 1]
  BY <1>2, Cut DEF Drop
<1>4. Len(buf) + 1 - (n + 1) = Len(buf) - n
  BY <1>1
<1>5. \A k \in 1..(Len(buf) - n) : (n + 1) + k - 1 = n + k
  BY <1>1
<1> QED
  BY <1>1, <1>3, <1>4, <1>5

(* What the parser must preserve.                                          *)
LEMMA ParserShape ==
  ASSUME ShapeInv, UNCHANGED <<client, answers, handled>>,
         IsSequence(buf'), Len(buf') <= Len(buf),
         open' \in BOOLEAN, pc' \in {"wait", "parse", "refuse", "respond"},
         state' \in {"line", "headers", "body", "all"},
         pc' = "respond" <=> state' = "all",
         IsRequest(request'), request'.length \in 0..(Width - 1),
         IF state' = "all" THEN request'.body # <<>> => Len(request'.body) = request'.length
         ELSE request'.body = <<>>
  PROVE  ShapeInv'
<1>1. /\ Len(buf) \in Nat /\ Len(buf') \in Nat /\ Len(wire) \in Nat
  BY DEF ShapeInv, IsSequence
<1>2. TypeOK'
  BY DEF ShapeInv, TypeOK, client
<1>3. (Len(buf) + Len(wire) <= Len(script) * (MaxBody + 5))'
  <2>1. PICK bound : bound = Len(script) * (MaxBody + 5)
    OBVIOUS
  <2>2. bound \in Int
    <3>1. Len(script) \in Nat /\ MaxBody \in Nat
      BY HttpAssumption, LenProperties DEF ShapeInv, TypeOK
    <3> QED
      BY <2>1, <3>1
  <2>3. Len(buf) + Len(wire) <= bound
    BY <2>1 DEF ShapeInv
  <2>4. Len(buf') + Len(wire) <= bound
    BY <1>1, <2>2, <2>3
  <2> QED
    BY <2>1, <2>4 DEF client
<1> QED
  BY <1>2, <1>3 DEF ShapeInv, client

LEMMA LineFits ==
  ASSUME ShapeInv, NEW s, LineArrived(s)
  PROVE  /\ LineEnd \in 0..Len(buf) /\ IsSequence(buf) /\ pc = "parse" /\ state = s
         /\ Line.kind \in {"mixed"} \/ Line = buf[1]
BY LineEndIsFirst DEF ShapeInv, LineArrived, Parsing, Line

(* A step that takes a line and changes no request_.                       *)
LEMMA TakenShape ==
  ASSUME ShapeInv, state \in {"line", "headers"}, Drop(LineEnd), LineArrived(state),
         UNCHANGED <<client, answers, handled, open>>,
         pc' \in {"wait", "parse", "refuse", "respond"},
         state' \in {"line", "headers", "body", "all"},
         pc' = "respond" <=> state' = "all",
         IsRequest(request'), request'.length \in 0..(Width - 1), request'.body = <<>>
  PROVE  ShapeInv'
<1>1. IsSequence(buf') /\ Len(buf') <= Len(buf)
  BY LineFits, DropShape
<1>2. open' \in BOOLEAN
  BY DEF ShapeInv, TypeOK
<1> QED
  BY <1>1, <1>2, ParserShape

LEMMA RequestShape ==
  ASSUME ShapeInv, state # "all"
  PROVE  Shaped(request)
BY DEF ShapeInv, TypeOK, Shaped

LEMMA ParsedStartShape ==
  ASSUME Shaped(request), NEW u
  PROVE  Shaped(ParsedStart(u))
<1>1. \A v : Shaped([request EXCEPT !.method = v])
  BY FieldSet DEF Shaped, IsRequest
<1>2. \A v, w, o : Shaped([request EXCEPT !.method = v, !.of = o, !.version = w])
  <2> TAKE v, w, o
  <2>1. PICK q : q = [request EXCEPT !.method = v]
    OBVIOUS
  <2>2. Shaped(q)
    BY <1>1, <2>1
  <2>3. PICK p : p = [q EXCEPT !.of = o]
    OBVIOUS
  <2>4. Shaped(p)
    BY <2>2, <2>3, FieldSet DEF Shaped, IsRequest
  <2>5. Shaped([p EXCEPT !.version = w])
    BY <2>4, FieldSet DEF Shaped, IsRequest
  <2>6. [request EXCEPT !.method = v, !.of = o, !.version = w] = [p EXCEPT !.version = w]
    BY <2>1, <2>3
  <2> QED
    BY <2>5, <2>6
<1>3. CASE u.kind = "blank"
  BY <1>3 DEF ParsedStart
<1>4. CASE u.kind # "start" /\ u.kind # "blank"
  <2>1. ParsedStart(u) = [request EXCEPT !.method = "unknown"]
    BY <1>4 DEF ParsedStart
  <2> QED
    BY <1>1, <2>1
<1>5. CASE u.kind = "start" /\ u.method = "unknown"
  <2>1. ParsedStart(u) = [request EXCEPT !.method = "unknown"]
    BY <1>5 DEF ParsedStart
  <2> QED
    BY <1>1, <2>1
<1>6. CASE u.kind = "start" /\ u.method # "unknown"
  <2> DEFINE w == IF u.version = "malformed" THEN request.version ELSE u.version
  <2>1. ParsedStart(u) = [request EXCEPT !.method = u.method, !.of = u.of,
                            !.version = IF u.version = "malformed" THEN @ ELSE u.version]
    BY <1>6 DEF ParsedStart
  <2>2. ParsedStart(u) = [request EXCEPT !.method = u.method, !.of = u.of, !.version = w]
    BY <2>1
  <2> HIDE DEF w
  <2>3. PICK method, of : method = u.method /\ of = u.of
    OBVIOUS
  <2>4. Shaped([request EXCEPT !.method = method, !.of = of, !.version = w])
    BY <1>2
  <2> QED
    BY <2>2, <2>3, <2>4
<1> QED
  BY <1>3, <1>4, <1>5, <1>6

LEMMA RequestLineShape ==
  ASSUME ShapeInv, RequestLine \/ BadRequestLine
  PROVE  ShapeInv'
<1>1. /\ state = "line" /\ LineArrived("line") /\ pc = "parse"
      /\ request' = ParsedStart(Line)
  BY DEF RequestLine, BadRequestLine, LineArrived, Parsing
<1>2. Shaped(request')
  BY <1>1, RequestShape, ParsedStartShape
<1>3. CASE RequestLine
  BY <1>1, <1>2, <1>3, TakenShape DEF RequestLine, replies, Shaped
<1>4. CASE BadRequestLine
  <2>1. Len(buf') <= Len(buf) /\ IsSequence(buf') /\ open' \in BOOLEAN
    BY <1>4 DEF BadRequestLine, ShapeInv, TypeOK, IsSequence, replies
  <2> QED
    BY <1>1, <1>2, <1>4, <2>1, ParserShape DEF BadRequestLine, replies, Shaped
<1> QED
  BY <1>3, <1>4

LEMMA HeaderLineShape ==
  ASSUME ShapeInv, HeaderLine \/ BadHeaderLine
  PROVE  ShapeInv'
<1>1. state = "headers" /\ LineArrived("headers") /\ pc = "parse" /\ Drop(LineEnd)
  BY DEF HeaderLine, BadHeaderLine, LineArrived, Parsing
<1>2. Shaped(request)
  BY <1>1, RequestShape
<1>3. CASE HeaderLine
  <2>1. Shaped(request')
    <3>1. request' = request \/ \E v : request' = [request EXCEPT !.headers = v]
      BY <1>3 DEF HeaderLine
    <3> QED
      BY <1>2, <3>1, FieldSet DEF Shaped, IsRequest
  <2> QED
    BY <1>1, <1>3, <2>1, TakenShape DEF HeaderLine, replies, Shaped
<1>4. CASE BadHeaderLine
  BY <1>1, <1>2, <1>4, TakenShape DEF BadHeaderLine, replies, context, Shaped
<1> QED
  BY <1>3, <1>4

LEMMA GotHeadersShape ==
  ASSUME ShapeInv, GotHeaders,
         pc' \in {"wait", "parse", "refuse", "respond"},
         state' \in {"line", "headers", "body", "all"},
         pc' = "respond" <=> state' = "all",
         Shaped(request'), state' = "all" => request'.body = <<>>
  PROVE  ShapeInv'
<1>1. /\ LineArrived("headers") /\ LineEnd # 0 /\ UNCHANGED <<client, replies>>
      /\ buf' = SubSeq(buf, 2, Len(buf))
  BY DEF GotHeaders, LineArrived, Drop
<1>2. LineEnd \in 0..Len(buf) /\ Len(buf) \in Nat /\ IsSequence(buf)
  BY <1>1, LineFits DEF ShapeInv, IsSequence
<1>3. 1 \in 0..Len(buf)
  BY <1>1, <1>2
<1>4. IsSequence(buf') /\ Len(buf') <= Len(buf)
  BY <1>2, <1>3, DropShape DEF GotHeaders
<1>5. open' \in BOOLEAN
  BY <1>1 DEF ShapeInv, TypeOK, replies
<1> QED
  BY <1>1, <1>4, <1>5, ParserShape DEF replies, Shaped

LEMMA EndShape ==
  ASSUME ShapeInv,
         EndWithoutBody \/ EndWithLength \/ EndWithoutLength \/ EndWithBadLength
  PROVE  ShapeInv'
<1>1. state = "headers" /\ pc = "parse" /\ Shaped(request)
  <2>1. state = "headers" /\ pc = "parse"
    BY DEF EndWithoutBody, EndWithLength, EndWithoutLength, EndWithBadLength, GotHeaders,
           LineArrived, Parsing
  <2> QED
    BY <2>1, RequestShape
<1>2. CASE EndWithoutBody
  BY <1>1, <1>2, GotHeadersShape DEF EndWithoutBody, Shaped
<1>3. CASE EndWithLength
  <2>1. PICK length : length = DeclaredLength % Width /\ length \in 0..(Width - 1)
    BY <1>3, HttpAssumption DEF EndWithLength
  <2>2. request' = [request EXCEPT !.length = length]
    BY <1>3, <2>1 DEF EndWithLength
  <2>3. Shaped(request')
    BY <1>1, <2>1, <2>2, FieldSet DEF Shaped, IsRequest
  <2> QED
    BY <1>1, <1>3, <2>3, GotHeadersShape DEF EndWithLength, Shaped
<1>4. CASE EndWithoutLength
  BY <1>1, <1>4, GotHeadersShape DEF EndWithoutLength, Shaped, context
<1>5. CASE EndWithBadLength
  <2>1. Len(buf') <= Len(buf) /\ IsSequence(buf') /\ open' \in BOOLEAN
    BY <1>5 DEF EndWithBadLength, ShapeInv, TypeOK, IsSequence, replies
  <2> QED
    BY <1>1, <1>5, <2>1, ParserShape DEF EndWithBadLength, replies, context, Shaped
<1> QED
  BY <1>2, <1>3, <1>4, <1>5

LEMMA BodyShape ==
  ASSUME ShapeInv, Body
  PROVE  ShapeInv'
<1>1. /\ state = "body" /\ pc = "parse" /\ Len(buf) >= request.length /\ Shaped(request)
      /\ Len(buf) \in Nat /\ IsSequence(buf)
  BY RequestShape DEF Body, Parsing, ShapeInv, IsSequence
<1>2. request.length \in 0..Len(buf) /\ request.length \in Nat
  BY <1>1, HttpAssumption DEF Shaped
<1>3. IsSequence(buf') /\ Len(buf') <= Len(buf)
  BY <1>1, <1>2, DropShape DEF Body
<1>4. PICK body : body = SubSeq(buf, 1, request.length)
  OBVIOUS
<1>5. Len(body) = request.length
  BY <1>1, <1>2, <1>4, Cut
<1>6. /\ request' = [of |-> request.of, method |-> request.method,
                     version |-> request.version, headers |-> request.headers,
                     length |-> request.length, body |-> body]
  BY <1>1, <1>4, FieldSet DEF Body, Shaped
<1>7. /\ IsRequest(request') /\ request'.length \in 0..(Width - 1)
      /\ Len(request'.body) = request'.length
  BY <1>1, <1>5, <1>6 DEF IsRequest, Shaped
<1> QED
  BY <1>1, <1>3, <1>7, ParserShape DEF Body, replies, ShapeInv, TypeOK

LEMMA IncompleteShape ==
  ASSUME ShapeInv, Incomplete
  PROVE  ShapeInv'
<1>1. /\ state \in {"line", "headers", "body"} /\ pc = "parse"
      /\ Len(buf') <= Len(buf) /\ IsSequence(buf') /\ open' \in BOOLEAN
  BY DEF Incomplete, Parsing, ShapeInv, TypeOK, IsSequence, replies
<1> QED
  BY <1>1, RequestShape, ParserShape DEF Incomplete, replies, context, Shaped

(* What is sent and what is handled.                                       *)
LEMMA AnswerShape ==
  ASSUME IsSequence(answers), NEW to, NEW outcome, Answer(to, outcome)
  PROVE  /\ IsSequence(answers')
         /\ ~open => answers' = answers
         /\ open =>
              /\ Len(answers') = Len(answers) + 1
              /\ \A k \in 1..Len(answers) : answers'[k] = answers[k]
              /\ answers'[Len(answers) + 1] = [to |-> to, outcome |-> outcome]
BY Appended DEF Answer

LEMMA RefuseShape ==
  ASSUME ShapeInv, Refuse
  PROVE  ShapeInv'
<1>1. IsSequence(answers')
  BY AnswerShape DEF Refuse, ShapeInv
<1>2. TypeOK'
  BY DEF Refuse, ShapeInv, TypeOK, client, context
<1> QED
  BY <1>1, <1>2 DEF Refuse, ShapeInv, client, context

LEMMA OnRequestShape ==
  ASSUME ShapeInv, NEW outcome \in Outcomes, OnRequest(outcome)
  PROVE  ShapeInv'
<1>1. IsSequence(answers') /\ IsSequence(handled')
  BY AnswerShape, Appended DEF OnRequest, ShapeInv
<1>2. open' \in BOOLEAN
  BY DEF OnRequest
<1>3. TypeOK'
  BY <1>2, EmptyShaped DEF OnRequest, ShapeInv, TypeOK, client, Shaped
<1> QED
  BY <1>1, <1>3, EmptyShaped DEF OnRequest, ShapeInv, client, Shaped

LEMMA ScriptGrows ==
  ASSUME ShapeInv, NEW r \in Requests, ClientSends(r)
  PROVE  /\ script' \in Seq(Requests) /\ Len(script') = Len(script) + 1
         /\ \A k \in 1..Len(script) : script'[k] = script[k]
         /\ script'[Len(script) + 1] = r
         /\ Len(script) \in Nat
         /\ LET units == Units(Len(script) + 1, r)
            IN  /\ IsSequence(units) /\ Len(units) = BlankLine(r) + r.body
                /\ wire' = wire \o units
                /\ IsSequence(wire') /\ Len(wire') = Len(wire) + Len(units)
                /\ \A k \in 1..Len(wire) : wire'[k] = wire[k]
                /\ \A k \in 1..Len(units) : wire'[Len(wire) + k] = units[k]
<1>1. script \in Seq(Requests) /\ script' = Append(script, r) /\ IsSequence(wire)
  BY DEF ShapeInv, TypeOK, ClientSends
<1>2. /\ script' \in Seq(Requests) /\ Len(script') = Len(script) + 1
      /\ \A k \in 1..Len(script) : script'[k] = script[k]
      /\ script'[Len(script) + 1] = r
      /\ Len(script) \in Nat
  BY <1>1, AppendProperties, LenProperties
<1>3. PICK i, units : i = Len(script) + 1 /\ units = Units(i, r)
  OBVIOUS
<1>4. IsSequence(units) /\ Len(units) = BlankLine(r) + r.body /\ wire' = wire \o units
  <2>1. r.body \in Nat
    BY Sent
  <2>2. IsSequence(units) /\ Len(units) = BlankLine(r) + r.body
    BY <1>3, <2>1, UnitsOfRequest DEF AreUnits
  <2> QED
    BY <1>3, <2>2 DEF ClientSends
<1>5. /\ IsSequence(wire') /\ Len(wire') = Len(wire) + Len(units)
      /\ \A k \in 1..Len(wire) : wire'[k] = wire[k]
      /\ \A k \in 1..Len(units) : wire'[Len(wire) + k] = units[k]
  <2>1. IsSequence(wire) /\ IsSequence(units)
    BY <1>1, <1>4
  <2>2. /\ IsSequence(wire \o units) /\ Len(wire \o units) = Len(wire) + Len(units)
        /\ \A k \in 1..Len(wire) : (wire \o units)[k] = wire[k]
        /\ \A k \in 1..Len(units) : (wire \o units)[Len(wire) + k] = units[k]
    BY <2>1, Joined
  <2> QED
    BY <1>4, <2>2
<1> QED
  BY <1>2, <1>3, <1>4, <1>5

LEMMA ClientSendsShape ==
  ASSUME ShapeInv, NEW r \in Requests, ClientSends(r)
  PROVE  ShapeInv'
<1>1. TypeOK'
  BY ScriptGrows DEF ShapeInv, TypeOK, ClientSends, context, replies
<1>2. Len(script') <= MaxRequests
  BY ScriptGrows, HttpAssumption DEF ClientSends
<1>3. (Len(buf) + Len(wire) <= Len(script) * (MaxBody + 5))'
  <2>1. PICK units : units = Units(Len(script) + 1, r)
    OBVIOUS
  <2>2. /\ Len(wire') = Len(wire) + Len(units) /\ Len(units) = BlankLine(r) + r.body
        /\ Len(script') = Len(script) + 1 /\ Len(script) \in Nat
    BY <2>1, ScriptGrows
  <2>3. Len(buf) \in Nat /\ Len(wire) \in Nat /\ buf' = buf
    BY DEF ShapeInv, IsSequence, ClientSends
  <2>4. BlankLine(r) \in 2..5 /\ r.body \in 0..MaxBody /\ MaxBody \in Nat
    BY Lines, Sent
  <2>5. PICK n \in Nat, m \in Nat : n = Len(script) /\ m = MaxBody + 5
    BY <2>2, <2>4
  <2>6. Len(units) <= m /\ Len(units) \in Nat
    <3>1. PICK lines \in 2..5, body \in 0..MaxBody : Len(units) = lines + body
      BY <2>2, <2>4
    <3> QED
      BY <2>4, <2>5, <3>1
  <2>7. (n + 1) * m = n * m + m /\ n * m \in Nat
    BY <2>5
  <2>8. Len(buf) + Len(wire) <= n * m
    BY <2>5 DEF ShapeInv
  <2>9. Len(buf) + Len(wire') <= (n + 1) * m
    <3>1. PICK product \in Nat : product = n * m
      BY <2>7
    <3>2. Len(buf) + Len(wire) <= product /\ (n + 1) * m = product + m
      BY <2>7, <2>8, <3>1
    <3>3. PICK more \in Nat : more = Len(units) /\ more <= m
      BY <2>6
    <3>4. Len(buf) + (Len(wire) + more) <= product + m
      BY <2>3, <2>5, <3>1, <3>2, <3>3
    <3> QED
      BY <2>2, <3>2, <3>3, <3>4
  <2> QED
    BY <2>2, <2>3, <2>5, <2>9
<1>4. IsSequence(wire)'
  BY ScriptGrows
<1> QED
  BY <1>1, <1>2, <1>3, <1>4 DEF ShapeInv, ClientSends, context, replies

LEMMA ReadShape ==
  ASSUME ShapeInv, NEW n \in 1..Len(wire), Read(n)
  PROVE  /\ ShapeInv'
         /\ Len(buf') = Len(buf) + n /\ Len(wire') = Len(wire) - n
         /\ Len(buf) \in Nat /\ Len(wire) \in Nat
         /\ \A k \in 1..Len(buf) : buf'[k] = buf[k]
         /\ \A k \in 1..n : buf'[Len(buf) + k] = wire[k]
         /\ \A k \in 1..(Len(wire) - n) : wire'[k] = wire[n + k]
<1>1. IsSequence(buf) /\ IsSequence(wire) /\ Len(buf) \in Nat /\ Len(wire) \in Nat
  BY DEF ShapeInv, IsSequence
<1>2. PICK head, tail : head = SubSeq(wire, 1, n) /\ tail = SubSeq(wire, n + 1, Len(wire))
  OBVIOUS
<1>3. /\ IsSequence(head) /\ Len(head) = n
      /\ \A k \in 1..n : head[k] = wire[k]
  <2>1. n \in 0..Len(wire) /\ 1 <= n + 1 /\ n + 1 - 1 = n
    BY <1>1
  <2>2. /\ IsSequence(head) /\ Len(head) = n + 1 - 1
        /\ \A k \in 1..(n + 1 - 1) : head[k] = wire[1 + k - 1]
    BY <1>1, <1>2, <2>1, Cut
  <2>3. \A k \in 1..n : 1 + k - 1 = k
    BY <1>1
  <2> QED
    BY <2>1, <2>2, <2>3
<1>4. /\ IsSequence(tail) /\ Len(tail) = Len(wire) - n
      /\ \A k \in 1..(Len(wire) - n) : tail[k] = wire[n + k]
  <2>1. /\ n + 1 \in Nat \ {0} /\ Len(wire) \in 0..Len(wire) /\ n + 1 <= Len(wire) + 1
        /\ Len(wire) + 1 - (n + 1) = Len(wire) - n
    BY <1>1
  <2>2. /\ IsSequence(tail) /\ Len(tail) = Len(wire) + 1 - (n + 1)
        /\ \A k \in 1..(Len(wire) + 1 - (n + 1)) : tail[k] = wire[(n + 1) + k - 1]
    BY <1>1, <1>2, <2>1, Cut
  <2>3. \A k \in 1..(Len(wire) - n) : (n + 1) + k - 1 = n + k
    BY <1>1
  <2> QED
    BY <2>1, <2>2, <2>3
<1>5. /\ IsSequence(buf') /\ Len(buf') = Len(buf) + n
      /\ \A k \in 1..Len(buf) : buf'[k] = buf[k]
      /\ \A k \in 1..n : buf'[Len(buf) + k] = wire[k]
  <2>1. buf' = buf \o head
    BY <1>2 DEF Read
  <2> QED
    <3>1. /\ IsSequence(buf \o head) /\ Len(buf \o head) = Len(buf) + Len(head)
          /\ \A k \in 1..Len(buf) : (buf \o head)[k] = buf[k]
          /\ \A k \in 1..Len(head) : (buf \o head)[Len(buf) + k] = head[k]
      BY <1>1, <1>3, Joined
    <3> QED
      BY <1>3, <2>1, <3>1
<1>6. wire' = tail
  BY <1>2 DEF Read
<1>7. TypeOK'
  BY DEF ShapeInv, TypeOK, Read, context, replies
<1>8. Len(buf') + Len(wire') = Len(buf) + Len(wire)
  <2>1. Len(buf') = Len(buf) + n /\ Len(wire') = Len(wire) - n
    BY <1>4, <1>5, <1>6
  <2>2. n \in Int
    BY <1>1
  <2> QED
    BY <1>1, <2>1, <2>2
<1>9. ShapeInv'
  BY <1>4, <1>5, <1>6, <1>7, <1>8 DEF ShapeInv, Read, context, replies
<1> QED
  BY <1>1, <1>4, <1>5, <1>6, <1>9

-----------------------------------------------------------------------------
(***************************************************************************)
(* In step: what the parser finds in the buffer is the next unit of the    *)
(* request it is in.                                                       *)
(***************************************************************************)
Faultless ==
  /\ \A i \in 1..Len(handled) : WellFormed(script[i]) /\ handled[i] = AsSent(i, script[i])
  /\ \A k \in 1..Len(answers) : answers[k].outcome # "refused"
  /\ Len(answers) <= Len(handled)
  /\ open => Len(answers) = Len(handled)

(* What the first lines of a request are.                                  *)
IsLine(u, k, r) ==
  /\ u.kind \in {"start", "header", "no colon", "blank"}
  /\ u.kind = "start" <=> k = 1
  /\ u.kind = "header" <=> k \in 2..GoodLines(r)
  /\ u.kind = "no colon" <=> k = GoodLines(r) + 1 /\ r.malformedHeader
  /\ u.kind = "blank" <=> k = BlankLine(r)
  /\ k = 2 /\ r.length # None => u.name = "Content-Length" /\ u.value = r.length
  /\ k \in 2..GoodLines(r) /\ ~(k = 2 /\ r.length # None) =>
       /\ r.connection # None /\ k = GoodLines(r)
       /\ u.name = "Connection" /\ u.value = r.connection

LEMMA HeadUnits ==
  ASSUME NEW units, NEW i, NEW r, AreUnits(units, i, r), NEW k \in 1..BlankLine(r)
  PROVE  IsLine(units[k], k, r)
<1>1. PICK good, blank \in Nat :
        /\ good = GoodLines(r) /\ blank = BlankLine(r)
        /\ good = 1 + (IF r.length = None THEN 0 ELSE 1)
                     + (IF r.connection = None THEN 0 ELSE 1)
        /\ blank = good + (IF r.malformedHeader THEN 2 ELSE 1)
  BY Lines DEF GoodLines, BlankLine, Given
<1>2. units[1].kind = "start"
  <2>1. units[1] = [kind |-> "start", of |-> i, method |-> r.method, version |-> r.version]
    BY Zenon DEF AreUnits
  <2> QED
    BY <2>1
<1>3. r.length # None => /\ units[2].kind = "header" /\ units[2].name = "Content-Length"
                         /\ units[2].value = r.length
  <2>1. r.length # None =>
          units[2] = [kind |-> "header", of |-> i, name |-> "Content-Length",
                      value |-> r.length]
    BY Zenon DEF AreUnits
  <2> QED
    BY <2>1
<1>4. r.connection # None =>
        /\ units[good].kind = "header" /\ units[good].name = "Connection"
        /\ units[good].value = r.connection
  <2>1. r.connection # None =>
          units[good] = [kind |-> "header", of |-> i, name |-> "Connection",
                         value |-> r.connection]
    BY <1>1, Zenon DEF AreUnits
  <2> QED
    BY <2>1
<1>5. ASSUME r.malformedHeader PROVE units[good + 1].kind = "no colon"
  <2>1. PICK v : v = units[good + 1]
    OBVIOUS
  <2>2. v = [kind |-> "no colon", of |-> i]
    BY <1>1, <1>5, <2>1, Zenon DEF AreUnits
  <2>3. v.kind = "no colon"
    BY <2>2
  <2> QED
    BY <2>1, <2>3
<1>6. units[blank].kind = "blank"
  <2>1. units[blank] = [kind |-> "blank", of |-> i]
    BY <1>1, Zenon DEF AreUnits
  <2> QED
    BY <2>1
<1>7. PICK u : u = units[k]
  OBVIOUS
<1>8. k \in 1..blank
  BY <1>1
<1>9. /\ u.kind \in {"start", "header", "no colon", "blank"}
      /\ u.kind = "start" <=> k = 1
      /\ u.kind = "header" <=> k \in 2..good
      /\ u.kind = "no colon" <=> k = good + 1 /\ r.malformedHeader
      /\ u.kind = "blank" <=> k = blank
      /\ k = 2 /\ r.length # None => u.name = "Content-Length" /\ u.value = r.length
      /\ k \in 2..good /\ ~(k = 2 /\ r.length # None) =>
           /\ r.connection # None /\ k = good
           /\ u.name = "Connection" /\ u.value = r.connection
  <2>1. CASE k = 1
    <3>1. u.kind = "start" /\ ~(k \in 2..good) /\ k # good + 1 /\ k # blank
      BY <1>1, <1>2, <1>7, <2>1
    <3> QED
      BY <2>1, <3>1
  <2>2. CASE k \in 2..good
    <3>1. k # 1 /\ k # good + 1 /\ k # blank
      BY <1>1, <2>2
    <3>2. CASE k = 2 /\ r.length # None
      <4>1. u.kind = "header" /\ u.name = "Content-Length" /\ u.value = r.length
        BY <1>3, <1>7, <3>2
      <4> QED
        BY <2>2, <3>1, <3>2, <4>1
    <3>3. CASE ~(k = 2 /\ r.length # None)
      <4>1. r.connection # None /\ k = good
        BY <1>1, <2>2, <3>3
      <4>2. u.kind = "header" /\ u.name = "Connection" /\ u.value = r.connection
        BY <1>4, <1>7, <4>1
      <4> QED
        BY <2>2, <3>1, <3>3, <4>1, <4>2
    <3> QED
      BY <3>2, <3>3
  <2>3. CASE k = good + 1 /\ r.malformedHeader
    <3>1. ~(k \in 2..good) /\ k # 1 /\ k # blank
      <4>1. blank = good + 2 /\ k = good + 1 /\ 1 <= good
        BY <1>1, <2>3
      <4> QED
        BY <1>1, <4>1
    <3>2. u.kind = "no colon"
      BY <1>5, <1>7, <2>3
    <3>3. k # 2 \/ r.length = None
      BY <1>1, <2>3
    <3> QED
      BY <2>3, <3>1, <3>2, <3>3
  <2>4. CASE k = blank
    <3>1. u.kind = "blank" /\ ~(k \in 2..good) /\ k # 1
      BY <1>1, <1>6, <1>7, <2>4
    <3>2. (k # 2 \/ r.length = None) /\ ~(k = good + 1 /\ r.malformedHeader)
      BY <1>1, <2>4
    <3> QED
      BY <2>4, <3>1, <3>2
  <2>5. k = 1 \/ k \in 2..good \/ (k = good + 1 /\ r.malformedHeader) \/ k = blank
    BY <1>1, <1>8
  <2> QED
    BY <2>1, <2>2, <2>3, <2>4, <2>5
<1>10. /\ k \in 2..GoodLines(r) <=> k \in 2..good
       /\ k = GoodLines(r) + 1 <=> k = good + 1
       /\ k = BlankLine(r) <=> k = blank
       /\ k = GoodLines(r) <=> k = good
  BY <1>1
<1> QED
  BY <1>7, <1>9, <1>10 DEF IsLine

LEMMA Current ==
  ASSUME ShapeInv, NEW stream, NEW starts, NEW taken \in Nat,
         ParsesFrom(stream, starts, taken), NEW i, i = Len(handled) + 1
  PROVE  /\ i \in Nat \ {0} /\ Len(handled) \in Nat /\ Len(script) \in Nat /\ starts[i] \in Nat
         /\ Len(buf) \in Nat /\ Len(wire) \in Nat
         /\ starts[i] + taken + Len(buf) + Len(wire) = Len(stream)
         /\ \A k \in 1..Len(buf) : buf[k] = stream[starts[i] + taken + k]
         /\ i = Len(script) + 1 => Len(buf) = 0
         /\ i <= Len(script) =>
              /\ script[i] \in Requests
              /\ AreUnits(Units(i, script[i]), i, script[i])
              /\ starts[i + 1] = starts[i] + Len(Units(i, script[i]))
              /\ \A k \in 1..Len(buf) : taken + k <= Len(Units(i, script[i])) =>
                   buf[k] = Units(i, script[i])[taken + k]
<1>1. /\ i \in Nat \ {0} /\ Len(handled) \in Nat /\ Len(script) \in Nat
      /\ script \in Seq(Requests) /\ Len(buf) \in Nat /\ Len(wire) \in Nat
  BY LenProperties DEF ShapeInv, TypeOK, IsSequence
<1>2. /\ i \in 1..(Len(script) + 1) /\ IsStream(stream, starts)
      /\ Holds(stream, starts[i] + taken)
  BY <1>1 DEF ParsesFrom
<1>3. starts[i] \in Nat /\ starts[Len(script) + 1] = Len(stream)
  BY <1>2 DEF IsStream
<1>4. /\ starts[i] + taken + Len(buf) + Len(wire) = Len(stream)
      /\ \A k \in 1..Len(buf) : buf[k] = stream[starts[i] + taken + k]
  BY <1>2 DEF Holds
<1>5. i = Len(script) + 1 => Len(buf) = 0
  BY <1>1, <1>3, <1>4
<1>6. ASSUME i <= Len(script)
      PROVE  /\ script[i] \in Requests
             /\ AreUnits(Units(i, script[i]), i, script[i])
             /\ starts[i + 1] = starts[i] + Len(Units(i, script[i]))
             /\ \A k \in 1..Len(buf) : taken + k <= Len(Units(i, script[i])) =>
                  buf[k] = Units(i, script[i])[taken + k]
  <2>1. i \in 1..Len(script) /\ script[i] \in Requests
    BY <1>1, <1>6, ElementOfSeq
  <2>2. AreUnits(Units(i, script[i]), i, script[i])
    BY <2>1, Sent, UnitsOfRequest
  <2>3. PICK units : units = Units(i, script[i])
    OBVIOUS
  <2>4. /\ starts[i + 1] = starts[i] + Len(units)
        /\ \A k \in 1..Len(units) : stream[starts[i] + k] = units[k]
    BY <1>2, <2>1, <2>3 DEF IsStream
  <2>5. Len(units) \in Nat
    BY <2>2, <2>3 DEF AreUnits, IsSequence
  <2>6. ASSUME NEW k \in 1..Len(buf), taken + k <= Len(units)
        PROVE  buf[k] = units[taken + k]
    <3>1. taken + k \in 1..Len(units) /\ starts[i] + taken + k = starts[i] + (taken + k)
      BY <1>1, <1>3, <2>5, <2>6
    <3> QED
      BY <1>4, <2>4, <3>1
  <2> QED
    BY <2>1, <2>2, <2>3, <2>4, <2>6
<1> QED
  BY <1>1, <1>3, <1>4, <1>5, <1>6

(* The line that has come is the next one of the request.                  *)
LEMMA NextLine ==
  ASSUME ShapeInv, state \in {"line", "headers"}, LineArrived(state),
         NEW stream, NEW starts, NEW taken \in Nat, ParsesFrom(stream, starts, taken),
         NEW i, i = Len(handled) + 1
  PROVE  /\ i \in Nat \ {0} /\ i <= Len(script) /\ script[i] \in Requests
         /\ AreUnits(Units(i, script[i]), i, script[i])
         /\ LineEnd = 1 /\ Len(buf) > 0
         /\ taken + 1 \in 1..BlankLine(script[i])
         /\ Line = Units(i, script[i])[taken + 1]
<1>1. LineEnd \in 0..Len(buf) /\ LineEnd # 0 /\ Len(buf) \in Nat /\ IsSequence(buf)
  BY LineFits DEF LineArrived, IsSequence
<1>2. Len(buf) > 0
  BY <1>1
<1>3. i \in Nat \ {0} /\ i # Len(script) + 1 /\ Len(script) \in Nat
  BY <1>2, Current
<1>4. i <= Len(script)
  <2>1. i <= Len(script) + 1
    BY DEF ParsesFrom
  <2> QED
    BY <1>3, <2>1
<1>5. PICK r, units : r = script[i] /\ units = Units(i, r)
  OBVIOUS
<1>6. /\ r \in Requests /\ AreUnits(units, i, r)
      /\ \A k \in 1..Len(buf) : taken + k <= Len(units) => buf[k] = units[taken + k]
  BY <1>4, <1>5, Current
<1>7. BlankLine(r) \in 2..5 /\ GoodLines(r) \in 1..3 /\ GoodLines(r) < BlankLine(r)
  BY Lines DEF BlankLine
<1>8. taken + 1 \in 1..BlankLine(r)
  <2>1. CASE state = "line"
    BY <1>7, <2>1 DEF ParsesFrom
  <2>2. CASE state = "headers"
    <3>1. taken \in 1..GoodLines(r)
      BY <1>5, <2>2 DEF ParsesFrom, InRequest
    <3> QED
      BY <1>7, <3>1
  <2> QED
    BY <2>1, <2>2
<1>9. taken + 1 <= Len(units)
  <2>1. Len(units) = BlankLine(r) + r.body /\ r.body \in Nat
    BY <1>6, Sent DEF AreUnits
  <2> QED
    BY <1>7, <1>8, <2>1
<1>10. buf[1] = units[taken + 1]
  BY <1>1, <1>2, <1>6, <1>9
<1>11. LineEnd = 1
  <2>1. IsLine(units[taken + 1], taken + 1, r)
    BY <1>6, <1>8, HeadUnits
  <2>2. buf[1].kind # "byte"
    BY <1>10, <2>1 DEF IsLine
  <2> QED
    BY <1>1, <1>2, <2>2, LineEndIsFirst
<1>12. Line = units[taken + 1]
  BY <1>10, <1>11 DEF Line
<1> QED
  BY <1>2, <1>3, <1>4, <1>5, <1>6, <1>8, <1>11, <1>12

LEMMA StreamStays ==
  ASSUME NEW stream, NEW starts, IsStream(stream, starts), UNCHANGED script
  PROVE  IsStream(stream, starts)'
BY DEF IsStream

LEMMA Moves ==
  ASSUME NEW stream, NEW position \in Nat, Holds(stream, position), IsSequence(buf),
         IsSequence(wire), NEW n \in 0..Len(buf), Drop(n), UNCHANGED wire
  PROVE  Holds(stream, position + n)'
<1>1. /\ Len(buf) \in Nat /\ Len(wire) \in Nat
      /\ Len(buf') = Len(buf) - n /\ Len(wire') = Len(wire) /\ n \in Int
      /\ \A k \in 1..(Len(buf) - n) : buf'[k] = buf[n + k]
  BY DropShape DEF IsSequence
<1>2. /\ position + Len(buf) + Len(wire) = Len(stream)
      /\ \A k \in 1..Len(buf) : buf[k] = stream[position + k]
      /\ \A k \in 1..Len(wire) : wire[k] = stream[position + Len(buf) + k]
  BY DEF Holds
<1>3. (position + n) + Len(buf') + Len(wire') = Len(stream)
  <2>1. (position + n) + (Len(buf) - n) + Len(wire) = position + Len(buf) + Len(wire)
    BY <1>1
  <2> QED
    BY <1>1, <1>2, <2>1
<1>4. ASSUME NEW k \in 1..Len(buf')
      PROVE  buf'[k] = stream[(position + n) + k]
  <2>1. k \in 1..(Len(buf) - n) /\ n + k \in 1..Len(buf)
        /\ position + (n + k) = (position + n) + k
    BY <1>1
  <2>2. buf'[k] = buf[n + k] /\ buf[n + k] = stream[position + (n + k)]
    BY <1>1, <1>2, <2>1
  <2> QED
    BY <2>1, <2>2
<1>5. ASSUME NEW k \in 1..Len(wire')
      PROVE  wire'[k] = stream[(position + n) + Len(buf') + k]
  <2>1. k \in 1..Len(wire) /\ (position + n) + Len(buf') + k = position + Len(buf) + k
    BY <1>1
  <2>2. wire'[k] = stream[position + Len(buf) + k]
    BY <1>2, <2>1
  <2> QED
    BY <2>1, <2>2
<1> QED
  BY <1>3, <1>4, <1>5 DEF Holds

(* What a step of the parser has to show.                                  *)
LEMMA FaultlessStays ==
  ASSUME InStep, UNCHANGED <<script, handled, answers, open>>
  PROVE  Faultless'
<1>1. Faultless
  BY DEF InStep, Faultless
<1> QED
  BY <1>1 DEF Faultless

LEMMA KeepsInStep ==
  ASSUME InStep, UNCHANGED <<script, handled, answers, open>>, pc' # "refuse",
         NEW stream, NEW starts, NEW taken \in Nat, ParsesFrom(stream, starts, taken)'
  PROVE  InStep'
<1>1. Faultless'
  BY FaultlessStays
<1>2. (\E s, t : \E m \in Nat : ParsesFrom(s, t, m))'
  OBVIOUS
<1> QED
  BY <1>1, <1>2 DEF InStep, Faultless

LEMMA RefusesInStep ==
  ASSUME InStep, UNCHANGED <<script, handled, answers, open>>, pc' = "refuse",
         Len(handled) < Len(script), ~WellFormed(script[Len(handled) + 1])
  PROVE  InStep'
<1>1. Faultless'
  BY FaultlessStays
<1> QED
  BY <1>1 DEF InStep, Faultless

LEMMA InStepParses ==
  ASSUME InStep, pc # "refuse"
  PROVE  \E stream, starts : \E taken \in Nat : ParsesFrom(stream, starts, taken)
BY DEF InStep

(* A step that takes the first n units and stays in the request.           *)
LEMMA TakesUnits ==
  ASSUME ShapeInv, NEW stream, NEW starts, NEW taken \in Nat,
         ParsesFrom(stream, starts, taken), NEW n \in 0..Len(buf), Drop(n),
         UNCHANGED <<client, handled>>, NEW i, i = Len(handled) + 1, i <= Len(script),
         state' # "line", InRequest(i, script[i], taken + n)'
  PROVE  ParsesFrom(stream, starts, taken + n)'
<1>1. starts[i] \in Nat /\ Len(buf) \in Nat
  BY Current
<1>2. n \in Nat /\ starts[i] + taken \in Nat /\ (starts[i] + taken) + n = starts[i] + (taken + n)
  BY <1>1
<1>3. Holds(stream, starts[i] + (taken + n))'
  <2>1. Holds(stream, starts[i] + taken)
    BY DEF ParsesFrom
  <2>2. Holds(stream, (starts[i] + taken) + n)'
    BY <1>2, <2>1, Moves DEF ShapeInv, client
  <2> QED
    BY <1>2, <2>2
<1>4. IsStream(stream, starts)'
  BY StreamStays DEF ParsesFrom, client
<1>5. i <= Len(script) + 1
  BY DEF ParsesFrom
<1> QED
  BY <1>3, <1>4, <1>5 DEF ParsesFrom, client

(* The request line.                                                       *)
LEMMA FirstHeaders ==
  ASSUME NEW i, NEW r
  PROVE  ReadSoFar(i, r, 1) = [of |-> i, method |-> r.method, version |-> r.version,
                               headers |-> [h \in HeaderNames |-> None],
                               length |-> 0, body |-> <<>>]
<1>1. PICK soFar : soFar = [h \in HeaderNames |->
                              IF h = "Content-Length"
                              THEN IF 1 > Given(r.length) THEN r.length ELSE None
                              ELSE IF 1 >= GoodLines(r) THEN r.connection ELSE None]
  OBVIOUS
<1>2. 1 > Given(r.length) => r.length = None
  BY DEF Given
<1>3. 1 >= GoodLines(r) => r.connection = None
  BY DEF GoodLines, Given
<1>4. soFar = [h \in HeaderNames |-> None]
  BY <1>1, <1>2, <1>3
<1> QED
  BY <1>1, <1>4 DEF ReadSoFar

LEMMA RequestLineInStep ==
  ASSUME ShapeInv, InStep, RequestLine \/ BadRequestLine
  PROVE  InStep'
<1>1. /\ pc = "parse" /\ state = "line" /\ LineArrived(state)
      /\ request' = ParsedStart(Line)
      /\ UNCHANGED <<client, handled, answers, open>>
  BY DEF RequestLine, BadRequestLine, LineArrived, Parsing, replies
<1>2. PICK stream, starts : \E taken \in Nat : ParsesFrom(stream, starts, taken)
  BY <1>1, InStepParses
<1>3. ParsesFrom(stream, starts, 0) /\ request = EmptyRequest
  BY <1>1, <1>2 DEF ParsesFrom
<1>4. PICK i, r : i = Len(handled) + 1 /\ r = script[i]
  OBVIOUS
<1>5. /\ i <= Len(script) /\ i \in Nat /\ AreUnits(Units(i, r), i, r)
      /\ LineEnd = 1 /\ Len(buf) > 0 /\ Line = Units(i, r)[1]
  BY <1>1, <1>3, <1>4, NextLine
<1>6. Line = [kind |-> "start", of |-> i, method |-> r.method, version |-> r.version]
  BY <1>5, Zenon DEF AreUnits
<1>7. GoodStart(Line) <=> r.method # "unknown" /\ r.version # "malformed"
  BY <1>6 DEF GoodStart
<1>8. CASE RequestLine
  <2>1. r.method # "unknown" /\ r.version # "malformed"
    BY <1>7, <1>8 DEF RequestLine
  <2>2. ParsedStart(Line) = [request EXCEPT !.method = r.method, !.of = i, !.version = r.version]
    BY <1>6, <2>1 DEF ParsedStart
  <2>3. request' = ReadSoFar(i, r, 1)
    <3>1. PICK none : none = [h \in HeaderNames |-> None]
      OBVIOUS
    <3>2. EmptyRequest = [of |-> 0, method |-> "unknown", version |-> "Unknown",
                          headers |-> none, length |-> 0, body |-> <<>>]
      BY <3>1 DEF EmptyRequest
    <3>3. request' = [of |-> i, method |-> r.method, version |-> r.version,
                      headers |-> none, length |-> 0, body |-> <<>>]
      BY <1>1, <1>3, <2>2, <3>2
    <3> QED
      BY <3>1, <3>3, FirstHeaders
  <2>4. state' = "headers" /\ pc' = "parse" /\ Drop(1)
    BY <1>1, <1>5, <1>8 DEF RequestLine
  <2>5. InRequest(i, script[i], 1)'
    BY <1>1, <1>4, <2>1, <2>3, <2>4, Lines DEF InRequest, client
  <2>6. ParsesFrom(stream, starts, 0 + 1)'
    <3>1. 1 \in 0..Len(buf)
      BY <1>5 DEF ShapeInv, IsSequence
    <3>2. (0 + 1)' = 1
      OBVIOUS
    <3> QED
      BY <1>1, <1>3, <1>4, <1>5, <2>4, <2>5, <3>1, <3>2, TakesUnits
  <2> QED
    BY <1>1, <2>4, <2>6, KeepsInStep DEF client
<1>9. CASE BadRequestLine
  <2>1. ~WellFormed(r)
    BY <1>7, <1>9 DEF BadRequestLine, WellFormed
  <2>2. Len(handled) < Len(script)
    BY <1>4, <1>5 DEF ShapeInv, IsSequence
  <2> QED
    BY <1>1, <1>4, <1>9, <2>1, <2>2, RefusesInStep DEF BadRequestLine, client
<1> QED
  BY <1>8, <1>9

(* A header line.                                                          *)
LEMMA HeaderStored ==
  ASSUME NEW i, NEW r, NEW taken \in 1..(GoodLines(r) - 1), NEW u,
         u = Units(i, r)[taken + 1], AreUnits(Units(i, r), i, r)
  PROVE  /\ u.kind = "header"
         /\ [ReadSoFar(i, r, taken) EXCEPT !.headers[u.name] = u.value]
              = ReadSoFar(i, r, taken + 1)
<1>1. PICK good \in 1..3, blank \in 2..5 :
        /\ good = GoodLines(r) /\ blank = BlankLine(r) /\ good < blank
        /\ good = 1 + Given(r.length) + Given(r.connection)
  BY Lines DEF GoodLines, BlankLine
<1>2. PICK k : k = taken + 1
  OBVIOUS
<1>3. /\ taken \in 1..(good - 1) /\ k \in 2..good /\ k \in Nat
      /\ k \in 1..BlankLine(r) /\ k \in 2..GoodLines(r) /\ u = Units(i, r)[k]
  BY <1>1, <1>2
<1>4. /\ u.kind = "header"
      /\ k = 2 /\ r.length # None => u.name = "Content-Length" /\ u.value = r.length
      /\ ~(k = 2 /\ r.length # None) =>
           /\ r.connection # None /\ k = GoodLines(r)
           /\ u.name = "Connection" /\ u.value = r.connection
  <2>1. PICK units : units = Units(i, r)
    OBVIOUS
  <2>2. AreUnits(units, i, r) /\ k \in 1..BlankLine(r) /\ u = units[k] /\ k \in 2..GoodLines(r)
    BY <1>3, <2>1
  <2>3. IsLine(u, k, r)
    BY <2>2, HeadUnits
  <2> QED
    BY <2>2, <2>3 DEF IsLine
<1> DEFINE Stored(n) == [h \in HeaderNames |->
                           IF h = "Content-Length"
                           THEN IF n > Given(r.length) THEN r.length ELSE None
                           ELSE IF n >= GoodLines(r) THEN r.connection ELSE None]
<1>5. PICK before, after : before = Stored(taken) /\ after = Stored(k)
  OBVIOUS
<1>6. [before EXCEPT ![u.name] = u.value] = after
  <2>1. CASE k = 2 /\ r.length # None
    <3>1. taken = 1 /\ Given(r.length) = 1
      BY <1>2, <1>3, <2>1 DEF Given
    <3>2. /\ ~(taken > Given(r.length)) /\ ~(taken >= GoodLines(r)) /\ k > Given(r.length)
          /\ k >= GoodLines(r) => r.connection = None
      BY <1>1, <2>1, <3>1, Lines DEF Given
    <3>3. before = [h \in HeaderNames |-> None]
      BY <1>5, <3>2
    <3>4. after = [h \in HeaderNames |-> IF h = "Content-Length" THEN r.length ELSE None]
      BY <1>5, <3>2
    <3> QED
      BY <1>4, <2>1, <3>3, <3>4 DEF HeaderNames
  <2>2. CASE ~(k = 2 /\ r.length # None)
    <3>1. /\ r.connection # None /\ k = good
          /\ u.name = "Connection" /\ u.value = r.connection
      BY <1>1, <1>4, <2>2
    <3>2. /\ taken > Given(r.length) /\ k > Given(r.length)
          /\ ~(taken >= GoodLines(r)) /\ k >= GoodLines(r)
      BY <1>1, <1>2, <1>3, <3>1, Lines DEF Given
    <3>3. before = [h \in HeaderNames |-> IF h = "Content-Length" THEN r.length ELSE None]
      BY <1>5, <3>2
    <3>4. after = [h \in HeaderNames |->
                     IF h = "Content-Length" THEN r.length ELSE r.connection]
      BY <1>5, <3>2
    <3> QED
      BY <3>1, <3>3, <3>4 DEF HeaderNames
  <2> QED
    BY <2>1, <2>2
<1>7. /\ ReadSoFar(i, r, taken) = [of |-> i, method |-> r.method, version |-> r.version,
                                   headers |-> before, length |-> 0, body |-> <<>>]
      /\ ReadSoFar(i, r, taken + 1) = [of |-> i, method |-> r.method, version |-> r.version,
                                       headers |-> after, length |-> 0, body |-> <<>>]
  BY <1>2, <1>5 DEF ReadSoFar
<1> HIDE DEF Stored
<1> QED
  BY <1>4, <1>6, <1>7

LEMMA HeaderLineInStep ==
  ASSUME ShapeInv, InStep, HeaderLine \/ BadHeaderLine
  PROVE  InStep'
<1>1. /\ pc = "parse" /\ state = "headers" /\ LineArrived(state) /\ Drop(LineEnd)
      /\ UNCHANGED <<client, handled, answers, open>>
  BY DEF HeaderLine, BadHeaderLine, LineArrived, Parsing, replies
<1>2. PICK stream, starts : \E taken \in Nat : ParsesFrom(stream, starts, taken)
  BY <1>1, InStepParses
<1>3. PICK taken \in Nat : ParsesFrom(stream, starts, taken)
  BY <1>2
<1>4. PICK i, r : i = Len(handled) + 1 /\ r = script[i]
  OBVIOUS
<1>5. /\ i <= Len(script) /\ i \in Nat /\ AreUnits(Units(i, r), i, r)
      /\ LineEnd = 1 /\ Len(buf) > 0 /\ taken + 1 \in 1..BlankLine(r)
      /\ Line = Units(i, r)[taken + 1]
  BY <1>1, <1>3, <1>4, NextLine
<1>6. InRequest(i, r, taken)
  BY <1>1, <1>3, <1>4 DEF ParsesFrom
<1>7. /\ r.method # "unknown" /\ r.version # "malformed"
      /\ taken \in 1..GoodLines(r) /\ request = ReadSoFar(i, r, taken)
  BY <1>1, <1>6 DEF InRequest
<1>8. IsLine(Line, taken + 1, r)
  BY <1>5, HeadUnits
<1>9. GoodLines(r) \in 1..3
  BY Lines
<1>10. Line.kind # "start" /\ Line.kind # "mixed"
  <2>1. taken + 1 # 1
    BY <1>7, <1>9
  <2> QED
    BY <1>8, <2>1 DEF IsLine
<1>11. CASE HeaderLine
  <2>1. /\ Line.kind = "header" /\ state' = "headers" /\ pc' = "parse"
        /\ request' = [request EXCEPT !.headers[Line.name] = Line.value]
    BY <1>1, <1>10, <1>11 DEF HeaderLine
  <2>2. taken + 1 \in 2..GoodLines(r)
    BY <1>8, <2>1 DEF IsLine
  <2>3. taken \in 1..(GoodLines(r) - 1) /\ taken + 1 \in 1..GoodLines(r) /\ taken + 1 \in Nat
    BY <1>7, <1>9, <2>2
  <2>4. request' = ReadSoFar(i, r, taken + 1)
    <3>1. PICK u : u = Units(i, r)[taken + 1]
      OBVIOUS
    <3>2. [ReadSoFar(i, r, taken) EXCEPT !.headers[u.name] = u.value]
            = ReadSoFar(i, r, taken + 1)
      BY <1>5, <2>3, <3>1, HeaderStored
    <3> QED
      BY <1>5, <1>7, <2>1, <3>1, <3>2
  <2>5. PICK next : next = taken + 1 /\ next \in Nat
    BY <2>3
  <2>6. InRequest(i, script[i], next)'
    BY <1>1, <1>4, <1>7, <2>1, <2>3, <2>4, <2>5 DEF InRequest, client
  <2>7. ParsesFrom(stream, starts, next)'
    <3>1. 1 \in 0..Len(buf) /\ Drop(1)
      BY <1>1, <1>5 DEF ShapeInv, IsSequence
    <3> QED
      BY <1>1, <1>3, <1>4, <1>5, <2>1, <2>5, <2>6, <3>1, TakesUnits
  <2> QED
    BY <1>1, <2>1, <2>5, <2>7, KeepsInStep DEF client
<1>12. CASE BadHeaderLine
  <2>1. Line.kind = "no colon" /\ pc' = "refuse"
    BY <1>10, <1>12 DEF BadHeaderLine
  <2>2. ~WellFormed(r)
    BY <1>8, <2>1 DEF IsLine, WellFormed
  <2>3. Len(handled) < Len(script)
    BY <1>4, <1>5 DEF ShapeInv, IsSequence
  <2> QED
    BY <1>1, <1>4, <2>1, <2>2, <2>3, RefusesInStep DEF client
<1> QED
  BY <1>11, <1>12

(* The end of the headers: request_ holds those that were sent.            *)
LEMMA AllHeaders ==
  ASSUME NEW i, NEW r, NEW lines \in {GoodLines(r), BlankLine(r)}
  PROVE  ReadSoFar(i, r, lines)
           = [of |-> i, method |-> r.method, version |-> r.version,
              headers |-> [h \in HeaderNames |->
                             IF h = "Connection" THEN r.connection ELSE r.length],
              length |-> 0, body |-> <<>>]
<1>1. lines > Given(r.length) /\ lines >= GoodLines(r)
  BY Lines DEF GoodLines, BlankLine
<1>2. PICK soFar : soFar = [h \in HeaderNames |->
                              IF h = "Content-Length"
                              THEN IF lines > Given(r.length) THEN r.length ELSE None
                              ELSE IF lines >= GoodLines(r) THEN r.connection ELSE None]
  OBVIOUS
<1>3. soFar = [h \in HeaderNames |-> IF h = "Connection" THEN r.connection ELSE r.length]
  BY <1>1, <1>2 DEF HeaderNames
<1> QED
  BY <1>2, <1>3 DEF ReadSoFar

(* A negative length is longer than whatever may still come.               *)
LEMMA LengthFits ==
  ASSUME ShapeInv, NEW r \in Requests, r.length \in Int
  PROVE  /\ r.length % Width \in Nat
         /\ r.length % Width <= Len(buf) =>
              r.length \in Nat /\ r.body = r.length /\ r.length % Width = r.length
<1>1. WellSent(r) /\ Width \in Nat /\ 0 < Width /\ r.length % Width \in 0..(Width - 1)
  BY Sent
<1>2. r.length % Width \in Nat
  BY <1>1
<1>3. CASE r.length >= 0
  <2>1. r.length \in Nat
    BY <1>3
  <2>2. r.body = r.length /\ r.body \in 0..MaxBody
    BY <1>1, <2>1 DEF WellSent
  <2>3. MaxBody \in Nat /\ MaxBody < Width
    BY HttpAssumption
  <2>4. r.length \in 0..(Width - 1)
    BY <1>1, <2>2, <2>3
  <2>5. r.length % Width = r.length
    BY <1>1, <2>4
  <2> QED
    BY <1>2, <2>1, <2>2, <2>5
<1>4. CASE r.length < 0
  <2>1. MaxRequests * (MaxBody + 5) < r.length % Width
    BY <1>4, HttpAssumption
  <2>2. Len(buf) <= MaxRequests * (MaxBody + 5)
    <3>1. /\ Len(script) \in Nat /\ Len(script) <= MaxRequests /\ MaxRequests \in Nat
          /\ MaxBody \in Nat /\ Len(buf) \in Nat /\ Len(wire) \in Nat
          /\ Len(buf) + Len(wire) <= Len(script) * (MaxBody + 5)
      BY HttpAssumption, LenProperties DEF ShapeInv, TypeOK, IsSequence
    <3>2. PICK unit, most, sent :
            unit = MaxBody + 5 /\ most = MaxRequests /\ sent = Len(script)
      OBVIOUS
    <3>3. sent * unit \in Nat /\ most * unit \in Nat /\ sent * unit <= most * unit
      <4>1. unit \in Nat /\ most \in Nat /\ sent \in Nat /\ sent <= most
        BY <3>1, <3>2
      <4> QED
        BY <4>1
    <3>4. PICK more, all \in Nat : more = sent * unit /\ all = most * unit
      BY <3>3
    <3>5. Len(buf) <= all
      BY <3>1, <3>2, <3>3, <3>4
    <3> QED
      BY <3>2, <3>4, <3>5
  <2>3. PICK all \in Nat : all = MaxRequests * (MaxBody + 5)
    BY HttpAssumption
  <2>4. Len(buf) \in Nat
    BY DEF ShapeInv, IsSequence
  <2>5. ~(r.length % Width <= Len(buf))
    BY <1>2, <2>1, <2>2, <2>3, <2>4
  <2> QED
    BY <1>2, <2>5
<1> QED
  BY <1>3, <1>4

LEMMA HeadersEnd ==
  ASSUME ShapeInv, InStep, LineArrived("headers"), Line.kind = "blank", NEW i, NEW r,
         i = Len(handled) + 1, r = script[i]
  PROVE  /\ pc = "parse" /\ state = "headers" /\ i \in Nat /\ i <= Len(script)
         /\ r \in Requests
         /\ r.method # "unknown" /\ r.version # "malformed" /\ ~r.malformedHeader
         /\ request = ReadSoFar(i, r, GoodLines(r))
         /\ request.method = r.method /\ DeclaredLength = r.length
         /\ Len(handled) < Len(script) /\ 1 \in 0..Len(buf)
         /\ BlankLine(r) \in Nat
         /\ Len(Units(i, r)) = BlankLine(r) + r.body /\ r.body \in Nat
         /\ \E stream, starts : \E taken \in Nat :
              ParsesFrom(stream, starts, taken) /\ taken + 1 = BlankLine(r)
<1>1. pc = "parse" /\ state = "headers" /\ LineArrived(state)
  BY DEF LineArrived, Parsing
<1>2. PICK stream, starts : \E taken \in Nat : ParsesFrom(stream, starts, taken)
  BY <1>1, InStepParses
<1>3. PICK taken \in Nat : ParsesFrom(stream, starts, taken)
  BY <1>2
<1>4. /\ i <= Len(script) /\ i \in Nat /\ r \in Requests /\ AreUnits(Units(i, r), i, r)
      /\ LineEnd = 1 /\ Len(buf) > 0 /\ taken + 1 \in 1..BlankLine(r)
      /\ Line = Units(i, r)[taken + 1]
  BY <1>1, <1>3, NextLine
<1>5. InRequest(i, r, taken)
  BY <1>1, <1>3 DEF ParsesFrom
<1>6. /\ r.method # "unknown" /\ r.version # "malformed"
      /\ taken \in 1..GoodLines(r) /\ request = ReadSoFar(i, r, taken)
  BY <1>1, <1>5 DEF InRequest
<1>7. IsLine(Line, taken + 1, r)
  BY <1>4, HeadUnits
<1>8. taken + 1 = BlankLine(r)
  BY <1>7 DEF IsLine
<1>9. GoodLines(r) \in 1..3 /\ BlankLine(r) = GoodLines(r) + (IF r.malformedHeader THEN 2 ELSE 1)
  BY Lines DEF BlankLine
<1>10. taken = GoodLines(r) /\ ~r.malformedHeader /\ BlankLine(r) \in Nat
  BY <1>6, <1>8, <1>9
<1>11. request = [of |-> i, method |-> r.method, version |-> r.version,
                  headers |-> [h \in HeaderNames |->
                                 IF h = "Connection" THEN r.connection ELSE r.length],
                  length |-> 0, body |-> <<>>]
  BY <1>6, <1>10, AllHeaders
<1>12. request.method = r.method /\ DeclaredLength = r.length
  BY <1>11 DEF DeclaredLength, HeaderNames
<1>13. Len(handled) < Len(script) /\ 1 \in 0..Len(buf)
  BY <1>4 DEF ShapeInv, IsSequence
<1>14. Len(Units(i, r)) = BlankLine(r) + r.body /\ r.body \in Nat
  BY <1>4, Sent DEF AreUnits
<1>15. \E s, t : \E n \in Nat : ParsesFrom(s, t, n) /\ n + 1 = BlankLine(r)
  BY <1>3, <1>8
<1> QED
  BY <1>1, <1>4, <1>6, <1>10, <1>12, <1>13, <1>14, <1>15

LEMMA NothingSent ==
  ASSUME NEW i
  PROVE  [k \in 1..0 |-> [kind |-> "byte", of |-> i]] = <<>>
OBVIOUS

LEMMA EndInStep ==
  ASSUME ShapeInv, InStep,
         EndWithoutBody \/ EndWithLength \/ EndWithoutLength \/ EndWithBadLength
  PROVE  InStep'
<1>1. LineArrived("headers") /\ Line.kind = "blank"
      /\ UNCHANGED <<client, handled, answers, open>>
  BY DEF EndWithoutBody, EndWithLength, EndWithoutLength, EndWithBadLength, GotHeaders, replies
<1>2. PICK i, r : i = Len(handled) + 1 /\ r = script[i]
  OBVIOUS
<1>3. /\ pc = "parse" /\ state = "headers" /\ i \in Nat /\ i <= Len(script)
      /\ r \in Requests
      /\ r.method # "unknown" /\ r.version # "malformed" /\ ~r.malformedHeader
      /\ request = ReadSoFar(i, r, GoodLines(r))
      /\ request.method = r.method /\ DeclaredLength = r.length
      /\ Len(handled) < Len(script) /\ 1 \in 0..Len(buf)
      /\ BlankLine(r) \in Nat
      /\ Len(Units(i, r)) = BlankLine(r) + r.body /\ r.body \in Nat
      /\ \E stream, starts : \E taken \in Nat :
           ParsesFrom(stream, starts, taken) /\ taken + 1 = BlankLine(r)
  BY <1>1, <1>2, HeadersEnd
<1>4. PICK stream, starts : \E taken \in Nat :
        ParsesFrom(stream, starts, taken) /\ taken + 1 = BlankLine(r)
  BY <1>3
<1>5. PICK taken \in Nat : ParsesFrom(stream, starts, taken) /\ taken + 1 = BlankLine(r)
  BY <1>4
<1>6. PICK blank, headers :
        /\ blank = BlankLine(r)
        /\ headers = [h \in HeaderNames |->
                        IF h = "Connection" THEN r.connection ELSE r.length]
  OBVIOUS
<1>7. request = [of |-> i, method |-> r.method, version |-> r.version,
                 headers |-> headers, length |-> 0, body |-> <<>>]
      /\ ReadSoFar(i, r, blank)
           = [of |-> i, method |-> r.method, version |-> r.version,
              headers |-> headers, length |-> 0, body |-> <<>>]
  BY <1>3, <1>6, AllHeaders
<1>8. ASSUME GotHeaders, state' # "line", pc' # "refuse", InRequest(i, script[i], blank)'
      PROVE  InStep'
  <2>1. ParsesFrom(stream, starts, blank)'
    BY <1>1, <1>2, <1>3, <1>5, <1>6, <1>8, TakesUnits DEF GotHeaders
  <2> QED
    BY <1>1, <1>3, <1>6, <1>8, <2>1, KeepsInStep DEF client
<1>9. AsSent(i, r)
        = [of |-> i, method |-> r.method, version |-> r.version, headers |-> headers,
           length |-> r.body, body |-> [k \in 1..r.body |-> [kind |-> "byte", of |-> i]]]
  BY <1>6 DEF AsSent
<1>10. ASSUME GotHeaders, state' = "all", pc' # "refuse", r.body = 0, request' = request,
              WellFormed(r)
       PROVE  InStep'
  <2>1. [k \in 1..r.body |-> [kind |-> "byte", of |-> i]] = <<>>
    BY <1>10, NothingSent
  <2>2. request' = AsSent(i, r)
    BY <1>7, <1>9, <1>10, <2>1
  <2>3. blank = Len(Units(i, r))
    BY <1>3, <1>6, <1>10
  <2>4. InRequest(i, script[i], blank)'
    BY <1>1, <1>2, <1>3, <1>10, <2>2, <2>3 DEF InRequest, client
  <2> QED
    BY <1>8, <1>10, <2>4
<1>11. CASE EndWithoutBody
  <2>1. /\ GotHeaders /\ state' = "all" /\ pc' # "refuse" /\ request' = request
        /\ r.method # "POST"
    BY <1>3, <1>11 DEF EndWithoutBody, HasBody
  <2>2. r.body = 0
    BY <1>3, <2>1, Sent DEF WellSent
  <2>3. WellFormed(r)
    BY <1>3, <2>1 DEF WellFormed
  <2> QED
    BY <1>10, <2>1, <2>2, <2>3
<1>12. CASE EndWithLength
  <2>1. /\ GotHeaders /\ r.method = "POST" /\ r.length \in Int
        /\ request' = [request EXCEPT !.length = r.length % Width]
        /\ IF request'.length > 0
           THEN state' = "body" /\ pc' = pc ELSE state' = "all" /\ pc' = "respond"
    BY <1>3, <1>12 DEF EndWithLength, HasBody
  <2>2. WellFormed(r)
    BY <1>3, <2>1 DEF WellFormed
  <2>3. PICK length \in Nat : length = r.length % Width
    BY <1>3, <2>1, LengthFits
  <2>4. request' = [of |-> i, method |-> r.method, version |-> r.version,
                    headers |-> headers, length |-> length, body |-> <<>>]
    BY <1>7, <2>1, <2>3
  <2>5. CASE length > 0
    <3>1. state' = "body" /\ pc' = pc
      BY <2>1, <2>4, <2>5
    <3>2. request' = [ReadSoFar(i, r, blank) EXCEPT !.length = r.length % Width]
      BY <1>7, <2>3, <2>4
    <3>3. InRequest(i, script[i], blank)'
      BY <1>1, <1>2, <1>3, <1>6, <2>1, <2>2, <3>1, <3>2 DEF InRequest, client
    <3> QED
      BY <1>3, <1>8, <2>1, <3>1, <3>3
  <2>6. CASE length = 0
    <3>1. state' = "all" /\ pc' # "refuse"
      BY <2>1, <2>4, <2>6
    <3>2. Len(buf) \in Nat
      BY DEF ShapeInv, IsSequence
    <3>3. r.body = 0
      BY <1>3, <2>1, <2>3, <2>6, <3>2, LengthFits
    <3>4. request' = request
      BY <1>7, <2>4, <2>6
    <3> QED
      BY <1>10, <2>1, <2>2, <3>1, <3>3, <3>4
  <2> QED
    BY <2>3, <2>5, <2>6
<1>13. CASE EndWithoutLength \/ EndWithBadLength
  <2>1. pc' = "refuse" /\ r.method = "POST" /\ r.length \in {None, NotANumber}
    BY <1>3, <1>13 DEF EndWithoutLength, EndWithBadLength, HasBody
  <2>2. ~WellFormed(r)
    BY <2>1, HttpAssumption DEF WellFormed
  <2> QED
    BY <1>1, <1>2, <1>3, <2>1, <2>2, RefusesInStep DEF client
<1> QED
  BY <1>11, <1>12, <1>13

LEMMA BodyInStep ==
  ASSUME ShapeInv, InStep, Body
  PROVE  InStep'
<1>1. /\ pc = "parse" /\ state = "body" /\ Len(buf) >= request.length
      /\ request' = [request EXCEPT !.body = SubSeq(buf, 1, request.length)]
      /\ Drop(request.length) /\ state' = "all" /\ pc' = "respond"
      /\ UNCHANGED <<client, handled, answers, open>>
  BY DEF Body, Parsing, replies
<1>2. PICK stream, starts : \E taken \in Nat : ParsesFrom(stream, starts, taken)
  BY <1>1, InStepParses
<1>3. PICK taken \in Nat : ParsesFrom(stream, starts, taken)
  BY <1>2
<1>4. PICK i, r, units : i = Len(handled) + 1 /\ r = script[i] /\ units = Units(i, r)
  OBVIOUS
<1>5. i <= Len(script) /\ InRequest(i, r, taken)
  BY <1>1, <1>3, <1>4 DEF ParsesFrom
<1>6. /\ r \in Requests /\ AreUnits(units, i, r)
      /\ Len(buf) \in Nat
      /\ \A k \in 1..Len(buf) : taken + k <= Len(units) => buf[k] = units[taken + k]
  BY <1>3, <1>4, <1>5, Current
<1>7. /\ WellFormed(r) /\ r.method = "POST" /\ taken = BlankLine(r)
      /\ request = [ReadSoFar(i, r, taken) EXCEPT !.length = r.length % Width]
  BY <1>1, <1>5 DEF InRequest
<1>8. PICK headers :
        headers = [h \in HeaderNames |-> IF h = "Connection" THEN r.connection ELSE r.length]
  OBVIOUS
<1>9. ReadSoFar(i, r, taken)
        = [of |-> i, method |-> r.method, version |-> r.version,
           headers |-> headers, length |-> 0, body |-> <<>>]
  BY <1>7, <1>8, AllHeaders
<1>10. r.length \in Int
  BY <1>7 DEF WellFormed
<1>11. PICK length \in Nat : length = r.length % Width
  BY <1>6, <1>10, LengthFits
<1>12. request = [of |-> i, method |-> r.method, version |-> r.version,
                  headers |-> headers, length |-> length, body |-> <<>>]
  BY <1>7, <1>9, <1>11
<1>13. request.length = length /\ length <= Len(buf)
  BY <1>1, <1>6, <1>12
<1>14. r.body = length
  BY <1>6, <1>10, <1>11, <1>13, LengthFits
<1>15. PICK body : body = SubSeq(buf, 1, length)
  OBVIOUS
<1>16. body = [k \in 1..r.body |-> [kind |-> "byte", of |-> i]]
  <2>1. IsSequence(buf) /\ length \in 0..Len(buf) /\ 1 <= length + 1 /\ length + 1 - 1 = length
    BY <1>6, <1>13 DEF ShapeInv
  <2>2. /\ IsSequence(body) /\ Len(body) = length + 1 - 1
        /\ \A k \in 1..(length + 1 - 1) : body[k] = buf[1 + k - 1]
    BY <1>15, <2>1, Cut
  <2>3. ASSUME NEW k \in 1..length
        PROVE  body[k] = [kind |-> "byte", of |-> i]
    <3>1. Len(units) = BlankLine(r) + length
      BY <1>6, <1>14 DEF AreUnits
    <3>2. BlankLine(r) \in 2..5
      BY Lines
    <3>3. k \in 1..Len(buf) /\ taken + k <= Len(units) /\ 1 + k - 1 = k
      BY <1>6, <1>7, <1>13, <3>1, <3>2
    <3>4. body[k] = units[BlankLine(r) + k]
      BY <1>6, <1>7, <2>1, <2>2, <3>3
    <3>5. units[BlankLine(r) + k] = [kind |-> "byte", of |-> i]
      BY <1>6, <1>14, Zenon DEF AreUnits
    <3> QED
      BY <3>4, <3>5
  <2>4. body = [k \in 1..length |-> body[k]]
    BY <2>1, <2>2 DEF IsSequence
  <2> QED
    BY <1>14, <2>3, <2>4
<1>17. request' = AsSent(i, r)
  <2>1. request' = [of |-> i, method |-> r.method, version |-> r.version,
                    headers |-> headers, length |-> length, body |-> body]
    BY <1>1, <1>12, <1>13, <1>15
  <2>2. AsSent(i, r) = [of |-> i, method |-> r.method, version |-> r.version,
                        headers |-> headers, length |-> r.body,
                        body |-> [k \in 1..r.body |-> [kind |-> "byte", of |-> i]]]
    BY <1>8 DEF AsSent
  <2> QED
    BY <1>14, <1>16, <2>1, <2>2
<1>18. PICK all : all = taken + length
  OBVIOUS
<1>19. all = Len(units) /\ all \in Nat
  <2>1. Len(units) = BlankLine(r) + length
    BY <1>6, <1>14 DEF AreUnits
  <2>2. BlankLine(r) \in 2..5
    BY Lines
  <2> QED
    BY <1>7, <1>18, <2>1, <2>2
<1>20. InRequest(i, script[i], all)'
  BY <1>1, <1>4, <1>5, <1>7, <1>17, <1>19 DEF InRequest, client
<1>21. ParsesFrom(stream, starts, all)'
  <2>1. length \in 0..Len(buf) /\ Drop(length)
    BY <1>1, <1>6, <1>13
  <2> QED
    BY <1>1, <1>3, <1>4, <1>5, <1>18, <1>20, <2>1, TakesUnits
<1> QED
  BY <1>1, <1>19, <1>21, KeepsInStep DEF client

LEMMA IncompleteInStep ==
  ASSUME ShapeInv, InStep, Incomplete
  PROVE  InStep'
<1>1. pc = "parse" /\ pc' = "wait"
      /\ UNCHANGED <<script, wire, buf, state, request, handled, answers, open>>
  BY DEF Incomplete, Parsing, replies, client, context
<1>2. PICK stream, starts : \E taken \in Nat : ParsesFrom(stream, starts, taken)
  BY <1>1, InStepParses
<1>3. PICK taken \in Nat : ParsesFrom(stream, starts, taken)
  BY <1>2
<1>4. ParsesFrom(stream, starts, taken)'
  BY <1>1, <1>3 DEF ParsesFrom, IsStream, Holds, InRequest
<1> QED
  BY <1>1, <1>4, KeepsInStep

-----------------------------------------------------------------------------
(* The steps that are not the parser's.                                    *)
LEMMA RefuseLeavesRefused ==
  ASSUME ShapeInv, InStep, Refuse
  PROVE  Refused'
<1>1. /\ pc = "refuse" /\ open' = FALSE /\ script' = script /\ handled' = handled
  BY DEF Refuse, client
<1>2. /\ Len(handled) < Len(script) /\ ~WellFormed(script[Len(handled) + 1])
      /\ \A k \in 1..Len(handled) : handled[k] = AsSent(k, script[k])
  BY <1>1 DEF InStep
<1>3. PICK i : i = Len(handled) + 1
  OBVIOUS
<1>4. Len(handled) \in Nat /\ Len(script) \in Nat
  BY LenProperties DEF ShapeInv, TypeOK, IsSequence
<1>5. /\ i \in 1..Len(script) /\ ~WellFormed(script[i]) /\ i <= Len(handled) + 1
      /\ \A k \in 1..(i - 1) : handled[k] = AsSent(k, script[k])
  BY <1>2, <1>3, <1>4
<1> QED
  BY <1>1, <1>5 DEF Refused

LEMMA RespondInStep ==
  ASSUME ShapeInv, InStep, pc = "respond", NEW i, NEW r,
         i = Len(handled) + 1, r = script[i]
  PROVE  /\ i \in Nat \ {0} /\ i <= Len(script) /\ WellFormed(r) /\ request = AsSent(i, r)
         /\ \E stream, starts : /\ IsStream(stream, starts)
                                /\ Holds(stream, starts[i + 1])
                                /\ starts[i + 1] \in Nat
<1>1. state = "all" /\ i \in Nat \ {0}
  BY DEF ShapeInv, TypeOK, IsSequence
<1>2. PICK stream, starts : \E taken \in Nat : ParsesFrom(stream, starts, taken)
  BY InStepParses
<1>3. PICK taken \in Nat : ParsesFrom(stream, starts, taken)
  BY <1>2
<1>4. i <= Len(script) /\ InRequest(i, r, taken)
  BY <1>1, <1>3 DEF ParsesFrom
<1>5. WellFormed(r) /\ request = AsSent(i, r) /\ taken = Len(Units(i, r))
  BY <1>1, <1>4 DEF InRequest
<1>6. /\ starts[i] \in Nat /\ starts[i + 1] = starts[i] + taken
  BY <1>3, <1>4, <1>5, Current
<1>7. IsStream(stream, starts) /\ Holds(stream, starts[i + 1])
  BY <1>3, <1>6 DEF ParsesFrom
<1>8. starts[i + 1] \in Nat
  BY <1>6
<1>9. \E s, t : IsStream(s, t) /\ Holds(s, t[i + 1]) /\ t[i + 1] \in Nat
  BY <1>7, <1>8
<1> QED
  BY <1>1, <1>4, <1>5, <1>9

LEMMA OnRequestInStep ==
  ASSUME ShapeInv, InStep, NEW outcome \in Outcomes, OnRequest(outcome)
  PROVE  InStep'
<1>1. /\ pc = "respond" /\ handled' = Append(handled, request)
      /\ open' = (open /\ ~WantsClose /\ outcome # "unmatched")
      /\ state' = "line" /\ request' = EmptyRequest /\ pc' = "wait"
      /\ script' = script /\ wire' = wire /\ buf' = buf
      /\ Answer(request.of, outcome)
  BY DEF OnRequest, client
<1>2. PICK i, r, n : n = Len(handled) /\ i = n + 1 /\ r = script[i]
  OBVIOUS
<1>3. /\ i \in Nat \ {0} /\ i <= Len(script) /\ WellFormed(r) /\ request = AsSent(i, r)
      /\ \E stream, starts : /\ IsStream(stream, starts)
                             /\ Holds(stream, starts[i + 1])
                             /\ starts[i + 1] \in Nat
  BY <1>1, <1>2, RespondInStep
<1>4. /\ n \in Nat /\ Len(handled') = i /\ handled'[i] = AsSent(i, r)
      /\ \A k \in 1..n : handled'[k] = handled[k]
  <2>1. IsSequence(handled)
    BY DEF ShapeInv
  <2> QED
    BY <1>1, <1>2, <1>3, <2>1, Appended DEF IsSequence
<1>5. Faultless
  BY DEF InStep, Faultless
<1>6. \A k \in 1..Len(handled') : WellFormed(script'[k]) /\ handled'[k] = AsSent(k, script'[k])
  <2> SUFFICES ASSUME NEW k \in 1..i
               PROVE  WellFormed(script[k]) /\ handled'[k] = AsSent(k, script[k])
    BY <1>1, <1>4
  <2>1. CASE k \in 1..n
    BY <1>2, <1>4, <1>5, <2>1 DEF Faultless
  <2>2. CASE k = i
    BY <1>2, <1>3, <1>4, <2>2
  <2> QED
    BY <1>2, <1>4, <2>1, <2>2
<1>7. /\ \A k \in 1..Len(answers') : answers'[k].outcome # "refused"
      /\ Len(answers') <= Len(handled')
      /\ open' => Len(answers') = Len(handled')
  <2>1. /\ \A k \in 1..Len(answers) : answers[k].outcome # "refused"
        /\ Len(answers) <= n
        /\ open => Len(answers) = n
    BY <1>2, <1>5 DEF Faultless
  <2>2. IsSequence(answers) /\ Len(answers) \in Nat
    BY DEF ShapeInv, IsSequence
  <2>3. CASE open
    <3>1. PICK answer : answer = [to |-> request.of, outcome |-> outcome]
      OBVIOUS
    <3>2. /\ Len(answers') = Len(answers) + 1
          /\ \A k \in 1..Len(answers) : answers'[k] = answers[k]
          /\ answers'[Len(answers) + 1] = answer
      BY <1>1, <2>2, <2>3, <3>1, AnswerShape
    <3>3. answer.outcome # "refused"
      BY <3>1 DEF Outcomes
    <3>4. Len(answers) = n
      BY <2>1, <2>3
    <3>5. Len(answers') = i /\ answers'[i] = answer
          /\ \A k \in 1..n : answers'[k] = answers[k]
      BY <1>2, <3>2, <3>4
    <3>6. \A k \in 1..i : answers'[k].outcome # "refused"
      <4> TAKE k \in 1..i
      <4>1. CASE k \in 1..n
        BY <2>1, <3>4, <3>5, <4>1
      <4>2. CASE k = i
        BY <3>3, <3>5, <4>2
      <4> QED
        BY <1>2, <1>4, <4>1, <4>2
    <3> QED
      BY <1>3, <1>4, <3>5, <3>6
  <2>4. CASE ~open
    <3>1. answers' = answers /\ ~open'
      BY <1>1, <2>2, <2>4, AnswerShape
    <3> QED
      BY <1>2, <1>4, <2>1, <2>2, <3>1
  <2> QED
    BY <2>3, <2>4
<1>8. \E stream, starts : \E taken \in Nat : ParsesFrom(stream, starts, taken)'
  <2>1. PICK stream, starts : /\ IsStream(stream, starts)
                              /\ Holds(stream, starts[i + 1])
                              /\ starts[i + 1] \in Nat
    BY <1>3
  <2>2. IsStream(stream, starts)'
    BY <1>1, <2>1, StreamStays
  <2>3. Holds(stream, starts[i + 1] + 0)'
    BY <1>1, <2>1 DEF Holds
  <2>4. Len(handled') + 1 = i + 1 /\ i + 1 <= Len(script) + 1
    <3>1. Len(script) \in Nat
      BY LenProperties DEF ShapeInv, TypeOK
    <3> QED
      BY <1>3, <1>4, <3>1
  <2>5. ParsesFrom(stream, starts, 0)'
    BY <1>1, <2>2, <2>3, <2>4 DEF ParsesFrom
  <2> QED
    BY <2>5
<1> QED
  BY <1>1, <1>6, <1>7, <1>8 DEF InStep

LEMMA ReadInStep ==
  ASSUME ShapeInv, InStep, NEW n \in 1..Len(wire), Read(n)
  PROVE  InStep'
<1>1. /\ pc = "wait" /\ pc' = "parse"
      /\ UNCHANGED <<script, state, request, handled, answers, open>>
  BY DEF Read, context, replies
<1>2. PICK stream, starts : \E taken \in Nat : ParsesFrom(stream, starts, taken)
  BY <1>1, InStepParses
<1>3. PICK taken \in Nat : ParsesFrom(stream, starts, taken)
  BY <1>2
<1>4. PICK i, position : i = Len(handled) + 1 /\ position = starts[i] + taken
  OBVIOUS
<1>5. position \in Nat /\ Holds(stream, position) /\ IsStream(stream, starts)
  <2>1. starts[i] \in Nat
    BY <1>3, <1>4, Current
  <2> QED
    BY <1>3, <1>4, <2>1 DEF ParsesFrom
<1>6. /\ Len(buf') = Len(buf) + n /\ Len(wire') = Len(wire) - n
      /\ Len(buf) \in Nat /\ Len(wire) \in Nat
      /\ \A k \in 1..Len(buf) : buf'[k] = buf[k]
      /\ \A k \in 1..n : buf'[Len(buf) + k] = wire[k]
      /\ \A k \in 1..(Len(wire) - n) : wire'[k] = wire[n + k]
  BY ReadShape
<1>7. n \in Int
  BY <1>6
<1>8. /\ position + Len(buf) + Len(wire) = Len(stream)
      /\ \A k \in 1..Len(buf) : buf[k] = stream[position + k]
      /\ \A k \in 1..Len(wire) : wire[k] = stream[position + Len(buf) + k]
  BY <1>5 DEF Holds
<1>9. Holds(stream, position)'
  <2>1. position + Len(buf') + Len(wire') = Len(stream)
    <3>1. position + (Len(buf) + n) + (Len(wire) - n) = position + Len(buf) + Len(wire)
      BY <1>5, <1>6, <1>7
    <3> QED
      BY <1>6, <1>8, <3>1
  <2>2. ASSUME NEW k \in 1..Len(buf')
        PROVE  buf'[k] = stream[position + k]
    <3>1. CASE k \in 1..Len(buf)
      BY <1>6, <1>8, <3>1
    <3>2. CASE k \notin 1..Len(buf)
      <4>1. PICK j : j = k - Len(buf)
        OBVIOUS
      <4>2. /\ j \in 1..n /\ j \in 1..Len(wire) /\ Len(buf) + j = k
            /\ position + Len(buf) + j = position + k
        BY <1>5, <1>6, <1>7, <3>2, <4>1
      <4> QED
        BY <1>6, <1>8, <4>2
    <3> QED
      BY <3>1, <3>2
  <2>3. ASSUME NEW k \in 1..Len(wire')
        PROVE  wire'[k] = stream[position + Len(buf') + k]
    <3>1. /\ k \in 1..(Len(wire) - n) /\ n + k \in 1..Len(wire)
          /\ position + Len(buf) + (n + k) = position + Len(buf') + k
      BY <1>5, <1>6, <1>7
    <3>2. wire'[k] = wire[n + k] /\ wire[n + k] = stream[position + Len(buf) + (n + k)]
      BY <1>6, <1>8, <3>1
    <3> QED
      BY <3>1, <3>2
  <2> QED
    BY <2>1, <2>2, <2>3 DEF Holds
<1>10. IsStream(stream, starts)'
  BY <1>1, <1>5, StreamStays
<1>11. ParsesFrom(stream, starts, taken)'
  BY <1>1, <1>3, <1>4, <1>9, <1>10 DEF ParsesFrom, InRequest
<1> QED
  BY <1>1, <1>11, KeepsInStep

(* The client sends one more request: the stream grows by its units.       *)
Prolongs(longer, stream, units) ==
  /\ Len(stream) \in Nat /\ Len(units) \in Nat
  /\ Len(longer) = Len(stream) + Len(units)
  /\ \A k \in 1..Len(stream) : longer[k] = stream[k]
  /\ \A k \in 1..Len(units) : longer[Len(stream) + k] = units[k]

Regrown(longer, behind, stream, starts, units) ==
  /\ Prolongs(longer, stream, units)
  /\ \A i \in 1..(Len(script) + 1) : behind[i] = starts[i]

LEMMA StreamGrows ==
  ASSUME ShapeInv, NEW r \in Requests, ClientSends(r),
         NEW stream, NEW starts, IsStream(stream, starts)
  PROVE  \E longer, behind :
           /\ IsStream(longer, behind)'
           /\ Regrown(longer, behind, stream, starts, Units(Len(script) + 1, r))
<1>a. PICK n, units : n = Len(script) /\ units = Units(n + 1, r)
  OBVIOUS
<1>b. PICK longer : longer = stream \o units
  OBVIOUS
<1>c. PICK behind : behind = [i \in 1..(n + 2) |->
                                IF i <= n + 1 THEN starts[i] ELSE Len(longer)]
  OBVIOUS
<1>1. /\ Len(script') = n + 1 /\ n \in Nat /\ script'[n + 1] = r
      /\ \A k \in 1..n : script'[k] = script[k]
      /\ IsSequence(units) /\ Len(units) \in Nat
  BY <1>a, ScriptGrows DEF IsSequence
<1>2. /\ IsSequence(stream) /\ Len(stream) \in Nat
      /\ starts \in [1..(n + 1) -> Nat] /\ starts[n + 1] = Len(stream)
      /\ \A i \in 1..n :
           /\ starts[i + 1] = starts[i] + Len(Units(i, script[i]))
           /\ starts[i + 1] <= Len(stream)
           /\ \A k \in 1..Len(Units(i, script[i])) :
                stream[starts[i] + k] = Units(i, script[i])[k]
  BY <1>a DEF IsStream, IsSequence
<1>3. /\ IsSequence(longer) /\ Len(longer) = Len(stream) + Len(units)
      /\ \A k \in 1..Len(stream) : longer[k] = stream[k]
      /\ \A k \in 1..Len(units) : longer[Len(stream) + k] = units[k]
  <2>1. IsSequence(stream) /\ IsSequence(units)
    BY <1>1, <1>2
  <2>2. /\ IsSequence(stream \o units) /\ Len(stream \o units) = Len(stream) + Len(units)
        /\ \A k \in 1..Len(stream) : (stream \o units)[k] = stream[k]
        /\ \A k \in 1..Len(units) : (stream \o units)[Len(stream) + k] = units[k]
    BY <2>1, Joined
  <2> QED
    BY <1>b, <2>2
<1>4. Len(longer) \in Nat
  BY <1>1, <1>2, <1>3
<1>5. /\ behind \in [1..(n + 2) -> Nat] /\ behind[n + 2] = Len(longer)
      /\ \A i \in 1..(n + 1) : behind[i] = starts[i]
  <2>1. \A i \in 1..(n + 2) : i <= n + 1 => i \in 1..(n + 1)
    BY <1>1
  <2>2. \A i \in 1..(n + 1) : i \in 1..(n + 2) /\ i <= n + 1
    BY <1>1
  <2>3. n + 2 \in 1..(n + 2) /\ ~(n + 2 <= n + 1)
    BY <1>1
  <2> QED
    BY <1>2, <1>4, <1>c, <2>1, <2>2, <2>3
<1> DEFINE Fits(i) ==
             /\ behind[i + 1] = behind[i] + Len(Units(i, script'[i]))
             /\ behind[i + 1] <= Len(longer)
             /\ \A k \in 1..Len(Units(i, script'[i])) :
                  longer[behind[i] + k] = Units(i, script'[i])[k]
<1>6. ASSUME NEW i \in 1..n
      PROVE  Fits(i)
  <2>1. PICK old : old = Units(i, script[i])
    OBVIOUS
  <2>2. Len(old) \in Nat
    <3>1. script[i] \in Requests
      BY <1>a, ElementOfSeq DEF ShapeInv, TypeOK
    <3>2. AreUnits(old, i, script[i])
      BY <1>1, <2>1, <3>1, Sent, UnitsOfRequest
    <3> QED
      BY <3>2 DEF AreUnits, IsSequence
  <2>3. /\ starts[i + 1] = starts[i] + Len(old) /\ starts[i + 1] <= Len(stream)
        /\ \A k \in 1..Len(old) : stream[starts[i] + k] = old[k]
        /\ starts[i] \in Nat /\ starts[i + 1] \in Nat
        /\ behind[i] = starts[i] /\ behind[i + 1] = starts[i + 1]
    <3>1. /\ starts[i + 1] = starts[i] + Len(old) /\ starts[i + 1] <= Len(stream)
          /\ \A k \in 1..Len(old) : stream[starts[i] + k] = old[k]
      BY <1>2, <2>1
    <3>2. i \in 1..(n + 1) /\ i + 1 \in 1..(n + 1)
      BY <1>1
    <3>3. starts[i] \in Nat /\ starts[i + 1] \in Nat
      BY <1>2, <3>2
    <3>4. behind[i] = starts[i] /\ behind[i + 1] = starts[i + 1]
      BY <1>5, <3>2
    <3> QED
      BY <3>1, <3>3, <3>4
  <2>4. behind[i + 1] = behind[i] + Len(old) /\ behind[i + 1] <= Len(longer)
    <3>1. behind[i + 1] = behind[i] + Len(old) /\ behind[i + 1] = starts[i + 1]
      BY <2>3
    <3>2. Len(stream) <= Len(longer)
      BY <1>1, <1>2, <1>3
    <3>3. starts[i + 1] <= Len(longer)
      BY <1>2, <1>4, <2>3, <3>2
    <3> QED
      BY <3>1, <3>3
  <2>5. ASSUME NEW k \in 1..Len(old)
        PROVE  longer[behind[i] + k] = old[k]
    <3>1. starts[i] + k \in 1..Len(stream)
      BY <1>2, <2>2, <2>3
    <3> QED
      BY <1>3, <2>3, <3>1
  <2> QED
    BY <1>1, <2>1, <2>4, <2>5
<1>7. Fits(n + 1)
  <2>1. Units(n + 1, script'[n + 1]) = units
    BY <1>1, <1>a
  <2>2. behind[n + 1] = Len(stream) /\ (n + 1) + 1 = n + 2
    BY <1>1, <1>2, <1>5
  <2>3. behind[n + 2] = behind[n + 1] + Len(units) /\ behind[n + 2] <= Len(longer)
    <3>1. behind[n + 2] = Len(longer) /\ Len(longer) <= Len(longer)
      BY <1>4, <1>5
    <3>2. Len(longer) = behind[n + 1] + Len(units)
      BY <1>3, <2>2
    <3> QED
      BY <3>1, <3>2
  <2>4. \A k \in 1..Len(units) : longer[behind[n + 1] + k] = units[k]
    BY <1>3, <2>2
  <2> QED
    BY <2>1, <2>2, <2>3, <2>4
<1>8. \A i \in 1..(n + 1) : Fits(i)
  <2> HIDE DEF Fits
  <2>1. \A i \in 1..(n + 1) : i \in 1..n \/ i = n + 1
    BY <1>1
  <2> QED
    BY <1>6, <1>7, <2>1
<1>9. IsStream(longer, behind)'
  <2>1. Len(script') + 1 = n + 2 /\ IsSequence(longer)
    BY <1>1, <1>3
  <2>2. behind \in [1..(Len(script') + 1) -> Nat] /\ behind[Len(script') + 1] = Len(longer)
    BY <1>5, <2>1
  <2>3. \A i \in 1..Len(script') : Fits(i)
    BY <1>1, <1>8
  <2> QED
    BY <2>1, <2>2, <2>3 DEF IsStream
<1>10. Regrown(longer, behind, stream, starts, units)
  BY <1>1, <1>2, <1>3, <1>5, <1>a DEF Prolongs, Regrown
<1> QED
  BY <1>9, <1>10, <1>a

LEMMA SendsUnits ==
  ASSUME ShapeInv, NEW r \in Requests, ClientSends(r),
         NEW stream, NEW position \in Nat, Holds(stream, position), NEW longer,
         NEW units, units = Units(Len(script) + 1, r),
         Prolongs(longer, stream, units)
  PROVE  Holds(longer, position)'
<1>1. /\ buf' = buf /\ Len(buf) \in Nat /\ Len(wire) \in Nat /\ Len(units) \in Nat
      /\ Len(wire') = Len(wire) + Len(units)
      /\ \A k \in 1..Len(wire) : wire'[k] = wire[k]
      /\ \A k \in 1..Len(units) : wire'[Len(wire) + k] = units[k]
  BY ScriptGrows DEF ClientSends, ShapeInv, IsSequence
<1>2. /\ position + Len(buf) + Len(wire) = Len(stream)
      /\ \A k \in 1..Len(buf) : buf[k] = stream[position + k]
      /\ \A k \in 1..Len(wire) : wire[k] = stream[position + Len(buf) + k]
  BY DEF Holds
<1>3. /\ Len(stream) \in Nat /\ Len(longer) = Len(stream) + Len(units)
      /\ \A k \in 1..Len(stream) : longer[k] = stream[k]
      /\ \A k \in 1..Len(units) : longer[Len(stream) + k] = units[k]
  BY DEF Prolongs
<1>4. position + Len(buf') + Len(wire') = Len(longer)
  <2>1. position + Len(buf) + (Len(wire) + Len(units))
          = (position + Len(buf) + Len(wire)) + Len(units)
    BY <1>1
  <2> QED
    BY <1>3, <1>1, <1>2, <2>1
<1>5. ASSUME NEW k \in 1..Len(buf')
      PROVE  buf'[k] = longer[position + k]
  <2>1. k \in 1..Len(buf) /\ position + k \in 1..Len(stream)
    BY <1>1, <1>2
  <2> QED
    BY <1>3, <1>1, <1>2, <2>1
<1>6. ASSUME NEW k \in 1..Len(wire')
      PROVE  wire'[k] = longer[position + Len(buf') + k]
  <2>1. CASE k \in 1..Len(wire)
    <3>1. position + Len(buf) + k \in 1..Len(stream)
      BY <1>1, <1>2, <2>1
    <3> QED
      BY <1>3, <1>1, <1>2, <2>1, <3>1
  <2>2. CASE k \notin 1..Len(wire)
    <3>1. PICK j : j = k - Len(wire)
      OBVIOUS
    <3>2. k \in 1..(Len(wire) + Len(units))
      BY <1>1
    <3>3. j \in 1..Len(units) /\ Len(wire) + j = k
      BY <1>1, <2>2, <3>1, <3>2
    <3>4. position + Len(buf) + k = Len(stream) + j
      <4>1. position + Len(buf) + (Len(wire) + j) = (position + Len(buf) + Len(wire)) + j
        BY <1>1, <3>3
      <4> QED
        BY <1>2, <3>3, <4>1
    <3> QED
      BY <1>3, <1>1, <3>3, <3>4
  <2> QED
    BY <2>1, <2>2
<1> QED
  BY <1>4, <1>5, <1>6 DEF Holds

LEMMA HandledWereSent ==
  ASSUME ShapeInv, InStep
  PROVE  Len(handled) <= Len(script) /\ Len(handled) \in Nat /\ Len(script) \in Nat
<1>1. Len(handled) \in Nat /\ Len(script) \in Nat
  BY LenProperties DEF ShapeInv, TypeOK, IsSequence
<1>2. CASE pc = "refuse"
  BY <1>1, <1>2 DEF InStep
<1>3. CASE pc # "refuse"
  <2>1. Len(handled) + 1 <= Len(script) + 1
    BY <1>3, InStepParses DEF ParsesFrom
  <2> QED
    BY <1>1, <2>1
<1> QED
  BY <1>1, <1>2, <1>3

LEMMA ClientSendsInStep ==
  ASSUME ShapeInv, InStep, NEW r \in Requests, ClientSends(r)
  PROVE  InStep'
<1>1. /\ UNCHANGED <<buf, pc, state, request, handled, answers, open>>
      /\ Len(script') = Len(script) + 1
      /\ \A k \in 1..Len(script) : script'[k] = script[k]
  BY ScriptGrows DEF ClientSends, context, replies
<1>2. Len(handled) <= Len(script) /\ Len(handled) \in Nat /\ Len(script) \in Nat
  BY HandledWereSent
<1>3. Faultless'
  <2>1. Faultless
    BY DEF InStep, Faultless
  <2>2. \A k \in 1..Len(handled) : script'[k] = script[k]
    BY <1>1, <1>2
  <2> QED
    BY <1>1, <2>1, <2>2 DEF Faultless
<1>4. CASE pc = "refuse"
  <2>1. Len(handled) < Len(script) /\ ~WellFormed(script[Len(handled) + 1])
    BY <1>4 DEF InStep
  <2>2. Len(handled) + 1 \in 1..Len(script)
    BY <1>2, <2>1
  <2>3. script'[Len(handled) + 1] = script[Len(handled) + 1] /\ Len(handled) < Len(script')
    BY <1>1, <1>2, <2>1, <2>2
  <2> QED
    BY <1>1, <1>3, <1>4, <2>1, <2>3 DEF InStep, Faultless
<1>5. CASE pc # "refuse"
  <2>1. PICK stream, starts : \E taken \in Nat : ParsesFrom(stream, starts, taken)
    BY <1>5, InStepParses
  <2>2. PICK taken \in Nat : ParsesFrom(stream, starts, taken)
    BY <2>1
  <2>3. PICK n, i, units : n = Len(script) /\ i = Len(handled) + 1 /\ units = Units(n + 1, r)
    OBVIOUS
  <2>4. IsStream(stream, starts) /\ i <= n + 1 /\ Holds(stream, starts[i] + taken)
    BY <2>2, <2>3 DEF ParsesFrom
  <2>5. PICK longer, behind :
          IsStream(longer, behind)' /\ Regrown(longer, behind, stream, starts, units)
    BY <2>3, <2>4, StreamGrows
  <2>6. Prolongs(longer, stream, units) /\ \A k \in 1..(n + 1) : behind[k] = starts[k]
    BY <2>3, <2>5 DEF Regrown
  <2>7. starts[i] \in Nat /\ i \in 1..(n + 1)
    BY <1>2, <2>2, <2>3, <2>4, Current
  <2>8. PICK position \in Nat : position = starts[i] + taken
    BY <2>7
  <2>9. behind[i] + taken = position
    BY <2>6, <2>7, <2>8
  <2>10. Holds(longer, position)'
    BY <2>3, <2>4, <2>6, <2>8, SendsUnits
  <2>11. state # "line" => i <= n /\ InRequest(i, script[i], taken)
    BY <2>2, <2>3 DEF ParsesFrom
  <2>12. state # "line" => i <= n + 1 /\ InRequest(i, script[i], taken)'
    <3>1. ASSUME state # "line" PROVE i <= n + 1 /\ InRequest(i, script[i], taken)'
      <4>1. i \in 1..n
        BY <1>2, <2>3, <2>11, <3>1
      <4>2. script'[i] = script[i]
        BY <1>1, <2>3, <4>1
      <4>3. InRequest(i, script[i], taken)'
        BY <1>1, <2>11, <3>1, <4>2 DEF InRequest
      <4> QED
        BY <2>4, <4>3
    <3> QED
      BY <3>1
  <2>13. state = "line" => taken = 0 /\ request = EmptyRequest
    BY <2>2 DEF ParsesFrom
  <2>14. i <= n + 2 /\ Len(script') = n + 1
    BY <1>1, <1>2, <2>3, <2>4
  <2>15. i <= (n + 1) + 1
    BY <1>2, <2>3, <2>14
  <2>16. ParsesFrom(longer, behind, taken)'
    <3>1. Holds(longer, behind[i] + taken)'
      BY <2>9, <2>10
    <3> QED
      BY <1>1, <2>3, <2>5, <2>12, <2>13, <2>14, <2>15, <3>1 DEF ParsesFrom
  <2>17. (\E s, t : \E m \in Nat : ParsesFrom(s, t, m))'
    BY <2>16
  <2> QED
    BY <1>1, <1>3, <1>5, <2>17 DEF InStep, Faultless
<1> QED
  BY <1>4, <1>5

-----------------------------------------------------------------------------
(* Once a line has been refused nobody is answered any more.               *)
LEMMA RefusedStays ==
  ASSUME Refused, ~open', Len(handled) \in Nat, Len(script) \in Nat,
         Len(handled') \in Nat, Len(handled') >= Len(handled),
         Len(script') \in Nat, Len(script') >= Len(script),
         \A k \in 1..Len(handled) : handled'[k] = handled[k],
         \A k \in 1..Len(script) : script'[k] = script[k]
  PROVE  Refused'
<1>1. PICK i \in 1..Len(script) :
        /\ ~WellFormed(script[i]) /\ i <= Len(handled) + 1
        /\ \A k \in 1..(i - 1) : handled[k] = AsSent(k, script[k])
  BY DEF Refused
<1>2. i \in 1..Len(script') /\ script'[i] = script[i] /\ i <= Len(handled') + 1
  BY <1>1
<1>3. ASSUME NEW k \in 1..(i - 1)
      PROVE  handled'[k] = AsSent(k, script'[k])
  <2>1. k \in 1..Len(handled) /\ k \in 1..Len(script)
    BY <1>1
  <2> QED
    BY <1>1, <2>1
<1> QED
  BY <1>1, <1>2, <1>3 DEF Refused

LEMMA ParseLeaves ==
  ASSUME Parse
  PROVE  UNCHANGED <<client, handled, answers, open>>
BY DEF Parse, RequestLine, BadRequestLine, HeaderLine, BadHeaderLine, EndWithoutBody,
       EndWithLength, EndWithoutLength, EndWithBadLength, GotHeaders, Body, Incomplete, replies

LEMMA ParseKeeps ==
  ASSUME ShapeInv, Parse
  PROVE  ShapeInv' /\ (InStep => InStep')
<1>1. CASE RequestLine \/ BadRequestLine
  BY <1>1, RequestLineShape, RequestLineInStep
<1>2. CASE HeaderLine \/ BadHeaderLine
  BY <1>2, HeaderLineShape, HeaderLineInStep
<1>3. CASE EndWithoutBody \/ EndWithLength \/ EndWithoutLength \/ EndWithBadLength
  BY <1>3, EndShape, EndInStep
<1>4. CASE Body
  BY <1>4, BodyShape, BodyInStep
<1>5. CASE Incomplete
  BY <1>5, IncompleteShape, IncompleteInStep
<1> QED
  BY <1>1, <1>2, <1>3, <1>4, <1>5 DEF Parse

LEMMA Counts ==
  ASSUME ShapeInv
  PROVE  /\ Len(handled) \in Nat /\ Len(script) \in Nat /\ Len(answers) \in Nat
         /\ DOMAIN answers = 1..Len(answers) /\ DOMAIN handled = 1..Len(handled)
         /\ IsSequence(answers) /\ IsSequence(handled)
BY LenProperties DEF ShapeInv, TypeOK, IsSequence

LEMMA NothingAnswered ==
  ASSUME ShapeInv, ShapeInv', AnswersInOrder, answers' = answers,
         Len(script') >= Len(script),
         \A k \in 1..Len(script) : script'[k] = script[k]
  PROVE  AnswersInOrder'
<1>1. Len(answers) <= Len(script)
  BY DEF AnswersInOrder
<1>2. Len(answers') <= Len(script')
  <2>1. Len(script') \in Nat
    BY LenProperties DEF ShapeInv, TypeOK
  <2> QED
    BY <1>1, <2>1, Counts
<1>3. \A k \in 1..Len(answers) : k \in 1..Len(script)
  BY <1>1, Counts
<1>4. DOMAIN answers = 1..Len(answers)
  BY Counts
<1> QED
  BY <1>2, <1>3, <1>4 DEF AnswersInOrder

(* The answer to the next request, refused if and only if it is malformed. *)
LEMMA OneMoreAnswer ==
  ASSUME ShapeInv, ShapeInv', AnswersInOrder, open, script' = script, NEW outcome, NEW i,
         i = Len(answers) + 1, i <= Len(script), Answer(i, outcome),
         outcome = "refused" <=> ~WellFormed(script[i]),
         \A k \in 1..Len(answers) : answers[k].outcome # "refused"
  PROVE  AnswersInOrder'
<1>1. PICK answer : answer = [to |-> i, outcome |-> outcome]
  OBVIOUS
<1>2. /\ Len(answers') = Len(answers) + 1
      /\ \A k \in 1..Len(answers) : answers'[k] = answers[k]
      /\ answers'[Len(answers) + 1] = answer
  <2>1. IsSequence(answers)
    BY Counts
  <2> QED
    BY <1>1, <2>1, AnswerShape
<1>3. /\ Len(answers) \in Nat /\ DOMAIN answers = 1..Len(answers)
      /\ DOMAIN answers' = 1..Len(answers')
  BY Counts DEF ShapeInv, IsSequence
<1>4. answer.to = i /\ answer.outcome = outcome
  BY <1>1
<1>5. ASSUME NEW k \in DOMAIN answers'
      PROVE  /\ answers'[k].to = k
             /\ answers'[k].outcome = "refused" <=> ~WellFormed(script[k])
             /\ answers'[k].outcome = "refused" => k = Len(answers')
  <2>1. CASE k \in 1..Len(answers)
    BY <1>2, <1>3, <2>1 DEF AnswersInOrder
  <2>2. CASE k = i
    BY <1>2, <1>4, <2>2
  <2>3. k \in 1..Len(answers) \/ k = i
    BY <1>2, <1>3
  <2> QED
    BY <2>1, <2>2, <2>3
<1>6. Len(answers') <= Len(script)
  BY <1>2
<1> QED
  BY <1>5, <1>6 DEF AnswersInOrder

LEMMA NextInv ==
  ASSUME Inv, [Next]_vars
  PROVE  Inv'
<1>1. ShapeInv /\ AnswersInOrder /\ (InStep \/ Refused)
  BY DEF Inv
<1>2. /\ Len(handled) \in Nat /\ Len(script) \in Nat /\ Len(answers) \in Nat
      /\ IsSequence(answers) /\ IsSequence(handled)
  BY <1>1, Counts
<1>3. ASSUME ShapeInv', UNCHANGED <<script, handled, answers, open>>, InStep => InStep'
      PROVE  Inv'
  <2>1. AnswersInOrder'
    BY <1>1, <1>2, <1>3, NothingAnswered
  <2>2. Refused => Refused'
    BY <1>3 DEF Refused
  <2> QED
    BY <1>1, <1>3, <2>1, <2>2 DEF Inv
<1>4. CASE Parse
  BY <1>1, <1>3, <1>4, ParseLeaves, ParseKeeps DEF client
<1>5. ASSUME NEW n \in 1..Len(wire), Read(n)
      PROVE  Inv'
  BY <1>1, <1>3, <1>5, ReadShape, ReadInStep DEF Read, replies
<1>6. ASSUME NEW r \in Requests, ClientSends(r)
      PROVE  Inv'
  <2>1. ShapeInv' /\ (InStep => InStep')
    BY <1>1, <1>6, ClientSendsShape, ClientSendsInStep
  <2>2. /\ UNCHANGED <<handled, answers, open>>
        /\ Len(script') = Len(script) + 1
        /\ \A k \in 1..Len(script) : script'[k] = script[k]
    BY <1>1, <1>6, ScriptGrows DEF ClientSends, replies
  <2>3. AnswersInOrder'
    BY <1>1, <1>2, <2>1, <2>2, NothingAnswered
  <2>4. Refused => Refused'
    <3>1. ASSUME Refused PROVE Refused'
      <4>1. ~open'
        BY <2>2, <3>1 DEF Refused
      <4>2. /\ Len(handled') \in Nat /\ Len(handled') >= Len(handled)
            /\ Len(script') \in Nat /\ Len(script') >= Len(script)
            /\ \A k \in 1..Len(handled) : handled'[k] = handled[k]
        BY <1>2, <2>2
      <4> QED
        BY <1>2, <2>2, <3>1, <4>1, <4>2, RefusedStays
    <3> QED
      BY <3>1
  <2> QED
    BY <1>1, <2>1, <2>3, <2>4 DEF Inv
<1>7. CASE Refuse
  <2>1. ShapeInv' /\ UNCHANGED <<script, handled>> /\ ~open' /\ pc = "refuse"
    BY <1>1, <1>7, RefuseShape DEF Refuse, client
  <2>2. Refused'
    <3>1. CASE InStep
      BY <1>1, <1>7, <3>1, RefuseLeavesRefused
    <3>2. CASE Refused
      BY <2>1, <3>2 DEF Refused
    <3> QED
      BY <1>1, <3>1, <3>2
  <2>3. AnswersInOrder'
    <3>1. CASE open
      <4>1. InStep
        BY <1>1, <3>1 DEF Refused
      <4>2. /\ Len(handled) < Len(script) /\ ~WellFormed(script[Len(handled) + 1])
            /\ Len(answers) = Len(handled)
            /\ \A k \in 1..Len(answers) : answers[k].outcome # "refused"
        BY <2>1, <3>1, <4>1 DEF InStep
      <4>3. PICK i, outcome : i = Len(answers) + 1 /\ outcome = "refused"
        OBVIOUS
      <4>4. i <= Len(script) /\ (outcome = "refused" <=> ~WellFormed(script[i]))
        BY <1>2, <4>2, <4>3
      <4>5. Answer(i, outcome)
        BY <1>7, <4>3 DEF Refuse
      <4> QED
        BY <1>1, <2>1, <3>1, <4>2, <4>3, <4>4, <4>5, OneMoreAnswer
    <3>2. CASE ~open
      <4>1. answers' = answers
        BY <1>2, <1>7, <3>2, AnswerShape DEF Refuse
      <4> QED
        BY <1>1, <1>2, <2>1, <4>1, NothingAnswered
    <3> QED
      BY <3>1, <3>2
  <2> QED
    BY <2>1, <2>2, <2>3 DEF Inv
<1>8. ASSUME NEW outcome \in Outcomes, OnRequest(outcome)
      PROVE  Inv'
  <2>1. /\ ShapeInv' /\ (InStep => InStep') /\ script' = script /\ pc = "respond"
        /\ handled' = Append(handled, request) /\ (open' => open)
        /\ Answer(request.of, outcome)
    BY <1>1, <1>8, OnRequestShape, OnRequestInStep DEF OnRequest, client
  <2>2. Refused => Refused'
    <3>1. ASSUME Refused PROVE Refused'
      <4>1. ~open /\ ~open'
        BY <2>1, <3>1 DEF Refused
      <4>2. /\ Len(handled') = Len(handled) + 1
            /\ \A k \in 1..Len(handled) : handled'[k] = handled[k]
        BY <1>2, <2>1, Appended
      <4>3. /\ Len(handled') \in Nat /\ Len(handled') >= Len(handled)
            /\ Len(script') \in Nat /\ Len(script') >= Len(script)
            /\ \A k \in 1..Len(script) : script'[k] = script[k]
        BY <1>2, <2>1, <4>2
      <4> QED
        BY <1>2, <3>1, <4>1, <4>2, <4>3, RefusedStays
    <3> QED
      BY <3>1
  <2>3. AnswersInOrder'
    <3>1. CASE open
      <4>1. InStep
        BY <1>1, <3>1 DEF Refused
      <4>2. /\ Len(answers) = Len(handled)
            /\ \A k \in 1..Len(answers) : answers[k].outcome # "refused"
        BY <3>1, <4>1 DEF InStep
      <4>3. PICK i, r : i = Len(answers) + 1 /\ r = script[i]
        OBVIOUS
      <4>4. i <= Len(script) /\ WellFormed(r) /\ request = AsSent(i, r)
        BY <1>1, <2>1, <4>1, <4>2, <4>3, RespondInStep
      <4>5. Answer(i, outcome)
        BY <2>1, <4>4 DEF AsSent
      <4>6. outcome # "refused"
        BY DEF Outcomes
      <4>7. outcome = "refused" <=> ~WellFormed(script[i])
        BY <4>3, <4>4, <4>6
      <4> QED
        BY <1>1, <2>1, <3>1, <4>2, <4>3, <4>4, <4>5, <4>7, OneMoreAnswer
    <3>2. CASE ~open
      <4>1. answers' = answers
        BY <1>2, <2>1, <3>2, AnswerShape
      <4> QED
        BY <1>1, <1>2, <2>1, <4>1, NothingAnswered
    <3> QED
      BY <3>1, <3>2
  <2> QED
    BY <1>1, <2>1, <2>2, <2>3 DEF Inv
<1>9. CASE UNCHANGED vars
  <2>1. /\ UNCHANGED <<script, handled, answers, open>>
        /\ UNCHANGED <<pipelined, wire, buf, pc, state, request>>
    BY <1>9 DEF vars, client, context, replies
  <2>2. ShapeInv'
    BY <1>1, <2>1 DEF ShapeInv, TypeOK
  <2>3. InStep => InStep'
    <3>1. ASSUME NEW stream, NEW starts, NEW taken \in Nat, ParsesFrom(stream, starts, taken)
          PROVE  ParsesFrom(stream, starts, taken)'
      BY <2>1, <3>1 DEF ParsesFrom, IsStream, Holds, InRequest
    <3>2. CASE InStep /\ pc = "refuse"
      BY <2>1, <3>2 DEF InStep
    <3>3. CASE InStep /\ pc # "refuse"
      <4>1. PICK stream, starts : \E taken \in Nat : ParsesFrom(stream, starts, taken)
        BY <3>3, InStepParses
      <4>2. PICK taken \in Nat : ParsesFrom(stream, starts, taken)
        BY <4>1
      <4>3. ParsesFrom(stream, starts, taken)'
        BY <3>1, <4>2
      <4> QED
        BY <2>1, <3>3, <4>3, KeepsInStep
    <3> QED
      BY <3>2, <3>3
  <2> QED
    BY <1>3, <2>1, <2>2, <2>3
<1> QED
  BY <1>4, <1>5, <1>6, <1>7, <1>8, <1>9 DEF Next, OnMessage

-----------------------------------------------------------------------------
(* The parser is in step with the client until it has refused a line, and  *)
(* a connection that has refused one is shut down.                         *)
THEOREM InvAlways == Spec => []Inv
<1>1. Inv /\ [Next]_vars => Inv'
  BY NextInv
<1> QED
  BY <1>1, InitInv, PTL DEF Spec

(* The variables keep their types, whatever the client sends.              *)
THEOREM TypeCorrect == Spec => []TypeOK
<1>1. Inv => TypeOK
  BY DEF Inv, ShapeInv
<1> QED
  BY <1>1, InvAlways, PTL

(* The answers are those to the requests in the order they were sent, and  *)
(* a refusal is the last: for any requests, and however the stream is cut  *)
(* into reads.                                                             *)
THEOREM AnswersAlwaysInOrder == Spec => []AnswersInOrder
<1>1. Inv => AnswersInOrder
  BY DEF Inv
<1> QED
  BY <1>1, InvAlways, PTL

(* Up to the first malformed request the handler is called with every one  *)
(* as it was sent: no header and no body of another is left in it.         *)
THEOREM RequestsHandledAsSent == Spec => []HandledAsSent
<1>1. Inv => HandledAsSent
  <2> SUFFICES ASSUME Inv, NEW k \in DOMAIN handled,
                      \A j \in 1..k : WellFormed(script[j])
               PROVE  handled[k] = AsSent(k, script[k])
    BY DEF HandledAsSent
  <2>1. k \in 1..Len(handled) /\ Len(handled) \in Nat /\ Len(script) \in Nat
    BY Counts DEF Inv
  <2>2. CASE InStep
    BY <2>1, <2>2 DEF InStep
  <2>3. CASE Refused
    <3>1. PICK i \in 1..Len(script) :
            /\ ~WellFormed(script[i])
            /\ \A j \in 1..(i - 1) : handled[j] = AsSent(j, script[j])
      BY <2>3 DEF Refused
    <3>2. k < i
      BY <2>1, <3>1
    <3>3. k \in 1..(i - 1)
      BY <2>1, <3>1, <3>2
    <3> QED
      BY <3>1, <3>3
  <2> QED
    BY <2>2, <2>3 DEF Inv
<1> QED
  BY <1>1, InvAlways, PTL
=============================================================================

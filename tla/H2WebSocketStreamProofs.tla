----------------------- MODULE H2WebSocketStreamProofs ----------------------
(***************************************************************************)
(* Proofs about the streams of H2WebSocketSession, for every number of     *)
(* streams and faults, every window and channel capacity, and whatever the *)
(* peer sends: while main and its goroutines are in order (WorkInv), what  *)
(* is under way on a stream pairs up with what was written on it           *)
(* (StreamInv).                                                            *)
(*                                                                         *)
(* The first part is about a sequence that is cut in four: the goroutine's *)
(* buffer, the channel's events, the event the reader holds, the wire.     *)
(* Every step of the reader and of a goroutine moves a cut and leaves the  *)
(* sequence alone; a step of the peer adds to its end; a frame that is     *)
(* read whole leaves its front. The second part says what that does to the *)
(* texts under way, and the third takes the steps one by one.              *)
(***************************************************************************)
EXTENDS H2WebSocketInvariant, TLAPS

-----------------------------------------------------------------------------

(* Bytes keep their order on their way to the goroutine of their stream. *)
LEMMA FlowEmpty == Flows(<< >>, << >>, << >>, << >>, << >>)
<1> DEFINE c == [i \in 0..0 |-> 0]
<1>1. Len(<< >>) = 0  BY SMT
<1>2. c \in [0..0 -> Nat] /\ c[0] = 0  BY SMT
<1> HIDE DEF c
<1>3. Cut(<< >>, << >>, << >>, << >>, << >>, c)  BY <1>1, <1>2, SMT DEF Cut
<1> QED BY <1>1, <1>2, <1>3, Zenon DEF Flows

(* The positions of a cut are in order. *)
LEMMA Cuts ==
  ASSUME NEW n \in Nat, NEW c \in [0..n -> Nat],
         \A i, j \in 0..n : i <= j => c[i] <= c[j]
  PROVE  c[n] \in Nat /\ \A i \in 0..n : c[i] \in Nat /\ c[i] <= c[n]
<1>1. n \in 0..n /\ \A i \in 0..n : i <= n  BY SMT
<1>2. \A i \in 0..n : c[i] \in Nat  BY Zenon
<1> QED BY <1>1, <1>2, Zenon

(* The peer sends: its bytes are added at the end. *)
LEMMA FlowSend ==
  ASSUME NEW p \in Seq(Cells), NEW q \in Seq(Seq(Cells)), NEW h \in Seq(Cells),
         NEW w \in Seq(Cells), NEW f \in Seq(Cells), NEW x \in Seq(Cells), Flows(p, q, h, w, f)
  PROVE  Flows(p, q, h, w \o x, f \o x)
<1>1. PICK c \in [0..Len(q) -> Nat] : Cut(p, q, h, w, f, c)  BY Zenon DEF Flows
<1> DEFINE e == c[Len(q)]
<1>20. Len(q) \in Nat /\ 0 \in 0..Len(q)  BY SMT
<1>21. /\ Len(p) \in Nat /\ Len(h) \in Nat /\ Len(w) \in Nat /\ Len(f) \in Nat
       /\ Len(x) \in Nat
  BY SMT
<1>2. /\ c[0] = Len(p) /\ Len(f) = e + Len(h) + Len(w)
      /\ \A i, j \in 0..Len(q) : i <= j => c[i] <= c[j]
  BY <1>1, Zenon DEF Cut
<1>3. e \in Nat /\ \A i \in 0..Len(q) : c[i] \in Nat /\ c[i] <= e
  BY <1>2, <1>20, Cuts, Zenon
<1>4. e \in Nat /\ Len(p) <= e  BY <1>2, <1>3, <1>20, Zenon
<1>5. /\ Len(f \o x) = Len(f) + Len(x) /\ Len(w \o x) = Len(w) + Len(x)
      /\ \A j \in 1..Len(f) : (f \o x)[j] = f[j]
      /\ \A j \in 1..Len(x) : (f \o x)[Len(f) + j] = x[j]
      /\ \A j \in 1..Len(w) : (w \o x)[j] = w[j]
      /\ \A j \in 1..Len(x) : (w \o x)[Len(w) + j] = x[j]
  BY SMT
<1>6. \A j \in 1..Len(p) : (f \o x)[j] = p[j]
  <2>1. \A j \in 1..Len(p) : j \in 1..Len(f)
    BY <1>2, <1>4, <1>21, SMT
  <2> QED BY <2>1, <1>1, <1>5, Zenon DEF Cut
<1>7. ASSUME NEW i \in 1..Len(q)
      PROVE  /\ c[i] = c[i - 1] + Len(q[i])
             /\ \A j \in 1..Len(q[i]) : (f \o x)[c[i - 1] + j] = q[i][j]
  <2>1. /\ c[i] = c[i - 1] + Len(q[i])
        /\ \A j \in 1..Len(q[i]) : f[c[i - 1] + j] = q[i][j]
    BY <1>1, Zenon DEF Cut
  <2>2. q[i] \in Seq(Cells) /\ i \in 0..Len(q) /\ i - 1 \in 0..Len(q)  BY SMT
  <2>3. Len(q[i]) \in Nat  BY <2>2, SMT
  <2>4. c[i - 1] \in Nat /\ c[i] <= e  BY <1>3, <2>2, Zenon
  <2>5. \A a, b, d, g, m, l \in Nat : d = a + b /\ d <= g /\ l = g + m =>
          \A j \in 1..b : a + j \in 1..l
    BY SMT
  <2>8. \A a, b, d \in Nat : b + d \in Nat /\ a + b + d = a + (b + d)  BY SMT
  <2>6. Len(h) + Len(w) \in Nat /\ Len(f) = e + (Len(h) + Len(w)) /\ c[i] \in Nat
    BY <1>2, <1>3, <1>21, <2>2, <2>8, ZenonT(30)
  <2>7. \A j \in 1..Len(q[i]) : c[i - 1] + j \in 1..Len(f)
    BY <1>4, <1>21, <2>1, <2>3, <2>4, <2>5, <2>6, Zenon
  <2> QED BY <1>5, <2>1, <2>7, Zenon
<1>8. \A j \in 1..Len(h) : (f \o x)[e + j] = h[j]
  <2>1. \A j \in 1..Len(h) : e + j \in 1..Len(f)
    BY <1>2, <1>4, <1>21, SMT
  <2> QED BY <2>1, <1>1, <1>5, Zenon DEF Cut
<1>9. \A j \in 1..Len(w \o x) : (f \o x)[e + Len(h) + j] = (w \o x)[j]
  <2>1. ASSUME NEW j \in 1..Len(w \o x)
        PROVE  (f \o x)[e + Len(h) + j] = (w \o x)[j]
    <3>1. CASE j <= Len(w)
      <4>1. j \in 1..Len(w) /\ e + Len(h) + j \in 1..Len(f)
        BY <1>2, <1>4, <1>21, <3>1, SMTT(30)
      <4> QED BY <4>1, <1>1, <1>5, Zenon DEF Cut
    <3>2. CASE j > Len(w)
      <4>1. j \in 1..(Len(w) + Len(x))  BY <1>5, Zenon
      <4>2. j \in Nat /\ Len(w) < j /\ j <= Len(w) + Len(x)  BY <1>21, <3>2, <4>1, SMTT(30)
      <4>3. j - Len(w) \in 1..Len(x) /\ e + Len(h) + j = Len(f) + (j - Len(w))
            /\ j = Len(w) + (j - Len(w))
        <5>1. j - Len(w) \in 1..Len(x) /\ j = Len(w) + (j - Len(w))  BY <1>21, <4>2, SMTT(30)
        <5>2. e + Len(h) + j = e + Len(h) + Len(w) + (j - Len(w))
          BY <1>4, <1>21, <4>2, SMTT(30)
        <5> QED BY <1>2, <5>1, <5>2, Zenon
      <4>4. (w \o x)[j] = x[j - Len(w)]  BY <1>5, <4>3, ZenonT(30)
      <4>5. (f \o x)[e + Len(h) + j] = x[j - Len(w)]  BY <1>5, <4>3, ZenonT(30)
      <4> QED BY <4>4, <4>5, Zenon
    <3>3. j <= Len(w) \/ j > Len(w)  BY <1>5, <1>21, SMT
    <3> QED BY <3>1, <3>2, <3>3, Zenon
  <2> QED BY <2>1, Zenon
<1>10. Len(f \o x) = e + Len(h) + Len(w \o x)  BY <1>2, <1>4, <1>5, <1>21, SMTT(30)
<1>11. Cut(p, q, h, w \o x, f \o x, c)
  BY <1>2, <1>6, <1>7, <1>8, <1>9, <1>10, Zenon DEF Cut
<1> QED BY <1>11, Zenon DEF Flows

(* The reader takes the first n bytes off the wire. *)
LEMMA FlowRead ==
  ASSUME NEW p \in Seq(Cells), NEW q \in Seq(Seq(Cells)),
         NEW w \in Seq(Cells), NEW f \in Seq(Cells), NEW n \in 1..Len(w),
         Flows(p, q, << >>, w, f)
  PROVE  Flows(p, q, SubSeq(w, 1, n), SubSeq(w, n + 1, Len(w)), f)
<1>1. PICK c \in [0..Len(q) -> Nat] : Cut(p, q, << >>, w, f, c)  BY Zenon DEF Flows
<1> DEFINE e == c[Len(q)]
           h == SubSeq(w, 1, n)
           v == SubSeq(w, n + 1, Len(w))
<1>20. Len(q) \in Nat /\ Len(q) \in 0..Len(q) /\ n \in Nat /\ Len(w) \in Nat  BY SMT
<1>2. e \in Nat /\ n \in Nat /\ Len(w) \in Nat  BY <1>20, Zenon
<1>3. /\ Len(h) = n /\ Len(v) = Len(w) - n
      /\ \A j \in 1..n : h[j] = w[j]
      /\ \A j \in 1..(Len(w) - n) : v[j] = w[n + j]
  BY SMT
<1>4. /\ \A j \in 1..Len(w) : f[e + 0 + j] = w[j]
      /\ Len(f) = e + 0 + Len(w)
  <2>1. Len(<< >>) = 0  BY SMT
  <2> QED BY <1>1, <2>1, Zenon DEF Cut
<1>5. \A j \in 1..Len(h) : f[e + j] = h[j]
  <2>1. ASSUME NEW j \in 1..Len(h) PROVE f[e + j] = h[j]
    <3>1. j \in 1..Len(w) /\ e + 0 + j = e + j /\ j \in 1..n  BY <1>2, <1>3, SMT
    <3> QED BY <3>1, <1>3, <1>4, Zenon
  <2> QED BY <2>1, Zenon
<1>6. \A j \in 1..Len(v) : f[e + Len(h) + j] = v[j]
  <2>1. ASSUME NEW j \in 1..Len(v) PROVE f[e + Len(h) + j] = v[j]
    <3>1. n + j \in 1..Len(w) /\ e + Len(h) + j = e + 0 + (n + j) /\ j \in 1..(Len(w) - n)
      BY <1>2, <1>3, SMT
    <3> QED BY <3>1, <1>3, <1>4, Zenon
  <2> QED BY <2>1, Zenon
<1>7. Len(f) = e + Len(h) + Len(v)  BY <1>2, <1>3, <1>4, SMTT(30)
<1>8. /\ c[0] = Len(p)
      /\ \A i, j \in 0..Len(q) : i <= j => c[i] <= c[j]
      /\ \A j \in 1..Len(p) : f[j] = p[j]
      /\ \A i \in 1..Len(q) : /\ c[i] = c[i - 1] + Len(q[i])
                              /\ \A j \in 1..Len(q[i]) : f[c[i - 1] + j] = q[i][j]
  BY <1>1, Zenon DEF Cut
<1> HIDE DEF h, v
<1>9. Cut(p, q, h, v, f, c)  BY <1>5, <1>6, <1>7, <1>8, Zenon DEF Cut
<1> QED BY <1>9, Zenon DEF Flows, h, v

(* The reader puts the event it holds into the stream's channel. *)
LEMMA FlowDispatch ==
  ASSUME NEW p \in Seq(Cells), NEW q \in Seq(Seq(Cells)), NEW h \in Seq(Cells),
         NEW w \in Seq(Cells), NEW f \in Seq(Cells), Flows(p, q, h, w, f)
  PROVE  Flows(p, Append(q, h), << >>, w, f)
<1>1. PICK c \in [0..Len(q) -> Nat] : Cut(p, q, h, w, f, c)  BY Zenon DEF Flows
<1> DEFINE n == Len(q)
           r == Append(q, h)
           d == [i \in 0..(n + 1) |-> IF i <= n THEN c[i] ELSE c[n] + Len(h)]
<1>2. n \in Nat /\ Len(r) = n + 1 /\ Len(h) \in Nat /\ Len(<< >>) = 0
      /\ r[n + 1] = h /\ \A i \in 1..n : r[i] = q[i]
  BY SMT
<1>3. /\ d \in [0..(n + 1) -> Nat] /\ d[n + 1] = c[n] + Len(h)
      /\ \A i \in 0..n : d[i] = c[i] /\ c[i] \in Nat
  <2>1. \A i \in 0..n : c[i] \in Nat  BY Zenon
  <2>2. n \in 0..n /\ n + 1 \in 0..(n + 1) /\ ~(n + 1 <= n)
        /\ \A i \in 0..n : i \in 0..(n + 1) /\ i <= n
    BY <1>2, SMT
  <2>3. \A i \in 0..(n + 1) : i <= n => i \in 0..n  BY <1>2, SMT
  <2>9. \A a, b \in Nat : a + b \in Nat  BY SMT
  <2>4. c[n] + Len(h) \in Nat  BY <1>2, <2>1, <2>2, <2>9, Zenon
  <2>5. \A i \in 0..(n + 1) : (IF i <= n THEN c[i] ELSE c[n] + Len(h)) \in Nat
    BY <2>1, <2>3, <2>4, Zenon
  <2>6. d \in [0..(n + 1) -> Nat]  BY <2>5, Zenon
  <2>7. d[n + 1] = c[n] + Len(h)  BY <2>2, Zenon
  <2>8. \A i \in 0..n : d[i] = c[i]  BY <2>2, Zenon
  <2> QED BY <2>1, <2>6, <2>7, <2>8, Zenon
<1>4. /\ c[0] = Len(p) /\ Len(f) = c[n] + Len(h) + Len(w)
      /\ \A i, j \in 0..n : i <= j => c[i] <= c[j]
      /\ \A j \in 1..Len(p) : f[j] = p[j]
      /\ \A i \in 1..n : /\ c[i] = c[i - 1] + Len(q[i])
                         /\ \A j \in 1..Len(q[i]) : f[c[i - 1] + j] = q[i][j]
      /\ \A j \in 1..Len(h) : f[c[n] + j] = h[j]
      /\ \A j \in 1..Len(w) : f[c[n] + Len(h) + j] = w[j]
  BY <1>1, Zenon DEF Cut
<1> HIDE DEF d, n, r
<1>5. d[0] = Len(p)
  <2>1. 0 \in 0..n  BY <1>2, SMT
  <2> QED BY <2>1, <1>3, <1>4, Zenon
<1>6. ASSUME NEW i \in 0..Len(r), NEW j \in 0..Len(r), i <= j PROVE d[i] <= d[j]
  <2>1. CASE j \in 0..n
    <3>1. i \in 0..n  BY <1>2, <1>6, <2>1, SMT
    <3> QED BY <1>3, <1>4, <1>6, <2>1, <3>1, Zenon
  <2>2. CASE j = n + 1
    <3>1. CASE i = n + 1  BY <1>2, <1>3, <2>2, <3>1, SMT
    <3>2. CASE i \in 0..n
      <4>1. n \in 0..n /\ i <= n  BY <1>2, <3>2, SMT
      <4>2. c[i] <= c[n]  BY <1>4, <3>2, <4>1, Zenon
      <4>3. c[i] \in Nat /\ c[n] \in Nat /\ d[i] = c[i]  BY <1>3, <3>2, <4>1, Zenon
      <4>4. \A a, b, g \in Nat : a <= b => a <= b + g  BY SMT
      <4>5. c[i] <= c[n] + Len(h)  BY <1>2, <4>2, <4>3, <4>4, Zenon
      <4> QED BY <1>3, <2>2, <4>3, <4>5, Zenon
    <3> QED BY <1>2, <3>1, <3>2, SMT
  <2> QED BY <1>2, <2>1, <2>2, SMT
<1>7. ASSUME NEW i \in 1..Len(r)
      PROVE  /\ d[i] = d[i - 1] + Len(r[i])
             /\ \A j \in 1..Len(r[i]) : f[d[i - 1] + j] = r[i][j]
  <2>1. CASE i \in 1..n
    <3>1. i \in 0..n /\ i - 1 \in 0..n  BY <1>2, <2>1, SMT
    <3>2. d[i] = c[i] /\ d[i - 1] = c[i - 1] /\ r[i] = q[i]
      BY <1>2, <1>3, <2>1, <3>1, Zenon
    <3>3. /\ c[i] = c[i - 1] + Len(q[i])
          /\ \A j \in 1..Len(q[i]) : f[c[i - 1] + j] = q[i][j]
      BY <1>4, <2>1, Zenon
    <3> QED BY <3>2, <3>3, Zenon
  <2>2. CASE i = n + 1
    <3>1. i - 1 = n /\ n \in 0..n  BY <1>2, <2>2, SMT
    <3>2. d[i] = c[n] + Len(h) /\ d[i - 1] = c[n] /\ r[i] = h
      BY <1>2, <1>3, <2>2, <3>1, Zenon
    <3>3. \A j \in 1..Len(h) : f[c[n] + j] = h[j]  BY <1>4, Zenon
    <3> QED BY <3>2, <3>3, Zenon
  <2> QED BY <1>2, <2>1, <2>2, SMT
<1>8. ASSUME NEW j \in 1..Len(w) PROVE f[d[Len(r)] + Len(<< >>) + j] = w[j]
  <2>1. d[Len(r)] + Len(<< >>) = c[n] + Len(h)
    <3>1. n \in 0..n  BY <1>2, SMT
    <3>2. c[n] \in Nat  BY <1>3, <3>1, Zenon
    <3> QED BY <1>2, <1>3, <3>2, SMT
  <2> QED BY <2>1, <1>4, Zenon
<1>9. Len(f) = d[Len(r)] + Len(<< >>) + Len(w)
  <2>1. n \in 0..n  BY <1>2, SMT
  <2>2. c[n] \in Nat  BY <1>3, <2>1, Zenon
  <2>3. Len(w) \in Nat  BY SMT
  <2> QED BY <1>2, <1>3, <1>4, <2>2, <2>3, SMT
<1>10. \A j \in 1..Len(<< >>) : f[d[Len(r)] + j] = << >>[j]
  <2>1. 1..Len(<< >>) = {}  BY SMT
  <2> QED BY <2>1, Zenon
<1>11. Cut(p, r, << >>, w, f, d)
  BY <1>4, <1>5, <1>6, <1>7, <1>8, <1>9, <1>10, Zenon DEF Cut
<1>12. d \in [0..Len(r) -> Nat]  BY <1>2, <1>3, Zenon
<1> QED BY <1>11, <1>12, Zenon DEF Flows, r

(* A goroutine takes the first event of its channel into its buffer. *)
LEMMA FlowTake ==
  ASSUME NEW p \in Seq(Cells), NEW q \in Seq(Seq(Cells)), NEW h \in Seq(Cells),
         NEW w \in Seq(Cells), NEW f \in Seq(Cells), Flows(p, q, h, w, f), q # << >>
  PROVE  Flows(p \o Head(q), Tail(q), h, w, f)
<1>1. PICK c \in [0..Len(q) -> Nat] : Cut(p, q, h, w, f, c)  BY Zenon DEF Flows
<1> DEFINE n == Len(q)
           e == Head(q)
           r == Tail(q)
           d == [i \in 0..(n - 1) |-> c[i + 1]]
<1>2. /\ n \in Nat /\ n # 0 /\ Len(r) = n - 1 /\ e = q[1]
      /\ \A i \in 1..(n - 1) : r[i] = q[i + 1]
  BY SMT
<1>3. e \in Seq(Cells)  BY SMT
<1>4. /\ Len(p) \in Nat /\ Len(e) \in Nat /\ Len(p \o e) = Len(p) + Len(e)
      /\ \A j \in 1..Len(p) : (p \o e)[j] = p[j]
      /\ \A j \in 1..Len(e) : (p \o e)[Len(p) + j] = e[j]
  BY <1>3, SMTT(30)
<1>5. /\ c[0] = Len(p)
      /\ \A i, j \in 0..n : i <= j => c[i] <= c[j]
      /\ \A j \in 1..Len(p) : f[j] = p[j]
  BY <1>1, Zenon DEF Cut
<1>20. \A i \in 1..n : /\ c[i] = c[i - 1] + Len(q[i])
                       /\ \A j \in 1..Len(q[i]) : f[c[i - 1] + j] = q[i][j]
  BY <1>1, Zenon DEF Cut
<1>21. /\ \A j \in 1..Len(h) : f[c[n] + j] = h[j]
       /\ \A j \in 1..Len(w) : f[c[n] + Len(h) + j] = w[j]
       /\ Len(f) = c[n] + Len(h) + Len(w)
  BY <1>1, Zenon DEF Cut
<1>6. /\ \A i \in 0..(n - 1) : i + 1 \in 0..n
      /\ 0 \in 0..(n - 1) /\ n - 1 \in 0..(n - 1) /\ (n - 1) + 1 = n /\ 0 + 1 = 1
      /\ 1 \in 1..n /\ 1 - 1 = 0
      /\ \A i \in 1..(n - 1) : /\ i \in 0..(n - 1) /\ i - 1 \in 0..(n - 1)
                               /\ (i - 1) + 1 = i /\ i + 1 \in 1..n /\ (i + 1) - 1 = i
      /\ \A i, j \in 0..(n - 1) : i <= j => i + 1 <= j + 1
  BY <1>2, SMT
<1>7. /\ d \in [0..(n - 1) -> Nat]
      /\ \A i \in 0..(n - 1) : d[i] = c[i + 1]
  BY <1>6, Zenon
<1> HIDE DEF d, n, r, e
<1>8. c[1] = Len(p) + Len(e) /\ \A j \in 1..Len(e) : f[Len(p) + j] = e[j]
  <2>1. e = q[1] /\ 1 \in 1..n /\ 1 - 1 = 0 /\ c[0] = Len(p)  BY <1>2, <1>5, <1>6, Zenon
  <2>2. c[1] = c[1 - 1] + Len(q[1]) /\ \A j \in 1..Len(q[1]) : f[c[1 - 1] + j] = q[1][j]
    BY <1>20, <2>1, Zenon
  <2> QED BY <2>1, <2>2, Zenon
<1>9. d[0] = Len(p \o e)  BY <1>4, <1>6, <1>7, <1>8, Zenon
<1>10. \A i, j \in 0..(n - 1) : i <= j => d[i] <= d[j]
  BY <1>5, <1>6, <1>7, Zenon
<1>11. ASSUME NEW j \in 1..Len(p \o e) PROVE f[j] = (p \o e)[j]
  <2>1. CASE j \in 1..Len(p)  BY <1>4, <1>5, <2>1, Zenon
  <2>2. CASE j - Len(p) \in 1..Len(e) /\ j = Len(p) + (j - Len(p))
    BY <1>4, <1>8, <2>2, ZenonT(30)
  <2>3. \A a, b \in Nat : \A i \in 1..(a + b) :
          i \in 1..a \/ (i - a \in 1..b /\ i = a + (i - a))
    BY SMT
  <2> QED BY <1>4, <2>1, <2>2, <2>3, Zenon
<1>12. ASSUME NEW i \in 1..(n - 1)
       PROVE  /\ d[i] = d[i - 1] + Len(r[i])
              /\ \A j \in 1..Len(r[i]) : f[d[i - 1] + j] = r[i][j]
  <2>1. d[i] = c[i + 1] /\ d[i - 1] = c[i] /\ r[i] = q[i + 1]
    BY <1>2, <1>6, <1>7, Zenon
  <2>2. /\ c[i + 1] = c[i] + Len(q[i + 1])
        /\ \A j \in 1..Len(q[i + 1]) : f[c[i] + j] = q[i + 1][j]
    <3>1. i + 1 \in 1..n /\ (i + 1) - 1 = i  BY <1>6, Zenon
    <3>2. /\ c[i + 1] = c[(i + 1) - 1] + Len(q[i + 1])
          /\ \A j \in 1..Len(q[i + 1]) : f[c[(i + 1) - 1] + j] = q[i + 1][j]
      BY <1>20, <3>1, Zenon
    <3> QED BY <3>1, <3>2, Zenon
  <2> QED BY <2>1, <2>2, Zenon
<1>13. d[n - 1] = c[n]  BY <1>6, <1>7, Zenon
<1>15. Len(r) = n - 1  BY <1>2, Zenon
<1>16. /\ \A j \in 1..Len(h) : f[d[n - 1] + j] = h[j]
       /\ \A j \in 1..Len(w) : f[d[n - 1] + Len(h) + j] = w[j]
       /\ Len(f) = d[n - 1] + Len(h) + Len(w)
  BY <1>13, <1>21, Zenon
<1>14. Cut(p \o e, r, h, w, f, d)
  BY <1>9, <1>10, <1>11, <1>12, <1>15, <1>16, Zenon DEF Cut
<1> QED BY <1>7, <1>14, <1>15, Zenon DEF Flows, r, e

(* A sequence without its first m items. *)
LEMMA Rests ==
  ASSUME NEW f \in Seq(Cells), NEW m \in Nat, m <= Len(f)
  PROVE  /\ SubSeq(f, m + 1, Len(f)) \in Seq(Cells)
         /\ Len(SubSeq(f, m + 1, Len(f))) = Len(f) - m
         /\ \A j \in 1..(Len(f) - m) : SubSeq(f, m + 1, Len(f))[j] = f[j + m]
<1> DEFINE n == Len(f)
<1>1. n \in Nat  BY SMT
<1>2. SubSeq(f, m + 1, n) \in Seq(Cells)  BY <1>1, SMT
<1>4. Len(SubSeq(f, m + 1, n)) = n - m
  <2>1. CASE n = m  BY <1>1, <2>1, SMT
  <2>2. CASE m + 1 <= n  BY <1>1, <2>2, SMT
  <2>3. \A a, b \in Nat : b <= a => a = b \/ b + 1 <= a  BY SMT
  <2> QED BY <1>1, <2>1, <2>2, <2>3, Zenon
<1>3. \A j \in 1..(n - m) : SubSeq(f, m + 1, n)[j] = f[(m + 1) + j - 1]
                            /\ (m + 1) + j - 1 = j + m
  BY <1>1, SMT
<1> QED BY <1>2, <1>3, <1>4, Zenon

(* What a goroutine holds comes first. *)
LEMMA FlowHeld ==
  ASSUME NEW p \in Seq(Cells), NEW q \in Seq(Seq(Cells)), NEW h \in Seq(Cells),
         NEW w \in Seq(Cells), NEW f \in Seq(Cells), Flows(p, q, h, w, f)
  PROVE  Len(p) <= Len(f) /\ \A j \in 1..Len(p) : f[j] = p[j]
<1>1. PICK c \in [0..Len(q) -> Nat] : Cut(p, q, h, w, f, c)  BY Zenon DEF Flows
<1>2. Len(q) \in Nat /\ 0 \in 0..Len(q) /\ Len(q) \in 0..Len(q)
      /\ Len(p) \in Nat /\ Len(h) \in Nat /\ Len(w) \in Nat
  BY SMT
<1>3. /\ c[0] = Len(p) /\ Len(f) = c[Len(q)] + Len(h) + Len(w)
      /\ \A i, j \in 0..Len(q) : i <= j => c[i] <= c[j]
      /\ \A j \in 1..Len(p) : f[j] = p[j]
  BY <1>1, Zenon DEF Cut
<1>4. c[Len(q)] \in Nat /\ Len(p) <= c[Len(q)]  BY <1>2, <1>3, Cuts, Zenon
<1>5. \A a, b, d, e \in Nat : a <= b => a <= b + d + e  BY SMT
<1> QED BY <1>2, <1>3, <1>4, <1>5, Zenon

(* The first byte of the channel's first event comes next. *)
LEMMA FlowNext ==
  ASSUME NEW p \in Seq(Cells), NEW q \in Seq(Seq(Cells)), NEW h \in Seq(Cells),
         NEW w \in Seq(Cells), NEW f \in Seq(Cells), Flows(p, q, h, w, f),
         q # << >>, Head(q) # << >>
  PROVE  Len(p) + 1 <= Len(f) /\ f[Len(p) + 1] = Head(q)[1]
<1>1. Flows(p \o Head(q), Tail(q), h, w, f)  BY FlowTake, Zenon
<1>2. Head(q) \in Seq(Cells) /\ Tail(q) \in Seq(Seq(Cells))  BY SMT
<1>3. /\ p \o Head(q) \in Seq(Cells) /\ Len(p \o Head(q)) >= Len(p) + 1
      /\ (p \o Head(q))[Len(p) + 1] = Head(q)[1]
      /\ Len(p) + 1 \in 1..Len(p \o Head(q))
      /\ Len(p) \in Nat /\ Len(p \o Head(q)) \in Nat
  BY <1>2, SMT
<1>4. /\ Len(p \o Head(q)) <= Len(f)
      /\ \A j \in 1..Len(p \o Head(q)) : f[j] = (p \o Head(q))[j]
  <2> DEFINE u == p \o Head(q)
             v == Tail(q)
  <2>1. u \in Seq(Cells) /\ v \in Seq(Seq(Cells)) /\ Flows(u, v, h, w, f)
    BY <1>1, <1>2, <1>3, Zenon
  <2> HIDE DEF u, v
  <2>3. \A a \in Seq(Cells), b \in Seq(Seq(Cells)) : Flows(a, b, h, w, f) =>
          Len(a) <= Len(f) /\ \A j \in 1..Len(a) : f[j] = a[j]
    <3> TAKE a \in Seq(Cells), b \in Seq(Seq(Cells))
    <3> HAVE Flows(a, b, h, w, f)
    <3> QED BY FlowHeld, SMT
  <2>2. Len(u) <= Len(f) /\ \A j \in 1..Len(u) : f[j] = u[j]  BY <2>1, <2>3, Zenon
  <2> QED BY <2>2, Zenon DEF u
<1>5. Len(f) \in Nat  BY SMT
<1>6. Len(p) + 1 <= Len(f)  BY <1>3, <1>4, <1>5, SMT
<1> QED BY <1>3, <1>4, <1>6, Zenon

(* The first m bytes leave the goroutine's buffer. *)
LEMMA FlowCut ==
  ASSUME NEW p \in Seq(Cells), NEW q \in Seq(Seq(Cells)), NEW h \in Seq(Cells),
         NEW w \in Seq(Cells), NEW f \in Seq(Cells), Flows(p, q, h, w, f),
         NEW m \in Nat, m <= Len(p)
  PROVE  Flows(SubSeq(p, m + 1, Len(p)), q, h, w, SubSeq(f, m + 1, Len(f)))
<1>1. PICK c \in [0..Len(q) -> Nat] : Cut(p, q, h, w, f, c)  BY Zenon DEF Flows
<1> DEFINE n == Len(q)
           u == SubSeq(p, m + 1, Len(p))
           g == SubSeq(f, m + 1, Len(f))
           d == [i \in 0..n |-> c[i] - m]
<1>2. /\ n \in Nat /\ 0 \in 0..n /\ n \in 0..n /\ Len(p) \in Nat /\ Len(f) \in Nat
      /\ Len(h) \in Nat /\ Len(w) \in Nat
  BY SMT
<1>3. c[0] = Len(p) /\ \A i, j \in 0..n : i <= j => c[i] <= c[j]
  BY <1>1, Zenon DEF Cut
<1>30. \A j \in 1..Len(p) : f[j] = p[j]  BY <1>1, Zenon DEF Cut
<1>31. \A i \in 1..n : /\ c[i] = c[i - 1] + Len(q[i])
                       /\ \A j \in 1..Len(q[i]) : f[c[i - 1] + j] = q[i][j]
  BY <1>1, Zenon DEF Cut
<1>32. \A j \in 1..Len(h) : f[c[n] + j] = h[j]  BY <1>1, Zenon DEF Cut
<1>33. \A j \in 1..Len(w) : f[c[n] + Len(h) + j] = w[j]  BY <1>1, Zenon DEF Cut
<1>34. Len(f) = c[n] + Len(h) + Len(w)  BY <1>1, Zenon DEF Cut
<1>4. c[n] \in Nat /\ \A i \in 0..n : c[i] \in Nat /\ c[i] <= c[n]
  BY <1>2, <1>3, Cuts, Zenon
<1>5. \A i \in 0..n : c[i] - m \in Nat /\ (c[i] - m) + m = c[i]
  <2>1. \A a, b \in Nat : m <= a /\ a <= b => b - m \in Nat /\ (b - m) + m = b  BY SMT
  <2>2. \A i \in 0..n : 0 <= i  BY <1>2, SMT
  <2>3. \A i \in 0..n : Len(p) <= c[i] /\ c[i] \in Nat  BY <1>2, <1>3, <1>4, <2>2, Zenon
  <2>4. Len(p) \in Nat  BY <1>2, Zenon
  <2> QED BY <2>1, <2>3, <2>4, Zenon
<1>6. Len(p) <= Len(f)  BY FlowHeld, Zenon
<1>7. m <= Len(f)  BY <1>2, <1>6, SMT
<1>8. /\ Len(u) = Len(p) - m /\ \A j \in 1..(Len(p) - m) : u[j] = p[j + m]
      /\ Len(g) = Len(f) - m /\ \A j \in 1..(Len(f) - m) : g[j] = f[j + m]
  BY <1>7, Rests, Zenon
<1>9. /\ d \in [0..n -> Nat] /\ \A i \in 0..n : d[i] = c[i] - m /\ d[i] + m = c[i]
  BY <1>5, Zenon
<1> HIDE DEF d, n, u, g
<1>10. d[0] = Len(u)  BY <1>2, <1>3, <1>8, <1>9, Zenon
<1>11. \A i, j \in 0..n : i <= j => d[i] <= d[j]
  <2>1. \A a, b \in Nat : a <= b => a - m <= b - m  BY SMT
  <2> QED BY <2>1, <1>3, <1>4, <1>9, Zenon
<1>12. \A j \in 1..Len(u) : g[j] = u[j]
  <2>1. \A a, b \in Nat : a <= b =>
          \A j \in 1..(a - m) : j \in 1..(b - m) /\ j + m \in 1..a
    BY SMT
  <2>2. \A j \in 1..(Len(p) - m) : j \in 1..(Len(f) - m) /\ j + m \in 1..Len(p)
    BY <1>2, <1>6, <2>1, Zenon
  <2>3. \A j \in 1..(Len(p) - m) : u[j] = p[j + m] /\ g[j] = f[j + m]
    BY <1>8, <2>2, Zenon
  <2>4. Len(u) = Len(p) - m  BY <1>8, Zenon
  <2> QED BY <1>30, <2>2, <2>3, <2>4, Zenon
<1>14. \A a, b, l \in Nat : a + m + b <= l =>
         \A j \in 1..b : a + j \in 1..(l - m) /\ (a + j) + m = (a + m) + j
  BY SMT
<1>15. ASSUME NEW i \in 1..n
       PROVE  /\ d[i] = d[i - 1] + Len(q[i])
              /\ \A j \in 1..Len(q[i]) : g[d[i - 1] + j] = q[i][j]
  <2>1. i \in 0..n /\ i - 1 \in 0..n /\ q[i] \in Seq(Cells)  BY <1>2, SMT DEF n
  <2>2. Len(q[i]) \in Nat  BY <2>1, SMT
  <2>3. /\ c[i] = c[i - 1] + Len(q[i])
        /\ \A j \in 1..Len(q[i]) : f[c[i - 1] + j] = q[i][j]
    BY <1>31, Zenon
  <2>4. /\ d[i - 1] \in Nat /\ d[i - 1] + m = c[i - 1] /\ d[i] = c[i] - m
        /\ c[i] <= c[n] /\ c[i] \in Nat
    BY <1>4, <1>9, <2>1, Zenon
  <2>5. d[i] = d[i - 1] + Len(q[i])
    <3>1. \A a, b \in Nat : ((a + m) + b) - m = a + b  BY SMT
    <3>2. c[i] = (d[i - 1] + m) + Len(q[i])  BY <2>3, <2>4, Zenon
    <3> QED BY <2>2, <2>4, <3>1, <3>2, ZenonT(30)
  <2>6. d[i - 1] + m + Len(q[i]) <= Len(f)
    <3>1. \A a, b, e, k \in Nat : a <= b => a <= b + e + k  BY SMT
    <3>2. c[i] <= c[n] + Len(h) + Len(w)  BY <1>2, <1>4, <2>4, <3>1, Zenon
    <3> QED BY <1>34, <2>3, <2>4, <3>2, Zenon
  <2>7. \A j \in 1..Len(q[i]) : /\ d[i - 1] + j \in 1..(Len(f) - m)
                                /\ (d[i - 1] + j) + m = c[i - 1] + j
    <3>1. Len(f) \in Nat /\ Len(q[i]) \in Nat /\ d[i - 1] \in Nat  BY <1>2, <2>2, <2>4, Zenon
    <3>2. d[i - 1] + m = c[i - 1]  BY <2>4, Zenon
    <3>3. \A j \in 1..Len(q[i]) : /\ d[i - 1] + j \in 1..(Len(f) - m)
                                  /\ (d[i - 1] + j) + m = (d[i - 1] + m) + j
      BY <1>14, <2>6, <3>1, Zenon
    <3> QED BY <3>2, <3>3, Zenon
  <2>8. \A j \in 1..(Len(f) - m) : g[j] = f[j + m]  BY <1>8, Zenon
  <2> QED BY <2>3, <2>5, <2>7, <2>8, Zenon
<1>16. \A j \in 1..Len(h) : g[d[n] + j] = h[j]
  <2>1. \A a, b, e \in Nat : a + b <= a + b + e  BY SMT
  <2>2. d[n] \in Nat /\ d[n] + m = c[n]  BY <1>2, <1>9, Zenon
  <2>3. d[n] + m + Len(h) <= Len(f)  BY <1>2, <1>34, <1>4, <2>1, <2>2, Zenon
  <2>4. \A j \in 1..Len(h) : d[n] + j \in 1..(Len(f) - m) /\ (d[n] + j) + m = c[n] + j
    BY <1>2, <1>14, <2>2, <2>3, ZenonT(30)
  <2>5. \A j \in 1..(Len(f) - m) : g[j] = f[j + m]  BY <1>8, Zenon
  <2> QED BY <1>32, <2>4, <2>5, Zenon
<1>17. \A j \in 1..Len(w) : g[d[n] + Len(h) + j] = w[j]
  <2>1. \A b, e \in Nat : e + b \in Nat /\ (e + b) + m = (e + m) + b  BY SMT
  <2>2. d[n] \in Nat /\ d[n] + m = c[n]  BY <1>2, <1>9, Zenon
  <2>3. d[n] + Len(h) \in Nat /\ (d[n] + Len(h)) + m = c[n] + Len(h)
    <3>1. Len(h) \in Nat /\ d[n] \in Nat  BY <1>2, <2>2, Zenon
    <3>2. d[n] + Len(h) \in Nat /\ (d[n] + Len(h)) + m = (d[n] + m) + Len(h)
      BY <2>1, <3>1, Zenon
    <3> QED BY <2>2, <3>2, Zenon
  <2>4. (d[n] + Len(h)) + m + Len(w) <= Len(f)
    <3>1. c[n] + Len(h) + Len(w) <= c[n] + Len(h) + Len(w)  BY <1>2, <1>4, SMT
    <3> QED BY <1>34, <2>3, <3>1, Zenon
  <2>5. \A j \in 1..Len(w) : /\ d[n] + Len(h) + j \in 1..(Len(f) - m)
                             /\ (d[n] + Len(h) + j) + m = c[n] + Len(h) + j
    <3>1. \A j \in 1..Len(w) : /\ (d[n] + Len(h)) + j \in 1..(Len(f) - m)
                               /\ ((d[n] + Len(h)) + j) + m = ((d[n] + Len(h)) + m) + j
      BY <1>2, <1>14, <2>3, <2>4, ZenonT(30)
    <3> QED BY <2>3, <3>1, Zenon
  <2>6. \A j \in 1..(Len(f) - m) : g[j] = f[j + m]  BY <1>8, Zenon
  <2> QED BY <1>33, <2>5, <2>6, Zenon
<1>18. Len(g) = d[n] + Len(h) + Len(w)
  <2>1. d[n] \in Nat /\ d[n] + m = c[n]  BY <1>2, <1>9, Zenon
  <2>2. \A a, b, e \in Nat : ((a + m) + b + e) - m = a + b + e  BY SMT
  <2>3. Len(f) = (d[n] + m) + Len(h) + Len(w)  BY <1>34, <2>1, Zenon
  <2>4. Len(g) = ((d[n] + m) + Len(h) + Len(w)) - m  BY <1>8, <2>3, Zenon
  <2>5. ((d[n] + m) + Len(h) + Len(w)) - m = d[n] + Len(h) + Len(w)
    BY <1>2, <2>1, <2>2, ZenonT(30)
  <2> QED BY <2>4, <2>5, Zenon
<1>19. Cut(u, q, h, w, g, d)
  BY <1>10, <1>11, <1>12, <1>15, <1>16, <1>17, <1>18, Zenon DEF Cut, n
<1> QED BY <1>9, <1>19, Zenon DEF Flows, u, g, n

(* A goroutine takes a whole frame off its buffer. *)
LEMMA FlowParse ==
  ASSUME NEW p \in Seq(Cells), NEW q \in Seq(Seq(Cells)), NEW h \in Seq(Cells),
         NEW w \in Seq(Cells), NEW f \in Seq(Cells), Flows(p, q, h, w, f), Len(p) >= 2
  PROVE  Flows(SubSeq(p, 3, Len(p)), q, h, w, SubSeq(f, 3, Len(f)))
<1>1. 2 \in Nat /\ 2 <= Len(p) /\ 2 + 1 = 3  BY SMT
<1>2. Flows(SubSeq(p, 2 + 1, Len(p)), q, h, w, SubSeq(f, 2 + 1, Len(f)))
  BY <1>1, FlowCut, Zenon
<1> QED BY <1>1, <1>2, Zenon

(* main takes the first event of a channel and drops it. *)
LEMMA FlowDrop ==
  ASSUME NEW q \in Seq(Seq(Cells)), NEW h \in Seq(Cells), NEW w \in Seq(Cells),
         NEW f \in Seq(Cells), Flows(<< >>, q, h, w, f), q # << >>
  PROVE  LET m == Len(Head(q))
         IN /\ m \in Nat /\ m <= Len(f) /\ \A j \in 1..m : f[j] = Head(q)[j]
            /\ Flows(<< >>, Tail(q), h, w, SubSeq(f, m + 1, Len(f)))
<1> DEFINE e == Head(q)
           r == Tail(q)
           m == Len(e)
<1>1. /\ e \in Seq(Cells) /\ r \in Seq(Seq(Cells)) /\ << >> \in Seq(Cells)
  BY SMT
<1>2. << >> \o e = e /\ m \in Nat /\ m <= m /\ SubSeq(e, m + 1, m) = << >>  BY <1>1, SMT
<1>3. Flows(e, r, h, w, f)
  <2>1. Flows(<< >> \o e, r, h, w, f)  BY <1>1, FlowTake, Zenon
  <2> QED BY <1>2, <2>1, Zenon
<1> HIDE DEF e, r
<1>4. m <= Len(f) /\ \A j \in 1..m : f[j] = e[j]  BY <1>1, <1>3, FlowHeld, SMT
<1>5. Flows(SubSeq(e, m + 1, Len(e)), r, h, w, SubSeq(f, m + 1, Len(f)))
  BY <1>1, <1>2, <1>3, FlowCut, Zenon
<1> QED BY <1>2, <1>4, <1>5, Zenon DEF e, r

(* Nothing but the wire is left of a stream. *)
LEMMA FlowWire ==
  ASSUME NEW h \in Seq(Cells), NEW w \in Seq(Cells), NEW f \in Seq(Cells),
         Flows(<< >>, << >>, h, w, f)
  PROVE  /\ Flows(<< >>, << >>, << >>, w, w)
         /\ \A j \in 1..Len(w) : f[Len(h) + j] = w[j] /\ Len(h) + j \in 1..Len(f)
<1>1. Len(<< >>) = 0 /\ Len(h) \in Nat /\ Len(w) \in Nat /\ 0..0 = {0} /\ 1..0 = {}  BY SMT
<1>2. \A j \in 1..Len(w) : f[Len(h) + j] = w[j] /\ Len(h) + j \in 1..Len(f)
  <2>1. PICK c \in [0..Len(<< >>) -> Nat] : Cut(<< >>, << >>, h, w, f, c)  BY Zenon DEF Flows
  <2>2. /\ c[0] = 0 /\ \A j \in 1..Len(w) : f[c[0] + Len(h) + j] = w[j]
        /\ Len(f) = c[0] + Len(h) + Len(w)
    BY <1>1, <2>1, Zenon DEF Cut
  <2>3. Len(f) = 0 + Len(h) + Len(w) /\ \A j \in 1..Len(w) : f[0 + Len(h) + j] = w[j]
    BY <2>2, Zenon
  <2>4. \A j \in 1..Len(w) : 0 + Len(h) + j = Len(h) + j
                             /\ Len(h) + j \in 1..(0 + Len(h) + Len(w))
    BY <1>1, SMT
  <2> QED BY <2>3, <2>4, Zenon
<1>3. Flows(<< >>, << >>, << >>, w, w)
  <2> DEFINE c == [i \in 0..0 |-> 0]
  <2>1. c \in [0..0 -> Nat] /\ c[0] = 0  BY SMT
  <2> HIDE DEF c
  <2>2. \A j \in 1..Len(w) : 0 + 0 + j = j  BY <1>1, SMT
  <2>3. 0 + 0 + Len(w) = Len(w) /\ 0 <= 0  BY <1>1, SMT
  <2>4. Cut(<< >>, << >>, << >>, w, w, c)
    <3>1. /\ c[0] = Len(<< >>)
          /\ \A i, j \in 0..Len(<< >>) : i <= j => c[i] <= c[j]
          /\ \A j \in 1..Len(<< >>) : w[j] = << >>[j]
      BY <1>1, <2>1, <2>3, Zenon
    <3>2. /\ \A j \in 1..Len(<< >>) : w[c[Len(<< >>)] + j] = << >>[j]
          /\ \A i \in 1..Len(<< >>) : FALSE
      BY <1>1, Zenon
    <3>3. /\ \A j \in 1..Len(w) : w[c[Len(<< >>)] + Len(<< >>) + j] = w[j]
          /\ Len(w) = c[Len(<< >>)] + Len(<< >>) + Len(w)
      BY <1>1, <2>1, <2>2, <2>3, Zenon
    <3> QED BY <3>1, <3>2, <3>3, Zenon DEF Cut
  <2> QED BY <1>1, <2>1, <2>4, Zenon DEF Flows
<1> QED BY <1>2, <1>3, Zenon

-----------------------------------------------------------------------------
(* The texts that open what is under way, after each way of changing it. *)
LEMMA PairParsed ==
  ASSUME NEW f \in Seq(Cells), NEW k \in Nat, Texts(f, k), k # 0
  PROVE  LET g == SubSeq(f, 3, Len(f))
         IN /\ k - 1 \in Nat /\ Len(f) >= 2 /\ Texts(g, k - 1)
            /\ Ended(f, k) => Ended(g, k - 1)
            /\ Closed(f, k) => Closed(g, k - 1)
            /\ Spoiled(f, k) => Spoiled(g, k - 1)
<1> DEFINE g == SubSeq(f, 3, Len(f))
           n == Len(f)
<1>1. n \in Nat /\ 2 * k <= n  BY SMT DEF Texts
<1>2. k - 1 \in Nat /\ n >= 2  BY <1>1, SMT
<1>3. Len(g) = n - 2 /\ \A j \in 1..(n - 2) : g[j] = f[j + 2]
  <2>1. 2 \in Nat /\ 2 <= Len(f) /\ 2 + 1 = 3  BY <1>2, SMT
  <2>2. /\ Len(SubSeq(f, 2 + 1, n)) = n - 2
        /\ \A j \in 1..(n - 2) : SubSeq(f, 2 + 1, n)[j] = f[j + 2]
    BY <2>1, Rests, Zenon
  <2> QED BY <2>1, <2>2, Zenon
<1> HIDE DEF g
<1>4. Texts(g, k - 1)
  <2>1. 2 * (k - 1) <= Len(g)  BY <1>1, <1>2, <1>3, SMT
  <2>2. ASSUME NEW j \in 1..(k - 1) PROVE g[2 * j - 1] = "text" /\ g[2 * j] = "tail"
    <3>1. /\ j + 1 \in 1..k /\ 2 * j - 1 \in 1..(n - 2) /\ 2 * j \in 1..(n - 2)
          /\ (2 * j - 1) + 2 = 2 * (j + 1) - 1 /\ 2 * j + 2 = 2 * (j + 1)
      BY <1>1, <1>2, SMT
    <3>2. f[2 * (j + 1) - 1] = "text" /\ f[2 * (j + 1)] = "tail"  BY <3>1, Zenon DEF Texts
    <3> QED BY <1>3, <3>1, <3>2, Zenon
  <2> QED BY <2>1, <2>2, Zenon DEF Texts
<1>5. Ended(f, k) => Ended(g, k - 1)  BY <1>1, <1>2, <1>3, SMT DEF Ended
<1>6. /\ n >= 2 * k + 1 => g[2 * (k - 1) + 1] = f[2 * k + 1]
      /\ n >= 2 * k + 2 => g[2 * (k - 1) + 2] = f[2 * k + 2]
  <2>1. n >= 2 * k + 1 =>
          2 * (k - 1) + 1 \in 1..(n - 2) /\ (2 * (k - 1) + 1) + 2 = 2 * k + 1
    BY <1>1, <1>2, SMT
  <2>2. n >= 2 * k + 2 =>
          2 * (k - 1) + 2 \in 1..(n - 2) /\ (2 * (k - 1) + 2) + 2 = 2 * k + 2
    BY <1>1, <1>2, SMT
  <2>3. \A j \in 1..(n - 2) : g[j] = f[j + 2]  BY <1>3, Zenon
  <2>4. n >= 2 * k + 1 => g[2 * (k - 1) + 1] = f[2 * k + 1]
    <3> HAVE n >= 2 * k + 1
    <3>1. g[2 * (k - 1) + 1] = f[(2 * (k - 1) + 1) + 2]  BY <2>1, <2>3, Zenon
    <3> QED BY <2>1, <3>1, Zenon
  <2>5. n >= 2 * k + 2 => g[2 * (k - 1) + 2] = f[2 * k + 2]
    <3> HAVE n >= 2 * k + 2
    <3>1. g[2 * (k - 1) + 2] = f[(2 * (k - 1) + 2) + 2]  BY <2>2, <2>3, Zenon
    <3> QED BY <2>2, <3>1, Zenon
  <2> QED BY <2>4, <2>5, Zenon
<1>7. /\ n >= 2 * k + 1 => Len(g) >= 2 * (k - 1) + 1
      /\ n >= 2 * k + 2 => Len(g) >= 2 * (k - 1) + 2 /\ n >= 2 * k + 1
  BY <1>1, <1>2, <1>3, SMT
<1>8. Closed(f, k) => Closed(g, k - 1)  BY <1>6, <1>7, Zenon DEF Closed
<1>9. Spoiled(f, k) => Spoiled(g, k - 1)  BY <1>6, <1>7, Zenon DEF Spoiled
<1> QED BY <1>2, <1>4, <1>5, <1>8, <1>9, Zenon DEF g

(* The first frame a goroutine meets: a text, the close, or one that fails  *)
(* it.                                                                      *)
LEMMA PairFirst ==
  ASSUME NEW f \in Seq(Cells), NEW k \in Nat, Texts(f, k),
         Ended(f, k) \/ Closed(f, k) \/ Spoiled(f, k)
  PROVE  /\ k # 0 => Len(f) >= 2 /\ f[1] = "text" /\ f[2] = "tail"
         /\ k = 0 => \/ Len(f) = 0
                     \/ Closed(f, k) /\ Len(f) >= 2 /\ f[1] = "close" /\ f[2] = "tail"
                     \/ Spoiled(f, k) /\ f[1] = "reset"
                     \/ /\ Spoiled(f, k) /\ f[1] \in {"other", "masked", "rsv"}
                        /\ f[2] = "tail"
<1>1. Len(f) \in Nat  BY SMT
<1>2. CASE k # 0
  <2>1. 1 \in 1..k /\ 2 * 1 - 1 = 1 /\ 2 * 1 = 2 /\ (2 * k <= Len(f) => Len(f) >= 2)
    BY <1>1, <1>2, SMT
  <2> QED BY <1>2, <2>1, Zenon DEF Texts
<1>3. CASE k = 0
  <2>1. 2 * 0 = 0 /\ 2 * 0 + 1 = 1 /\ 2 * 0 + 2 = 2 /\ 0 # 1  BY SMT
  <2> QED BY <1>3, <2>1, Zenon DEF Ended, Closed, Spoiled
<1> QED BY <1>2, <1>3, Zenon

(* Two sequences one after the other. *)
LEMMA Joined ==
  ASSUME NEW f \in Seq(Cells), NEW x \in Seq(Cells)
  PROVE  /\ Len(f) \in Nat /\ Len(x) \in Nat /\ Len(f \o x) = Len(f) + Len(x)
         /\ \A j \in 1..Len(f) : (f \o x)[j] = f[j]
         /\ \A j \in 1..Len(x) : (f \o x)[Len(f) + j] = x[j]
BY SMT

(* More bytes at the end change nothing about what is in front. *)
LEMMA PairKept ==
  ASSUME NEW f \in Seq(Cells), NEW k \in Nat, NEW x \in Seq(Cells)
  PROVE  /\ Texts(f, k) => Texts(f \o x, k)
         /\ Closed(f, k) => Closed(f \o x, k)
         /\ Spoiled(f, k) => Spoiled(f \o x, k)
<1> DEFINE n == Len(f)
<1>1. /\ n \in Nat /\ Len(x) \in Nat /\ Len(f \o x) = n + Len(x)
      /\ \A j \in 1..n : (f \o x)[j] = f[j]
  BY Joined, Zenon
<1>2. /\ n >= 2 * k + 1 => 2 * k + 1 \in 1..n /\ n + Len(x) >= 2 * k + 1
      /\ n >= 2 * k + 2 => 2 * k + 1 \in 1..n /\ 2 * k + 2 \in 1..n
                           /\ n + Len(x) >= 2 * k + 2
      /\ 2 * k <= n => /\ 2 * k <= n + Len(x)
                       /\ \A j \in 1..k : 2 * j - 1 \in 1..n /\ 2 * j \in 1..n
  BY <1>1, SMT
<1>3. Texts(f, k) => Texts(f \o x, k)  BY <1>1, <1>2, Zenon DEF Texts
<1>4. Closed(f, k) => Closed(f \o x, k)  BY <1>1, <1>2, Zenon DEF Closed
<1>5. Spoiled(f, k) => Spoiled(f \o x, k)  BY <1>1, <1>2, Zenon DEF Spoiled
<1> QED BY <1>3, <1>4, <1>5, Zenon

(* A frame is its kind and its tail. *)
LEMMA FrameFacts ==
  ASSUME NEW a \in Kinds
  PROVE  /\ Frame(a) \in Seq(Cells) /\ Len(Frame(a)) = 2
         /\ Frame(a)[1] = a /\ Frame(a)[2] = "tail"
<1>1. a \in Cells /\ "tail" \in Cells  BY Zenon DEF Cells, Units
<1>2. << a, "tail" >> \in Seq(Cells)  BY <1>1, SMT
<1>3. Len(<< a, "tail" >>) = 2 /\ << a, "tail" >>[1] = a /\ << a, "tail" >>[2] = "tail"
  BY SMT
<1> QED BY <1>2, <1>3, Zenon DEF Frame

(* Where only texts are under way, what the peer sends next decides the     *)
(* case.                                                                    *)
LEMMA PairEnded ==
  ASSUME NEW f \in Seq(Cells), NEW k \in Nat, Texts(f, k), Ended(f, k)
  PROVE  /\ Texts(f \o Frame("text"), k + 1) /\ Ended(f \o Frame("text"), k + 1)
         /\ Closed(f \o Frame("close"), k)
         /\ Spoiled(f \o << "reset" >>, k)
         /\ \A a \in {"other", "masked", "rsv"} : Spoiled(f \o Frame(a), k)
<1> DEFINE n == Len(f)
<1>1. n \in Nat /\ n = 2 * k  BY SMT DEF Ended
<1>2. ASSUME NEW a \in Kinds
      PROVE  /\ Len(f \o Frame(a)) = 2 * k + 2
             /\ \A j \in 1..n : (f \o Frame(a))[j] = f[j]
             /\ (f \o Frame(a))[2 * k + 1] = a /\ (f \o Frame(a))[2 * k + 2] = "tail"
  <2> DEFINE g == Frame(a)
  <2>1. g \in Seq(Cells) /\ Len(g) = 2 /\ g[1] = a /\ g[2] = "tail"  BY FrameFacts, Zenon
  <2> HIDE DEF g
  <2>3. /\ Len(f \o g) = n + Len(g) /\ \A j \in 1..n : (f \o g)[j] = f[j]
        /\ \A j \in 1..Len(g) : (f \o g)[n + j] = g[j]
    BY <2>1, Joined, Zenon
  <2>5. 1 \in 1..2 /\ 2 \in 1..2  BY SMT
  <2>2. /\ Len(f \o g) = n + 2 /\ \A j \in 1..n : (f \o g)[j] = f[j]
        /\ (f \o g)[n + 1] = g[1] /\ (f \o g)[n + 2] = g[2]
    BY <2>1, <2>3, <2>5, Zenon
  <2> QED BY <1>1, <2>1, <2>2, Zenon DEF g
<1>3. "text" \in Kinds /\ "close" \in Kinds /\ {"other", "masked", "rsv"} \subseteq Kinds
  BY Zenon DEF Kinds
<1>4. /\ 2 * (k + 1) = 2 * k + 2 /\ 2 * (k + 1) - 1 = 2 * k + 1 /\ 2 * k + 2 <= 2 * k + 2
      /\ 2 * k + 2 >= 2 * k + 2 /\ 2 * k + 1 >= 2 * k + 1
      /\ \A j \in 1..(k + 1) : j \in 1..k \/ j = k + 1
      /\ \A j \in 1..k : 2 * j - 1 \in 1..n /\ 2 * j \in 1..n
  BY <1>1, SMT
<1>5. Texts(f \o Frame("text"), k + 1)
  <2> DEFINE g == f \o Frame("text")
  <2>1. /\ Len(g) = 2 * k + 2 /\ \A j \in 1..n : g[j] = f[j]
        /\ g[2 * k + 1] = "text" /\ g[2 * k + 2] = "tail"
    BY <1>2, <1>3, Zenon
  <2> HIDE DEF g
  <2>2. \A j \in 1..k : f[2 * j - 1] = "text" /\ f[2 * j] = "tail"  BY Zenon DEF Texts
  <2>3. ASSUME NEW j \in 1..(k + 1) PROVE g[2 * j - 1] = "text" /\ g[2 * j] = "tail"
    <3>1. CASE j \in 1..k  BY <1>4, <2>1, <2>2, <3>1, Zenon
    <3>2. CASE j = k + 1  BY <1>4, <2>1, <3>2, Zenon
    <3> QED BY <1>4, <3>1, <3>2, Zenon
  <2> QED BY <1>4, <2>1, <2>3, Zenon DEF Texts, g
<1>6. Ended(f \o Frame("text"), k + 1)  BY <1>2, <1>3, <1>4, Zenon DEF Ended
<1>7. Closed(f \o Frame("close"), k)  BY <1>2, <1>3, <1>4, Zenon DEF Closed
<1>8. \A a \in {"other", "masked", "rsv"} : Spoiled(f \o Frame(a), k)
  BY <1>2, <1>3, <1>4, Zenon DEF Spoiled
<1>9. Spoiled(f \o << "reset" >>, k)
  <2>1. "reset" \in Cells  BY Zenon DEF Cells, Controls
  <2>2. Len(f \o << "reset" >>) = n + 1 /\ (f \o << "reset" >>)[n + 1] = "reset"
    BY <2>1, SMT
  <2> QED BY <1>1, <1>4, <2>2, Zenon DEF Spoiled
<1> QED BY <1>5, <1>6, <1>7, <1>8, <1>9, Zenon

(* The HEADERS of a stream and what follows them. More bytes at the end     *)
(* follow them too; ...                                                     *)
LEMMA HeadedMore ==
  ASSUME NEW f \in Seq(Cells), NEW d \in Nat, NEW e \in Seq(Cells), Headed(f, d, e),
         NEW x \in Seq(Cells)
  PROVE  Headed(f \o x, d, e \o x)
<1>1. /\ d \in 1..Len(f) /\ f[d] = "headers" /\ \A i \in 1..(d - 1) : f[i] # "headers"
      /\ Len(f) = d + Len(e) /\ \A j \in 1..Len(e) : e[j] = f[d + j]
  BY Zenon DEF Headed, Headless
<1>2. /\ Len(f) \in Nat /\ Len(x) \in Nat /\ Len(f \o x) = Len(f) + Len(x)
      /\ \A j \in 1..Len(f) : (f \o x)[j] = f[j]
      /\ \A j \in 1..Len(x) : (f \o x)[Len(f) + j] = x[j]
  BY Joined, Zenon
<1>3. /\ Len(e) \in Nat /\ Len(e \o x) = Len(e) + Len(x)
      /\ \A j \in 1..Len(e) : (e \o x)[j] = e[j]
      /\ \A j \in 1..Len(x) : (e \o x)[Len(e) + j] = x[j]
  BY Joined, Zenon
<1> DEFINE g == f \o x
           y == e \o x
           l == Len(e)
           n == Len(x)
<1>4. /\ d \in 1..(Len(f) + n) /\ \A i \in 1..(d - 1) : i \in 1..Len(f)
      /\ Len(f) + n = d + (l + n)
      /\ \A j \in 1..l : d + j \in 1..Len(f)
      /\ \A j \in 1..(l + n) : j \in 1..l \/ (j - l \in 1..n /\ j = l + (j - l)
                                             /\ d + j = Len(f) + (j - l))
  <2>3. Len(f) \in Nat /\ l \in Nat /\ n \in Nat /\ d \in 1..Len(f) /\ Len(f) = d + l
    BY <1>1, <1>2, <1>3, Zenon
  <2> HIDE DEF l, n
  <2>1. /\ d \in 1..(Len(f) + n) /\ Len(f) + n = d + (l + n)
        /\ \A i \in 1..(d - 1) : i \in 1..Len(f)
    BY <2>3, SMT
  <2>2. \A j \in 1..l : d + j \in 1..Len(f)  BY <2>3, SMT
  <2>4. \A j \in 1..(l + n) : j \in 1..l \/ (j - l \in 1..n /\ j = l + (j - l)
                                              /\ d + j = Len(f) + (j - l))
    BY <2>3, SMT
  <2> QED BY <2>1, <2>2, <2>4, Zenon
<1> HIDE DEF g, y, l, n
<1>5. \A j \in 1..(l + n) : y[j] = g[d + j]
  <2> TAKE j \in 1..(l + n)
  <2>1. CASE j \in 1..l
    <3>1. y[j] = e[j] /\ g[d + j] = f[d + j]  BY <1>2, <1>3, <1>4, <2>1, Zenon DEF y, g, l
    <3> QED BY <1>1, <2>1, <3>1, Zenon DEF l
  <2>2. CASE j - l \in 1..n /\ j = l + (j - l) /\ d + j = Len(f) + (j - l)
    <3>1. y[l + (j - l)] = x[j - l]  BY <1>3, <2>2, Zenon DEF y, l, n
    <3>2. g[Len(f) + (j - l)] = x[j - l]  BY <1>2, <2>2, Zenon DEF g, n
    <3> QED BY <2>2, <3>1, <3>2, Zenon
  <2> QED BY <1>4, <2>1, <2>2, Zenon
<1>6. Len(g) = Len(f) + n /\ Len(y) = l + n  BY <1>2, <1>3, Zenon DEF g, y, l, n
<1>7. /\ d \in 1..Len(g) /\ Len(g) = d + Len(y) /\ \A j \in 1..Len(y) : y[j] = g[d + j]
  BY <1>4, <1>5, <1>6, Zenon
<1>8. g[d] = "headers" /\ \A i \in 1..(d - 1) : g[i] # "headers"
  BY <1>1, <1>2, <1>4, Zenon DEF g
<1> QED BY <1>7, <1>8, Zenon DEF Headed, Headless, g, y

(* ... where there are none, bytes that are not HEADERS bring none, ... *)
LEMMA HeadlessMore ==
  ASSUME NEW f \in Seq(Cells), NEW x \in Seq(Cells), Headless(f, Len(f)), Headless(x, Len(x))
  PROVE  Headless(f \o x, Len(f \o x))
<1>1. /\ Len(f) \in Nat /\ Len(x) \in Nat /\ Len(f \o x) = Len(f) + Len(x)
      /\ \A j \in 1..Len(f) : (f \o x)[j] = f[j]
      /\ \A j \in 1..Len(x) : (f \o x)[Len(f) + j] = x[j]
  BY Joined, Zenon
<1>2. ASSUME NEW i \in 1..(Len(f) + Len(x)) PROVE (f \o x)[i] # "headers"
  <2>1. i \in 1..Len(f) \/ (i - Len(f) \in 1..Len(x) /\ i = Len(f) + (i - Len(f)))
    BY <1>1, SMT
  <2>2. CASE i \in 1..Len(f)  BY <1>1, <2>2, Zenon DEF Headless
  <2>3. CASE i - Len(f) \in 1..Len(x) /\ i = Len(f) + (i - Len(f))
    <3>1. (f \o x)[Len(f) + (i - Len(f))] = x[i - Len(f)]  BY <1>1, <2>3, Zenon
    <3>2. x[i - Len(f)] # "headers"  BY <2>3, Zenon DEF Headless
    <3> QED BY <2>3, <3>1, <3>2, Zenon
  <2> QED BY <2>1, <2>2, <2>3, Zenon
<1> QED BY <1>1, <1>2, Zenon DEF Headless

(* ... HEADERS that come behind everything are followed by nothing, ... *)
LEMMA HeadedNow ==
  ASSUME NEW f \in Seq(Cells), Headless(f, Len(f))
  PROVE  /\ Len(f) + 1 \in Nat /\ << >> \in Seq(Cells) /\ f \o << "headers" >> \in Seq(Cells)
         /\ Headed(f \o << "headers" >>, Len(f) + 1, << >>)
<1> DEFINE g == f \o << "headers" >>
           n == Len(f)
<1>1. "headers" \in Cells  BY Zenon DEF Cells, Controls
<1>2. /\ n \in Nat /\ n + 1 \in Nat /\ g \in Seq(Cells) /\ Len(g) = n + 1
      /\ g[n + 1] = "headers" /\ \A i \in 1..n : g[i] = f[i]
  BY <1>1, SMT
<1> HIDE DEF g, n
<1>3. /\ n + 1 \in 1..(n + 1) /\ (n + 1) - 1 = n /\ Len(<< >>) = 0 /\ 1..0 = {}
      /\ n + 1 = (n + 1) + 0 /\ << >> \in Seq(Cells)
  BY <1>2, SMT
<1>4. Headless(g, n)  BY <1>2, Zenon DEF Headless, n
<1>5. Headed(g, n + 1, << >>)  BY <1>2, <1>3, <1>4, Zenon DEF Headed
<1> QED BY <1>2, <1>3, <1>5, Zenon DEF g, n

(* ... and bytes in front of them may be dropped.                           *)
LEMMA HeadedCut ==
  ASSUME NEW f \in Seq(Cells), NEW d \in Nat, NEW e \in Seq(Cells), Headed(f, d, e),
         NEW m \in Nat, m < d
  PROVE  d - m \in Nat /\ Headed(SubSeq(f, m + 1, Len(f)), d - m, e)
<1> DEFINE g == SubSeq(f, m + 1, Len(f))
<1>1. /\ d \in 1..Len(f) /\ f[d] = "headers" /\ \A i \in 1..(d - 1) : f[i] # "headers"
      /\ Len(f) = d + Len(e) /\ \A j \in 1..Len(e) : e[j] = f[d + j]
  BY Zenon DEF Headed, Headless
<1>2. Len(f) \in Nat /\ Len(e) \in Nat  BY SMT
<1>3. m <= Len(f)  BY <1>1, <1>2, SMT
<1>4. Len(g) = Len(f) - m /\ \A j \in 1..(Len(f) - m) : g[j] = f[j + m]  BY <1>3, Rests, Zenon
<1>5. /\ d - m \in Nat /\ d - m \in 1..(Len(f) - m) /\ (d - m) + m = d
      /\ \A i \in 1..((d - m) - 1) : i \in 1..(Len(f) - m) /\ i + m \in 1..(d - 1)
      /\ Len(f) - m = (d - m) + Len(e)
      /\ \A j \in 1..Len(e) : (d - m) + j \in 1..(Len(f) - m) /\ ((d - m) + j) + m = d + j
  BY <1>1, <1>2, SMT
<1> HIDE DEF g
<1>6. g[d - m] = "headers"
  <2>1. g[d - m] = f[(d - m) + m]  BY <1>4, <1>5, Zenon
  <2> QED BY <1>1, <1>5, <2>1, Zenon
<1>7. Headless(g, (d - m) - 1)  BY <1>1, <1>4, <1>5, Zenon DEF Headless
<1>8. \A j \in 1..Len(e) : e[j] = g[(d - m) + j]
  <2> TAKE j \in 1..Len(e)
  <2>1. g[(d - m) + j] = f[((d - m) + j) + m]  BY <1>4, <1>5, Zenon
  <2> QED BY <1>1, <1>5, <2>1, Zenon
<1>9. Headed(g, d - m, e)  BY <1>4, <1>5, <1>6, <1>7, <1>8, Zenon DEF Headed
<1> QED BY <1>5, <1>9, Zenon DEF g

LEMMA HeadlessCut ==
  ASSUME NEW f \in Seq(Cells), Headless(f, Len(f)), NEW m \in Nat, m <= Len(f)
  PROVE  Headless(SubSeq(f, m + 1, Len(f)), Len(SubSeq(f, m + 1, Len(f))))
<1> DEFINE g == SubSeq(f, m + 1, Len(f))
<1>1. Len(g) = Len(f) - m /\ \A j \in 1..(Len(f) - m) : g[j] = f[j + m]  BY Rests, Zenon
<1>2. Len(f) \in Nat  BY SMT
<1>3. \A i \in 1..(Len(f) - m) : i + m \in 1..Len(f)  BY <1>2, SMT
<1> HIDE DEF g
<1>4. Headless(g, Len(g))  BY <1>1, <1>3, Zenon DEF Headless
<1> QED BY <1>4, Zenon DEF g

(* When the HEADERS come first, what is left without them is what follows   *)
(* them.                                                                    *)
LEMMA HeadedFirst ==
  ASSUME NEW f \in Seq(Cells), NEW d \in Nat, NEW e \in Seq(Cells), Headed(f, d, e),
         f[1] = "headers"
  PROVE  SubSeq(f, 1 + 1, Len(f)) = e
<1> DEFINE g == SubSeq(f, 1 + 1, Len(f))
<1>1. /\ d \in 1..Len(f) /\ \A i \in 1..(d - 1) : f[i] # "headers"
      /\ Len(f) = d + Len(e) /\ \A j \in 1..Len(e) : e[j] = f[d + j]
  BY Zenon DEF Headed, Headless
<1>2. Len(f) \in Nat /\ Len(e) \in Nat  BY SMT
<1>3. d = 1
  <2>1. d # 1 => 1 \in 1..(d - 1)  BY <1>1, <1>2, SMT
  <2> QED BY <1>1, <2>1, Zenon
<1>4. 1 \in Nat /\ 1 <= Len(f)  BY <1>1, <1>2, <1>3, SMT
<1>5. /\ g \in Seq(Cells) /\ Len(g) = Len(f) - 1 /\ \A j \in 1..(Len(f) - 1) : g[j] = f[j + 1]
  BY <1>4, Rests, Zenon
<1>6. Len(f) - 1 = Len(e) /\ \A j \in 1..Len(e) : j + 1 = 1 + j  BY <1>1, <1>2, <1>3, SMT
<1> HIDE DEF g
<1>7. Len(g) = Len(e) /\ \A j \in 1..Len(e) : g[j] = e[j]
  BY <1>1, <1>3, <1>5, <1>6, Zenon
<1>8. g = e  BY <1>5, <1>7, SMT
<1> QED BY <1>8, Zenon DEF g

(* Where main must be for a goroutine of a stream to take its next step. *)
LEMMA Places ==
  ASSUME WorkInv, NEW s \in Streams
  PROVE  /\ pc[s] \in {"enter", "load", "swap", "loop", "write", "read", "send"} =>
              main = "collecting" /\ s \notin results
         /\ pc[s] \in {"closeWrite", "closeRead"} => main = "closing"
         /\ main \in {"collecting", "closing"} => s <= opened
         /\ pc[s] \in {"write", "read"} => index[s] < MessageCount /\ ops[s] < MaxGroups
<1>1. /\ main \in Opening => pc[s] = "absent"
      /\ main = "phase" => pc[s] \in Rest
      /\ main = "collecting" => pc[s] \in Working
      /\ main = "closing" => pc[s] \in Closing
      /\ main = "returned" => pc[s] \in Rest \cup {"closed"}
      /\ s \in results /\ main = "collecting" => pc[s] \in {"sent", "left"}
      /\ main \in {"collecting", "closing"} => opened = StreamCount
      /\ pc[s] \in {"write", "read"} => index[s] < MessageCount /\ ops[s] < MaxGroups
  BY Zenon DEF WorkInv, Stages
<1>2. main \in Opening \cup {"phase", "collecting", "closing", "returned"}
  BY Zenon DEF WorkInv, MainTypes, Opening
<1>3. pc[s] \in {"enter", "load", "swap", "loop", "write", "read", "send"} => main = "collecting"
  BY <1>1, <1>2, Zenon DEF Working, Closing, Rest
<1>4. pc[s] \in {"closeWrite", "closeRead"} => main = "closing"
  BY <1>1, <1>2, Zenon DEF Working, Closing, Rest
<1>5. s <= StreamCount  BY SessionAssumption, SMT DEF Streams
<1> QED BY <1>1, <1>3, <1>4, <1>5, Zenon

-----------------------------------------------------------------------------
(* What the steps that leave a part alone do to it. *)
LEMMA LinkKept ==
  ASSUME LinkInv, UNCHANGED << peerVars, linkVars, readVars, pending >>
  PROVE  LinkInv'
<1>1. UNCHANGED << peer, faults, validationOnly, wire, credit, broken, surplus, reader, held,
                   queue, pending >>
  BY Zenon DEF peerVars, linkVars, readVars
<1> QED BY <1>1, Zenon DEF LinkInv, LinkTypes, Channels

(* The outcomes of openWebSocket's wait for the response headers. *)
LEMMA HeadersTaken ==
  ASSUME ResponseHeaders
  PROVE  LET event == Head(queue[Next1])
         IN \/ event = << "headers" >> /\ HeadersCome
            \/ event \in {<< "refused" >>, << "reset" >>} /\ HeadersRefused
            \/ event # << "headers" >> /\ HeadersLater
<1> DEFINE event == Head(queue[Next1])
<1>1. CASE event = << "headers" >>
  <2>1. event \notin {<< "refused" >>, << "reset" >>}
    <3>1. << "headers" >>[1] = "headers" /\ << "refused" >>[1] = "refused"
          /\ << "reset" >>[1] = "reset"
      BY SMT
    <3> QED BY <1>1, <3>1, Zenon
  <2> QED BY <1>1, <2>1, Zenon DEF ResponseHeaders, HeadersCome
<1>2. CASE event # << "headers" >> /\ event \in {<< "refused" >>, << "reset" >>}
  BY <1>2, Zenon DEF ResponseHeaders, HeadersRefused
<1>3. CASE event # << "headers" >> /\ event \notin {<< "refused" >>, << "reset" >>}
  BY <1>3, Zenon DEF ResponseHeaders, HeadersLater
<1> QED BY <1>1, <1>2, <1>3, Zenon

(* The outcomes of a frame that a goroutine has read whole. *)
LEMMA FrameTaken ==
  ASSUME NEW s \in Streams, TakeFrame(s)
  PROVE  \/ pc[s] = "read" /\ Head(pending[s]) = "text" /\ TextTaken(s)
         \/ pc[s] = "closeRead" /\ Head(pending[s]) = "close" /\ CloseTaken(s)
         \/ Fail(s, "failed")
<1>1. CASE pc[s] = "read" /\ Head(pending[s]) = "text"
  BY <1>1, Zenon DEF TakeFrame, TextTaken
<1>2. CASE pc[s] = "closeRead" /\ Head(pending[s]) = "close"
  BY <1>2, Zenon DEF TakeFrame, CloseTaken
<1>3. CASE /\ ~(pc[s] = "read" /\ Head(pending[s]) = "text")
           /\ ~(pc[s] = "closeRead" /\ Head(pending[s]) = "close")
  BY <1>3, Zenon DEF TakeFrame
<1> QED BY <1>1, <1>2, <1>3, Zenon

-----------------------------------------------------------------------------
(* The connection, the reader and the channels. *)
LEMMA MoreFaults ==
  ASSUME LinkInv, MayFail
  PROVE  faults + 1 \in 0..MaxFaults
<1>1. faults \in 0..MaxFaults /\ faults < MaxFaults  BY Zenon DEF LinkInv, LinkTypes, MayFail
<1> QED BY <1>1, SessionAssumption, SMT

(* The peer answers: the connection's part of the invariant is kept. *)
LEMMA AnswerLink ==
  ASSUME LinkInv, NEW s \in Streams, NEW right \in Seq(Cells), NEW wrong \in SUBSET Seq(Cells),
         Answer(s, right, wrong),
         UNCHANGED << peer, validationOnly, credit, broken, readVars, pending >>
  PROVE  LinkInv'
<1>1. UNCHANGED << peer, validationOnly, credit, broken, reader, held, queue, pending >>
  BY Zenon DEF readVars
<1>2. PICK x \in Seq(Cells) : wire' = [wire EXCEPT ![s] = wire[s] \o x]
  BY Zenon DEF Answer, LinkInv, LinkTypes
<1>3. faults' \in 0..MaxFaults
  BY MoreFaults, Zenon DEF Answer, LinkInv, LinkTypes
<1>4. wire' \in [Streams -> Seq(Cells)]
  <2>1. wire \in [Streams -> Seq(Cells)]  BY Zenon DEF LinkInv, LinkTypes
  <2>2. wire[s] \o x \in Seq(Cells)
    <3>1. wire[s] \in Seq(Cells)  BY <2>1, Zenon
    <3> QED BY <3>1, SMT
  <2> QED BY <1>2, <2>1, <2>2, Zenon
<1>5. surplus' \in [Streams -> Int]
  <2>1. surplus \in [Streams -> Int]  BY Zenon DEF LinkInv, Channels
  <2>2. surplus[s] \in Int /\ surplus[s] - 1 \in Int  BY <2>1, SMT
  <2> QED BY <2>1, <2>2, Zenon DEF Answer
<1>6. LinkTypes'  BY <1>1, <1>3, <1>4, Zenon DEF LinkInv, LinkTypes
<1>7. Channels'  BY <1>1, <1>5, Zenon DEF LinkInv, Channels
<1> QED BY <1>6, <1>7, Zenon DEF LinkInv

(* The frames and events of the model are made of cells. *)
LEMMA FrameCells ==
  /\ Frame("text") \in Seq(Cells) /\ Frame("close") \in Seq(Cells)
  /\ << "headers" >> \in Seq(Cells) /\ << "refused" >> \in Seq(Cells)
  /\ << "reset" >> \in Seq(Cells) /\ << >> \in Seq(Cells)
  /\ WrongFrames \in SUBSET Seq(Cells)
<1>1. \A a \in Kinds : Frame(a) \in Seq(Cells)  BY FrameFacts, Zenon
<1>2. \A c \in Controls : c \in Cells  BY Zenon DEF Cells
<1>3. \A c \in Cells : << c >> \in Seq(Cells)  BY SMT
<1>4. << >> \in Seq(Cells)  BY SMT
<1>5. /\ {"text", "close", "other", "masked", "rsv"} \subseteq Kinds
      /\ {"headers", "refused", "reset"} \subseteq Controls
  BY Zenon DEF Kinds, Controls
<1>6. \A k \in {"other", "masked", "rsv"} : Frame(k) \in Seq(Cells)  BY <1>1, <1>5, Zenon
<1>7. << "headers" >> \in Seq(Cells) /\ << "refused" >> \in Seq(Cells)
      /\ << "reset" >> \in Seq(Cells)
  BY <1>2, <1>3, <1>5, Zenon
<1>8. WrongFrames \in SUBSET Seq(Cells)  BY <1>4, <1>6, <1>7, Zenon DEF WrongFrames
<1>9. Frame("text") \in Seq(Cells) /\ Frame("close") \in Seq(Cells)  BY <1>1, <1>5, Zenon
<1> QED BY <1>4, <1>7, <1>8, <1>9, Zenon

(* The stream that is opened next is one of the streams. *)
LEMMA OpenNumbers ==
  ASSUME WorkInv, main \in Opening
  PROVE  Next1 \in Streams /\ opened \in Nat /\ StreamCount \in Nat
<1>1. opened \in 0..StreamCount /\ opened < StreamCount
  BY Zenon DEF WorkInv, MainTypes, Stages
<1> QED BY <1>1, SessionAssumption, SMT DEF Streams, Next1

(* openWebSocket writes its request: the connection's part is kept. *)
LEMMA OpenWebSocketLink ==
  ASSUME LinkInv, WorkInv, OpenWebSocket
  PROVE  LinkInv'
<1> DEFINE wrong == {<< >>, << "refused" >>, << "reset" >>, Frame("text")}
<1>1. /\ UNCHANGED << peer, validationOnly, credit, broken, readVars, pending >>
      /\ Answer(Next1, << "headers" >>, wrong) /\ main \in Opening
  BY Zenon DEF OpenWebSocket, workVars, Opening
<1>2. Next1 \in Streams  BY <1>1, OpenNumbers, Zenon
<1>3. << "headers" >> \in Seq(Cells) /\ wrong \in SUBSET Seq(Cells)  BY FrameCells, Zenon
<1> HIDE DEF wrong
<1> QED BY <1>1, <1>2, <1>3, AnswerLink, Zenon

(* A goroutine writes a frame and the peer answers it: the connection's     *)
(* part is kept.                                                            *)
LEMMA WriteFrameLink ==
  ASSUME LinkInv, NEW s \in Streams, WriteFrame(s)
  PROVE  LinkInv'
<1>1. /\ UNCHANGED << peer, validationOnly, credit, broken, readVars, pending >>
      /\ Answer(s, Frame("text"), WrongFrames) \/ Answer(s, Frame("close"), WrongFrames)
  BY Zenon DEF WriteFrame
<1> QED BY <1>1, FrameCells, AnswerLink, Zenon

(* The peer sends a frame nobody asked for: the connection's part is kept. *)
LEMMA UnsolicitedLink ==
  ASSUME LinkInv, NEW s \in Streams, NEW kind \in {"text", "close"}, Unsolicited(s, kind)
  PROVE  LinkInv'
<1>1. /\ UNCHANGED << peer, validationOnly, credit, broken, reader, held, queue, pending >>
      /\ faults' = faults + 1 /\ MayFail
      /\ wire' = [wire EXCEPT ![s] = wire[s] \o Frame(kind)]
      /\ surplus' = [surplus EXCEPT ![s] = IF kind = "text" /\ s \in answered \ peerClosed
                                             THEN surplus[s] + 1 ELSE surplus[s]]
  BY Zenon DEF Unsolicited, readVars, workVars
<1>2. wire \in [Streams -> Seq(Cells)] /\ surplus \in [Streams -> Int]
  BY Zenon DEF LinkInv, LinkTypes, Channels
<1>3. Frame(kind) \in Seq(Cells)  BY FrameCells, Zenon
<1>4. wire' \in [Streams -> Seq(Cells)]
  <2>1. wire[s] \in Seq(Cells)  BY <1>2, Zenon
  <2>2. wire[s] \o Frame(kind) \in Seq(Cells)  BY <1>3, <2>1, SMT
  <2> QED BY <1>1, <1>2, <2>2, Zenon
<1>5. surplus' \in [Streams -> Int]
  <2>1. surplus[s] \in Int /\ surplus[s] + 1 \in Int  BY <1>2, SMT
  <2> QED BY <1>1, <1>2, <2>1, Zenon
<1>6. LinkTypes'  BY <1>1, <1>4, MoreFaults, Zenon DEF LinkInv, LinkTypes
<1>7. Channels'  BY <1>1, <1>5, Zenon DEF LinkInv, Channels
<1> QED BY <1>6, <1>7, Zenon DEF LinkInv

(* The peer sends its HEADERS late: the connection's part is kept. *)
LEMMA LateHeadersLink ==
  ASSUME LinkInv, NEW s \in Streams, LateHeaders(s)
  PROVE  LinkInv'
<1>1. /\ UNCHANGED << peer, validationOnly, credit, broken, surplus, reader, held, queue, pending >>
      /\ faults' = faults + 1 /\ MayFail
      /\ wire' = [wire EXCEPT ![s] = Append(wire[s], "headers")]
  BY Zenon DEF LateHeaders, readVars, workVars
<1>2. wire \in [Streams -> Seq(Cells)]  BY Zenon DEF LinkInv, LinkTypes
<1>3. wire' \in [Streams -> Seq(Cells)]
  <2>1. wire[s] \in Seq(Cells) /\ "headers" \in Cells  BY <1>2, Zenon DEF Cells, Controls
  <2>2. Append(wire[s], "headers") \in Seq(Cells)  BY <2>1, SMT
  <2> QED BY <1>1, <1>2, <2>2, Zenon
<1>4. LinkTypes'  BY <1>1, <1>3, MoreFaults, Zenon DEF LinkInv, LinkTypes
<1>5. Channels'  BY <1>1, Zenon DEF LinkInv, Channels
<1> QED BY <1>4, <1>5, Zenon DEF LinkInv

(* The session is opened, breaks, or its reader stops: the connection's     *)
(* part is kept.                                                            *)
LEMMA ReaderLink ==
  ASSUME LinkInv, Dialing, openH2Session \/ Break \/ ReaderStops
  PROVE  LinkInv'
<1>1. UNCHANGED << peer, validationOnly, wire, credit, surplus, held, queue, pending >>
  BY Zenon DEF openH2Session, Break, ReaderStops, linkVars, readVars, workVars
<1>2. faults' = faults \/ (MayFail /\ faults' = faults + 1)
  BY Zenon DEF openH2Session, Break, ReaderStops
<1>3. broken' \in BOOLEAN
  BY Zenon DEF openH2Session, Break, ReaderStops, linkVars, LinkInv, LinkTypes
<1>4. reader' = reader \/ (reader # "dispatching" /\ reader' \in {"reading", "done"})
  BY Zenon DEF openH2Session, Break, ReaderStops, readVars, Dialing
<1>5. faults' \in 0..MaxFaults  BY <1>2, MoreFaults, Zenon DEF LinkInv, LinkTypes
<1>6. LinkTypes'  BY <1>1, <1>3, <1>4, <1>5, Zenon DEF LinkInv, LinkTypes
<1>7. Channels'  BY <1>1, <1>4, Zenon DEF LinkInv, Channels
<1> QED BY <1>6, <1>7, Zenon DEF LinkInv

(* The reader takes data off the wire: the connection's part is kept. *)
LEMMA ReadDataLink ==
  ASSUME LinkInv, NEW s \in Streams, NEW n \in 1..3, ReadData(s, n)
  PROVE  LinkInv'
<1>1. /\ UNCHANGED << peer, faults, validationOnly, broken, surplus, queue, pending >>
      /\ reader' = "dispatching" /\ DataPrefix(wire[s], n)
      /\ wire' = [wire EXCEPT ![s] = SubSeq(wire[s], n + 1, Len(wire[s]))]
      /\ held' = [stream |-> s, event |-> SubSeq(wire[s], 1, n)]
      /\ n <= credit[s] /\ n <= credit[0]
  BY Zenon DEF ReadData, peerVars, workVars
<1>2. /\ wire \in [Streams -> Seq(Cells)] /\ credit \in [0..StreamCount -> 0..Window]
  BY Zenon DEF LinkInv, LinkTypes
<1>3. credit' \in [0..StreamCount -> 0..Window]
  <2> DEFINE sent == [credit EXCEPT ![s] = credit[s] - n, ![0] = credit[0] - n]
  <2>1. credit' = [sent EXCEPT ![s] = sent[s] + n, ![0] = sent[0] + n]
    BY Zenon DEF ReadData
  <2>2. s \in 0..StreamCount /\ 0 \in 0..StreamCount /\ s # 0
    BY SessionAssumption, SMT DEF Streams
  <2>3. /\ sent[s] = credit[s] - n /\ sent[0] = credit[0] - n
        /\ \A i \in 0..StreamCount : i # s /\ i # 0 => sent[i] = credit[i]
        /\ DOMAIN sent = 0..StreamCount
    BY <1>2, <2>2, Zenon
  <2> HIDE DEF sent
  <2>4. \A a, b \in Nat : (a - b) + b = a  BY SMT
  <2>5. credit[s] \in 0..Window /\ credit[0] \in 0..Window  BY <1>2, <2>2, Zenon
  <2>6. credit[s] \in Nat /\ credit[0] \in Nat /\ n \in Nat
    BY <2>5, SessionAssumption, SMT
  <2>7. sent[s] + n = credit[s] /\ sent[0] + n = credit[0]  BY <2>3, <2>4, <2>6, Zenon
  <2>8. \A i \in 0..StreamCount : credit'[i] = credit[i]
    BY <2>1, <2>2, <2>3, <2>7, Zenon
  <2>9. credit' = [i \in 0..StreamCount |-> credit'[i]]  BY <2>1, <2>3, Zenon
  <2> QED BY <1>2, <2>8, <2>9, Zenon
<1>4. wire[s] \in Seq(Cells) /\ n \in Nat /\ n >= 1  BY <1>2, SMT
<1>5. n <= Len(wire[s]) /\ \A i \in 1..n : wire[s][i] \in Units  BY <1>1, Zenon DEF DataPrefix
<1>6. SubSeq(wire[s], n + 1, Len(wire[s])) \in Seq(Cells)  BY <1>4, SMT
<1>7. wire' \in [Streams -> Seq(Cells)]  BY <1>1, <1>2, <1>6, Zenon
<1>8. SubSeq(wire[s], 1, n) \in Seq(Units) /\ SubSeq(wire[s], 1, n) # << >>
  BY <1>4, <1>5, SMT
<1>9. Event(SubSeq(wire[s], 1, n))  BY <1>8, Zenon DEF Event
<1>10. SubSeq(wire[s], 1, n) \in Seq(Cells)  BY <1>4, <1>5, SMT
<1>11. /\ held' \in Events /\ held'.stream = s /\ held'.event = SubSeq(wire[s], 1, n)
  <2>1. s \in 0..StreamCount  BY SessionAssumption, SMT DEF Streams
  <2> QED BY <1>1, <1>10, <2>1, SMT DEF Events, Cells
<1>12. LinkTypes'  BY <1>1, <1>3, <1>7, <1>11, Zenon DEF LinkInv, LinkTypes
<1>13. Channels'  BY <1>1, <1>9, <1>11, Zenon DEF LinkInv, Channels
<1> QED BY <1>12, <1>13, Zenon DEF LinkInv

(* The reader takes HEADERS or RST_STREAM off the wire: the connection's    *)
(* part is kept.                                                            *)
LEMMA ReadControlLink ==
  ASSUME LinkInv, NEW s \in Streams, ReadControl(s)
  PROVE  LinkInv'
<1>1. /\ UNCHANGED << peer, faults, validationOnly, credit, broken, surplus, queue, pending >>
      /\ reader' = "dispatching" /\ wire[s] # << >> /\ Head(wire[s]) \in Controls
      /\ wire' = [wire EXCEPT ![s] = Tail(wire[s])]
      /\ held' = [stream |-> s, event |-> << Head(wire[s]) >>]
  BY Zenon DEF ReadControl, peerVars, workVars
<1>2. wire \in [Streams -> Seq(Cells)]  BY Zenon DEF LinkInv, LinkTypes
<1>3. wire[s] \in Seq(Cells)  BY <1>2, Zenon
<1>4. Tail(wire[s]) \in Seq(Cells)  BY <1>1, <1>3, SMT
<1>5. wire' \in [Streams -> Seq(Cells)]  BY <1>1, <1>2, <1>4, Zenon
<1>6. << Head(wire[s]) >> \in Seq(Cells) /\ << Head(wire[s]) >> # << >>
  <2>1. Head(wire[s]) \in Cells  BY <1>1, Zenon DEF Cells
  <2> QED BY <2>1, SMT
<1>7. Event(<< Head(wire[s]) >>)  BY <1>1, <1>6, Zenon DEF Event
<1>8. /\ held' \in Events /\ held'.stream = s /\ held'.event = << Head(wire[s]) >>
  <2>1. s \in 0..StreamCount  BY SessionAssumption, SMT DEF Streams
  <2> QED BY <1>1, <1>6, <2>1, SMT DEF Events, Cells
<1>9. LinkTypes'  BY <1>1, <1>5, <1>8, Zenon DEF LinkInv, LinkTypes
<1>10. Channels'  BY <1>1, <1>7, <1>8, Zenon DEF LinkInv, Channels
<1> QED BY <1>9, <1>10, Zenon DEF LinkInv

(* While the reader dispatches, it holds an event of a stream. *)
LEMMA Held ==
  ASSUME LinkInv, reader = "dispatching"
  PROVE  held.stream \in Streams /\ Event(held.event) /\ held.event \in Seq(Cells)
<1>1. held \in Events /\ held.stream \in Streams /\ Event(held.event)
  BY Zenon DEF LinkInv, LinkTypes, Channels
<1>2. held.event \in Seq(Cells)  BY <1>1, SMT DEF Events, Cells
<1> QED BY <1>1, <1>2, Zenon

(* dispatch drops the event or puts it into the stream's channel. *)
Dropped == queue' = queue

Queued ==
  /\ Len(queue[held.stream]) < Capacity
  /\ queue' = [queue EXCEPT ![held.stream] = Append(queue[held.stream], held.event)]

LEMMA Dispatched ==
  ASSUME dispatch
  PROVE  (registered(held.stream) /\ Queued) \/ (~registered(held.stream) /\ Dropped)
BY Zenon DEF dispatch, Queued, Dropped

(* In both cases the connection's part is kept. *)
LEMMA DispatchLink ==
  ASSUME LinkInv, dispatch
  PROVE  LinkInv'
<1> DEFINE s == held.stream
           r == Append(queue[s], held.event)
<1>1. /\ UNCHANGED << peer, faults, validationOnly, wire, credit, broken, surplus, pending >>
      /\ reader = "dispatching" /\ reader' = "reading" /\ held' = NoEvent
  BY Zenon DEF dispatch, peerVars, linkVars, workVars
<1>2. s \in Streams /\ Event(held.event) /\ held.event \in Seq(Cells)  BY <1>1, Held, Zenon
<1>3. /\ queue \in [Streams -> Seq(Seq(Cells))]
      /\ \A t \in Streams : Len(queue[t]) <= Capacity
      /\ \A t \in Streams : \A i \in 1..Len(queue[t]) : Event(queue[t][i])
  BY Zenon DEF LinkInv, LinkTypes, Channels
<1>4. queue[s] \in Seq(Seq(Cells))  BY <1>2, <1>3, Zenon
<1>5. /\ r \in Seq(Seq(Cells)) /\ Len(r) = Len(queue[s]) + 1 /\ Len(queue[s]) \in Nat
      /\ r[Len(queue[s]) + 1] = held.event
      /\ \A i \in 1..Len(queue[s]) : r[i] = queue[s][i]
  BY <1>2, <1>4, SMT
<1>6. Len(queue[s]) < Capacity => Len(r) <= Capacity  BY <1>5, SessionAssumption, SMT
<1>7. \A i \in 1..Len(r) : Event(r[i])
  <2>1. \A i \in 1..Len(r) : i \in 1..Len(queue[s]) \/ i = Len(queue[s]) + 1
    BY <1>5, SMT
  <2> QED BY <1>2, <1>3, <1>5, <2>1, Zenon
<1>12. Queued \/ Dropped  BY Dispatched, Zenon
<1>8. /\ queue' \in [Streams -> Seq(Seq(Cells))]
      /\ \A t \in Streams : queue'[t] = queue[t] \/ (queue'[t] = r /\ Len(r) <= Capacity)
  <2>1. CASE Queued
    <3>1. queue' = [queue EXCEPT ![s] = r] /\ Len(queue[s]) < Capacity
      BY <2>1, Zenon DEF Queued
    <3>2. r \in Seq(Seq(Cells))  BY <1>5, Zenon
    <3> HIDE DEF r, s
    <3>3. queue' \in [Streams -> Seq(Seq(Cells))]  BY <1>2, <1>3, <3>1, <3>2, Zenon
    <3>4. \A t \in Streams : queue'[t] = queue[t] \/ queue'[t] = r
      BY <1>2, <1>3, <3>1, Zenon
    <3> QED BY <1>6, <3>1, <3>3, <3>4, Zenon
  <2>2. CASE Dropped  BY <1>3, <2>2, Zenon DEF Dropped
  <2> QED BY <1>12, <2>1, <2>2, Zenon
<1> HIDE DEF r, s
<1>9. held' \in Events
  <2>1. 0 \in 0..StreamCount /\ << >> \in Seq(Units \cup Controls)
    BY SessionAssumption, SMT
  <2> QED BY <1>1, <2>1, SMT DEF Events, NoEvent
<1>10. LinkTypes'  BY <1>1, <1>3, <1>8, <1>9, Zenon DEF LinkInv, LinkTypes
<1>11. Channels'  BY <1>1, <1>3, <1>7, <1>8, Zenon DEF LinkInv, Channels
<1> QED BY <1>10, <1>11, Zenon DEF LinkInv

(* An event leaves the channel of its stream. *)
LEMMA TakenQueue ==
  ASSUME LinkInv, NEW s \in Streams, queue[s] # << >>, queue' = [queue EXCEPT ![s] = Tail(@)]
  PROVE  /\ queue' \in [Streams -> Seq(Seq(Cells))] /\ queue'[s] = Tail(queue[s])
         /\ \A t \in Streams \ {s} : queue'[t] = queue[t]
         /\ \A t \in Streams : Len(queue'[t]) <= Capacity
         /\ \A t \in Streams : \A i \in 1..Len(queue'[t]) : Event(queue'[t][i])
         /\ queue[s] \in Seq(Seq(Cells)) /\ Event(Head(queue[s]))
         /\ Head(queue[s]) \in Seq(Cells) /\ Tail(queue[s]) \in Seq(Seq(Cells))
<1> DEFINE q == queue[s]
           r == Tail(q)
<1>1. /\ queue \in [Streams -> Seq(Seq(Cells))]
      /\ \A t \in Streams : Len(queue[t]) <= Capacity
      /\ \A t \in Streams : \A i \in 1..Len(queue[t]) : Event(queue[t][i])
  BY Zenon DEF LinkInv, LinkTypes, Channels
<1>2. q \in Seq(Seq(Cells)) /\ q # << >>  BY <1>1, Zenon
<1>3. queue' = [queue EXCEPT ![s] = r]  BY Zenon
<1> HIDE DEF q
<1>4. /\ r \in Seq(Seq(Cells)) /\ Head(q) = q[1] /\ Head(q) \in Seq(Cells)
      /\ Len(q) \in Nat /\ Len(r) = Len(q) - 1 /\ 1 \in 1..Len(q)
      /\ \A i \in 1..Len(r) : r[i] = q[i + 1]
  BY <1>2, SMT
<1>5. \A i \in 1..Len(r) : i + 1 \in 1..Len(q)  BY <1>4, SMT
<1>6. Len(r) <= Len(q)  BY <1>4, SMT
<1>7. Len(r) <= Capacity
  <2>1. Len(q) <= Capacity  BY <1>1, Zenon DEF q
  <2>2. \A a, b, c \in Nat : a = b - 1 /\ b <= c => a <= c  BY SMT
  <2>3. Len(r) \in Nat /\ Capacity \in Nat  BY <1>4, SessionAssumption, SMT
  <2> QED BY <1>4, <2>1, <2>2, <2>3, Zenon
<1>8. \A i \in 1..Len(q) : Event(q[i])  BY <1>1, Zenon DEF q
<1>9. Event(Head(q)) /\ \A i \in 1..Len(r) : Event(r[i])  BY <1>4, <1>5, <1>8, Zenon
<1> HIDE DEF r
<1>10. /\ queue' \in [Streams -> Seq(Seq(Cells))] /\ queue'[s] = r
       /\ \A t \in Streams \ {s} : queue'[t] = queue[t]
  BY <1>1, <1>3, <1>4, ZenonT(30)
<1>11. \A t \in Streams : Len(queue'[t]) <= Capacity  BY <1>1, <1>7, <1>10, Zenon
<1>12. \A t \in Streams : \A i \in 1..Len(queue'[t]) : Event(queue'[t][i])
  BY <1>1, <1>9, <1>10, Zenon
<1> QED BY <1>2, <1>4, <1>9, <1>10, <1>11, <1>12, Zenon DEF q, r

(* A goroutine takes an event or a frame: the connection's part is kept. *)
LEMMA TakeLink ==
  ASSUME LinkInv, UNCHANGED << peerVars, linkVars, reader, held >>,
         queue' \in [Streams -> Seq(Seq(Cells))],
         \A t \in Streams : Len(queue'[t]) <= Capacity,
         \A t \in Streams : \A i \in 1..Len(queue'[t]) : Event(queue'[t][i]),
         pending' \in [Streams -> Seq(Units)]
  PROVE  LinkInv'
<1>1. UNCHANGED << peer, faults, validationOnly, wire, credit, broken, surplus, reader, held >>
  BY Zenon DEF peerVars, linkVars
<1>2. LinkTypes'  BY <1>1, Zenon DEF LinkInv, LinkTypes
<1>3. Channels'  BY <1>1, Zenon DEF LinkInv, Channels
<1> QED BY <1>2, <1>3, Zenon DEF LinkInv

(* openWebSocket takes an event: the connection's part is kept. *)
LEMMA ResponseHeadersLink ==
  ASSUME LinkInv, WorkInv, ResponseHeaders
  PROVE  LinkInv'
<1>1. /\ UNCHANGED << peerVars, linkVars, reader, held >> /\ UNCHANGED pending
      /\ main \in Opening /\ queue[Next1] # << >>
      /\ queue' = [queue EXCEPT ![Next1] = Tail(@)]
  BY Zenon DEF ResponseHeaders, workVars, Opening
<1>2. Next1 \in Streams  BY <1>1, OpenNumbers, Zenon
<1>3. pending' \in [Streams -> Seq(Units)]  BY <1>1, Zenon DEF LinkInv, Channels
<1>4. /\ queue' \in [Streams -> Seq(Seq(Cells))]
      /\ \A t \in Streams : Len(queue'[t]) <= Capacity
      /\ \A t \in Streams : \A i \in 1..Len(queue'[t]) : Event(queue'[t][i])
  BY <1>1, <1>2, TakenQueue, Zenon
<1> QED BY <1>1, <1>3, <1>4, TakeLink, Zenon

(* An event is data, or a single HEADERS or RST_STREAM. *)
LEMMA EventUnits ==
  ASSUME NEW e \in Seq(Cells), Event(e)
  PROVE  /\ e[1] \notin Controls => e \in Seq(Units)
         /\ e[1] \in Controls => e = << e[1] >>
         /\ e # << >>
<1>1. Units \cap Controls = {}  BY Zenon DEF Units, Kinds, Controls
<1>2. CASE e \in Seq(Units)
  <2>1. e # << >>  BY Zenon DEF Event
  <2>2. e[1] \in Units  BY <1>2, <2>1, SMT
  <2> QED BY <1>1, <1>2, <2>1, <2>2, Zenon
<1>3. CASE \E c \in Controls : e = << c >>
  <2>1. PICK c \in Controls : e = << c >>  BY <1>3, Zenon
  <2>2. << c >>[1] = c  BY SMT
  <2>3. e # << >>  BY Zenon DEF Event
  <2> QED BY <2>1, <2>2, <2>3, Zenon
<1> QED BY <1>2, <1>3, Zenon DEF Event

(* A goroutine takes an event from its channel: the connection's part is    *)
(* kept.                                                                    *)
LEMMA TakeEventLink ==
  ASSUME LinkInv, NEW s \in Streams, TakeEvent(s)
  PROVE  LinkInv'
<1> DEFINE event == Head(queue[s])
<1>1. /\ UNCHANGED << peerVars, linkVars, reader, held >>
      /\ queue[s] # << >> /\ queue' = [queue EXCEPT ![s] = Tail(@)]
  BY Zenon DEF TakeEvent
<1>2. /\ queue' \in [Streams -> Seq(Seq(Cells))]
      /\ \A t \in Streams : Len(queue'[t]) <= Capacity
      /\ \A t \in Streams : \A i \in 1..Len(queue'[t]) : Event(queue'[t][i])
      /\ Event(event) /\ event \in Seq(Cells)
  BY <1>1, TakenQueue, Zenon
<1>3. pending \in [Streams -> Seq(Units)]  BY Zenon DEF LinkInv, Channels
<1>4. event[1] \notin Controls => pending[s] \o event \in Seq(Units)
  <2> HAVE event[1] \notin Controls
  <2>1. event \in Seq(Units) /\ pending[s] \in Seq(Units)  BY <1>2, <1>3, EventUnits, Zenon
  <2> HIDE DEF event
  <2> QED BY <2>1, SMT
<1>5. \/ pending' = pending
      \/ pending' = [pending EXCEPT ![s] = IF event[1] \in Controls THEN pending[s]
                                           ELSE pending[s] \o event]
  BY Zenon DEF TakeEvent
<1> HIDE DEF event
<1>6. pending' \in [Streams -> Seq(Units)]  BY <1>3, <1>4, <1>5, Zenon
<1> QED BY <1>1, <1>2, <1>6, TakeLink, Zenon

(* A goroutine takes a frame off its buffer: the connection's part is       *)
(* kept.                                                                    *)
LEMMA TakeFrameLink ==
  ASSUME LinkInv, NEW s \in Streams, TakeFrame(s)
  PROVE  LinkInv'
<1>1. /\ UNCHANGED << peerVars, linkVars, reader, held >> /\ UNCHANGED queue
      /\ pending' = [pending EXCEPT ![s] = SubSeq(pending[s], 3, Len(pending[s]))]
  BY Zenon DEF TakeFrame, readVars
<1>2. pending \in [Streams -> Seq(Units)]  BY Zenon DEF LinkInv, Channels
<1>3. SubSeq(pending[s], 3, Len(pending[s])) \in Seq(Units)
  <2>1. pending[s] \in Seq(Units)  BY <1>2, Zenon
  <2> QED BY <2>1, SMT
<1>4. pending' \in [Streams -> Seq(Units)]  BY <1>1, <1>2, <1>3, Zenon
<1>5. /\ queue' \in [Streams -> Seq(Seq(Cells))]
      /\ \A t \in Streams : Len(queue'[t]) <= Capacity
      /\ \A t \in Streams : \A i \in 1..Len(queue'[t]) : Event(queue'[t][i])
  BY <1>1, Zenon DEF LinkInv, LinkTypes, Channels
<1> QED BY <1>1, <1>4, <1>5, TakeLink, Zenon

-----------------------------------------------------------------------------
(* The streams. A step leaves stream t as it is. *)
Same(t) ==
  /\ wire'[t] = wire[t] /\ queue'[t] = queue[t] /\ pending'[t] = pending[t]
  /\ surplus'[t] = surplus[t] /\ (t \in peerClosed' <=> t \in peerClosed)
  /\ (t \in answered' <=> t \in answered)
  /\ held' = held \/ (held.stream # t /\ held'.stream # t)

(* The goroutine of a stream neither starts nor ends a read, nor its        *)
(* close.                                                                   *)
Steady(t) == pc'[t] = pc[t] \/ (pc[t] \notin {"read", "closed"} /\ pc'[t] \notin {"read", "closed"})

(* What has to be shown for a stream to pair up after a step. *)
LEMMA MatchedIntro ==
  ASSUME NEW t \in Streams, pc'[t] # "closed", NEW f \in Seq(Cells), NEW k \in Nat,
         Flows(pending'[t], queue'[t], carried(t)', wire'[t], f), Paired(t, f, k)'
  PROVE  Matched(t)'
BY Zenon DEF Matched

(* A stream that a step leaves alone still pairs up. *)
LEMMA MatchedKept ==
  ASSUME NEW t \in Streams, Same(t), Steady(t), Matched(t)
  PROVE  Matched(t)'
<1>1. carried(t)' = carried(t)  BY Zenon DEF Same, carried
<1>2. waiting(t)' = waiting(t) /\ (pc'[t] = "closed" <=> pc[t] = "closed")
  BY Zenon DEF Steady, waiting
<1>3. CASE pc[t] = "closed"  BY <1>2, <1>3, Zenon DEF Matched, Same
<1>4. CASE pc[t] # "closed"
  <2>1. PICK f \in Seq(Cells) : /\ Flows(pending[t], queue[t], carried(t), wire[t], f)
                                /\ \E k \in Nat : Paired(t, f, k)
    BY <1>4, Zenon DEF Matched
  <2>2. PICK k \in Nat : Paired(t, f, k)  BY <2>1, Zenon
  <2>3. Flows(pending'[t], queue'[t], carried(t)', wire'[t], f)
    BY <1>1, <2>1, Zenon DEF Same
  <2>4. Paired(t, f, k)'  BY <1>2, <2>2, Zenon DEF Paired, Same
  <2> QED BY <1>2, <1>4, <2>3, <2>4, MatchedIntro, Zenon
<1> QED BY <1>3, <1>4, Zenon

(* What has to be shown for a stream to await its HEADERS after a step. *)
LEMMA AwaitedIntro ==
  ASSUME NEW t \in Streams, NEW f \in Seq(Cells),
         Flows(pending'[t], queue'[t], carried(t)', wire'[t], f), Awaits(t, f)'
  PROVE  Awaited(t)'
BY Zenon DEF Awaited

(* A stream that a step leaves alone awaits what it did. *)
LEMMA AwaitsKept ==
  ASSUME NEW t \in Streams, NEW f \in Seq(Cells), Awaits(t, f),
         surplus'[t] = surplus[t], t \in peerClosed' <=> t \in peerClosed,
         t \in answered' <=> t \in answered, waiting(t)' = waiting(t)
  PROVE  Awaits(t, f)'
<1>1. \A e \in Seq(Cells), k \in Nat : Paired(t, e, k) => Paired(t, e, k)'  BY Zenon DEF Paired
<1> QED BY <1>1, Zenon DEF Awaits

LEMMA AwaitedKept ==
  ASSUME NEW t \in Streams, Same(t), Steady(t), Awaited(t)
  PROVE  Awaited(t)'
<1>1. PICK f \in Seq(Cells) :
        Flows(pending[t], queue[t], carried(t), wire[t], f) /\ Awaits(t, f)
  BY Zenon DEF Awaited
<1>2. waiting(t)' = waiting(t)  BY Zenon DEF Steady, waiting
<1>3. Awaits(t, f)'  BY <1>1, <1>2, AwaitsKept, Zenon DEF Same
<1>4. carried(t)' = carried(t)  BY Zenon DEF Same, carried
<1>5. Flows(pending'[t], queue'[t], carried(t)', wire'[t], f)  BY <1>1, <1>4, Zenon DEF Same
<1> QED BY <1>3, <1>5, AwaitedIntro, Zenon

(* A stream that a step leaves alone stays as it was. *)
LEMMA StreamKept ==
  ASSUME NEW t \in Streams, StreamAt(t), Same(t), Steady(t), opened' = opened,
         failure'[t] = "none" => failure[t] = "none",
         main' \in Opening => main \in Opening /\ (main' = "headers" <=> main = "headers")
  PROVE  StreamAt(t)'
<1>1. t <= opened' /\ failure'[t] = "none" => Matched(t)'
  BY MatchedKept, Zenon DEF StreamAt
<1>2. t <= opened' => t \in answered'  BY Zenon DEF StreamAt, Same
<1>3. ASSUME t > opened', main' \in Opening
      PROVE  /\ pending'[t] = << >> /\ Awaited(t)'
             /\ ~registered(t)' => queue'[t] = << >> /\ t \notin answered'
  <2>1. t > opened /\ main \in Opening /\ (main' = "headers" <=> main = "headers")
    BY <1>3, Zenon
  <2>2. /\ pending[t] = << >> /\ Awaited(t)
        /\ ~registered(t) => queue[t] = << >> /\ t \notin answered
    BY <2>1, Zenon DEF StreamAt
  <2>3. registered(t)' <=> registered(t)
    BY <1>3, <2>1, Zenon DEF registered, Next1, Opening
  <2> QED BY <2>2, <2>3, AwaitedKept, Zenon DEF Same
<1> QED BY <1>1, <1>2, <1>3, Zenon DEF StreamAt

(* No stream is touched. *)
LEMMA StreamsKept ==
  ASSUME \A t \in Streams : StreamAt(t),
         UNCHANGED << wire, answered, surplus, peerClosed, held, queue, pending >>,
         \A t \in Streams : Steady(t), opened' = opened,
         \A t \in Streams : failure'[t] = "none" => failure[t] = "none",
         main' \in Opening => main \in Opening /\ (main' = "headers" <=> main = "headers")
  PROVE  \A t \in Streams : StreamAt(t)'
<1>1. \A t \in Streams : Same(t)  BY Zenon DEF Same
<1> QED BY <1>1, StreamKept, Zenon

(* Stream s is touched and no other. *)
Only(s) ==
  /\ \A t \in Streams \ {s} : Same(t) /\ Steady(t) /\ failure'[t] = failure[t]
  /\ opened' = opened
  /\ main' \in Opening => main \in Opening /\ (main' = "headers" <=> main = "headers")

(* A step that touches one stream has to be examined for that one only. *)
LEMMA StreamTouched ==
  ASSUME \A t \in Streams : StreamAt(t), NEW s \in Streams, Only(s), StreamAt(s)'
  PROVE  \A t \in Streams : StreamAt(t)'
<1>1. \A t \in Streams \ {s} : StreamAt(t)'  BY StreamKept, Zenon DEF Only
<1> QED BY <1>1, Zenon

(* What an opened stream of a running goroutine has under way. *)
LEMMA MatchedElim ==
  ASSUME NEW s \in Streams, Matched(s), pc[s] # "closed"
  PROVE  \E f \in Seq(Cells), k \in Nat :
           Flows(pending[s], queue[s], carried(s), wire[s], f) /\ Paired(s, f, k)
BY Zenon DEF Matched

(* The types of one stream's bytes. *)
LEMMA Flowing ==
  ASSUME LinkInv, NEW s \in Streams
  PROVE  /\ pending[s] \in Seq(Units) /\ pending[s] \in Seq(Cells)
         /\ queue[s] \in Seq(Seq(Cells)) /\ wire[s] \in Seq(Cells)
         /\ carried(s) \in Seq(Cells) /\ surplus[s] \in Int
         /\ reader # "dispatching" => held.stream # s /\ carried(s) = << >>
<1>1. /\ pending[s] \in Seq(Units) /\ queue[s] \in Seq(Seq(Cells)) /\ surplus[s] \in Int
      /\ wire[s] \in Seq(Cells) /\ held \in Events
  BY Zenon DEF LinkInv, LinkTypes, Channels
<1>2. pending[s] \in Seq(Cells)  BY <1>1, SMT DEF Cells
<1>3. held.event \in Seq(Cells)  BY <1>1, SMT DEF Events, Cells
<1>4. << >> \in Seq(Cells)  BY SMT
<1>5. carried(s) \in Seq(Cells)  BY <1>3, <1>4, Zenon DEF carried
<1>6. reader # "dispatching" => held.stream # s
  <2>1. reader # "dispatching" => held = NoEvent  BY Zenon DEF LinkInv, Channels
  <2>2. NoEvent.stream = 0  BY SMT DEF NoEvent
  <2>3. s # 0  BY SessionAssumption, SMT DEF Streams
  <2> QED BY <2>1, <2>2, <2>3, Zenon
<1> QED BY <1>1, <1>2, <1>5, <1>6, Zenon DEF carried

(* Steps of main and of the connection that touch no stream. *)
LEMMA OtherSteps ==
  ASSUME \A t \in Streams : StreamAt(t),
         \/ openH2Session \/ Break \/ ReaderStops \/ Expire \/ OpenFails \/ EndClose \/ Report
         \/ \E s \in Streams : Collect(s)
  PROVE  \A t \in Streams : StreamAt(t)'
<1>1. UNCHANGED << wire, answered, surplus, peerClosed, held, queue, pending, pc, failure, opened >>
  BY Zenon DEF openH2Session, Break, ReaderStops, Expire, OpenFails, EndClose, Report, Collect,
               linkVars, readVars, workVars, mainVars
<1>2. \/ main' = main \/ main' = "returned"
      \/ main = "dialing" /\ main' = "opening"
  BY Zenon DEF openH2Session, Break, ReaderStops, Expire, OpenFails, EndClose, Report, Collect,
               mainVars
<1>3. main' \in Opening => main \in Opening /\ (main' = "headers" <=> main = "headers")
  BY <1>2, Zenon DEF Opening
<1>4. \A t \in Streams : Steady(t)  BY <1>1, Zenon DEF Steady
<1> QED BY <1>1, <1>3, <1>4, StreamsKept, Zenon

(* main starts or ends a phase: no stream is touched. *)
LEMMA PhaseSteps ==
  ASSUME \A t \in Streams : StreamAt(t), WorkInv, StartPhase \/ EndPhase
  PROVE  \A t \in Streams : StreamAt(t)'
<1>1. UNCHANGED << wire, answered, surplus, peerClosed, held, queue, pending, failure, opened >>
  BY Zenon DEF StartPhase, EndPhase, linkVars, readVars
<1>2. main' \notin Opening  BY Zenon DEF StartPhase, EndPhase, Opening
<1>3. \A t \in Streams : Steady(t)
  <2>1. CASE StartPhase
    <3>1. \A t \in Streams : pc'[t] = "enter" /\ pc[t] \in Rest
      BY <2>1, Zenon DEF StartPhase, WorkInv, Stages
    <3> QED BY <3>1, Zenon DEF Steady, Rest
  <2>2. CASE EndPhase
    <3>1. \A t \in Streams : pc[t] \in {"sent", "left"}
      BY <2>2, Zenon DEF EndPhase, WorkInv, Stages
    <3>2. pc' = pc \/ pc' = [s \in Streams |-> "closeWrite"]  BY <2>2, Zenon DEF EndPhase
    <3> QED BY <3>1, <3>2, Zenon DEF Steady
  <2> QED BY <2>1, <2>2, Zenon
<1> QED BY <1>1, <1>2, <1>3, StreamsKept, Zenon

(* Steps of a worker between its reads and writes: no stream is touched. *)
LEMMA WorkerSteps ==
  ASSUME \A t \in Streams : StreamAt(t), WorkInv, NEW s \in Streams,
         \/ Enter(s) \/ LoadPeak(s) \/ SwapPeak(s) \/ BeginGroup(s) \/ EndLoop(s)
         \/ Send(s) \/ Leave(s)
  PROVE  \A t \in Streams : StreamAt(t)'
<1>1. UNCHANGED << wire, answered, surplus, peerClosed, held, queue, pending, failure, opened,
                   main >>
  BY Zenon DEF Enter, LoadPeak, SwapPeak, BeginGroup, EndLoop, Send, Leave, linkVars, readVars,
               mainVars
<1>2. /\ pc[s] \in {"enter", "load", "swap", "loop", "send", "sent"}
      /\ \E v \in {"load", "swap", "loop", "write", "send", "sent", "left"} :
           pc' = [pc EXCEPT ![s] = v]
  BY Zenon DEF Enter, LoadPeak, SwapPeak, BeginGroup, EndLoop, Send, Leave
<1>3. pc \in [Streams -> Working \cup Closing \cup {"absent"}]  BY Zenon DEF WorkInv, MainTypes
<1>4. \A t \in Streams : Steady(t)  BY <1>2, <1>3, Zenon DEF Steady
<1> QED BY <1>1, <1>4, StreamsKept, Zenon

(* A goroutine that ended in an error is no longer watched. *)
LEMMA FailStep ==
  ASSUME \A t \in Streams : StreamAt(t), WorkInv, NEW s \in Streams,
         NEW e \in {"failed", "timeout"}, Fail(s, e),
         pc[s] \in {"write", "read", "closeWrite", "closeRead"}, UNCHANGED mainVars,
         answered' = answered, \A t \in Streams \ {s} : Same(t)
  PROVE  \A t \in Streams : StreamAt(t)'
<1>1. UNCHANGED << main, opened >>  BY Zenon DEF mainVars
<1>2. main \in {"collecting", "closing"} /\ s <= opened  BY Places, Zenon
<1>3. main' \notin Opening  BY <1>1, <1>2, Zenon DEF Opening
<1>4. /\ failure \in [Streams -> {"none", "failed", "timeout"}]
      /\ pc \in [Streams -> Working \cup Closing \cup {"absent"}]
  BY Zenon DEF WorkInv, MainTypes
<1>5. /\ failure'[s] = e /\ e # "none"
      /\ \A t \in Streams \ {s} : failure'[t] = failure[t] /\ pc'[t] = pc[t]
  BY <1>4, Zenon DEF Fail
<1>6. Only(s)  BY <1>1, <1>3, <1>5, Zenon DEF Only, Steady
<1>7. StreamAt(s)'  BY <1>1, <1>3, <1>5, Zenon DEF StreamAt
<1> QED BY <1>6, <1>7, StreamTouched, Zenon

(* A goroutine that fails is excused. *)
LEMMA FailSteps ==
  ASSUME \A t \in Streams : StreamAt(t), WorkInv, NEW s \in Streams,
         WriteFails(s) \/ ReadFails(s)
  PROVE  \A t \in Streams : StreamAt(t)'
<1>1. /\ UNCHANGED << wire, answered, surplus, peerClosed, held, queue, pending >>
      /\ UNCHANGED mainVars
  BY Zenon DEF WriteFails, ReadFails, linkVars, readVars
<1>2. /\ Fail(s, "failed") \/ Fail(s, "timeout")
      /\ pc[s] \in {"write", "read", "closeWrite", "closeRead"}
  BY Zenon DEF WriteFails, ReadFails, Reading
<1>3. \A t \in Streams \ {s} : Same(t)  BY <1>1, Zenon DEF Same
<1> QED BY <1>1, <1>2, <1>3, FailStep, Zenon

-----------------------------------------------------------------------------
(* The reader takes n cells from the wire of stream s. *)
LEMMA Pieces ==
  ASSUME NEW w \in Seq(Cells), NEW n \in 1..Len(w)
  PROVE  /\ n \in Nat /\ Len(w) \in Nat /\ w # << >>
         /\ SubSeq(w, 1, n)[1] = w[1] /\ 1 \in 1..Len(w)
         /\ Len(SubSeq(w, n + 1, Len(w))) = Len(w) - n
         /\ \A j \in 1..(Len(w) - n) :
              SubSeq(w, n + 1, Len(w))[j] = w[n + j] /\ n + j \in 1..Len(w)
<1>1. n \in Nat /\ Len(w) \in Nat /\ 1 <= n /\ n <= Len(w) /\ w # << >> /\ 1 \in 1..Len(w)
  BY SMT
<1>2. SubSeq(w, 1, n)[1] = w[1]  BY <1>1, SMT
<1>3. Len(SubSeq(w, n + 1, Len(w))) = Len(w) - n  BY <1>1, SMT
<1>4. \A j \in 1..(Len(w) - n) :
        SubSeq(w, n + 1, Len(w))[j] = w[n + j] /\ n + j \in 1..Len(w)
  BY <1>1, SMT
<1> QED BY <1>1, <1>2, <1>3, <1>4, Zenon

(* Sequences of one item. *)
LEMMA Ones ==
  /\ Len(<< "headers" >>) = 1 /\ << "headers" >>[1] = "headers"
  /\ SubSeq(<< "headers" >>, 1, 1) = << "headers" >>
  /\ SubSeq(<< "headers" >>, 2, 1) = << >>
  /\ 1..1 = {1} /\ 1 + 1 = 2
<1>1. Len(<< "headers" >>) = 1 /\ << "headers" >>[1] = "headers" /\ 1 + 1 = 2  BY SMT
<1>2. SubSeq(<< "headers" >>, 1, 1) = << "headers" >>
  <2>1. \A w \in Seq(Cells) : w # << >> => << Head(w) >> = SubSeq(w, 1, 1)  BY SMT
  <2>2. << "headers" >> # << >> /\ Head(<< "headers" >>) = "headers"  BY SMT
  <2>3. << "headers" >> \in Seq(Cells)  BY FrameCells, Zenon
  <2> QED BY <2>1, <2>2, <2>3, Zenon
<1>3. SubSeq(<< "headers" >>, 2, 1) = << >>  BY SMT
<1>4. 1..1 = {1}  BY SMT
<1> QED BY <1>1, <1>2, <1>3, <1>4, Zenon

(* The reader takes the first n bytes of a stream off the wire. *)
Reads(s, n) ==
  /\ reader = "reading"
  /\ wire' = [wire EXCEPT ![s] = SubSeq(wire[s], n + 1, Len(wire[s]))]
  /\ held' = [stream |-> s, event |-> SubSeq(wire[s], 1, n)]
  /\ UNCHANGED << answered, surplus, peerClosed, queue, pending, pc, failure, opened, main >>

(* A read moves bytes of the stream and keeps their order. *)
LEMMA ReadFlow ==
  ASSUME LinkInv, NEW s \in Streams, NEW n \in 1..Len(wire[s]), Reads(s, n),
         NEW f \in Seq(Cells), Flows(pending[s], queue[s], carried(s), wire[s], f)
  PROVE  Flows(pending'[s], queue'[s], carried(s)', wire'[s], f)
<1> DEFINE p == pending[s]
           q == queue[s]
           w == wire[s]
           h == SubSeq(w, 1, n)
           v == SubSeq(w, n + 1, Len(w))
<1>1. wire \in [Streams -> Seq(Cells)]  BY Zenon DEF LinkInv, LinkTypes
<1>2. wire'[s] = v /\ held' = [stream |-> s, event |-> h] /\ UNCHANGED << queue, pending >>
  BY <1>1, Zenon DEF Reads
<1>3. carried(s)' = h
  <2>1. held'.stream = s /\ held'.event = h  BY <1>2, SMT
  <2> QED BY <2>1, Zenon DEF carried
<1>4. /\ p \in Seq(Cells) /\ q \in Seq(Seq(Cells)) /\ w \in Seq(Cells) /\ n \in 1..Len(w)
      /\ carried(s) = << >>
  BY Flowing, Zenon DEF Reads
<1>5. Flows(p, q, << >>, w, f)  BY <1>4, Zenon
<1> HIDE DEF p, q, w
<1>6. Flows(p, q, h, v, f)  BY <1>4, <1>5, FlowRead, Zenon
<1> QED BY <1>2, <1>3, <1>6, Zenon DEF p, q

(* A read off the wire keeps every stream paired up, ... *)
LEMMA ReadStep ==
  ASSUME LinkInv, WorkInv, \A t \in Streams : StreamAt(t), NEW s \in Streams,
         NEW n \in 1..Len(wire[s]), Reads(s, n)
  PROVE  \A t \in Streams : StreamAt(t)'
<1> DEFINE w == wire[s]
           h == SubSeq(w, 1, n)
           v == SubSeq(w, n + 1, Len(w))
<1>1. /\ UNCHANGED << answered, surplus, peerClosed, queue, pending, pc, failure, opened, main >>
      /\ reader = "reading"
  BY Zenon DEF Reads
<1>2. wire \in [Streams -> Seq(Cells)]  BY Zenon DEF LinkInv, LinkTypes
<1>3. /\ wire'[s] = v /\ held' = [stream |-> s, event |-> h]
      /\ \A t \in Streams \ {s} : wire'[t] = wire[t]
  BY <1>2, Zenon DEF Reads
<1>4. held'.stream = s /\ held'.event = h  BY <1>3, SMT
<1>5. \A t \in Streams : held.stream # t  BY <1>1, Flowing, Zenon
<1>8. Only(s)
  <2>1. \A t \in Streams \ {s} : held.stream # t /\ held'.stream # t  BY <1>4, <1>5, Zenon
  <2> QED BY <1>1, <1>3, <2>1, Zenon DEF Only, Same, Steady
<1>9. ASSUME s <= opened', failure'[s] = "none" PROVE Matched(s)'
  <2>1. Matched(s)  BY <1>1, <1>9, Zenon DEF StreamAt
  <2>2. CASE pc[s] = "closed"  BY <1>1, <2>1, <2>2, Zenon DEF Matched
  <2>3. CASE pc[s] # "closed"
    <3>1. PICK f \in Seq(Cells), k \in Nat :
            Flows(pending[s], queue[s], carried(s), wire[s], f) /\ Paired(s, f, k)
      BY <2>1, <2>3, MatchedElim, Zenon
    <3>2. Flows(pending'[s], queue'[s], carried(s)', wire'[s], f)  BY <3>1, ReadFlow, Zenon
    <3>3. Paired(s, f, k)'  BY <1>1, <3>1, Zenon DEF Paired, waiting
    <3> QED BY <1>1, <2>3, <3>2, <3>3, MatchedIntro, Zenon
  <2> QED BY <2>2, <2>3, Zenon
<1>10. ASSUME s > opened', main' \in Opening
       PROVE  /\ pending'[s] = << >> /\ Awaited(s)'
              /\ ~registered(s)' => queue'[s] = << >> /\ s \notin answered'
  <2>1. /\ pending[s] = << >> /\ Awaited(s)
        /\ ~registered(s) => queue[s] = << >> /\ s \notin answered
    BY <1>1, <1>10, Zenon DEF StreamAt
  <2>2. registered(s)' <=> registered(s)  BY <1>1, Zenon DEF registered, Next1
  <2>3. Awaited(s)'
    <3>1. PICK f \in Seq(Cells) :
            Flows(pending[s], queue[s], carried(s), wire[s], f) /\ Awaits(s, f)
      BY <2>1, Zenon DEF Awaited
    <3>2. Flows(pending'[s], queue'[s], carried(s)', wire'[s], f)  BY <3>1, ReadFlow, Zenon
    <3>3. Awaits(s, f)'  BY <1>1, <3>1, AwaitsKept, Zenon DEF waiting
    <3> QED BY <3>2, <3>3, AwaitedIntro, Zenon
  <2> QED BY <1>1, <2>1, <2>2, <2>3, Zenon
<1>11. StreamAt(s)'  BY <1>1, <1>9, <1>10, Zenon DEF StreamAt
<1> QED BY <1>8, <1>11, StreamTouched, Zenon

(* ... of data, ... *)
LEMMA ReadDataStep ==
  ASSUME LinkInv, WorkInv, \A t \in Streams : StreamAt(t), NEW s \in Streams, NEW n \in 1..3,
         ReadData(s, n)
  PROVE  \A t \in Streams : StreamAt(t)'
<1>1. Reads(s, n) /\ n <= Len(wire[s])
  BY Zenon DEF ReadData, Reads, DataPrefix, mainVars, workVars
<1>2. wire[s] \in Seq(Cells)  BY Flowing, Zenon
<1>3. n \in 1..Len(wire[s])  BY <1>1, <1>2, SMT
<1> QED BY <1>1, <1>3, ReadStep, Zenon

(* ... and of HEADERS or RST_STREAM. *)
LEMMA ReadControlStep ==
  ASSUME LinkInv, WorkInv, \A t \in Streams : StreamAt(t), NEW s \in Streams, ReadControl(s)
  PROVE  \A t \in Streams : StreamAt(t)'
<1> DEFINE w == wire[s]
<1>1. w \in Seq(Cells) /\ w # << >>  BY Flowing, Zenon DEF ReadControl
<1>2. 1 \in 1..Len(w)  BY <1>1, SMT
<1>3. << Head(w) >> = SubSeq(w, 1, 1)  BY <1>1, SMT
<1>4. Tail(w) = SubSeq(w, 1 + 1, Len(w))  BY <1>1, SMT
<1>5. Reads(s, 1)  BY <1>3, <1>4, Zenon DEF ReadControl, Reads, mainVars, workVars
<1> QED BY <1>2, <1>5, ReadStep, Zenon

-----------------------------------------------------------------------------
(* The event the reader holds joins the channel of its stream, ... *)
LEMMA QueuedFlow ==
  ASSUME LinkInv, NEW u \in Streams, reader = "dispatching", held.stream = u, Queued,
         held'.stream # u, UNCHANGED << wire, pending >>, NEW f \in Seq(Cells),
         Flows(pending[u], queue[u], carried(u), wire[u], f)
  PROVE  Flows(pending'[u], queue'[u], carried(u)', wire'[u], f)
<1> DEFINE p == pending[u]
           q == queue[u]
           w == wire[u]
           h == held.event
<1>1. queue \in [Streams -> Seq(Seq(Cells))]  BY Zenon DEF LinkInv, Channels
<1>2. queue'[u] = Append(q, h)  BY <1>1, Zenon DEF Queued
<1>3. carried(u) = h /\ carried(u)' = << >>  BY Zenon DEF carried
<1>4. p \in Seq(Cells) /\ q \in Seq(Seq(Cells)) /\ w \in Seq(Cells) /\ h \in Seq(Cells)
  BY Flowing, Held, Zenon
<1>5. Flows(p, q, h, w, f)  BY <1>3, Zenon
<1> HIDE DEF p, q, w, h
<1>6. Flows(p, Append(q, h), << >>, w, f)  BY <1>4, <1>5, FlowDispatch, Zenon
<1> QED BY <1>2, <1>3, <1>6, Zenon DEF p, w

(* ... or is dropped, if the stream is not registered.                      *)
LEMMA DroppedFlow ==
  ASSUME LinkInv, NEW u \in Streams, reader = "dispatching", held.stream = u, Dropped,
         held'.stream # u, UNCHANGED << wire, pending, answered, surplus, peerClosed >>,
         pending[u] = << >>, queue[u] = << >>, u \notin answered, Awaited(u)
  PROVE  Awaited(u)'
<1> DEFINE w == wire[u]
           h == held.event
<1>1. w \in Seq(Cells) /\ h \in Seq(Cells)  BY Flowing, Held, Zenon
<1>2. carried(u) = h /\ carried(u)' = << >>  BY Zenon DEF carried
<1>3. PICK f \in Seq(Cells) :
        Flows(pending[u], queue[u], carried(u), wire[u], f) /\ Awaits(u, f)
  BY Zenon DEF Awaited
<1>4. Flows(<< >>, << >>, h, w, f)  BY <1>2, <1>3, Zenon
<1>5. surplus[u] = 0 /\ u \notin peerClosed /\ Headless(f, Len(f))  BY <1>3, Zenon DEF Awaits
<1> HIDE DEF w, h
<1>6. /\ Flows(<< >>, << >>, << >>, w, w)
      /\ \A j \in 1..Len(w) : f[Len(h) + j] = w[j] /\ Len(h) + j \in 1..Len(f)
  BY <1>1, <1>4, FlowWire, Zenon
<1>7. Headless(w, Len(w))  BY <1>5, <1>6, Zenon DEF Headless
<1>8. PICK g \in Seq(Cells) : g = w  BY <1>1, Zenon
<1>9. Awaits(u, g)'  BY <1>5, <1>7, <1>8, Zenon DEF Awaits
<1>10. Flows(pending'[u], queue'[u], carried(u)', wire'[u], g)
  BY <1>2, <1>6, <1>8, Zenon DEF Dropped, w
<1> QED BY <1>9, <1>10, AwaitedIntro, Zenon

(* Either way every stream stays as it was. *)
LEMMA DispatchStep ==
  ASSUME LinkInv, WorkInv, \A t \in Streams : StreamAt(t), dispatch
  PROVE  \A t \in Streams : StreamAt(t)'
<1>1. /\ UNCHANGED << wire, answered, surplus, peerClosed, pending, pc, failure, opened, main >>
      /\ reader = "dispatching" /\ held' = NoEvent
  BY Zenon DEF dispatch, linkVars, mainVars, workVars
<1>2. PICK u \in Streams : u = held.stream  BY <1>1, Held, Zenon
<1>3. (registered(u) /\ Queued) \/ (~registered(u) /\ Dropped)  BY <1>2, Dispatched, Zenon
<1>4. \A t \in Streams \ {u} : queue'[t] = queue[t]
  <2>1. queue \in [Streams -> Seq(Seq(Cells))]  BY Zenon DEF LinkInv, Channels
  <2> QED BY <1>2, <1>3, <2>1, Zenon DEF Queued, Dropped
<1>5. \A t \in Streams : held'.stream # t
  <2>1. NoEvent.stream = 0  BY SMT DEF NoEvent
  <2>2. \A t \in Streams : t # 0  BY SessionAssumption, SMT DEF Streams
  <2> QED BY <1>1, <2>1, <2>2, Zenon
<1>6. Only(u)
  <2>1. \A t \in Streams \ {u} : held.stream # t /\ held'.stream # t  BY <1>2, <1>5, Zenon
  <2> QED BY <1>1, <1>4, <2>1, Zenon DEF Only, Same, Steady
<1>7. registered(u)' <=> registered(u)  BY <1>1, Zenon DEF registered, Next1
<1>8. UNCHANGED << wire, pending, answered, surplus, peerClosed >>  BY <1>1, Zenon
<1>9. ASSUME u <= opened', failure'[u] = "none" PROVE Matched(u)'
  <2>1. Matched(u) /\ Queued  BY <1>1, <1>3, <1>9, Zenon DEF StreamAt, registered
  <2>2. CASE pc[u] = "closed"  BY <1>1, <2>1, <2>2, Zenon DEF Matched
  <2>3. CASE pc[u] # "closed"
    <3>1. PICK f \in Seq(Cells), k \in Nat :
            Flows(pending[u], queue[u], carried(u), wire[u], f) /\ Paired(u, f, k)
      BY <2>1, <2>3, MatchedElim, Zenon
    <3>2. Flows(pending'[u], queue'[u], carried(u)', wire'[u], f)
      BY <1>1, <1>2, <1>5, <1>8, <2>1, <3>1, QueuedFlow, Zenon
    <3>3. Paired(u, f, k)'  BY <1>1, <3>1, Zenon DEF Paired, waiting
    <3> QED BY <1>1, <2>3, <3>2, <3>3, MatchedIntro, Zenon
  <2> QED BY <2>2, <2>3, Zenon
<1>10. ASSUME u > opened', main' \in Opening
       PROVE  /\ pending'[u] = << >> /\ Awaited(u)'
              /\ ~registered(u)' => queue'[u] = << >> /\ u \notin answered'
  <2>1. /\ pending[u] = << >> /\ Awaited(u)
        /\ ~registered(u) => queue[u] = << >> /\ u \notin answered
    BY <1>1, <1>10, Zenon DEF StreamAt
  <2>2. CASE registered(u) /\ Queued
    <3>1. PICK f \in Seq(Cells) :
            Flows(pending[u], queue[u], carried(u), wire[u], f) /\ Awaits(u, f)
      BY <2>1, Zenon DEF Awaited
    <3>2. Flows(pending'[u], queue'[u], carried(u)', wire'[u], f)
      BY <1>1, <1>2, <1>5, <1>8, <2>2, <3>1, QueuedFlow, Zenon
    <3>3. Awaits(u, f)'  BY <1>1, <3>1, AwaitsKept, Zenon DEF waiting
    <3>4. Awaited(u)'  BY <3>2, <3>3, AwaitedIntro, Zenon
    <3> QED BY <1>1, <1>7, <2>1, <2>2, <3>4, Zenon
  <2>3. CASE ~registered(u) /\ Dropped
    <3>1. Awaited(u)'  BY <1>1, <1>2, <1>5, <1>8, <2>1, <2>3, DroppedFlow, Zenon
    <3> QED BY <1>1, <2>1, <2>3, <3>1, Zenon DEF Dropped
  <2> QED BY <1>3, <2>2, <2>3, Zenon
<1>11. StreamAt(u)'  BY <1>1, <1>9, <1>10, Zenon DEF StreamAt
<1> QED BY <1>6, <1>11, StreamTouched, Zenon

(* An event that is not HEADERS holds none. *)
LEMMA EventHeadless ==
  ASSUME NEW e, Event(e), e # << "headers" >>
  PROVE  Headless(e, Len(e))
<1>1. CASE e \in Seq(Units)
  <2>1. \A i \in 1..Len(e) : e[i] \in Units  BY <1>1, SMT
  <2>2. "headers" \notin Units  BY Zenon DEF Units, Kinds
  <2> QED BY <2>1, <2>2, Zenon DEF Headless
<1>2. ASSUME NEW c \in Controls, e = << c >> PROVE Headless(e, Len(e))
  <2>1. Len(<< c >>) = 1 /\ << c >>[1] = c /\ 1..1 = {1}  BY SMT
  <2>2. c # "headers"  BY <1>2, Zenon
  <2> QED BY <1>2, <2>1, <2>2, Zenon DEF Headless
<1> QED BY <1>1, <1>2, Zenon DEF Event

(* The channel of a stream that is being opened gives up its first event:   *)
(* HEADERS are followed by what pairs up, ...                               *)
LEMMA HeadersEnd ==
  ASSUME LinkInv, NEW u \in Streams, queue[u] # << >>, queue'[u] = Tail(queue[u]),
         Head(queue[u]) = << "headers" >>, pending[u] = << >>, Awaited(u), pc[u] = "absent",
         UNCHANGED << wire, answered, surplus, peerClosed, held, pending, pc >>
  PROVE  Matched(u)' /\ u \in answered
<1> DEFINE q == queue[u]
           h == carried(u)
           w == wire[u]
<1>1. PICK f \in Seq(Cells) :
        Flows(pending[u], queue[u], carried(u), wire[u], f) /\ Awaits(u, f)
  BY Zenon DEF Awaited
<1>2. q \in Seq(Seq(Cells)) /\ h \in Seq(Cells) /\ w \in Seq(Cells)  BY Flowing, Zenon
<1>3. Flows(<< >>, q, h, w, f) /\ q # << >> /\ Head(q) = << "headers" >>  BY <1>1, Zenon
<1>4. carried(u)' = h /\ queue'[u] = Tail(q) /\ wire'[u] = w /\ pending'[u] = << >>
  BY Zenon DEF carried
<1> HIDE DEF q, h, w
<1>5. LET m == Len(Head(q))
      IN /\ m \in Nat /\ m <= Len(f) /\ \A j \in 1..m : f[j] = Head(q)[j]
         /\ Flows(<< >>, Tail(q), h, w, SubSeq(f, m + 1, Len(f)))
  BY <1>2, <1>3, FlowDrop, Zenon
<1>6. /\ 1 <= Len(f) /\ f[1] = "headers"
      /\ Flows(<< >>, Tail(q), h, w, SubSeq(f, 1 + 1, Len(f)))
  <2>1. Len(<< "headers" >>) = 1 /\ << "headers" >>[1] = "headers" /\ 1 \in 1..1  BY Ones, Zenon
  <2> QED BY <1>3, <1>5, <2>1, Zenon
<1>7. u \in answered
  <2>1. 1 \in 1..Len(f)  BY <1>6, SMT
  <2> QED BY <1>1, <1>6, <2>1, Zenon DEF Awaits, Headless
<1>8. PICK d \in Nat, e \in Seq(Cells) : Headed(f, d, e) /\ \E k \in Nat : Paired(u, e, k)
  BY <1>1, <1>7, Zenon DEF Awaits
<1>9. PICK k \in Nat : Paired(u, e, k)  BY <1>8, Zenon
<1>10. SubSeq(f, 1 + 1, Len(f)) = e  BY <1>6, <1>8, HeadedFirst, Zenon
<1>11. Flows(pending'[u], queue'[u], carried(u)', wire'[u], e)  BY <1>4, <1>6, <1>10, Zenon
<1>12. Paired(u, e, k)'  BY <1>9, Zenon DEF Paired, waiting
<1>13. pc'[u] # "closed"  BY Zenon
<1> QED BY <1>7, <1>11, <1>12, <1>13, MatchedIntro, Zenon

(* ... and other events leave the HEADERS and what follows them where they  *)
(* are.                                                                     *)
LEMMA HeadersStill ==
  ASSUME LinkInv, NEW u \in Streams, queue[u] # << >>, queue'[u] = Tail(queue[u]),
         Head(queue[u]) # << "headers" >>, Event(Head(queue[u])), pending[u] = << >>, Awaited(u),
         UNCHANGED << wire, answered, surplus, peerClosed, held, pending, pc >>
  PROVE  Awaited(u)'
<1> DEFINE q == queue[u]
           h == carried(u)
           w == wire[u]
           v == Head(q)
           m == Len(v)
<1>1. PICK f \in Seq(Cells) :
        Flows(pending[u], queue[u], carried(u), wire[u], f) /\ Awaits(u, f)
  BY Zenon DEF Awaited
<1>2. q \in Seq(Seq(Cells)) /\ h \in Seq(Cells) /\ w \in Seq(Cells)  BY Flowing, Zenon
<1>3. Flows(<< >>, q, h, w, f) /\ q # << >>  BY <1>1, Zenon
<1>4. carried(u)' = h /\ queue'[u] = Tail(q) /\ wire'[u] = w /\ pending'[u] = << >>
  BY Zenon DEF carried
<1>5. Headless(v, m)  BY EventHeadless, Zenon
<1> HIDE DEF q, h, w
<1>6. LET k == Len(Head(q))
      IN /\ k \in Nat /\ k <= Len(f) /\ \A j \in 1..k : f[j] = Head(q)[j]
         /\ Flows(<< >>, Tail(q), h, w, SubSeq(f, k + 1, Len(f)))
  BY <1>2, <1>3, FlowDrop, Zenon
<1>7. PICK n \in Nat : n = m  BY <1>6, Zenon
<1>11. /\ n <= Len(f) /\ \A j \in 1..n : f[j] = v[j]
       /\ Flows(<< >>, Tail(q), h, w, SubSeq(f, n + 1, Len(f)))
  BY <1>6, <1>7, Zenon
<1> DEFINE g == SubSeq(f, n + 1, Len(f))
<1> HIDE DEF v, m
<1>8. g \in Seq(Cells)  BY <1>11, Rests, Zenon
<1>9. Awaits(u, g)'
  <2>1. CASE u \notin answered
    <3>1. surplus[u] = 0 /\ u \notin peerClosed /\ Headless(f, Len(f))
      BY <1>1, <2>1, Zenon DEF Awaits
    <3>2. Headless(g, Len(g))  BY <1>11, <3>1, HeadlessCut, Zenon
    <3> QED BY <2>1, <3>1, <3>2, Zenon DEF Awaits
  <2>2. CASE u \in answered
    <3>1. PICK d \in Nat, e \in Seq(Cells) : Headed(f, d, e) /\ \E k \in Nat : Paired(u, e, k)
      BY <1>1, <2>2, Zenon DEF Awaits
    <3>2. PICK k \in Nat : Paired(u, e, k)  BY <3>1, Zenon
    <3>3. n < d
      <4>1. d \in 1..Len(f) /\ f[d] = "headers"  BY <3>1, Zenon DEF Headed
      <4>2. ~(n < d) => d \in 1..n
        <5>1. Len(f) \in Nat  BY SMT
        <5> QED BY <4>1, <5>1, SMT
      <4> QED BY <1>5, <1>7, <1>11, <4>1, <4>2, Zenon DEF Headless
    <3>4. d - n \in Nat /\ Headed(g, d - n, e)  BY <3>1, <3>3, HeadedCut, Zenon
    <3>5. Paired(u, e, k)'  BY <3>2, Zenon DEF Paired, waiting
    <3> HIDE DEF g
    <3> QED BY <2>2, <3>4, <3>5, Zenon DEF Awaits
  <2> QED BY <2>1, <2>2, Zenon
<1> HIDE DEF g
<1>10. Flows(pending'[u], queue'[u], carried(u)', wire'[u], g)  BY <1>4, <1>11, Zenon DEF g
<1> QED BY <1>8, <1>9, <1>10, AwaitedIntro, Zenon

(* The streams that main does not wait for are left alone. *)
LEMMA ResponseHeadersStep ==
  ASSUME LinkInv, WorkInv, \A t \in Streams : StreamAt(t), ResponseHeaders
  PROVE  \A t \in Streams : StreamAt(t)'
<1>1. /\ UNCHANGED << wire, answered, surplus, peerClosed, held, pending, pc, failure >>
      /\ main = "headers" /\ main \in Opening /\ queue[Next1] # << >>
      /\ queue' = [queue EXCEPT ![Next1] = Tail(@)]
  BY Zenon DEF ResponseHeaders, linkVars, workVars, Opening
<1>2. Next1 \in Streams /\ opened \in Nat  BY <1>1, OpenNumbers, Zenon
<1>3. PICK u \in Streams : u = Next1  BY <1>2, Zenon
<1>4. /\ queue'[u] = Tail(queue[u]) /\ queue[u] # << >> /\ Event(Head(queue[u]))
      /\ \A t \in Streams \ {u} : queue'[t] = queue[t]
  BY <1>1, <1>3, TakenQueue, Zenon
<1>5. u > opened /\ u = opened + 1 /\ \A t \in Streams : t <= opened + 1 => t <= opened \/ t = u
  <2>1. \A t \in Streams : t \in Nat  BY SessionAssumption, SMT DEF Streams
  <2> QED BY <1>2, <1>3, <2>1, SMT DEF Next1
<1>6. \A t \in Streams \ {u} : Same(t)  BY <1>1, <1>4, Zenon DEF Same
<1>7. \A t \in Streams : Steady(t)  BY <1>1, Zenon DEF Steady
<1>8. \A t \in Streams \ {u} : t <= opened =>
        t \in answered /\ (failure[t] = "none" => Matched(t)')
  BY <1>6, <1>7, MatchedKept, Zenon DEF StreamAt
<1>9. pending[u] = << >> /\ Awaited(u)  BY <1>1, <1>5, Zenon DEF StreamAt
<1>10. \A t \in Streams \ {u} : t > opened =>
         pending'[t] = << >> /\ Awaited(t)' /\ queue'[t] = << >> /\ t \notin answered'
  <2>1. \A t \in Streams \ {u} : t > opened => ~registered(t)
    <3>1. \A t \in Streams : t > opened => ~(t <= opened)
      BY <1>2, SessionAssumption, SMT DEF Streams
    <3> QED BY <1>3, <3>1, Zenon DEF registered
  <2>2. \A t \in Streams \ {u} : t > opened =>
          pending[t] = << >> /\ Awaited(t) /\ queue[t] = << >> /\ t \notin answered
    BY <1>1, <2>1, Zenon DEF StreamAt
  <2> QED BY <1>1, <1>4, <1>6, <1>7, <2>2, AwaitedKept, Zenon
<1>11. pc[u] = "absent"  BY <1>1, Zenon DEF WorkInv, Stages
<1> DEFINE event == Head(queue[u])
<1>12. \/ event = << "headers" >> /\ HeadersCome
       \/ event # << "headers" >> /\ HeadersRefused
       \/ event # << "headers" >> /\ HeadersLater
  <2>1. << "headers" >> \notin {<< "refused" >>, << "reset" >>}
    <3>1. << "headers" >>[1] = "headers" /\ << "refused" >>[1] = "refused"
          /\ << "reset" >>[1] = "reset"
      BY SMT
    <3> QED BY <3>1, Zenon
  <2> QED BY <1>3, <2>1, HeadersTaken, Zenon
<1>13. UNCHANGED << wire, answered, surplus, peerClosed, held, pending, pc >>  BY <1>1, Zenon
<1>14. \A t \in Streams : t <= opened => t # u
  <2>1. \A t \in Streams : t \in Nat  BY SessionAssumption, SMT DEF Streams
  <2> QED BY <1>2, <1>5, <2>1, SMT
<1>15. CASE event = << "headers" >> /\ HeadersCome
  <2>1. opened' = opened + 1 /\ main' \in {"phase", "opening"}
    BY <1>15, Zenon DEF HeadersCome, Next1
  <2>2. Matched(u)' /\ u \in answered
    BY <1>4, <1>9, <1>11, <1>13, <1>15, HeadersEnd, Zenon
  <2>3. \A t \in Streams : t > opened' => t > opened /\ t # u
    <3>1. \A t \in Streams : t \in Nat  BY SessionAssumption, SMT DEF Streams
    <3> QED BY <1>2, <1>5, <2>1, <3>1, SMT
  <2>4. \A t \in Streams : t <= opened' =>
          t \in answered' /\ (failure'[t] = "none" => Matched(t)')
    BY <1>1, <1>5, <1>8, <2>1, <2>2, Zenon
  <2>5. \A t \in Streams : t > opened' =>
          pending'[t] = << >> /\ Awaited(t)' /\ queue'[t] = << >> /\ t \notin answered'
    BY <1>10, <2>3, Zenon
  <2> QED BY <2>4, <2>5, Zenon DEF StreamAt
<1>16. CASE event # << "headers" >> /\ HeadersRefused
  <2>1. opened' = opened /\ main' \notin Opening
    BY <1>16, Zenon DEF HeadersRefused, Opening
  <2> QED BY <1>1, <1>8, <1>14, <2>1, Zenon DEF StreamAt
<1>17. CASE event # << "headers" >> /\ HeadersLater
  <2>1. opened' = opened /\ main' = main  BY <1>17, Zenon DEF HeadersLater
  <2>2. Awaited(u)' /\ pending'[u] = << >>
    BY <1>4, <1>9, <1>13, <1>17, HeadersStill, Zenon
  <2>3. registered(u)'  BY <1>1, <1>3, <2>1, Zenon DEF registered, Next1
  <2>4. \A t \in Streams : t <= opened' =>
          t \in answered' /\ (failure'[t] = "none" => Matched(t)')
    BY <1>1, <1>8, <1>14, <2>1, Zenon
  <2>5. \A t \in Streams : t > opened' =>
          /\ pending'[t] = << >> /\ Awaited(t)'
          /\ ~registered(t)' => queue'[t] = << >> /\ t \notin answered'
    BY <1>10, <2>1, <2>2, <2>3, Zenon
  <2> QED BY <2>4, <2>5, Zenon DEF StreamAt
<1> QED BY <1>12, <1>15, <1>16, <1>17, Zenon

-----------------------------------------------------------------------------
(* The peer puts x on the wire of stream s: it joins what is under way, ... *)
LEMMA SentFlow ==
  ASSUME LinkInv, NEW s \in Streams, NEW x \in Seq(Cells), wire'[s] = wire[s] \o x,
         UNCHANGED << queue, pending, held >>, NEW f \in Seq(Cells),
         Flows(pending[s], queue[s], carried(s), wire[s], f)
  PROVE  f \o x \in Seq(Cells) /\ Flows(pending'[s], queue'[s], carried(s)', wire'[s], f \o x)
<1> DEFINE p == pending[s]
           q == queue[s]
           h == carried(s)
           w == wire[s]
<1>1. p \in Seq(Cells) /\ q \in Seq(Seq(Cells)) /\ h \in Seq(Cells) /\ w \in Seq(Cells)
      /\ Flows(p, q, h, w, f)
  BY Flowing, Zenon
<1>2. carried(s)' = carried(s)  BY Zenon DEF carried
<1> HIDE DEF p, q, h, w
<1>3. Flows(p, q, h, w \o x, f \o x)  BY <1>1, FlowSend, Zenon
<1>4. f \o x \in Seq(Cells)  BY SMT
<1> QED BY <1>2, <1>3, <1>4, Zenon DEF p, q, h, w

(* ... pairs up if it does behind texts alone, ... *)
LEMMA SentPaired ==
  ASSUME NEW s \in Streams, NEW f \in Seq(Cells), NEW x \in Seq(Cells), NEW k \in Nat,
         Paired(s, f, k),
         /\ Texts(f, k) /\ Ended(f, k) /\ s \notin peerClosed
         /\ surplus[s] = k - waiting(s)
         => \E m \in Nat : Paired(s, f \o x, m)',
         s \in peerClosed => s \in peerClosed',
         s \in peerClosed => \A n \in Nat : surplus[s] = n - waiting(s) =>
                                            surplus'[s] = n - waiting(s)'
  PROVE  \E m \in Nat : Paired(s, f \o x, m)'
<1>1. /\ Texts(f \o x, k) /\ (Closed(f, k) => Closed(f \o x, k))
      /\ Spoiled(f, k) => Spoiled(f \o x, k)
  BY PairKept, Zenon DEF Paired
<1>2. CASE Ended(f, k) /\ s \notin peerClosed /\ surplus[s] = k - waiting(s)
  <2>1. Texts(f, k)  BY Zenon DEF Paired
  <2> QED BY <1>2, <2>1, Zenon
<1>3. CASE Closed(f, k) /\ s \in peerClosed /\ surplus[s] = k - waiting(s)
  <2>1. s \in peerClosed' /\ surplus'[s] = k - waiting(s)'  BY <1>3, Zenon
  <2>2. Paired(s, f \o x, k)'  BY <1>1, <1>3, <2>1, Zenon DEF Paired
  <2> QED BY <2>2, Zenon
<1>4. CASE Spoiled(f, k)
  <2>1. Paired(s, f \o x, k)'  BY <1>1, <1>4, Zenon DEF Paired
  <2> QED BY <2>1, Zenon
<1> QED BY <1>2, <1>3, <1>4, Zenon DEF Paired

(* ... and then so does the stream. *)
LEMMA SentMatched ==
  ASSUME LinkInv, NEW s \in Streams, Matched(s), pc[s] # "closed", pc'[s] # "closed",
         NEW x \in Seq(Cells), wire'[s] = wire[s] \o x, UNCHANGED << queue, pending, held >>,
         \A f \in Seq(Cells), k \in Nat :
           /\ Texts(f, k) /\ Ended(f, k) /\ s \notin peerClosed
           /\ surplus[s] = k - waiting(s)
           => \E m \in Nat : Paired(s, f \o x, m)',
         s \in peerClosed => s \in peerClosed',
         s \in peerClosed => \A k \in Nat : surplus[s] = k - waiting(s) =>
                                            surplus'[s] = k - waiting(s)'
  PROVE  Matched(s)'
<1>1. PICK f \in Seq(Cells), k \in Nat :
        Flows(pending[s], queue[s], carried(s), wire[s], f) /\ Paired(s, f, k)
  BY MatchedElim, Zenon
<1>2. f \o x \in Seq(Cells) /\ Flows(pending'[s], queue'[s], carried(s)', wire'[s], f \o x)
  BY <1>1, SentFlow, Zenon
<1>3. PICK m \in Nat : Paired(s, f \o x, m)'  BY <1>1, SentPaired, Zenon
<1> QED BY <1>2, <1>3, MatchedIntro, Zenon

(* On a stream that awaits its HEADERS the peer sends something else, ... *)
LEMMA SentBefore ==
  ASSUME LinkInv, NEW s \in Streams, Awaited(s), NEW x \in Seq(Cells), Headless(x, Len(x)),
         wire'[s] = wire[s] \o x, UNCHANGED << queue, pending, held >>,
         s \notin answered, s \notin answered', surplus'[s] = surplus[s],
         s \in peerClosed' <=> s \in peerClosed
  PROVE  Awaited(s)'
<1>1. PICK f \in Seq(Cells) :
        Flows(pending[s], queue[s], carried(s), wire[s], f) /\ Awaits(s, f)
  BY Zenon DEF Awaited
<1>2. f \o x \in Seq(Cells) /\ Flows(pending'[s], queue'[s], carried(s)', wire'[s], f \o x)
  BY <1>1, SentFlow, Zenon
<1>3. surplus[s] = 0 /\ s \notin peerClosed /\ Headless(f, Len(f))  BY <1>1, Zenon DEF Awaits
<1>4. Headless(f \o x, Len(f \o x))  BY <1>3, HeadlessMore, Zenon
<1>5. Awaits(s, f \o x)'  BY <1>3, <1>4, Zenon DEF Awaits
<1> QED BY <1>2, <1>5, AwaitedIntro, Zenon

(* ... the HEADERS, ... *)
LEMMA SentHeaders ==
  ASSUME LinkInv, NEW s \in Streams, Awaited(s), wire'[s] = wire[s] \o << "headers" >>,
         UNCHANGED << queue, pending, held >>, s \notin answered, s \in answered',
         surplus'[s] = surplus[s], s \in peerClosed' <=> s \in peerClosed, waiting(s)' = 0
  PROVE  Awaited(s)'
<1>1. PICK f \in Seq(Cells) :
        Flows(pending[s], queue[s], carried(s), wire[s], f) /\ Awaits(s, f)
  BY Zenon DEF Awaited
<1> DEFINE g == f \o << "headers" >>
<1>2. << "headers" >> \in Seq(Cells)  BY FrameCells, Zenon
<1>3. g \in Seq(Cells) /\ Flows(pending'[s], queue'[s], carried(s)', wire'[s], g)
  BY <1>1, <1>2, SentFlow, Zenon
<1>4. surplus[s] = 0 /\ s \notin peerClosed /\ Headless(f, Len(f))  BY <1>1, Zenon DEF Awaits
<1>5. Len(f) + 1 \in Nat /\ << >> \in Seq(Cells) /\ Headed(g, Len(f) + 1, << >>)
  BY <1>4, HeadedNow, Zenon
<1>6. 0 \in Nat /\ Texts(<< >>, 0) /\ Ended(<< >>, 0) /\ 0 = 0 - 0  BY SMT DEF Texts, Ended
<1>7. Paired(s, << >>, 0)'  BY <1>4, <1>6, Zenon DEF Paired
<1> HIDE DEF g
<1>8. Awaits(s, g)'  BY <1>5, <1>6, <1>7, Zenon DEF Awaits
<1> QED BY <1>3, <1>8, AwaitedIntro, Zenon

(* ... or, behind the HEADERS, what pairs up. *)
LEMMA SentBehind ==
  ASSUME LinkInv, NEW s \in Streams, Awaited(s), NEW x \in Seq(Cells),
         wire'[s] = wire[s] \o x, UNCHANGED << queue, pending, held >>,
         s \in answered, s \in answered',
         \A e \in Seq(Cells), k \in Nat : Paired(s, e, k) =>
           \E m \in Nat : Paired(s, e \o x, m)'
  PROVE  Awaited(s)'
<1>1. PICK f \in Seq(Cells) :
        Flows(pending[s], queue[s], carried(s), wire[s], f) /\ Awaits(s, f)
  BY Zenon DEF Awaited
<1>2. f \o x \in Seq(Cells) /\ Flows(pending'[s], queue'[s], carried(s)', wire'[s], f \o x)
  BY <1>1, SentFlow, Zenon
<1>3. PICK d \in Nat, e \in Seq(Cells) : Headed(f, d, e) /\ \E k \in Nat : Paired(s, e, k)
  BY <1>1, Zenon DEF Awaits
<1>4. e \o x \in Seq(Cells) /\ Headed(f \o x, d, e \o x)
  <2>1. e \o x \in Seq(Cells)  BY SMT
  <2> QED BY <1>3, <2>1, HeadedMore, Zenon
<1>5. \E m \in Nat : Paired(s, e \o x, m)'  BY <1>3, Zenon
<1>6. Awaits(s, f \o x)'  BY <1>4, <1>5, Zenon DEF Awaits
<1> QED BY <1>2, <1>6, AwaitedIntro, Zenon

(* The answers differ from each other. *)
LEMMA FramesDiffer ==
  /\ Frame("text") # Frame("close")
  /\ << "headers" >> # Frame("text") /\ << "headers" >> # Frame("close")
<1>1. "text" \in Kinds /\ "close" \in Kinds  BY Zenon DEF Kinds
<1>2. /\ Frame("text")[1] = "text" /\ Frame("close")[1] = "close"
      /\ << "headers" >>[1] = "headers"
  BY <1>1, FrameFacts, Ones, Zenon
<1> QED BY <1>2, Zenon

(* A frame holds no HEADERS. *)
LEMMA FrameHeadless ==
  ASSUME NEW kind \in {"text", "close"}
  PROVE  Headless(Frame(kind), Len(Frame(kind)))
<1>1. kind \in Kinds /\ kind # "headers"  BY Zenon DEF Kinds
<1>2. Len(Frame(kind)) = 2 /\ Frame(kind)[1] = kind /\ Frame(kind)[2] = "tail"
  BY <1>1, FrameFacts, Zenon
<1>3. \A i \in 1..2 : i = 1 \/ i = 2  BY SMT
<1> QED BY <1>1, <1>2, <1>3, Zenon DEF Headless

(* Arithmetic of the surplus. *)
LEMMA Minus ==
  /\ \A k \in Nat : k + 1 \in Nat /\ k = (k + 1) - 1 /\ (k - 0) = k /\ (k + 1) - 0 = k + 1
  /\ \A k \in Nat : (k - 0) - 1 = k - 1
BY SMT

(* A frame nobody asked for is counted in surplus: every stream still       *)
(* pairs up.                                                                *)
LEMMA UnsolicitedStep ==
  ASSUME LinkInv, WorkInv, \A t \in Streams : StreamAt(t), NEW s \in Streams,
         NEW kind \in {"text", "close"}, Unsolicited(s, kind)
  PROVE  \A t \in Streams : StreamAt(t)'
<1> DEFINE x == Frame(kind)
<1>1. /\ UNCHANGED << answered, held, queue, pending, pc, failure, opened, main >>
      /\ wire' = [wire EXCEPT ![s] = wire[s] \o x]
      /\ surplus' = [surplus EXCEPT ![s] = IF kind = "text" /\ s \in answered \ peerClosed
                                             THEN surplus[s] + 1 ELSE surplus[s]]
      /\ peerClosed' = IF kind = "close" THEN peerClosed \cup ({s} \cap answered)
                       ELSE peerClosed
  BY Zenon DEF Unsolicited, readVars, mainVars, workVars
<1>2. wire \in [Streams -> Seq(Cells)] /\ surplus \in [Streams -> Int]
  BY Zenon DEF LinkInv, LinkTypes, Channels
<1>3. /\ wire'[s] = wire[s] \o x
      /\ surplus'[s] = IF kind = "text" /\ s \in answered \ peerClosed THEN surplus[s] + 1
                       ELSE surplus[s]
      /\ \A t \in Streams \ {s} : wire'[t] = wire[t] /\ surplus'[t] = surplus[t]
  BY <1>1, <1>2, Zenon
<1>4. Only(s)  BY <1>1, <1>3, Zenon DEF Only, Same, Steady
<1>5. x \in Seq(Cells)  BY FrameCells, Zenon
<1>6. s \in peerClosed => s \in peerClosed' /\ surplus'[s] = surplus[s]  BY <1>1, <1>3, Zenon
<1>7. waiting(s)' = waiting(s) /\ waiting(s) \in {0, 1}  BY <1>1, Zenon DEF waiting
<1>12. UNCHANGED << queue, pending, held >>  BY <1>1, Zenon
<1>13. ASSUME s \in answered, NEW f \in Seq(Cells), NEW k \in Nat, Texts(f, k), Ended(f, k),
              s \notin peerClosed, surplus[s] = k - waiting(s)
       PROVE  \E m \in Nat : Paired(s, f \o x, m)'
  <2>1. CASE kind = "text"
    <3>1. surplus'[s] = surplus[s] + 1 /\ s \notin peerClosed'
      BY <1>1, <1>3, <1>13, <2>1, Zenon
    <3>2. \A a \in Nat, b \in {0, 1} : (a - b) + 1 = (a + 1) - b /\ a + 1 \in Nat  BY SMT
    <3>3. surplus'[s] = (k + 1) - waiting(s)' /\ k + 1 \in Nat
      BY <1>7, <1>13, <3>1, <3>2, Zenon
    <3>4. Texts(f \o x, k + 1) /\ Ended(f \o x, k + 1)  BY <1>13, <2>1, PairEnded, Zenon
    <3>5. Paired(s, f \o x, k + 1)'  BY <3>1, <3>3, <3>4, Zenon DEF Paired
    <3> QED BY <3>3, <3>5, Zenon
  <2>2. CASE kind = "close"
    <3>1. surplus'[s] = surplus[s] /\ s \in peerClosed'  BY <1>1, <1>3, <1>13, <2>2, Zenon
    <3>2. Texts(f \o x, k) /\ Closed(f \o x, k)
      BY <1>5, <1>13, <2>2, PairEnded, PairKept, Zenon
    <3>3. Paired(s, f \o x, k)'  BY <1>7, <1>13, <3>1, <3>2, Zenon DEF Paired
    <3> QED BY <3>3, Zenon
  <2> QED BY <2>1, <2>2, Zenon
<1>14. s \in peerClosed => \A k \in Nat : surplus[s] = k - waiting(s) =>
                                           surplus'[s] = k - waiting(s)'
  BY <1>6, <1>7, Zenon
<1>15. s \in peerClosed => s \in peerClosed'  BY <1>6, Zenon
<1>8. ASSUME s <= opened', failure'[s] = "none" PROVE Matched(s)'
  <2>1. Matched(s) /\ s \in answered  BY <1>1, <1>8, Zenon DEF StreamAt
  <2>2. CASE pc[s] = "closed"  BY <1>1, <1>6, <2>1, <2>2, Zenon DEF Matched
  <2>3. CASE pc[s] # "closed"
    <3>1. \A f \in Seq(Cells), k \in Nat :
            /\ Texts(f, k) /\ Ended(f, k) /\ s \notin peerClosed
            /\ surplus[s] = k - waiting(s)
            => \E m \in Nat : Paired(s, f \o x, m)'
      BY <1>13, <2>1, Zenon
    <3>2. pc'[s] # "closed"  BY <1>1, <2>3, Zenon
    <3> HIDE DEF x
    <3> QED BY <1>3, <1>5, <1>12, <1>14, <1>15, <2>1, <2>3, <3>1, <3>2, SentMatched, Zenon
  <2> QED BY <2>2, <2>3, Zenon
<1>9. ASSUME s > opened', main' \in Opening
      PROVE  /\ pending'[s] = << >> /\ Awaited(s)'
             /\ ~registered(s)' => queue'[s] = << >> /\ s \notin answered'
  <2>1. /\ pending[s] = << >> /\ Awaited(s)
        /\ ~registered(s) => queue[s] = << >> /\ s \notin answered
    BY <1>1, <1>9, Zenon DEF StreamAt
  <2>2. registered(s)' <=> registered(s)  BY <1>1, Zenon DEF registered, Next1
  <2>3. CASE s \in answered
    <3>1. ASSUME NEW e \in Seq(Cells), NEW k \in Nat, Paired(s, e, k)
          PROVE  \E m \in Nat : Paired(s, e \o x, m)'
      <4>1. /\ Texts(e, k) /\ Ended(e, k) /\ s \notin peerClosed
            /\ surplus[s] = k - waiting(s)
            => \E m \in Nat : Paired(s, e \o x, m)'
        BY <1>13, <2>3, Zenon
      <4> HIDE DEF x
      <4> QED BY <1>5, <1>14, <1>15, <3>1, <4>1, SentPaired, Zenon
    <3>2. s \in answered'  BY <1>1, <2>3, Zenon
    <3>3. \A e \in Seq(Cells), k \in Nat : Paired(s, e, k) =>
            \E m \in Nat : Paired(s, e \o x, m)'
      BY <3>1, Zenon
    <3> HIDE DEF x
    <3>4. Awaited(s)'  BY <1>3, <1>5, <1>12, <2>1, <2>3, <3>2, <3>3, SentBehind, Zenon
    <3> QED BY <1>1, <2>1, <2>2, <3>4, Zenon
  <2>4. CASE s \notin answered
    <3>1. Headless(x, Len(x))  BY FrameHeadless, Zenon
    <3>2. /\ s \notin answered' /\ surplus'[s] = surplus[s]
          /\ s \in peerClosed' <=> s \in peerClosed
      BY <1>1, <1>3, <2>4, Zenon
    <3> HIDE DEF x
    <3>3. Awaited(s)'  BY <1>3, <1>5, <1>12, <2>1, <2>4, <3>1, <3>2, SentBefore, Zenon
    <3> QED BY <1>1, <2>1, <2>2, <3>3, Zenon
  <2> QED BY <2>3, <2>4, Zenon
<1>10. StreamAt(s)'  BY <1>1, <1>8, <1>9, Zenon DEF StreamAt
<1> QED BY <1>4, <1>10, StreamTouched, Zenon

(* The HEADERS that the peer owes come late. *)
LEMMA LateHeadersStep ==
  ASSUME LinkInv, WorkInv, \A t \in Streams : StreamAt(t), NEW s \in Streams, LateHeaders(s)
  PROVE  \A t \in Streams : StreamAt(t)'
<1>1. /\ UNCHANGED << surplus, peerClosed, held, queue, pending, pc, failure, opened, main >>
      /\ wire' = [wire EXCEPT ![s] = Append(wire[s], "headers")]
      /\ registered(s) /\ s \notin answered /\ answered' = answered \cup {s}
  BY Zenon DEF LateHeaders, readVars, mainVars, workVars
<1>2. wire \in [Streams -> Seq(Cells)]  BY Zenon DEF LinkInv, LinkTypes
<1>3. /\ wire'[s] = wire[s] \o << "headers" >>
      /\ \A t \in Streams \ {s} : wire'[t] = wire[t]
  <2>1. wire[s] \in Seq(Cells) /\ "headers" \in Cells  BY <1>2, Zenon DEF Cells, Controls
  <2>2. Append(wire[s], "headers") = wire[s] \o << "headers" >>  BY <2>1, SMT
  <2> QED BY <1>1, <1>2, <2>2, Zenon
<1>4. Only(s)  BY <1>1, <1>3, Zenon DEF Only, Same, Steady
<1>5. ~(s <= opened')  BY <1>1, Zenon DEF StreamAt
<1>6. ASSUME s > opened', main' \in Opening
      PROVE  pending'[s] = << >> /\ Awaited(s)' /\ registered(s)'
  <2>1. pending[s] = << >> /\ Awaited(s)  BY <1>1, <1>6, Zenon DEF StreamAt
  <2>2. registered(s)'  BY <1>1, Zenon DEF registered, Next1
  <2>3. waiting(s)' = 0
    <3>1. pc[s] = "absent"  BY <1>1, <1>6, Zenon DEF WorkInv, Stages
    <3> QED BY <1>1, <3>1, Zenon DEF waiting
  <2>4. UNCHANGED << queue, pending, held >>  BY <1>1, Zenon
  <2>5. /\ s \in answered' /\ surplus'[s] = surplus[s]
        /\ s \in peerClosed' <=> s \in peerClosed
    BY <1>1, Zenon
  <2>6. Awaited(s)'  BY <1>1, <1>3, <2>1, <2>3, <2>4, <2>5, SentHeaders, Zenon
  <2> QED BY <1>1, <2>1, <2>2, <2>6, Zenon
<1>7. StreamAt(s)'  BY <1>5, <1>6, Zenon DEF StreamAt
<1> QED BY <1>4, <1>7, StreamTouched, Zenon

(* What an answer does to the stream it is sent on. *)
LEMMA Answered ==
  ASSUME LinkInv, NEW s \in Streams, NEW right, NEW wrong, Answer(s, right, wrong)
  PROVE  /\ \A t \in Streams \ {s} : wire'[t] = wire[t] /\ surplus'[t] = surplus[t]
         /\ \A t \in Streams \ {s} : t \in peerClosed' <=> t \in peerClosed
         /\ \A t \in Streams \ {s} : t \in answered' <=> t \in answered
         /\ \/ /\ wire'[s] = wire[s] \o right
               /\ answered' = IF right = << "headers" >> THEN answered \cup {s} ELSE answered
               /\ surplus'[s] = IF right = Frame("text") /\ s \in peerClosed
                                  THEN surplus[s] - 1 ELSE surplus[s]
               /\ peerClosed' = IF right = Frame("close") THEN peerClosed \cup {s} ELSE peerClosed
            \/ /\ \E w \in wrong : wire'[s] = wire[s] \o w
               /\ surplus'[s] = IF right = Frame("text") THEN surplus[s] - 1 ELSE surplus[s]
               /\ peerClosed' = peerClosed /\ answered' = answered
<1>1. wire \in [Streams -> Seq(Cells)] /\ surplus \in [Streams -> Int]
  BY Zenon DEF LinkInv, LinkTypes, Channels
<1>2. CASE /\ wire' = [wire EXCEPT ![s] = wire[s] \o right]
           /\ answered' = IF right = << "headers" >> THEN answered \cup {s} ELSE answered
           /\ surplus' = [surplus EXCEPT ![s] = IF right = Frame("text") /\ s \in peerClosed
                                                  THEN surplus[s] - 1 ELSE surplus[s]]
           /\ peerClosed' = IF right = Frame("close") THEN peerClosed \cup {s} ELSE peerClosed
  BY <1>1, <1>2, Zenon
<1>3. CASE /\ \E w \in wrong : wire' = [wire EXCEPT ![s] = wire[s] \o w]
           /\ surplus' = [surplus EXCEPT ![s] = IF right = Frame("text")
                                                  THEN surplus[s] - 1 ELSE surplus[s]]
           /\ peerClosed' = peerClosed /\ answered' = answered
  BY <1>1, <1>3, Zenon
<1>4. \/ /\ wire' = [wire EXCEPT ![s] = wire[s] \o right]
         /\ answered' = IF right = << "headers" >> THEN answered \cup {s} ELSE answered
         /\ surplus' = [surplus EXCEPT ![s] = IF right = Frame("text") /\ s \in peerClosed
                                                THEN surplus[s] - 1 ELSE surplus[s]]
         /\ peerClosed' = IF right = Frame("close") THEN peerClosed \cup {s} ELSE peerClosed
      \/ /\ \E w \in wrong : wire' = [wire EXCEPT ![s] = wire[s] \o w]
         /\ surplus' = [surplus EXCEPT ![s] = IF right = Frame("text")
                                                THEN surplus[s] - 1 ELSE surplus[s]]
         /\ peerClosed' = peerClosed /\ answered' = answered
  BY <1>1, Zenon DEF Answer
<1> QED BY <1>2, <1>3, <1>4, Zenon

(* The request of a new WebSocket is answered. *)
LEMMA OpenWebSocketStep ==
  ASSUME LinkInv, WorkInv, \A t \in Streams : StreamAt(t), OpenWebSocket
  PROVE  \A t \in Streams : StreamAt(t)'
<1> DEFINE wrong == {<< >>, << "refused" >>, << "reset" >>, Frame("text")}
<1>1. /\ UNCHANGED << held, queue, pending, pc, failure, opened >>
      /\ main = "opening" /\ main' = "headers" /\ main \in Opening
      /\ Answer(Next1, << "headers" >>, wrong)
  BY Zenon DEF OpenWebSocket, readVars, workVars, Opening
<1>2. Next1 \in Streams /\ opened \in Nat  BY <1>1, OpenNumbers, Zenon
<1>3. PICK u \in Streams : u = Next1  BY <1>2, Zenon
<1>4. /\ u > opened /\ Next1' = Next1
      /\ \A t \in Streams : (t <= opened' => t # u) /\ (t > opened => ~(t <= opened))
  <2>1. \A t \in Streams : t \in Nat  BY SessionAssumption, SMT DEF Streams
  <2> QED BY <1>1, <1>2, <1>3, <2>1, SMT DEF Next1
<1>5. \A t \in Streams : t > opened =>
        pending[t] = << >> /\ Awaited(t) /\ queue[t] = << >> /\ t \notin answered
  <2>1. \A t \in Streams : t > opened => ~registered(t)  BY <1>1, <1>4, Zenon DEF registered
  <2> QED BY <1>1, <2>1, Zenon DEF StreamAt
<1> HIDE DEF wrong
<1>6. /\ \A t \in Streams \ {u} : wire'[t] = wire[t] /\ surplus'[t] = surplus[t]
      /\ \A t \in Streams \ {u} : t \in peerClosed' <=> t \in peerClosed
      /\ \A t \in Streams \ {u} : t \in answered' <=> t \in answered
      /\ surplus'[u] = surplus[u] /\ peerClosed' = peerClosed
      /\ \/ wire'[u] = wire[u] \o << "headers" >> /\ u \in answered'
         \/ answered' = answered /\ \E x \in wrong : wire'[u] = wire[u] \o x
  BY <1>1, <1>3, Answered, FramesDiffer, Zenon
<1>7. \A t \in Streams \ {u} : Same(t) /\ Steady(t)  BY <1>1, <1>6, Zenon DEF Same, Steady
<1>8. \A t \in Streams : t <= opened' =>
        t \in answered' /\ (failure'[t] = "none" => Matched(t)')
  BY <1>1, <1>4, <1>7, MatchedKept, Zenon DEF StreamAt, Same
<1>9. \A t \in Streams \ {u} : t > opened' =>
        pending'[t] = << >> /\ Awaited(t)' /\ queue'[t] = << >> /\ t \notin answered'
  BY <1>1, <1>5, <1>7, AwaitedKept, Zenon DEF Same
<1>10. UNCHANGED << queue, pending, held >>  BY <1>1, Zenon
<1>11. Awaited(u)'
  <2>1. Awaited(u) /\ u \notin answered  BY <1>4, <1>5, Zenon
  <2>2. surplus'[u] = surplus[u] /\ (u \in peerClosed' <=> u \in peerClosed)  BY <1>6, Zenon
  <2>3. CASE wire'[u] = wire[u] \o << "headers" >> /\ u \in answered'
    <3>1. waiting(u)' = 0
      <4>1. pc[u] = "absent"  BY <1>1, Zenon DEF WorkInv, Stages
      <4> QED BY <1>1, <4>1, Zenon DEF waiting
    <3> QED BY <1>10, <2>1, <2>2, <2>3, <3>1, SentHeaders, Zenon
  <2>4. CASE answered' = answered /\ \E x \in wrong : wire'[u] = wire[u] \o x
    <3>1. PICK x \in wrong : wire'[u] = wire[u] \o x  BY <2>4, Zenon
    <3>2. x \in Seq(Cells)  BY FrameCells, Zenon DEF wrong
    <3>3. Headless(x, Len(x))
      <4>1. CASE x = << >>  BY <4>1, SMT DEF Headless
      <4>2. CASE x = << "refused" >>  BY <4>2, SMT DEF Headless
      <4>3. CASE x = << "reset" >>  BY <4>3, SMT DEF Headless
      <4>4. CASE x = Frame("text")  BY <4>4, FrameHeadless, Zenon
      <4> QED BY <4>1, <4>2, <4>3, <4>4, Zenon DEF wrong
    <3>4. u \notin answered'  BY <2>1, <2>4, Zenon
    <3> QED BY <1>10, <2>1, <2>2, <3>1, <3>2, <3>3, <3>4, SentBefore, Zenon
  <2> QED BY <1>6, <2>3, <2>4, Zenon
<1>12. registered(u)' /\ pending'[u] = << >>
  BY <1>1, <1>3, <1>4, <1>5, Zenon DEF registered
<1>13. \A t \in Streams : t > opened' =>
         /\ pending'[t] = << >> /\ Awaited(t)'
         /\ ~registered(t)' => queue'[t] = << >> /\ t \notin answered'
  BY <1>9, <1>11, <1>12, Zenon
<1> QED BY <1>8, <1>13, Zenon DEF StreamAt

(* A wrong answer is none, or nothing a goroutine takes for one. *)
LEMMA WrongEnded ==
  ASSUME NEW f \in Seq(Cells), NEW k \in Nat, Texts(f, k), Ended(f, k), NEW x \in WrongFrames
  PROVE  Texts(f \o x, k) /\ (Ended(f \o x, k) \/ Spoiled(f \o x, k))
<1>1. x \in Seq(Cells)  BY FrameCells, Zenon
<1>2. Texts(f \o x, k)  BY <1>1, PairKept, Zenon
<1>3. CASE x = << >>
  <2>1. f \o << >> = f  BY SMT
  <2> QED BY <1>2, <1>3, <2>1, Zenon
<1>4. CASE x # << >>
  <2>1. x = << "reset" >> \/ \E a \in {"other", "masked", "rsv"} : x = Frame(a)
    BY <1>4, Zenon DEF WrongFrames
  <2>2. Spoiled(f \o x, k)  BY <2>1, PairEnded, Zenon
  <2> QED BY <1>2, <2>2, Zenon
<1> QED BY <1>3, <1>4, Zenon

(* A message, or the close frame, is written and answered. *)
LEMMA WriteFrameStep ==
  ASSUME LinkInv, WorkInv, \A t \in Streams : StreamAt(t), NEW s \in Streams, WriteFrame(s)
  PROVE  \A t \in Streams : StreamAt(t)'
<1>1. /\ UNCHANGED << held, queue, pending, failure, opened, main >>
      /\ \/ /\ pc[s] = "write" /\ pc' = [pc EXCEPT ![s] = "read"]
            /\ Answer(s, Frame("text"), WrongFrames)
         \/ /\ pc[s] = "closeWrite" /\ pc' = [pc EXCEPT ![s] = "closeRead"]
            /\ Answer(s, Frame("close"), WrongFrames)
  BY Zenon DEF WriteFrame, readVars, mainVars
<1>2. pc \in [Streams -> Working \cup Closing \cup {"absent"}]
  BY Zenon DEF WorkInv, MainTypes
<1>3. main \in {"collecting", "closing"} /\ s <= opened  BY <1>1, Places, Zenon
<1>4. main' \notin Opening  BY <1>1, <1>3, Zenon DEF Opening
<1>5. /\ \A t \in Streams \ {s} : wire'[t] = wire[t] /\ surplus'[t] = surplus[t]
      /\ \A t \in Streams \ {s} : t \in peerClosed' <=> t \in peerClosed
      /\ \A t \in Streams \ {s} : t \in answered' <=> t \in answered
      /\ answered' = answered
  BY <1>1, Answered, FramesDiffer, Zenon
<1>6. \A t \in Streams \ {s} : pc'[t] = pc[t]  BY <1>1, <1>2, Zenon
<1>7. Only(s)  BY <1>1, <1>4, <1>5, <1>6, Zenon DEF Only, Same, Steady
<1>8. surplus[s] \in Int  BY Flowing, Zenon
<1>9. ASSUME failure'[s] = "none" PROVE Matched(s)'
  <2>1. Matched(s)  BY <1>1, <1>3, <1>9, Zenon DEF StreamAt
  <2>2. CASE pc[s] = "write" /\ pc' = [pc EXCEPT ![s] = "read"]
             /\ Answer(s, Frame("text"), WrongFrames)
    <3>1. pc'[s] = "read" /\ pc[s] # "closed" /\ pc'[s] # "closed"  BY <1>2, <2>2, Zenon
    <3>2. waiting(s) = 0 /\ waiting(s)' = 1  BY <2>2, <3>1, Zenon DEF waiting
    <3>3. \/ /\ wire'[s] = wire[s] \o Frame("text")
             /\ surplus'[s] = IF s \in peerClosed THEN surplus[s] - 1 ELSE surplus[s]
             /\ peerClosed' = peerClosed
          \/ /\ \E w \in WrongFrames : wire'[s] = wire[s] \o w
             /\ surplus'[s] = surplus[s] - 1
             /\ peerClosed' = peerClosed
      BY <2>2, Answered, FramesDiffer, Zenon
    <3>5. s \in peerClosed => \A k \in Nat : surplus[s] = k - waiting(s) =>
                                             surplus'[s] = k - waiting(s)'
      BY <3>2, <3>3, Minus, Zenon
    <3>6. peerClosed' = peerClosed /\ UNCHANGED << queue, pending, held >>
      BY <1>1, <3>3, Zenon
    <3>7. CASE /\ wire'[s] = wire[s] \o Frame("text")
               /\ surplus'[s] = IF s \in peerClosed THEN surplus[s] - 1 ELSE surplus[s]
      <4> DEFINE x == Frame("text")
      <4>1. x \in Seq(Cells)  BY FrameCells, Zenon
      <4>2. ASSUME NEW f \in Seq(Cells), NEW k \in Nat, Texts(f, k), Ended(f, k),
                   s \notin peerClosed, surplus[s] = k - waiting(s)
            PROVE  \E m \in Nat : Paired(s, f \o x, m)'
        <5>1. surplus'[s] = k  BY <3>2, <3>7, <4>2, Minus, Zenon
        <5>2. surplus'[s] = (k + 1) - waiting(s)' /\ k + 1 \in Nat
          BY <3>2, <5>1, Minus, Zenon
        <5>3. Texts(f \o x, k + 1) /\ Ended(f \o x, k + 1)  BY <4>2, PairEnded, Zenon
        <5>4. s \notin peerClosed'  BY <3>6, <4>2, Zenon
        <5>5. Paired(s, f \o x, k + 1)'  BY <5>2, <5>3, <5>4, Zenon DEF Paired
        <5> QED BY <5>2, <5>5, Zenon
      <4>3. \A f \in Seq(Cells), k \in Nat :
              /\ Texts(f, k) /\ Ended(f, k) /\ s \notin peerClosed
              /\ surplus[s] = k - waiting(s)
              => \E m \in Nat : Paired(s, f \o x, m)'
        BY <4>2, Zenon
      <4>4. wire'[s] = wire[s] \o x  BY <3>7, Zenon
      <4> HIDE DEF x
      <4> QED BY <2>1, <3>1, <3>5, <3>6, <4>1, <4>3, <4>4, SentMatched, Zenon
    <3>8. CASE /\ \E w \in WrongFrames : wire'[s] = wire[s] \o w
               /\ surplus'[s] = surplus[s] - 1
      <4>1. PICK x \in WrongFrames : wire'[s] = wire[s] \o x  BY <3>8, Zenon
      <4>2. x \in Seq(Cells)  BY FrameCells, Zenon
      <4>3. ASSUME NEW f \in Seq(Cells), NEW k \in Nat, Texts(f, k), Ended(f, k),
                   s \notin peerClosed, surplus[s] = k - waiting(s)
            PROVE  \E m \in Nat : Paired(s, f \o x, m)'
        <5>1. surplus'[s] = k - waiting(s)'
          <6>1. surplus[s] = k - 0  BY <3>2, <4>3, Zenon
          <6> QED BY <3>2, <3>8, <6>1, Minus, Zenon
        <5>2. Texts(f \o x, k) /\ (Ended(f \o x, k) \/ Spoiled(f \o x, k))
          BY <4>3, WrongEnded, Zenon
        <5>3. s \notin peerClosed'  BY <3>6, <4>3, Zenon
        <5>4. Paired(s, f \o x, k)'  BY <5>1, <5>2, <5>3, Zenon DEF Paired
        <5> QED BY <5>4, Zenon
      <4>4. \A f \in Seq(Cells), k \in Nat :
              /\ Texts(f, k) /\ Ended(f, k) /\ s \notin peerClosed
              /\ surplus[s] = k - waiting(s)
              => \E m \in Nat : Paired(s, f \o x, m)'
        BY <4>3, Zenon
      <4> QED BY <2>1, <3>1, <3>5, <3>6, <4>1, <4>2, <4>4, SentMatched, Zenon
    <3> QED BY <3>3, <3>7, <3>8, Zenon
  <2>3. CASE pc[s] = "closeWrite" /\ pc' = [pc EXCEPT ![s] = "closeRead"]
             /\ Answer(s, Frame("close"), WrongFrames)
    <3>1. pc'[s] = "closeRead" /\ pc[s] # "closed" /\ pc'[s] # "closed"  BY <1>2, <2>3, Zenon
    <3>2. waiting(s)' = waiting(s)  BY <2>3, <3>1, Zenon DEF waiting
    <3>3. /\ surplus'[s] = surplus[s]
          /\ \/ wire'[s] = wire[s] \o Frame("close") /\ peerClosed' = peerClosed \cup {s}
             \/ /\ \E w \in WrongFrames : wire'[s] = wire[s] \o w
                /\ peerClosed' = peerClosed
      <4> DEFINE r == Frame("close")
      <4>1. /\ r # Frame("text") /\ Answer(s, r, WrongFrames)  BY <2>3, FramesDiffer, Zenon
      <4>2. r = Frame("close")  BY Zenon
      <4> HIDE DEF r
      <4>3. \/ /\ wire'[s] = wire[s] \o r
               /\ answered' = IF r = << "headers" >> THEN answered \cup {s} ELSE answered
               /\ surplus'[s] = IF r = Frame("text") /\ s \in peerClosed
                                  THEN surplus[s] - 1 ELSE surplus[s]
               /\ peerClosed' = IF r = Frame("close") THEN peerClosed \cup {s} ELSE peerClosed
            \/ /\ \E w \in WrongFrames : wire'[s] = wire[s] \o w
               /\ surplus'[s] = IF r = Frame("text") THEN surplus[s] - 1 ELSE surplus[s]
               /\ peerClosed' = peerClosed /\ answered' = answered
        BY <4>1, Answered, Zenon
      <4>4. surplus'[s] = surplus[s]  BY <4>1, <4>3, Zenon
      <4>5. \/ wire'[s] = wire[s] \o r /\ peerClosed' = peerClosed \cup {s}
            \/ (\E w \in WrongFrames : wire'[s] = wire[s] \o w) /\ peerClosed' = peerClosed
        BY <4>2, <4>3, Zenon
      <4> QED BY <4>2, <4>4, <4>5, Zenon
    <3>4. s \in peerClosed => \A k \in Nat : surplus[s] = k - waiting(s) =>
                                             surplus'[s] = k - waiting(s)'
      BY <3>2, <3>3, Zenon
    <3>5. UNCHANGED << queue, pending, held >> /\ (s \in peerClosed => s \in peerClosed')
      BY <1>1, <3>3, Zenon
    <3>6. CASE wire'[s] = wire[s] \o Frame("close") /\ peerClosed' = peerClosed \cup {s}
      <4> DEFINE x == Frame("close")
      <4>1. x \in Seq(Cells)  BY FrameCells, Zenon
      <4>2. ASSUME NEW f \in Seq(Cells), NEW k \in Nat, Texts(f, k), Ended(f, k),
                   s \notin peerClosed, surplus[s] = k - waiting(s)
            PROVE  \E m \in Nat : Paired(s, f \o x, m)'
        <5>1. surplus'[s] = k - waiting(s)' /\ s \in peerClosed'
          BY <3>2, <3>3, <3>6, <4>2, Zenon
        <5>2. Texts(f \o x, k) /\ Closed(f \o x, k)
          BY <4>1, <4>2, PairKept, PairEnded, Zenon
        <5>3. Paired(s, f \o x, k)'  BY <5>1, <5>2, Zenon DEF Paired
        <5> QED BY <5>3, Zenon
      <4>3. \A f \in Seq(Cells), k \in Nat :
              /\ Texts(f, k) /\ Ended(f, k) /\ s \notin peerClosed
              /\ surplus[s] = k - waiting(s)
              => \E m \in Nat : Paired(s, f \o x, m)'
        BY <4>2, Zenon
      <4>4. wire'[s] = wire[s] \o x  BY <3>6, Zenon
      <4> HIDE DEF x
      <4> QED BY <2>1, <3>1, <3>4, <3>5, <4>1, <4>3, <4>4, SentMatched, Zenon
    <3>7. CASE /\ \E w \in WrongFrames : wire'[s] = wire[s] \o w
               /\ peerClosed' = peerClosed
      <4>1. PICK x \in WrongFrames : wire'[s] = wire[s] \o x  BY <3>7, Zenon
      <4>2. x \in Seq(Cells)  BY FrameCells, Zenon
      <4>3. ASSUME NEW f \in Seq(Cells), NEW k \in Nat, Texts(f, k), Ended(f, k),
                   s \notin peerClosed, surplus[s] = k - waiting(s)
            PROVE  \E m \in Nat : Paired(s, f \o x, m)'
        <5>1. surplus'[s] = k - waiting(s)' /\ s \notin peerClosed'
          BY <3>2, <3>3, <3>7, <4>3, Zenon
        <5>2. Texts(f \o x, k) /\ (Ended(f \o x, k) \/ Spoiled(f \o x, k))
          BY <4>3, WrongEnded, Zenon
        <5>3. Paired(s, f \o x, k)'  BY <5>1, <5>2, Zenon DEF Paired
        <5> QED BY <5>3, Zenon
      <4>4. \A f \in Seq(Cells), k \in Nat :
              /\ Texts(f, k) /\ Ended(f, k) /\ s \notin peerClosed
              /\ surplus[s] = k - waiting(s)
              => \E m \in Nat : Paired(s, f \o x, m)'
        BY <4>3, Zenon
      <4> QED BY <2>1, <3>1, <3>4, <3>5, <4>1, <4>2, <4>4, SentMatched, Zenon
    <3> QED BY <3>3, <3>6, <3>7, Zenon
  <2> QED BY <1>1, <2>2, <2>3, Zenon
<1>10. StreamAt(s)'  BY <1>1, <1>4, <1>5, <1>9, Zenon DEF StreamAt
<1> QED BY <1>7, <1>10, StreamTouched, Zenon

-----------------------------------------------------------------------------
(* A close comes first only after every text, and then nothing spoils it. *)
LEMMA CloseFirst ==
  ASSUME NEW f \in Seq(Cells), NEW k \in Nat, Texts(f, k), Len(f) >= 2, f[1] = "close",
         Ended(f, k) \/ Closed(f, k) \/ Spoiled(f, k)
  PROVE  k = 0 /\ ~Ended(f, k) /\ ~Spoiled(f, k)
<1>1. k = 0  BY PairFirst, Zenon
<1>2. 2 * 0 = 0 /\ 2 * 0 + 1 = 1 /\ Len(f) # 0  BY SMT
<1>3. ~Ended(f, 0) /\ ~Spoiled(f, 0)  BY <1>2, Zenon DEF Ended, Spoiled
<1> QED BY <1>1, <1>3, Zenon

(* After part of a frame header comes data, or the stream is reset. *)
LEMMA NextUnit ==
  ASSUME NEW f \in Seq(Cells), NEW k \in Nat, Texts(f, k),
         Ended(f, k) \/ Closed(f, k) \/ Spoiled(f, k),
         NEW p \in Seq(Units), ~(Len(p) >= 2), Len(p) + 1 <= Len(f),
         \A j \in 1..Len(p) : f[j] = p[j]
  PROVE  f[Len(p) + 1] \notin Controls \/ f[Len(p) + 1] = "reset"
<1>1. \/ f[1] = "text" /\ f[2] = "tail"
      \/ Len(f) = 0
      \/ f[1] = "close" /\ f[2] = "tail"
      \/ f[1] = "reset"
      \/ f[1] \in {"other", "masked", "rsv"} /\ f[2] = "tail"
  BY PairFirst, Zenon
<1>2. /\ {"text", "tail", "close", "other", "masked", "rsv"} \cap Controls = {}
      /\ "reset" \notin Units
  BY Zenon DEF Controls, Units, Kinds
<1>3. Len(f) # 0 /\ (Len(p) = 0 \/ Len(p) = 1) /\ 0 + 1 = 1 /\ 1 + 1 = 2
  <2>1. Len(f) \in Nat /\ Len(p) \in Nat  BY SMT
  <2>2. \A a, b \in Nat : ~(a >= 2) /\ a + 1 <= b => b # 0 /\ (a = 0 \/ a = 1)  BY SMT
  <2>3. 0 + 1 = 1 /\ 1 + 1 = 2  BY SMT
  <2> QED BY <2>1, <2>2, <2>3, Zenon
<1>4. CASE Len(p) = 0  BY <1>1, <1>2, <1>3, <1>4, Zenon
<1>5. CASE Len(p) = 1
  <2>1. p[1] \in Units /\ 1 \in 1..Len(p)  BY <1>5, SMTT(30)
  <2>2. f[1] # "reset"  BY <1>2, <2>1, Zenon
  <2> QED BY <1>1, <1>2, <1>3, <1>5, <2>2, Zenon
<1> QED BY <1>3, <1>4, <1>5, Zenon

(* A frame is taken from what the goroutine of s holds. *)
LEMMA TakeFrameStep ==
  ASSUME LinkInv, WorkInv, \A t \in Streams : StreamAt(t), NEW s \in Streams, TakeFrame(s)
  PROVE  \A t \in Streams : StreamAt(t)'
<1> DEFINE p == pending[s]
           q == queue[s]
           h == carried(s)
           w == wire[s]
           r == SubSeq(p, 3, Len(p))
<1>1. /\ UNCHANGED << wire, answered, surplus, peerClosed, held, queue, opened, main, mainVars >>
      /\ pc[s] \in {"read", "closeRead"} /\ Len(p) >= 2
      /\ pending' = [pending EXCEPT ![s] = r]
  BY Zenon DEF TakeFrame, Reading, Parsed, linkVars, readVars, mainVars
<1>2. /\ pending \in [Streams -> Seq(Units)]
      /\ pc \in [Streams -> Working \cup Closing \cup {"absent"}]
  BY Zenon DEF LinkInv, Channels, WorkInv, MainTypes
<1>3. pending'[s] = r /\ \A t \in Streams \ {s} : pending'[t] = pending[t]
  BY <1>1, <1>2, Zenon
<1>4. \A t \in Streams \ {s} : Same(t)  BY <1>1, <1>3, Zenon DEF Same
<1>5. main \in {"collecting", "closing"} /\ s <= opened  BY <1>1, Places, Zenon
<1>6. main' \notin Opening  BY <1>1, <1>5, Zenon DEF Opening
<1>7. CASE Fail(s, "failed")
  <2>1. pc[s] \in {"write", "read", "closeWrite", "closeRead"} /\ UNCHANGED mainVars
    BY <1>1, Zenon
  <2> QED BY <1>1, <1>4, <1>7, <2>1, FailStep, Zenon
<1>8. /\ p \in Seq(Cells) /\ q \in Seq(Seq(Cells)) /\ h \in Seq(Cells) /\ w \in Seq(Cells)
      /\ surplus[s] \in Int
  BY Flowing, Zenon
<1>9. carried(s)' = h  BY <1>1, Zenon DEF carried
<1>10. ASSUME failure[s] = "none"
       PROVE  \E f \in Seq(Cells), k \in Nat :
                /\ Flows(p, q, h, w, f) /\ Paired(s, f, k)
                /\ Len(f) >= 2 /\ f[1] = Head(p)
  <2>1. Matched(s) /\ pc[s] # "closed"  BY <1>1, <1>5, <1>10, Zenon DEF StreamAt
  <2>2. PICK f \in Seq(Cells), k \in Nat : Flows(p, q, h, w, f) /\ Paired(s, f, k)
    BY <2>1, MatchedElim, Zenon
  <2> HIDE DEF p, q, h, w
  <2>3. Len(p) <= Len(f) /\ \A j \in 1..Len(p) : f[j] = p[j]
    <3>1. p \in Seq(Cells) /\ q \in Seq(Seq(Cells))  BY <1>8, Zenon
    <3>2. h \in Seq(Cells) /\ w \in Seq(Cells)  BY <1>8, Zenon
    <3>3. Flows(p, q, h, w, f)  BY <2>2, Zenon
    <3> QED BY <3>1, <3>2, <3>3, FlowHeld, SMT
  <2>4. Len(f) >= 2 /\ 1 \in 1..Len(p) /\ Head(p) = p[1]  BY <1>1, <1>8, <2>3, SMT
  <2> QED BY <2>2, <2>3, <2>4, Zenon
<1>11. CASE pc[s] = "read" /\ Head(p) = "text" /\ TextTaken(s)
  <2>1. /\ UNCHANGED failure
        /\ \E v \in {"write", "send", "loop"} : pc' = [pc EXCEPT ![s] = v]
    BY <1>11, Zenon DEF TextTaken
  <2>2. pc'[s] \in {"write", "send", "loop"} /\ \A t \in Streams \ {s} : pc'[t] = pc[t]
    BY <1>2, <2>1, Zenon
  <2>3. Only(s)  BY <1>1, <1>4, <1>6, <2>1, <2>2, Zenon DEF Only, Steady
  <2>4. ASSUME failure'[s] = "none" PROVE Matched(s)'
    <3>1. PICK f \in Seq(Cells), k \in Nat :
            Flows(p, q, h, w, f) /\ Paired(s, f, k) /\ Len(f) >= 2 /\ f[1] = "text"
      BY <1>10, <1>11, <2>1, <2>4, Zenon
    <3> DEFINE g == SubSeq(f, 3, Len(f))
    <3>2. Texts(f, k) /\ (Ended(f, k) \/ Closed(f, k) \/ Spoiled(f, k))
      BY <3>1, Zenon DEF Paired
    <3>3. k # 0
      <4>1. Len(f) # 0  BY <3>1, SMT
      <4> QED BY <3>1, <3>2, <4>1, PairFirst, Zenon
    <3>4. /\ k - 1 \in Nat /\ Texts(g, k - 1)
          /\ Ended(f, k) => Ended(g, k - 1)
          /\ Closed(f, k) => Closed(g, k - 1)
          /\ Spoiled(f, k) => Spoiled(g, k - 1)
      BY <3>2, <3>3, PairParsed, Zenon
    <3>5. g \in Seq(Cells)
      <4>1. Len(f) \in Nat  BY SMT
      <4> QED BY <4>1, SMT
    <3>6. waiting(s) = 1 /\ waiting(s)' = 0  BY <1>11, <2>2, Zenon DEF waiting
    <3>7. \A a \in Nat : a - 1 = (a - 1) - 0  BY SMT
    <3>8. surplus[s] = k - waiting(s) => surplus'[s] = (k - 1) - waiting(s)'
      <4>1. surplus[s] = k - waiting(s) => surplus[s] = k - 1  BY <3>6, Zenon
      <4>2. k - 1 = (k - 1) - 0  BY <3>7, Zenon
      <4> QED BY <1>1, <3>6, <4>1, <4>2, Zenon
    <3> HIDE DEF g
    <3>9. Paired(s, g, k - 1)'  BY <1>1, <3>1, <3>4, <3>8, Zenon DEF Paired
    <3>10. Flows(pending'[s], queue'[s], carried(s)', wire'[s], g)
      <4>1. r = SubSeq(p, 3, Len(p)) /\ g = SubSeq(f, 3, Len(f))  BY Zenon DEF g
      <4>2. Flows(p, q, h, w, f) /\ Len(p) >= 2  BY <1>1, <3>1, Zenon
      <4>3. pending'[s] = r /\ queue'[s] = q /\ wire'[s] = w  BY <1>1, <1>3, Zenon
      <4> HIDE DEF p, q, h, w, r
      <4>4. Flows(r, q, h, w, g)  BY <1>8, <4>1, <4>2, FlowParse, Zenon
      <4> QED BY <1>9, <4>3, <4>4, Zenon
    <3>11. pc'[s] # "closed"  BY <2>2, Zenon
    <3> QED BY <3>4, <3>5, <3>9, <3>10, <3>11, MatchedIntro, Zenon
  <2>5. StreamAt(s)'  BY <1>1, <1>6, <2>4, Zenon DEF StreamAt
  <2> QED BY <2>3, <2>5, StreamTouched, Zenon
<1>12. CASE pc[s] = "closeRead" /\ Head(p) = "close" /\ CloseTaken(s)
  <2>1. UNCHANGED failure /\ pc' = [pc EXCEPT ![s] = "closed"]  BY <1>12, Zenon DEF CloseTaken
  <2>2. pc'[s] = "closed" /\ \A t \in Streams \ {s} : pc'[t] = pc[t]  BY <1>2, <2>1, Zenon
  <2>3. Only(s)  BY <1>1, <1>4, <1>6, <2>1, <2>2, Zenon DEF Only, Steady
  <2>4. ASSUME failure'[s] = "none" PROVE Matched(s)'
    <3>1. PICK f \in Seq(Cells), k \in Nat :
            Paired(s, f, k) /\ Len(f) >= 2 /\ f[1] = "close"
      BY <1>10, <1>12, <2>1, <2>4, Zenon
    <3>2. k = 0 /\ ~Ended(f, k) /\ ~Spoiled(f, k)  BY <3>1, CloseFirst, Zenon DEF Paired
    <3>3. s \in peerClosed /\ surplus[s] = 0 - waiting(s)  BY <3>1, <3>2, Zenon DEF Paired
    <3>4. waiting(s) = 0 /\ 0 - 0 = 0
      <4>1. waiting(s) = 0  BY <1>12, Zenon DEF waiting
      <4> QED BY <4>1, SMT
    <3> QED BY <1>1, <2>2, <3>3, <3>4, Zenon DEF Matched
  <2>5. StreamAt(s)'  BY <1>1, <1>6, <2>4, Zenon DEF StreamAt
  <2> QED BY <2>3, <2>5, StreamTouched, Zenon
<1> QED BY <1>7, <1>11, <1>12, FrameTaken, Zenon

(* The goroutine of s takes an event from its channel. *)
LEMMA TakeEventStep ==
  ASSUME LinkInv, WorkInv, \A t \in Streams : StreamAt(t), NEW s \in Streams, TakeEvent(s)
  PROVE  \A t \in Streams : StreamAt(t)'
<1> DEFINE p == pending[s]
           q == queue[s]
           h == carried(s)
           w == wire[s]
           event == Head(q)
<1>1. /\ UNCHANGED << wire, answered, surplus, peerClosed, held, opened, main, mainVars >>
      /\ pc[s] \in {"read", "closeRead"} /\ ~(Len(p) >= 2) /\ q # << >>
      /\ queue' = [queue EXCEPT ![s] = Tail(@)]
      /\ \/ event = << "reset" >> /\ Fail(s, "failed") /\ UNCHANGED pending
         \/ /\ event # << "reset" >> /\ UNCHANGED << pc, failure >>
            /\ pending' = [pending EXCEPT ![s] = IF event[1] \in Controls THEN p ELSE p \o event]
  BY Zenon DEF TakeEvent, Reading, Parsed, linkVars, mainVars
<1>2. pending \in [Streams -> Seq(Units)]  BY Zenon DEF LinkInv, Channels
<1>3. /\ queue'[s] = Tail(q) /\ q \in Seq(Seq(Cells)) /\ Event(event)
      /\ event \in Seq(Cells) /\ Tail(q) \in Seq(Seq(Cells))
      /\ \A t \in Streams \ {s} : queue'[t] = queue[t]
  BY <1>1, TakenQueue, Zenon
<1>4. \A t \in Streams \ {s} : pending'[t] = pending[t]  BY <1>1, <1>2, Zenon
<1>5. \A t \in Streams \ {s} : Same(t)  BY <1>1, <1>3, <1>4, Zenon DEF Same
<1>6. main \in {"collecting", "closing"} /\ s <= opened  BY <1>1, Places, Zenon
<1>7. main' \notin Opening  BY <1>1, <1>6, Zenon DEF Opening
<1>8. CASE Fail(s, "failed")
  <2>1. pc[s] \in {"write", "read", "closeWrite", "closeRead"} /\ UNCHANGED mainVars
    BY <1>1, Zenon
  <2> QED BY <1>1, <1>5, <1>8, <2>1, FailStep, Zenon
<1>9. CASE /\ event # << "reset" >> /\ UNCHANGED << pc, failure >>
           /\ pending' = [pending EXCEPT ![s] = IF event[1] \in Controls THEN p ELSE p \o event]
  <2>1. Only(s)  BY <1>1, <1>5, <1>7, <1>9, Zenon DEF Only, Steady
  <2>2. ASSUME failure'[s] = "none" PROVE Matched(s)'
    <3>1. Matched(s) /\ pc[s] # "closed" /\ pc'[s] # "closed"
      BY <1>1, <1>6, <1>9, <2>2, Zenon DEF StreamAt
    <3>2. PICK f \in Seq(Cells), k \in Nat : Flows(p, q, h, w, f) /\ Paired(s, f, k)
      BY <3>1, MatchedElim, Zenon
    <3>3. /\ p \in Seq(Units) /\ p \in Seq(Cells) /\ h \in Seq(Cells) /\ w \in Seq(Cells)
      BY Flowing, Zenon
    <3>4. event # << >> /\ (event[1] \in Controls => event = << event[1] >>)
      BY <1>3, EventUnits, Zenon
    <3>5. carried(s)' = h  BY <1>1, Zenon DEF carried
    <3>6. Paired(s, f, k)'  BY <1>1, <1>9, <3>2, Zenon DEF Paired, waiting
    <3>7. Texts(f, k) /\ (Ended(f, k) \/ Closed(f, k) \/ Spoiled(f, k))
      BY <3>2, Zenon DEF Paired
    <3>8. /\ Flows(p, q, h, w, f) /\ q \in Seq(Seq(Cells)) /\ q # << >> /\ ~(Len(p) >= 2)
      BY <1>1, <1>3, <3>2, Zenon
    <3>9. pending'[s] = IF event[1] \in Controls THEN p ELSE p \o event  BY <1>2, <1>9, Zenon
    <3>10. wire'[s] = w  BY <1>1, Zenon
    <3> HIDE DEF p, q, h, w
    <3>11. Len(p) + 1 <= Len(f) /\ f[Len(p) + 1] = event[1]
      BY <3>3, <3>4, <3>8, FlowNext, SMT
    <3>12. \A j \in 1..Len(p) : f[j] = p[j]  BY <3>3, <3>8, FlowHeld, SMT
    <3>13. event[1] \notin Controls
      <4>1. event[1] \notin Controls \/ event[1] = "reset"
        BY <3>3, <3>7, <3>8, <3>11, <3>12, NextUnit, Zenon
      <4> QED BY <1>9, <3>4, <4>1, Zenon
    <3>14. Flows(p \o event, Tail(q), h, w, f)  BY <3>3, <3>8, FlowTake, Zenon
    <3>15. Flows(pending'[s], queue'[s], carried(s)', wire'[s], f)
      BY <1>3, <3>5, <3>9, <3>10, <3>13, <3>14, Zenon
    <3> QED BY <3>1, <3>6, <3>15, MatchedIntro, Zenon
  <2>3. StreamAt(s)'  BY <1>1, <1>7, <2>2, Zenon DEF StreamAt
  <2> QED BY <2>1, <2>3, StreamTouched, Zenon
<1> QED BY <1>1, <1>8, <1>9, Zenon

-----------------------------------------------------------------------------
(* Every step keeps the parts of the connection and of the streams. *)
LEMMA LinkOfReader ==
  ASSUME LinkInv, WorkInv, Dialing, openH2Session \/ ReaderStep \/ PeerStep
  PROVE  LinkInv'
<1>1. CASE openH2Session \/ Break \/ ReaderStops  BY <1>1, ReaderLink, Zenon
<1>2. CASE ReaderStep  BY <1>2, DispatchLink, ReadControlLink, ReadDataLink, Zenon DEF ReaderStep
<1>3. CASE \E s \in Streams, kind \in {"text", "close"} : Unsolicited(s, kind)
  BY <1>3, UnsolicitedLink, Zenon
<1>4. CASE \E s \in Streams : LateHeaders(s)  BY <1>4, LateHeadersLink, Zenon
<1> QED BY <1>1, <1>2, <1>3, <1>4, Zenon DEF PeerStep

(* Every step of main keeps the connection's part. *)
LEMMA LinkOfMain ==
  ASSUME LinkInv, WorkInv, MainStep \/ Expire
  PROVE  LinkInv'
<1>1. CASE OpenWebSocket  BY <1>1, OpenWebSocketLink, Zenon
<1>2. CASE ResponseHeaders  BY <1>2, ResponseHeadersLink, Zenon
<1>3. CASE \/ OpenFails \/ StartPhase \/ EndPhase \/ EndClose \/ Report \/ Expire
           \/ \E s \in Streams : Collect(s)
  <2>1. UNCHANGED << peerVars, linkVars, readVars, pending >>
    BY <1>3, Zenon DEF OpenFails, StartPhase, EndPhase, EndClose, Report, Collect, Expire, workVars
  <2> QED BY <2>1, LinkKept, Zenon
<1> QED BY <1>1, <1>2, <1>3, Zenon DEF MainStep

(* Every step of a goroutine keeps the connection's part. *)
LEMMA LinkOfStream ==
  ASSUME LinkInv, NEW s \in Streams, StreamStep(s)
  PROVE  LinkInv'
<1>1. CASE \/ Enter(s) \/ LoadPeak(s) \/ SwapPeak(s) \/ BeginGroup(s) \/ EndLoop(s)
           \/ WriteFails(s) \/ ReadFails(s) \/ Send(s) \/ Leave(s)
  <2>1. UNCHANGED << peerVars, linkVars, readVars, pending >>
    BY <1>1, Zenon DEF Enter, LoadPeak, SwapPeak, BeginGroup, EndLoop, WriteFails, ReadFails,
                       Send, Leave
  <2> QED BY <2>1, LinkKept, Zenon
<1>2. CASE WriteFrame(s) \/ TakeFrame(s) \/ TakeEvent(s)
  BY <1>2, WriteFrameLink, TakeFrameLink, TakeEventLink, Zenon
<1> QED BY <1>1, <1>2, Zenon DEF StreamStep

(* Every step of the reader and of the peer keeps the streams paired up. *)
LEMMA StreamsOfReader ==
  ASSUME LinkInv, WorkInv, \A t \in Streams : StreamAt(t),
         openH2Session \/ ReaderStep \/ PeerStep \/ Expire
  PROVE  \A t \in Streams : StreamAt(t)'
<1>1. CASE openH2Session \/ Break \/ ReaderStops \/ Expire  BY <1>1, OtherSteps, Zenon
<1>2. CASE dispatch  BY <1>2, DispatchStep, Zenon
<1>3. CASE \E s \in Streams : ReadControl(s)  BY <1>3, ReadControlStep, Zenon
<1>4. CASE \E s \in Streams, n \in 1..3 : ReadData(s, n)  BY <1>4, ReadDataStep, Zenon
<1>5. CASE \E s \in Streams, kind \in {"text", "close"} : Unsolicited(s, kind)
  BY <1>5, UnsolicitedStep, Zenon
<1>6. CASE \E s \in Streams : LateHeaders(s)  BY <1>6, LateHeadersStep, Zenon
<1> QED BY <1>1, <1>2, <1>3, <1>4, <1>5, <1>6, Zenon DEF ReaderStep, PeerStep

(* Every step of main does. *)
LEMMA StreamsOfMain ==
  ASSUME LinkInv, WorkInv, \A t \in Streams : StreamAt(t), MainStep
  PROVE  \A t \in Streams : StreamAt(t)'
<1>1. CASE OpenWebSocket  BY <1>1, OpenWebSocketStep, Zenon
<1>2. CASE ResponseHeaders  BY <1>2, ResponseHeadersStep, Zenon
<1>3. CASE StartPhase \/ EndPhase  BY <1>3, PhaseSteps, Zenon
<1>4. CASE OpenFails \/ EndClose \/ Report \/ \E s \in Streams : Collect(s)
  BY <1>4, OtherSteps, Zenon
<1> QED BY <1>1, <1>2, <1>3, <1>4, Zenon DEF MainStep

(* Every step of a goroutine does. *)
LEMMA StreamsOfStream ==
  ASSUME LinkInv, WorkInv, \A t \in Streams : StreamAt(t), NEW s \in Streams, StreamStep(s)
  PROVE  \A t \in Streams : StreamAt(t)'
<1>1. CASE \/ Enter(s) \/ LoadPeak(s) \/ SwapPeak(s) \/ BeginGroup(s) \/ EndLoop(s)
           \/ Send(s) \/ Leave(s)
  BY <1>1, WorkerSteps, Zenon
<1>2. CASE WriteFails(s) \/ ReadFails(s)  BY <1>2, FailSteps, Zenon
<1>3. CASE WriteFrame(s)  BY <1>3, WriteFrameStep, Zenon
<1>4. CASE TakeFrame(s)  BY <1>4, TakeFrameStep, Zenon
<1>5. CASE TakeEvent(s)  BY <1>5, TakeEventStep, Zenon
<1> QED BY <1>1, <1>2, <1>3, <1>4, <1>5, Zenon DEF StreamStep

(* main leaves "dialing" when the reader starts, and does not return to it. *)
LEMMA DialingKept ==
  ASSUME WorkInv, Dialing, SessionNext
  PROVE  Dialing'
<1>1. CASE main = "dialing"
  <2>1. \A s \in Streams : pc[s] = "absent"
    BY <1>1, Zenon DEF WorkInv, Stages, Opening
  <2>2. openH2Session => main' # "dialing"  BY Zenon DEF openH2Session
  <2>3. reader = "absent"  BY <1>1, Zenon DEF Dialing
  <2>4. ~ReaderStep /\ ~Break /\ ~ReaderStops
    BY <1>1, <2>3, Zenon DEF ReaderStep, dispatch, ReadControl, ReadData, Break, ReaderStops
  <2>5. ~MainStep /\ ~Expire
    BY <1>1, Zenon DEF MainStep, OpenWebSocket, ResponseHeaders, OpenFails, StartPhase, Collect,
                       EndPhase, EndClose, Report, Expire
  <2>6. \A s \in Streams : ~StreamStep(s)
    BY <2>1, Zenon DEF StreamStep, Enter, LoadPeak, SwapPeak, BeginGroup, EndLoop, WriteFrame,
                       WriteFails, TakeFrame, TakeEvent, ReadFails, Reading, Send, Leave
  <2>7. \A s \in Streams, kind \in {"text", "close"} : Unsolicited(s, kind) => reader' = reader
    BY Zenon DEF Unsolicited, readVars
  <2>8. \A s \in Streams : LateHeaders(s) => reader' = reader  BY Zenon DEF LateHeaders, readVars
  <2> QED BY <2>2, <2>3, <2>4, <2>5, <2>6, <2>7, <2>8, Zenon DEF SessionNext, PeerStep, Dialing
<1>2. CASE main # "dialing"
  <2>1. ~openH2Session  BY <1>2, Zenon DEF openH2Session
  <2>2. ReaderStep => main' = main
    BY Zenon DEF ReaderStep, dispatch, ReadControl, ReadData, mainVars
  <2>3. PeerStep \/ Expire => main' = main
    BY Zenon DEF PeerStep, Break, ReaderStops, Unsolicited, LateHeaders, Expire, mainVars
  <2>4. \A s \in Streams : StreamStep(s) => main' = main
    BY Zenon DEF StreamStep, Enter, LoadPeak, SwapPeak, BeginGroup, EndLoop, WriteFrame,
                 WriteFails, TakeFrame, TakeEvent, ReadFails, Send, Leave, mainVars
  <2>5. MainStep => main' # "dialing"
    <3>1. OpenWebSocket \/ OpenFails \/ StartPhase \/ EndPhase \/ EndClose => main' # "dialing"
      BY Zenon DEF OpenWebSocket, OpenFails, StartPhase, EndPhase, EndClose
    <3>2. Report \/ (\E s \in Streams : Collect(s)) => main' = main
      BY Zenon DEF Report, Collect
    <3>3. ResponseHeaders => main' # "dialing"
      BY <1>2, HeadersTaken, Zenon DEF HeadersCome, HeadersRefused, HeadersLater
    <3> QED BY <1>2, <3>1, <3>2, <3>3, Zenon DEF MainStep
  <2> QED BY <1>2, <2>1, <2>2, <2>3, <2>4, <2>5, Zenon DEF SessionNext, Dialing
<1> QED BY <1>1, <1>2, Zenon

(* The streams' part of the invariant holds before the session is opened. *)
LEMMA StreamsInit ==
  ASSUME SessionInit
  PROVE  StreamInv
<1>1. LinkInv
  <2>1. NoEvent \in Events
    <3>1. 0 \in 0..StreamCount /\ << >> \in Seq(Units \cup Controls)
      BY SessionAssumption, SMT
    <3> QED BY <3>1, SMT DEF NoEvent, Events
  <2>2. /\ << >> \in Seq(Cells) /\ << >> \in Seq(Units) /\ << >> \in Seq(Seq(Cells))
        /\ Len(<< >>) = 0 /\ 0 \in Int /\ 0 \in 0..MaxFaults /\ Window \in 0..Window
        /\ 0 <= Capacity /\ 1..0 = {}
    BY SessionAssumption, SMT
  <2>3. LinkTypes
    <3>1. peer \in Peers /\ faults \in 0..MaxFaults /\ validationOnly \in BOOLEAN
      BY <2>2, SessionAssumption, Zenon DEF SessionInit
    <3>2. /\ wire \in [Streams -> Seq(Cells)] /\ credit \in [0..StreamCount -> 0..Window]
          /\ broken \in BOOLEAN
      BY <2>2, Zenon DEF SessionInit
    <3>3. reader \in {"absent", "reading", "dispatching", "done"} /\ held \in Events
      BY <2>1, Zenon DEF SessionInit
    <3>4. \A s \in Streams : Len(queue[s]) <= Capacity  BY <2>2, Zenon DEF SessionInit
    <3> QED BY <3>1, <3>2, <3>3, <3>4, Zenon DEF LinkTypes
  <2>4. Channels
    <3>1. /\ queue \in [Streams -> Seq(Seq(Cells))] /\ pending \in [Streams -> Seq(Units)]
          /\ surplus \in [Streams -> Int]
      BY <2>2, Zenon DEF SessionInit
    <3>2. reader # "dispatching" /\ held = NoEvent  BY Zenon DEF SessionInit
    <3>3. \A s \in Streams : \A i \in 1..Len(queue[s]) : Event(queue[s][i])
      BY <2>2, Zenon DEF SessionInit
    <3> QED BY <3>1, <3>2, <3>3, Zenon DEF Channels
  <2> QED BY <2>3, <2>4, Zenon DEF LinkInv
<1>2. Dialing  BY Zenon DEF SessionInit, Dialing
<1>3. \A s \in Streams : StreamAt(s)
  <2>1. \A s \in Streams : ~(s <= 0)  BY SessionAssumption, SMT DEF Streams
  <2>2. \A s \in Streams : /\ surplus[s] = 0 /\ s \notin peerClosed /\ s \notin answered
                           /\ pending[s] = << >> /\ wire[s] = << >> /\ queue[s] = << >>
    BY Zenon DEF SessionInit
  <2>3. \A s \in Streams : held.stream # s
    <3>1. NoEvent.stream = 0  BY SMT DEF NoEvent
    <3>2. \A s \in Streams : s # 0  BY SessionAssumption, SMT DEF Streams
    <3>3. held = NoEvent  BY Zenon DEF SessionInit
    <3> QED BY <3>1, <3>2, <3>3, Zenon
  <2>4. opened = 0 /\ main = "dialing"  BY Zenon DEF SessionInit
  <2>5. \A s \in Streams : Awaited(s)
    <3>1. << >> \in Seq(Cells) /\ Headless(<< >>, Len(<< >>))  BY SMT DEF Headless
    <3>2. \A s \in Streams : Awaits(s, << >>)  BY <2>2, <3>1, Zenon DEF Awaits
    <3>3. \A s \in Streams : Flows(pending[s], queue[s], carried(s), wire[s], << >>)
      BY <2>2, <2>3, FlowEmpty, Zenon DEF carried
    <3> QED BY <3>1, <3>2, <3>3, Zenon DEF Awaited
  <2> QED BY <2>1, <2>2, <2>4, <2>5, Zenon DEF StreamAt
<1> QED BY <1>1, <1>2, <1>3, Zenon DEF StreamInv

(* A step that changes nothing keeps it. *)
LEMMA StreamsStutter ==
  ASSUME StreamInv, UNCHANGED sessionVars
  PROVE  StreamInv'
<1>1. LinkInv /\ Dialing /\ \A t \in Streams : StreamAt(t)  BY Zenon DEF StreamInv
<1>2. UNCHANGED << peerVars, linkVars, readVars, pending >>
  BY Zenon DEF sessionVars, workVars
<1>3. /\ UNCHANGED << wire, answered, surplus, peerClosed, held, queue, pending, pc, failure >>
      /\ UNCHANGED << reader, main, opened >>
  BY Zenon DEF sessionVars, linkVars, readVars, mainVars, workVars
<1>4. LinkInv'  BY <1>1, <1>2, LinkKept, Zenon
<1>5. \A t \in Streams : Steady(t)  BY <1>3, Zenon DEF Steady
<1>6. \A t \in Streams : StreamAt(t)'  BY <1>1, <1>3, <1>5, StreamsKept, Zenon
<1>7. Dialing'  BY <1>1, <1>3, Zenon DEF Dialing
<1> QED BY <1>4, <1>6, <1>7, Zenon DEF StreamInv

(* While the goroutines are in order, so is what is under way on the streams. *)
THEOREM StreamsAreSound == SessionSpec /\ []WorkInv => []StreamInv
<1>1. SessionInit => StreamInv  BY StreamsInit
<1>2. StreamInv /\ WorkInv /\ [SessionNext]_sessionVars => StreamInv'
  <2> SUFFICES ASSUME StreamInv, WorkInv, [SessionNext]_sessionVars PROVE StreamInv'  BY Zenon
  <2>1. LinkInv /\ Dialing /\ \A t \in Streams : StreamAt(t)  BY Zenon DEF StreamInv
  <2>2. CASE SessionNext
    <3>1. LinkInv'  BY <2>1, <2>2, LinkOfReader, LinkOfMain, LinkOfStream, Zenon DEF SessionNext
    <3>2. Dialing'  BY <2>1, <2>2, DialingKept, Zenon
    <3>3. \A t \in Streams : StreamAt(t)'
      BY <2>1, <2>2, StreamsOfReader, StreamsOfMain, StreamsOfStream, Zenon DEF SessionNext
    <3> QED BY <3>1, <3>2, <3>3, Zenon DEF StreamInv
  <2>3. CASE UNCHANGED sessionVars  BY <2>3, StreamsStutter, Zenon
  <2> QED BY <2>2, <2>3, Zenon
<1> QED BY <1>1, <1>2, PTL DEF SessionSpec

=============================================================================

--------------------------- MODULE TransportProofs ---------------------------
(***************************************************************************)
(* Proofs about Transport, for any frames, window, bounds and noise: both  *)
(* decoders accept the same bytes, recv_frame holds one frame at most, and *)
(* what it returns is what was sent, in order (module Channel).            *)
(***************************************************************************)
EXTENDS Transport, SequenceTheorems, TLAPS

-----------------------------------------------------------------------------
(* Cells and frames on the wire *)

ByteCells == {Byte(n) : n \in Nat}
Cells == ByteCells \cup {crc32(s) : s \in Seq(ByteCells)}

\* A cell tells a byte from a checksum, and what it holds.
LEMMA CellFacts ==
    /\ \A n : ValueOf(Byte(n)) = n
    /\ \A s, t : crc32(s) = crc32(t) => s = t
    /\ \A n, s : Byte(n) # crc32(s)
    /\ \A c \in Cells : ValueOf(c) \in Nat
<1>1. \A n : Byte(n)[1] = "byte" /\ Byte(n)[2] = n
    BY DEF Byte
<1>2. \A s : crc32(s)[1] = "crc" /\ crc32(s)[2] = s
    BY DEF crc32
<1>3. \A n : ValueOf(Byte(n)) = n
    BY <1>1 DEF ValueOf
<1>4. "byte" # "crc"
    OBVIOUS
<1>5. \A s : ValueOf(crc32(s)) \in Nat
    BY <1>2, <1>4, BoundsAssumption DEF ValueOf
<1>6. \A c \in Cells : ValueOf(c) \in Nat
    BY <1>3, <1>5 DEF Cells, ByteCells
<1>7. \A s, t : crc32(s) = crc32(t) => s = t
    BY <1>2
<1>8. \A n, s : Byte(n) # crc32(s)
    BY <1>1, <1>2, <1>4
<1> QED BY <1>3, <1>6, <1>7, <1>8

\* What SubSeq takes from a sequence, by index.
LEMMA Slice ==
    ASSUME NEW S, NEW s \in Seq(S), NEW m \in 1..(Len(s) + 1), NEW n \in 0..Len(s),
           m <= n + 1
    PROVE  /\ SubSeq(s, m, n) \in Seq(S)
           /\ Len(SubSeq(s, m, n)) = n - m + 1
           /\ \A i \in 1..(n - m + 1) : SubSeq(s, m, n)[i] = s[m + i - 1]
<1>1. Len(s) \in Nat /\ m \in Int /\ n \in Int
    BY LenProperties
<1>2. \A i \in m..n : s[i] \in S
    BY <1>1, ElementOfSeq
<1>3. /\ SubSeq(s, m, n) \in Seq(S)
      /\ Len(SubSeq(s, m, n)) = IF m <= n THEN n - m + 1 ELSE 0
      /\ \A i \in 1..(n - m + 1) : SubSeq(s, m, n)[i] = s[m + i - 1]
    BY <1>1, <1>2, SubSeqProperties
<1>4. (IF m <= n THEN n - m + 1 ELSE 0) = n - m + 1
    BY <1>1
<1> QED BY <1>3, <1>4

\* The first n elements, and those behind them.
LEMMA Front ==
    ASSUME NEW S, NEW s \in Seq(S), NEW n \in Nat, n <= Len(s)
    PROVE  /\ SubSeq(s, 1, n) \in Seq(S)
           /\ Len(SubSeq(s, 1, n)) = n
           /\ \A i \in 1..n : SubSeq(s, 1, n)[i] = s[i]
<1> DEFINE l == Len(s)
           t == SubSeq(s, 1, n)
<1>1. l \in Nat
    BY LenProperties
<1>2. 1 \in 1..(l + 1) /\ n \in 0..l /\ 1 <= n + 1
    BY <1>1
<1>3. /\ t \in Seq(S) /\ Len(t) = n - 1 + 1
      /\ \A i \in 1..(n - 1 + 1) : t[i] = s[1 + i - 1]
    BY <1>2, Slice
<1> HIDE DEF l, t
<1>4. n - 1 + 1 = n /\ \A i \in 1..n : 1 + i - 1 = i
    OBVIOUS
<1>5. Len(t) = n /\ \A i \in 1..n : t[i] = s[i]
    BY <1>3, <1>4
<1> QED BY <1>3, <1>5 DEF t

LEMMA Back ==
    ASSUME NEW S, NEW s \in Seq(S), NEW n \in Nat, n <= Len(s)
    PROVE  /\ SubSeq(s, n + 1, Len(s)) \in Seq(S)
           /\ Len(SubSeq(s, n + 1, Len(s))) = Len(s) - n
           /\ \A i \in 1..(Len(s) - n) : SubSeq(s, n + 1, Len(s))[i] = s[n + i]
<1> DEFINE l == Len(s)
           t == SubSeq(s, n + 1, l)
<1>1. l \in Nat
    BY LenProperties
<1>2. n + 1 \in 1..(l + 1) /\ l \in 0..l /\ n + 1 <= l + 1
    BY <1>1
<1>3. /\ t \in Seq(S) /\ Len(t) = l - (n + 1) + 1
      /\ \A i \in 1..(l - (n + 1) + 1) : t[i] = s[n + 1 + i - 1]
    BY <1>2, Slice
<1>4. n <= l
    OBVIOUS
<1> HIDE DEF l, t
<1>5. l - (n + 1) + 1 = l - n /\ \A i \in 1..(l - n) : n + 1 + i - 1 = n + i
    BY <1>1, <1>4
<1>6. Len(t) = l - n /\ \A i \in 1..(l - n) : t[i] = s[n + i]
    BY <1>3, <1>5
<1> QED BY <1>3, <1>6 DEF t, l

\* Facts about numbers, where the numbers are lengths.
LEMMA Between ==
    ASSUME NEW lo \in Nat \ {0}, NEW hi \in Nat, NEW j \in lo..hi
    PROVE  j \in 1..hi /\ j \in Nat /\ j + 1 \in Nat /\ lo <= j /\ j <= hi
           /\ j \in lo..(hi + 1) /\ lo \in lo..hi /\ lo \in lo..(hi + 1)
           /\ lo <= hi /\ j # lo => lo < j
OBVIOUS

LEMMA LastOff ==
    ASSUME NEW n \in Nat, n >= 1
    PROVE  n - 1 \in Nat /\ n - 1 <= n /\ n \in 1..n
           /\ \A i \in 1..n : i # n => i \in 1..(n - 1)
OBVIOUS

LEMMA InRange ==
    ASSUME NEW l \in Nat, NEW n \in 1..l
    PROVE  n \in Nat /\ n >= 1 /\ n \in 1..n /\ n - 1 \in Nat /\ n - 1 <= n
OBVIOUS

LEMMA Exactly ==
    ASSUME NEW n \in Nat, NEW m \in Nat, m <= 1 + n, n < m
    PROVE  m = n + 1
OBVIOUS

LEMMA Behead ==
    ASSUME NEW n \in Nat, NEW m \in Nat, NEW l \in Nat, NEW z \in Nat, NEW x \in Nat,
           NEW a \in Nat, NEW c \in Nat,
           l = n + m, a + z = l + 1 + x, c + n = a
    PROVE  c + z = m + 1 + x
OBVIOUS

LEMMA SameLength ==
    ASSUME NEW n \in Nat, NEW m \in Nat, NEW a \in Nat, n - 1 = m - 1, n + 1 = a + m
    PROVE  m = n /\ a = 1
OBVIOUS

\* encode_frame: bytes, then the checksum of them; the frame can be read back.
LEMMA Encoded ==
    ASSUME NEW f \in Frames
    PROVE  LET e == encode_frame(f)
           IN  /\ e \in Seq(Cells) /\ Len(e) \in Nat /\ Len(e) > Header
               /\ \A k \in 1..(Len(e) - 1) : e[k] \in ByteCells
               /\ e[Len(e)] = crc32(SubSeq(e, 1, Len(e) - 1))
               /\ e[Len(e)] \in Cells
               /\ FrameOf(e) = f
<1> DEFINE n == Len(f.payload)
           h == <<Byte(Magic), Byte(f.kind), Byte(f.flags), Byte(n)>>
           q == [i \in 1..n |-> Byte(f.payload[i])]
           body == h \o q
           e == Append(body, crc32(body))
<1>1. /\ f = [kind |-> f.kind, flags |-> f.flags, payload |-> f.payload]
      /\ f.kind \in Nat /\ f.flags \in Nat /\ f.payload \in Seq(Nat) /\ Magic \in Nat
    BY FramesAssumption, BoundsAssumption
<1>2. n \in Nat /\ f.payload \in [1..n -> Nat]
    BY <1>1, LenProperties
<1>3. /\ h \in Seq(ByteCells) /\ Len(h) = Header
      /\ h[1] = Byte(Magic) /\ h[2] = Byte(f.kind)
      /\ h[3] = Byte(f.flags) /\ h[4] = Byte(n)
    <2>1. {Byte(Magic), Byte(f.kind), Byte(f.flags), Byte(n)} \subseteq ByteCells
        BY <1>1, <1>2 DEF ByteCells
    <2> QED BY <2>1 DEF Header
<1>4. /\ q \in Seq(ByteCells) /\ Len(q) = n
      /\ \A i \in 1..n : q[i] = Byte(f.payload[i])
    <2>1. \A i \in 1..n : Byte(f.payload[i]) \in ByteCells
        BY <1>2 DEF ByteCells
    <2>2. q \in [1..n -> ByteCells]
        BY <2>1
    <2>3. q \in Seq(ByteCells)
        BY <1>2, <2>2, SeqDef
    <2>4. DOMAIN q = 1..n
        OBVIOUS
    <2>5. Len(q) \in Nat /\ DOMAIN q = 1..Len(q)
        BY <2>3, LenProperties
    <2>6. Len(q) = n
        BY <1>2, <2>4, <2>5
    <2> QED BY <2>3, <2>6
<1> HIDE DEF n, h, q
<1>5. /\ body \in Seq(ByteCells) /\ Len(body) = Header + n
      /\ \A i \in 1..(Header + n) :
            body[i] = IF i <= Header THEN h[i] ELSE q[i - Header]
    <2>1. /\ body \in Seq(ByteCells) /\ Len(body) = Len(h) + Len(q)
          /\ \A i \in 1..(Len(h) + Len(q)) :
                body[i] = IF i <= Len(h) THEN h[i] ELSE q[i - Len(h)]
        <3>1. h \in Seq(ByteCells) /\ q \in Seq(ByteCells)
            BY <1>3, <1>4
        <3> QED BY <3>1, ConcatProperties
    <2> QED BY <1>3, <1>4, <2>1
<1> HIDE DEF body
<1>6. body \in Seq(Cells) /\ crc32(body) \in Cells
    <2>1. body \in Seq(Cells)
        BY <1>5, SeqMonotonic DEF Cells
    <2> QED BY <1>5, <2>1 DEF Cells
<1>7. /\ e \in Seq(Cells) /\ Len(e) = Header + n + 1
      /\ \A i \in 1..(Header + n) : e[i] = body[i]
      /\ e[Header + n + 1] = crc32(body)
    <2>1. /\ e \in Seq(Cells) /\ Len(e) = Len(body) + 1
          /\ \A i \in 1..Len(body) : e[i] = body[i]
          /\ e[Len(body) + 1] = crc32(body)
        BY <1>6, AppendProperties
    <2> QED BY <1>5, <2>1
<1>8. e = encode_frame(f)
    BY DEF encode_frame, e, body, h, q, n
<1> HIDE DEF e
<1>9. SubSeq(e, 1, Len(e) - 1) = body
    <2> DEFINE t == SubSeq(e, 1, Len(e) - 1)
    <2>1. 1 \in 1..(Len(e) + 1) /\ Len(e) - 1 \in 0..Len(e) /\ 1 <= Len(e) - 1 + 1
        BY <1>2, <1>7 DEF Header
    <2>2. /\ t \in Seq(Cells) /\ Len(t) = Len(e) - 1 - 1 + 1
          /\ \A i \in 1..(Len(e) - 1 - 1 + 1) : t[i] = e[1 + i - 1]
        BY <1>7, <2>1, Slice
    <2> HIDE DEF t
    <2>3. Len(t) = Header + n /\ \A i \in 1..(Header + n) : t[i] = e[i]
        BY <1>2, <1>7, <2>2 DEF Header
    <2>4. t = body
        BY <1>5, <1>6, <1>7, <2>2, <2>3, SeqEqual
    <2> QED BY <2>4 DEF t
<1>10. \A k \in 1..(Len(e) - 1) : e[k] \in ByteCells
    <2> SUFFICES ASSUME NEW k \in 1..(Len(e) - 1) PROVE e[k] \in ByteCells
        OBVIOUS
    <2>1. k \in 1..(Header + n) /\ k \in 1..Len(body)
        BY <1>2, <1>5, <1>7 DEF Header
    <2> QED BY <1>5, <1>7, <2>1, ElementOfSeq
<1>11. FrameOf(e) = f
    <2>1. e[2] = Byte(f.kind) /\ e[3] = Byte(f.flags) /\ e[4] = Byte(n)
        <3>1. /\ {2, 3, 4} \subseteq 1..(Header + n)
              /\ 2 <= Header /\ 3 <= Header /\ 4 <= Header
            BY <1>2 DEF Header
        <3>2. e[2] = h[2] /\ e[3] = h[3] /\ e[4] = h[4]
            BY <1>5, <1>7, <3>1
        <3> QED BY <1>3, <3>2
    <2>2. \A i \in 1..n : e[Header + i] = Byte(f.payload[i])
        <3> SUFFICES ASSUME NEW i \in 1..n PROVE e[Header + i] = Byte(f.payload[i])
            OBVIOUS
        <3> DEFINE p == Header + i
        <3>1. p \in 1..(Header + n) /\ ~ (p <= Header) /\ p - Header = i
            BY <1>2 DEF Header
        <3> HIDE DEF p
        <3>2. e[p] = body[p] /\ body[p] = q[p - Header]
            BY <1>5, <1>7, <3>1
        <3> QED BY <1>4, <3>1, <3>2 DEF p
    <2>3. Length(e) = n
        BY <2>1, CellFacts DEF Length
    <2>4. [i \in 1..n |-> ValueOf(e[Header + i])] = f.payload
        BY <1>2, <2>2, CellFacts
    <2>5. ValueOf(e[2]) = f.kind /\ ValueOf(e[3]) = f.flags
        BY <2>1, CellFacts
    <2> QED BY <1>1, <2>3, <2>4, <2>5 DEF FrameOf
<1>12. Len(e) \in Nat /\ Len(e) > Header
    BY <1>2, <1>7 DEF Header
<1> QED BY <1>6, <1>7, <1>8, <1>9, <1>10, <1>11, <1>12

-----------------------------------------------------------------------------
(* The two decoders *)

\* A number is the length of a header, less or more.
LEMMA HeaderCases ==
    ASSUME NEW l \in Nat
    PROVE  /\ l > Header <=> ~ (l <= Header)
           /\ l > Header => l # Header
           /\ l < Header => l # Header
           /\ l <= Header => l < Header \/ l = Header
           /\ l >= Header => l = Header \/ l > Header
BY DEF Header

\* What recv_frame makes of a prefix that is longer than a header.
LEMMA StepBehindHeader ==
    ASSUME NEW b \in Seq(Cells), Len(b) > Header
    PROVE  /\ Length(b) \in Nat
           /\ recv_step(b) = "more" <=> Len(b) # Total(b)
           /\ recv_step(b) = "frame" <=> Len(b) = Total(b) /\ checksum_ok(b)
           /\ recv_step(b) \in {"fail", "more", "frame"}
<1>1. Len(b) \in Nat /\ 4 \in 1..Len(b)
    BY LenProperties DEF Header
<1>2. Length(b) \in Nat
    BY <1>1, ElementOfSeq, CellFacts DEF Length
<1>3. Len(b) = awaited(b) <=> Len(b) = Total(b)
    BY <1>1, <1>2 DEF awaited, Total, Header
<1>4. Len(b) # Header
    BY <1>1, HeaderCases
<1> QED BY <1>2, <1>3, <1>4 DEF recv_step

\* And of one that is no longer.
LEMMA StepAtHeader ==
    ASSUME NEW b \in Seq(Cells), Len(b) <= Header
    PROVE  /\ Len(b) < Header => recv_step(b) = "more"
           /\ Len(b) = Header => /\ recv_step(b) = "more" <=>
                                       ValueOf(b[1]) = Magic /\ ~ (Length(b) > MaxPayload)
                                 /\ recv_step(b) \in {"more", "fail"}
<1>1. Len(b) \in Nat
    BY LenProperties
<1>2. ~ (Len(b) > Header)
    BY <1>1, HeaderCases
<1>3. Len(b) < Header => Len(b) # Header
    BY <1>1, HeaderCases
<1> QED BY <1>2, <1>3 DEF recv_step

\* Both decoders agree on every prefix of any cells.
LEMMA DecodersAgreeOn ==
    ASSUME NEW s \in Seq(Cells), NEW n \in 0..Len(s)
    PROVE  LET First(m) == SubSeq(s, 1, m)
           IN  decode_frame(First(n)) <=> /\ recv_step(First(n)) = "frame"
                                          /\ \A m \in 0..n - 1 : recv_step(First(m)) = "more"
<1> DEFINE First(m) == SubSeq(s, 1, m)
<1>1. Len(s) \in Nat /\ n \in Nat
    BY LenProperties
<1>2. \A m \in 0..n : /\ First(m) \in Seq(Cells) /\ Len(First(m)) = m
                      /\ \A i \in 1..m : First(m)[i] = s[i]
    <2> SUFFICES ASSUME NEW m \in 0..n
                 PROVE  /\ First(m) \in Seq(Cells) /\ Len(First(m)) = m
                        /\ \A i \in 1..m : First(m)[i] = s[i]
        OBVIOUS
    <2> DEFINE t == First(m)
    <2>1. 1 \in 1..(Len(s) + 1) /\ m \in 0..Len(s) /\ 1 <= m + 1
        BY <1>1
    <2>2. /\ t \in Seq(Cells) /\ Len(t) = m - 1 + 1
          /\ \A i \in 1..(m - 1 + 1) : t[i] = s[1 + i - 1]
        BY <2>1, Slice
    <2> HIDE DEF t
    <2>3. Len(t) = m /\ \A i \in 1..m : t[i] = s[i]
        BY <1>1, <2>2
    <2> QED BY <2>2, <2>3 DEF t
<1> DEFINE b == First(n)
<1>3. b \in Seq(Cells) /\ Len(b) = n
    BY <1>1, <1>2
<1> HIDE DEF First
<1>4. CASE n <= Header
    <2>1. recv_step(b) # "frame"
        BY <1>1, <1>3, <1>4, HeaderCases, StepAtHeader
    <2>2. ~ decode_frame(b)
        BY <1>1, <1>3, <1>4 DEF decode_frame, Header
    <2> QED BY <2>1, <2>2 DEF First, b
<1>5. CASE n > Header
    <2>1. /\ Length(b) \in Nat
          /\ recv_step(b) = "frame" <=> n = Total(b) /\ checksum_ok(b)
        BY <1>3, <1>5, StepBehindHeader
    <2>2. Header \in 0..n /\ 1 \in 1..Header /\ 4 \in 1..Header
        BY <1>1, <1>5 DEF Header
    <2>3. \A m \in 0..n : m >= Header => First(m)[1] = s[1] /\ First(m)[4] = s[4]
        <3> SUFFICES ASSUME NEW m \in 0..n, m >= Header
                     PROVE  First(m)[1] = s[1] /\ First(m)[4] = s[4]
            OBVIOUS
        <3>1. 1 \in 1..m /\ 4 \in 1..m
            BY <1>1 DEF Header
        <3>2. \A i \in 1..m : First(m)[i] = s[i]
            BY <1>2
        <3> QED BY <3>1, <3>2
    <2>4. \A m \in 0..n : m >= Header => Length(First(m)) = Length(b)
        BY <1>1, <1>5, <2>3 DEF Length, Header
    <2>5. (\A m \in 0..n - 1 : recv_step(First(m)) = "more")
            => ValueOf(b[1]) = Magic /\ Length(b) <= MaxPayload
        <3> SUFFICES ASSUME \A m \in 0..n - 1 : recv_step(First(m)) = "more"
                     PROVE  ValueOf(b[1]) = Magic /\ Length(b) <= MaxPayload
            OBVIOUS
        <3> DEFINE g == First(Header)
        <3>1. g \in Seq(Cells) /\ Len(g) = Header
            BY <1>2, <2>2
        <3>2. recv_step(g) = "more"
            BY <1>1, <1>5, <2>2 DEF Header
        <3>3. b[1] = g[1] /\ Length(g) = Length(b)
            BY <1>1, <1>5, <2>2, <2>3, <2>4 DEF Header
        <3> HIDE DEF g
        <3>4. ValueOf(g[1]) = Magic /\ ~ (Length(g) > MaxPayload)
            BY <3>1, <3>2, <2>2, HeaderCases, StepAtHeader
        <3> QED BY <2>1, <3>3, <3>4, BoundsAssumption
    <2>6. ASSUME ValueOf(b[1]) = Magic, Length(b) <= MaxPayload, n = Total(b),
                 NEW m \in 0..n - 1
          PROVE  recv_step(First(m)) = "more"
        <3> DEFINE g == First(m)
        <3>1. g \in Seq(Cells) /\ Len(g) = m /\ m \in Nat /\ m < n
            BY <1>1, <1>2
        <3>2. CASE m < Header
            BY <3>1, <3>2, StepAtHeader DEF Header
        <3>3. CASE m = Header
            <4>1. g[1] = b[1] /\ Length(g) = Length(b)
                BY <1>1, <1>5, <2>3, <2>4, <3>3 DEF Header
            <4> HIDE DEF g
            <4>2. ~ (Length(g) > MaxPayload)
                BY <2>1, <2>6, <4>1, BoundsAssumption
            <4>3. recv_step(g) = "more"
                BY <2>6, <3>1, <3>3, <4>1, <4>2, HeaderCases, StepAtHeader
            <4> QED BY <4>3 DEF g
        <3>4. CASE m > Header
            <4>1. Length(g) = Length(b)
                BY <2>4, <3>1, <3>4 DEF Header
            <4> HIDE DEF g
            <4>2. Len(g) # Total(g)
                BY <2>6, <3>1, <4>1 DEF Total
            <4>3. recv_step(g) = "more"
                BY <3>1, <3>4, <4>2, StepBehindHeader
            <4> QED BY <4>3 DEF g
        <3> QED BY <3>1, <3>2, <3>3, <3>4 DEF Header
    <2>7. decode_frame(b) <=> /\ ValueOf(b[1]) = Magic /\ Length(b) <= MaxPayload
                              /\ n = Total(b) /\ checksum_ok(b)
        BY <1>3, <1>5 DEF decode_frame
    <2>8. decode_frame(b) <=> /\ recv_step(b) = "frame"
                              /\ \A m \in 0..n - 1 : recv_step(First(m)) = "more"
        BY <2>1, <2>5, <2>6, <2>7
    <2> QED BY <2>8 DEF First, b
<1> QED BY <1>1, <1>4, <1>5 DEF Header

-----------------------------------------------------------------------------
(* What is in flight *)

Flight == buf \o stream

Size(f) == Len(encode_frame(f))
Sum(f) == encode_frame(f)[Size(f)]

(***************************************************************************)
(* Frames lo to h of s lie in the first l cells of fl: frame j begins at   *)
(* start[j], is whole or torn, and the next one follows at once.  A cell   *)
(* may be damaged, to any byte; a checksum is the one of a frame and lies  *)
(* where the frame ends.                                                   *)
(***************************************************************************)
Laid(start, fl, l, lo, s, h) ==
    /\ start[lo] = 1
    /\ start[h + 1] = l + 1
    /\ \A j, k \in lo..(h + 1) : j < k => start[j] < start[k]
    /\ \A j \in lo..h : start[j + 1] <= start[j] + Size(s[j])
    /\ \A p \in 1..l :
          \/ fl[p] \in ByteCells
          \/ \E j \in lo..h : /\ p + 1 = start[j] + Size(s[j])
                              /\ p < start[j + 1]
                              /\ fl[p] = Sum(s[j])

\* A frame of which send_exact wrote a part is the last one sent, and that part
\* is the end of what is in flight.
Underway(start) ==
    cur # NoFrame /\ left # encode_frame(cur) =>
        /\ Len(got) < Len(sent)
        /\ sent[Len(sent)] = cur
        /\ start[Len(sent)] + Size(cur) = Len(Flight) + 1 + Len(left)

InOrder ==
    /\ Len(got) <= Len(sent)
    /\ \E start \in [Nat -> Nat] :
          /\ Laid(start, Flight, Len(Flight), Len(got) + 1, sent, Len(sent))
          /\ Underway(start)

\* recv_frame is inside a frame whose announced length it has checked.
Reading ==
    Len(buf) >= Header => Length(buf) <= MaxPayload /\ Len(buf) < Total(buf)

Sending ==
    cur # NoFrame => \E k \in 0..Len(encode_frame(cur)) - 1 :
        left = SubSeq(encode_frame(cur), k + 1, Len(encode_frame(cur)))

WireTypes ==
    /\ sent \in Seq(Frames) /\ got \in Seq(Frames)
    /\ cur \in Frames \cup {NoFrame}
    /\ left \in Seq(Cells) /\ stream \in Seq(Cells) /\ buf \in Seq(Cells)
    /\ Len(stream) <= Window
    /\ sender \in BOOLEAN /\ receiver \in BOOLEAN /\ faults \in 0..MaxFaults

(***************************************************************************)
(* The inductive invariant.  Once the receiving end is closed nothing is   *)
(* sent or returned any more, so the order matters only before.            *)
(***************************************************************************)
WireInv ==
    /\ WireTypes
    /\ Sending
    /\ Reading
    /\ receiver => InOrder

LEMMA WireNumbers ==
    ASSUME WireTypes
    PROVE  /\ Len(sent) \in Nat /\ Len(got) \in Nat /\ Len(left) \in Nat
           /\ Len(stream) \in Nat /\ Len(buf) \in Nat
           /\ Flight \in Seq(Cells) /\ Len(Flight) = Len(buf) + Len(stream)
           /\ Window \in Nat /\ MaxFaults \in Nat /\ MaxPayload \in Nat
BY LenProperties, ConcatProperties, BoundsAssumption DEF WireTypes, Flight

\* What is left of a frame, by index.
LEMMA LeftOf ==
    ASSUME WireTypes, Sending, cur # NoFrame
    PROVE  /\ cur \in Frames /\ encode_frame(cur) \in Seq(Cells)
           /\ Len(encode_frame(cur)) \in Nat
           /\ Len(left) \in 1..Len(encode_frame(cur))
           /\ \A i \in 1..Len(left) :
                 left[i] = encode_frame(cur)[Len(encode_frame(cur)) - Len(left) + i]
           /\ left = encode_frame(cur) <=> Len(left) = Len(encode_frame(cur))
<1> DEFINE e == encode_frame(cur)
<1>1. cur \in Frames /\ e \in Seq(Cells) /\ Len(e) \in Nat
    BY Encoded DEF WireTypes
<1> HIDE DEF e
<1>2. PICK k \in 0..Len(e) - 1 : left = SubSeq(e, k + 1, Len(e))
    BY DEF Sending, e
<1>3. k + 1 \in 1..(Len(e) + 1) /\ Len(e) \in 0..Len(e) /\ k + 1 <= Len(e) + 1
    BY <1>1
<1>4. /\ Len(left) = Len(e) - (k + 1) + 1
      /\ \A i \in 1..(Len(e) - (k + 1) + 1) : left[i] = e[k + 1 + i - 1]
    BY <1>1, <1>2, <1>3, Slice
<1>5. Len(left) \in 1..Len(e) /\ k = Len(e) - Len(left)
    BY <1>1, <1>4
<1>6. \A i \in 1..Len(left) : left[i] = e[Len(e) - Len(left) + i]
    <2> SUFFICES ASSUME NEW i \in 1..Len(left)
                 PROVE  left[i] = e[Len(e) - Len(left) + i]
        OBVIOUS
    <2>1. i \in 1..(Len(e) - (k + 1) + 1) /\ k + 1 + i - 1 = Len(e) - Len(left) + i
        BY <1>1, <1>4, <1>5
    <2> QED BY <1>4, <2>1
<1>7. Len(left) = Len(e) => left = e
    <2> SUFFICES ASSUME Len(left) = Len(e) PROVE left = e
        OBVIOUS
    <2>1. \A i \in 1..Len(left) : left[i] = e[i]
        BY <1>1, <1>6
    <2> QED BY <1>1, <2>1, SeqEqual DEF WireTypes
<1> QED BY <1>1, <1>5, <1>6, <1>7 DEF e

LEMMA Regroup ==
    ASSUME WireTypes
    PROVE  \A x, y \in Seq(Cells) : (buf \o x) \o y = buf \o (x \o y)
<1> SUFFICES ASSUME NEW x \in Seq(Cells), NEW y \in Seq(Cells)
             PROVE  (buf \o x) \o y = buf \o (x \o y)
    OBVIOUS
<1>1. buf \in Seq(Cells)
    BY DEF WireTypes
<1> QED BY <1>1, ConcatAssociative

\* A sequence is its first k elements and those behind them.
LEMMA Cut ==
    ASSUME NEW S, NEW t \in Seq(S), NEW k \in 1..Len(t)
    PROVE  SubSeq(t, 1, k) \o SubSeq(t, k + 1, Len(t)) = t
<1>1. Len(t) \in Nat
    BY LenProperties
<1>2. 1 \in 1..Len(t) + 1 /\ k \in 1 - 1..Len(t) /\ Len(t) \in k..Len(t)
    BY <1>1
<1>3. SubSeq(t, 1, k) \o SubSeq(t, k + 1, Len(t)) = SubSeq(t, 1, Len(t))
    BY <1>2, ConcatAdjacentSubSeq
<1> QED BY <1>3, SubSeqFull

\* A part is taken off the front of t and put behind s.
LEMMA Moved ==
    ASSUME NEW S, NEW s \in Seq(S), NEW t \in Seq(S), NEW k \in 1..Len(t)
    PROVE  LET b == s \o SubSeq(t, 1, k)
               r == SubSeq(t, k + 1, Len(t))
           IN  /\ b \in Seq(S) /\ Len(b) = Len(s) + k
               /\ r \in Seq(S) /\ Len(r) = Len(t) - k
               /\ \A i \in 1..Len(s) : b[i] = s[i]
               /\ \A i \in 1..k : b[Len(s) + i] = t[i]
               /\ \A i \in 1..Len(r) : r[i] = t[k + i]
<1> DEFINE u == SubSeq(t, 1, k)
           r == SubSeq(t, k + 1, Len(t))
           b == s \o u
<1>1. Len(s) \in Nat /\ Len(t) \in Nat /\ k \in Nat
    BY LenProperties
<1>2. u \in Seq(S) /\ Len(u) = k /\ \A i \in 1..k : u[i] = t[i]
    BY <1>1, Front
<1>3. r \in Seq(S) /\ Len(r) = Len(t) - k /\ \A i \in 1..(Len(t) - k) : r[i] = t[k + i]
    BY <1>1, Back
<1> HIDE DEF u, r
<1>4. /\ b \in Seq(S) /\ Len(b) = Len(s) + k
      /\ \A i \in 1..(Len(s) + k) : b[i] = IF i <= Len(s) THEN s[i] ELSE u[i - Len(s)]
    <2>1. u \in Seq(S)
        BY <1>2
    <2>2. /\ b \in Seq(S) /\ Len(b) = Len(s) + Len(u)
          /\ \A i \in 1..(Len(s) + Len(u)) :
                b[i] = IF i <= Len(s) THEN s[i] ELSE u[i - Len(s)]
        BY <2>1, ConcatProperties
    <2> HIDE DEF b
    <2> QED BY <1>2, <2>2
<1> HIDE DEF b
<1>5. \A i \in 1..Len(s) : b[i] = s[i]
    BY <1>1, <1>4
<1>6. \A i \in 1..k : b[Len(s) + i] = t[i]
    <2> SUFFICES ASSUME NEW i \in 1..k PROVE b[Len(s) + i] = t[i]
        OBVIOUS
    <2> DEFINE p == Len(s) + i
    <2>1. p \in 1..(Len(s) + k) /\ ~ (p <= Len(s)) /\ p - Len(s) = i
        BY <1>1
    <2> HIDE DEF p
    <2>2. b[p] = u[p - Len(s)]
        BY <1>4, <2>1
    <2> QED BY <1>2, <2>1, <2>2 DEF p
<1> QED BY <1>3, <1>4, <1>5, <1>6 DEF b, u, r

\* Size and checksum of a frame.
LEMMA SizeFacts ==
    ASSUME NEW f \in Frames
    PROVE  /\ Size(f) \in Nat /\ Size(f) >= 1
           /\ \A i \in 1..Size(f) : i # Size(f) => encode_frame(f)[i] \in ByteCells
           /\ encode_frame(f)[Size(f)] = Sum(f)
<1>1. /\ Size(f) \in Nat /\ Size(f) > Header
      /\ \A i \in 1..(Size(f) - 1) : encode_frame(f)[i] \in ByteCells
    BY Encoded DEF Size
<1>2. Size(f) >= 1
    BY <1>1 DEF Header
<1> QED BY <1>1, <1>2, LastOff DEF Sum

\* The n cells of b are the first ones in flight, and their checksum is right.
Whole(start, fl, l, lo, s, h, b, n) ==
    /\ start \in [Nat -> Nat] /\ h \in Nat /\ l \in Nat /\ lo \in Nat \ {0}
    /\ \A j \in lo..h : s[j] \in Frames
    /\ Laid(start, fl, l, lo, s, h)
    /\ b \in Seq(Cells) /\ n \in 1..l /\ n = Len(b)
    /\ \A i \in 1..n : b[i] = fl[i]
    /\ checksum_ok(b)

(***************************************************************************)
(* The heart of it: cells that end in the checksum of all cells before it  *)
(* are the oldest frame in flight, whole and undamaged.                    *)
(***************************************************************************)
LEMMA FrameIsNext ==
    ASSUME NEW start, NEW fl, NEW l, NEW lo, NEW s, NEW h, NEW b, NEW n,
           Whole(start, fl, l, lo, s, h, b, n)
    PROVE  /\ lo <= h
           /\ FrameOf(b) = s[lo]
           /\ n = Size(s[lo])
           /\ start[lo + 1] = n + 1
<1> SUFFICES ASSUME start \in [Nat -> Nat], h \in Nat, l \in Nat, lo \in Nat \ {0},
                    \A j \in lo..h : s[j] \in Frames,
                    Laid(start, fl, l, lo, s, h),
                    b \in Seq(Cells), n \in 1..l, n = Len(b),
                    \A i \in 1..n : b[i] = fl[i], checksum_ok(b)
             PROVE  /\ lo <= h
                    /\ FrameOf(b) = s[lo]
                    /\ n = Size(s[lo])
                    /\ start[lo + 1] = n + 1
    BY DEF Whole
<1> DEFINE c == SubSeq(b, 1, n - 1)
<1>1. n \in Nat /\ n >= 1 /\ n \in 1..n /\ n - 1 \in Nat /\ n - 1 <= n
    BY InRange, Zenon
<1>2. c \in Seq(Cells) /\ Len(c) = n - 1 /\ \A i \in 1..(n - 1) : c[i] = b[i]
    BY <1>1, Front, ZenonT(60)
<1>3. b[n] = crc32(c) /\ fl[n] = b[n]
    BY <1>1 DEF checksum_ok
<1> HIDE DEF c
<1>4. fl[n] \notin ByteCells
    BY <1>3, CellFacts DEF ByteCells
<1>5. PICK j \in lo..h : /\ n + 1 = start[j] + Size(s[j])
                         /\ n < start[j + 1]
                         /\ fl[n] = Sum(s[j])
    BY <1>4 DEF Laid
<1> DEFINE e == encode_frame(s[j])
           d == SubSeq(e, 1, Len(e) - 1)
<1>6. j \in Nat /\ start[j] \in Nat /\ s[j] \in Frames /\ lo <= h
    <2>1. j \in Nat /\ lo <= h
        BY Between
    <2> QED BY <2>1
<1>7. /\ e \in Seq(Cells) /\ Len(e) \in Nat /\ Len(e) > Header
      /\ e[Len(e)] = crc32(d) /\ FrameOf(e) = s[j]
    BY <1>6, Encoded
<1>8. n + 1 = start[j] + Len(e) /\ n < start[j + 1] /\ fl[n] = e[Len(e)]
    BY <1>5 DEF Size, Sum
<1> HIDE DEF e
<1>9. d \in Seq(Cells) /\ Len(d) = Len(e) - 1 /\ \A i \in 1..(Len(e) - 1) : d[i] = e[i]
    <2>1. Len(e) >= 1
        BY <1>7 DEF Header
    <2> QED BY <1>7, <2>1, LastOff, Front, ZenonT(60)
<1> HIDE DEF d
<1>10. c = d
    BY <1>3, <1>7, <1>8, CellFacts
<1>11. Len(e) = n /\ start[j] = 1
    <2>1. n - 1 = Len(e) - 1
        BY <1>2, <1>9, <1>10
    <2>2. n \in Nat /\ Len(e) \in Nat /\ start[j] \in Nat /\ n + 1 = start[j] + Len(e)
        BY <1>1, <1>6, <1>7, <1>8, Zenon
    <2> QED BY <2>1, <2>2, SameLength, Zenon
<1>12. j = lo
    <2> SUFFICES ASSUME j # lo PROVE FALSE
        OBVIOUS
    <2>1. lo \in lo..(h + 1) /\ j \in lo..(h + 1) /\ lo < j
        BY Between
    <2>2. start[lo] < start[j] /\ start[lo] = 1
        BY <2>1 DEF Laid
    <2> QED BY <1>11, <2>2
<1>13. b = e
    <2>1. \A i \in 1..n : b[i] = e[i]
        <3> SUFFICES ASSUME NEW i \in 1..n PROVE b[i] = e[i]
            OBVIOUS
        <3>1. CASE i = n
            BY <1>3, <1>8, <1>11, <3>1
        <3>2. CASE i # n
            <4>1. i \in 1..(n - 1) /\ i \in 1..(Len(e) - 1)
                BY <1>1, <1>11, <3>2, LastOff
            <4> QED BY <1>2, <1>9, <1>10, <4>1
        <3> QED BY <3>1, <3>2
    <2> QED BY <1>7, <1>11, <2>1, SeqEqual
<1>14. start[lo + 1] <= 1 + n /\ n < start[lo + 1]
    <2>1. lo \in lo..h
        BY Between
    <2>2. start[lo + 1] <= start[lo] + Size(s[lo]) /\ start[lo] = 1
        BY <2>1 DEF Laid
    <2> QED BY <1>8, <1>11, <1>12, <2>2 DEF e, Size
<1>15. start[lo + 1] = n + 1
    <2>1. lo + 1 \in Nat
        BY <1>6, <1>12, Between
    <2>2. start[lo + 1] \in Nat
        BY <2>1, Zenon
    <2> QED BY <1>1, <1>14, <2>2, Exactly, Zenon
<1>16. n = Size(s[lo])
    BY <1>11, <1>12 DEF e, Size
<1> QED BY <1>6, <1>7, <1>12, <1>13, <1>15, <1>16

\* Damage moves no frame.
LEMMA LaidDamaged ==
    ASSUME NEW start, NEW fl, NEW l, NEW fl2, NEW lo, NEW s, NEW h,
           Laid(start, fl, l, lo, s, h),
           \A p \in 1..l : fl2[p] = fl[p] \/ fl2[p] \in ByteCells
    PROVE  Laid(start, fl2, l, lo, s, h)
BY DEF Laid

(***************************************************************************)
(* k more cells follow what is in flight, those of frame h behind its      *)
(* first "off" cells: the frame begins with them (off = 0), or goes on.    *)
(***************************************************************************)
Growing(start, fl, l, lo, s, h, off, k, fl2) ==
    /\ start \in [Nat -> Nat]
    /\ h \in Nat /\ l \in Nat /\ off \in Nat /\ lo \in Nat \ {0} /\ k \in Nat \ {0}
    /\ lo <= h /\ \A j \in lo..h : s[j] \in Frames
    /\ \/ off = 0 /\ Laid(start, fl, l, lo, s, h - 1)
       \/ Laid(start, fl, l, lo, s, h) /\ start[h] + off = l + 1
    /\ off + k <= Size(s[h])
    /\ \A p \in 1..l : fl2[p] = fl[p]
    /\ \A i \in 1..k : fl2[l + i] = encode_frame(s[h])[off + i]

LEMMA LaidMore ==
    ASSUME NEW start, NEW fl, NEW l, NEW lo, NEW s, NEW h, NEW off, NEW k, NEW fl2,
           Growing(start, fl, l, lo, s, h, off, k, fl2)
    PROVE  \E st \in [Nat -> Nat] : /\ Laid(st, fl2, l + k, lo, s, h)
                                    /\ st[h] + off = l + 1
<1> SUFFICES ASSUME h \in Nat, l \in Nat, off \in Nat, lo \in Nat \ {0}, k \in Nat \ {0},
                    start \in [Nat -> Nat], lo <= h, off + k <= Size(s[h]),
                    \A j \in lo..h : s[j] \in Frames
             PROVE  \E st \in [Nat -> Nat] : /\ Laid(st, fl2, l + k, lo, s, h)
                                             /\ st[h] + off = l + 1
    BY DEF Growing
<1> DEFINE st == [start EXCEPT ![h + 1] = l + k + 1]
           z == Size(s[h])
<1>a. \/ off = 0 /\ Laid(start, fl, l, lo, s, h - 1)
      \/ Laid(start, fl, l, lo, s, h) /\ start[h] + off = l + 1
    BY DEF Growing
<1>b. \A p \in 1..l : fl2[p] = fl[p]
    BY DEF Growing
<1>c. \A i \in 1..k : fl2[l + i] = encode_frame(s[h])[off + i]
    BY DEF Growing
<1>1. h + 1 \in Nat /\ l + k + 1 \in Nat /\ h \in lo..h /\ lo \in lo..h
    OBVIOUS
<1>2. s[h] \in Frames /\ z \in Nat /\ off + k <= z
    BY <1>1, SizeFacts
<1>3. \A i \in 1..z : i # z => encode_frame(s[h])[i] \in ByteCells
    BY <1>2, SizeFacts
<1>4. encode_frame(s[h])[z] = Sum(s[h])
    BY DEF Sum
<1>5. st \in [Nat -> Nat] /\ st[h + 1] = l + k + 1 /\ \A j \in Nat : j # h + 1 => st[j] = start[j]
    BY <1>1
<1> HIDE DEF st, z
<1>6. \A j \in lo..h : j \in Nat /\ st[j] = start[j] /\ start[j] \in Nat
    <2> SUFFICES ASSUME NEW j \in lo..h
                 PROVE  j \in Nat /\ st[j] = start[j] /\ start[j] \in Nat
        OBVIOUS
    <2>1. j \in Nat /\ j # h + 1
        OBVIOUS
    <2> QED BY <1>5, <2>1
<1>7. start[lo] = 1 /\ start[h] + off = l + 1
    <2>1. CASE off = 0 /\ Laid(start, fl, l, lo, s, h - 1)
        <3>1. start[lo] = 1 /\ start[h - 1 + 1] = l + 1
            BY <2>1 DEF Laid
        <3> QED BY <1>1, <1>6, <2>1, <3>1
    <2>2. CASE Laid(start, fl, l, lo, s, h) /\ start[h] + off = l + 1
        BY <2>2 DEF Laid
    <2> QED BY <1>a, <2>1, <2>2
<1>8. \A j, m \in lo..h : j < m => start[j] < start[m]
    <2>1. h - 1 + 1 = h /\ \A j \in lo..h : j \in lo..(h + 1)
        OBVIOUS
    <2> QED BY <1>a, <2>1 DEF Laid
<1>9. \A j \in lo..h : j # h => j \in lo..(h - 1) /\ j + 1 \in lo..h
    OBVIOUS
<1>10. \A j \in lo..h : j # h => start[j + 1] <= start[j] + Size(s[j])
    BY <1>a, <1>9 DEF Laid
<1>11. \A p \in 1..l :
          \/ fl[p] \in ByteCells
          \/ \E j \in lo..h : /\ p + 1 = start[j] + Size(s[j])
                              /\ j # h => p < start[j + 1]
                              /\ fl[p] = Sum(s[j])
    <2>1. \A j \in lo..(h - 1) : j \in lo..h
        OBVIOUS
    <2> QED BY <1>a, <2>1 DEF Laid
<1>12. ASSUME NEW j \in lo..(h + 1), NEW m \in lo..(h + 1), j < m
       PROVE  st[j] < st[m]
    <2>1. j \in lo..h /\ (m \in lo..h \/ m = h + 1)
        BY <1>12
    <2>2. CASE m \in lo..h
        BY <1>6, <1>8, <1>12, <2>1, <2>2
    <2>3. CASE m = h + 1
        <3>1. j = h \/ start[j] < start[h]
            BY <1>1, <1>8, <2>1
        <3>2. start[j] <= start[h] /\ start[j] \in Nat /\ start[h] \in Nat
            BY <1>1, <1>6, <2>1, <3>1
        <3>3. start[j] < l + k + 1
            BY <1>7, <3>2
        <3> QED BY <1>5, <1>6, <2>1, <2>3, <3>3
    <2> QED BY <2>1, <2>2, <2>3
<1>13. ASSUME NEW j \in lo..h
       PROVE  st[j + 1] <= st[j] + Size(s[j])
    <2>1. CASE j = h
        <3>1. l + k + 1 <= start[h] + z
            BY <1>1, <1>2, <1>6, <1>7
        <3> QED BY <1>1, <1>5, <1>6, <2>1, <3>1 DEF z
    <2>2. CASE j # h
        BY <1>6, <1>9, <1>10, <2>2
    <2> QED BY <2>1, <2>2
<1>14. ASSUME NEW p \in 1..(l + k), fl2[p] \notin ByteCells
       PROVE  \E j \in lo..h : /\ p + 1 = st[j] + Size(s[j])
                               /\ p < st[j + 1]
                               /\ fl2[p] = Sum(s[j])
    <2>1. CASE p \in 1..l
        <3>1. PICK j \in lo..h : /\ p + 1 = start[j] + Size(s[j])
                                 /\ j # h => p < start[j + 1]
                                 /\ fl[p] = Sum(s[j])
            BY <1>11, <1>14, <1>b, <2>1
        <3>2. p < st[j + 1]
            <4>1. CASE j = h
                BY <1>5, <2>1, <4>1
            <4>2. CASE j # h
                BY <1>6, <1>9, <3>1, <4>2
            <4> QED BY <4>1, <4>2
        <3> QED BY <1>6, <1>b, <2>1, <3>1, <3>2
    <2>2. CASE p \notin 1..l
        <3> DEFINE i == p - l
        <3>1. i \in 1..k /\ p = l + i /\ off + i \in 1..z /\ i \in Nat
            BY <1>2, <2>2
        <3> HIDE DEF i
        <3>2. fl2[p] = encode_frame(s[h])[off + i]
            BY <1>c, <3>1
        <3>3. off + i = z
            BY <1>3, <1>14, <3>1, <3>2
        <3>4. p + 1 = start[h] + z /\ p < l + k + 1
            BY <1>1, <1>2, <1>6, <1>7, <3>1, <3>3
        <3>5. fl2[p] = Sum(s[h])
            BY <1>4, <3>2, <3>3
        <3> QED BY <1>1, <1>5, <1>6, <3>4, <3>5 DEF z
    <2> QED BY <2>1, <2>2
<1>15. st[lo] = 1 /\ st[h] + off = l + 1
    BY <1>1, <1>6, <1>7
<1>16. Laid(st, fl2, l + k, lo, s, h)
    BY <1>5, <1>12, <1>13, <1>14, <1>15 DEF Laid
<1> QED BY <1>5, <1>15, <1>16

\* The oldest frame, of n cells, is taken out of flight.
Shrinking(start, fl, l, lo, s, h, n, fl2) ==
    /\ start \in [Nat -> Nat] /\ h \in Nat /\ l \in Nat /\ lo \in Nat \ {0} /\ n \in Nat
    /\ lo <= h /\ \A j \in lo..h : s[j] \in Frames
    /\ Laid(start, fl, l, lo, s, h)
    /\ n <= l /\ start[lo + 1] = n + 1
    /\ \A p \in 1..(l - n) : fl2[p] = fl[n + p]

LEMMA LaidTaken ==
    ASSUME NEW start, NEW fl, NEW l, NEW lo, NEW s, NEW h, NEW n, NEW fl2,
           Shrinking(start, fl, l, lo, s, h, n, fl2)
    PROVE  \E st \in [Nat -> Nat] :
              /\ Laid(st, fl2, l - n, lo + 1, s, h)
              /\ \A j \in (lo + 1)..(h + 1) : st[j] + n = start[j]
<1> SUFFICES ASSUME start \in [Nat -> Nat], h \in Nat, l \in Nat, lo \in Nat \ {0},
                    n \in Nat, lo <= h, \A j \in lo..h : s[j] \in Frames,
                    Laid(start, fl, l, lo, s, h),
                    n <= l, start[lo + 1] = n + 1,
                    \A p \in 1..(l - n) : fl2[p] = fl[n + p]
             PROVE  \E st \in [Nat -> Nat] :
                       /\ Laid(st, fl2, l - n, lo + 1, s, h)
                       /\ \A j \in (lo + 1)..(h + 1) : st[j] + n = start[j]
    BY DEF Shrinking
<1> DEFINE st == [j \in Nat |-> IF start[j] > n THEN start[j] - n ELSE 0]
<1>1. \A j \in Nat : start[j] \in Nat
    OBVIOUS
<1>2. \A j \in Nat : (IF start[j] > n THEN start[j] - n ELSE 0) \in Nat
    BY <1>1
<1>3. st \in [Nat -> Nat] /\ \A j \in Nat : start[j] > n => st[j] = start[j] - n
    BY <1>2
<1> HIDE DEF st
<1>4. /\ start[lo] = 1 /\ start[h + 1] = l + 1
      /\ \A j, m \in lo..(h + 1) : j < m => start[j] < start[m]
      /\ \A j \in lo..h : start[j + 1] <= start[j] + Size(s[j])
    BY DEF Laid
<1>5. \A j \in (lo + 1)..(h + 1) : /\ j \in Nat /\ j \in lo..(h + 1)
                                   /\ start[j] \in Nat /\ st[j] \in Nat
                                   /\ start[j] >= n + 1 /\ st[j] + n = start[j]
    <2> SUFFICES ASSUME NEW j \in (lo + 1)..(h + 1)
                 PROVE  /\ j \in Nat /\ j \in lo..(h + 1)
                        /\ start[j] \in Nat /\ st[j] \in Nat
                        /\ start[j] >= n + 1 /\ st[j] + n = start[j]
        OBVIOUS
    <2>1. /\ j \in Nat /\ j \in lo..(h + 1) /\ lo + 1 \in lo..(h + 1)
          /\ (j = lo + 1 \/ lo + 1 < j) /\ lo + 1 \in Nat
        OBVIOUS
    <2>2. start[j] \in Nat /\ st[j] \in Nat
        BY <1>3, <2>1
    <2>3. start[j] >= n + 1
        <3>1. CASE j = lo + 1
            BY <3>1
        <3>2. CASE lo + 1 < j
            <4>1. start[lo + 1] < start[j]
                BY <1>4, <2>1, <3>2
            <4> QED BY <2>2, <4>1
        <3> QED BY <2>1, <3>1, <3>2
    <2>4. st[j] = start[j] - n
        BY <1>3, <2>1, <2>2, <2>3
    <2> QED BY <2>1, <2>2, <2>3, <2>4
<1>6. lo + 1 \in (lo + 1)..(h + 1) /\ h + 1 \in (lo + 1)..(h + 1)
    OBVIOUS
<1>7. st[lo + 1] = 1 /\ st[h + 1] = l - n + 1
    <2>1. st[lo + 1] + n = n + 1 /\ st[lo + 1] \in Nat
        BY <1>5, <1>6
    <2>2. st[h + 1] + n = l + 1 /\ st[h + 1] \in Nat
        BY <1>4, <1>5, <1>6
    <2> QED BY <2>1, <2>2
<1>8. ASSUME NEW j \in (lo + 1)..(h + 1), NEW m \in (lo + 1)..(h + 1), j < m
      PROVE  st[j] < st[m]
    <2>1. start[j] < start[m]
        BY <1>4, <1>5, <1>8
    <2> QED BY <1>5, <2>1
<1>9. \A j \in (lo + 1)..h : /\ j \in lo..h
                             /\ j + 1 \in (lo + 1)..(h + 1)
                             /\ j \in (lo + 1)..(h + 1)
    OBVIOUS
<1>10. ASSUME NEW j \in (lo + 1)..h
       PROVE  st[j + 1] <= st[j] + Size(s[j])
    <2>1. start[j + 1] <= start[j] + Size(s[j])
        BY <1>4, <1>9
    <2>2. Size(s[j]) \in Nat
        BY <1>9, SizeFacts
    <2>3. /\ st[j + 1] + n = start[j + 1] /\ st[j] + n = start[j]
          /\ st[j + 1] \in Nat /\ st[j] \in Nat
        BY <1>5, <1>9
    <2> QED BY <2>1, <2>2, <2>3
<1>11. ASSUME NEW p \in 1..(l - n), fl2[p] \notin ByteCells
       PROVE  \E j \in (lo + 1)..h : /\ p + 1 = st[j] + Size(s[j])
                                     /\ p < st[j + 1]
                                     /\ fl2[p] = Sum(s[j])
    <2> DEFINE q == n + p
    <2>1. q \in 1..l /\ q \in Nat /\ q >= n + 1 /\ p \in Nat /\ q = n + p
        OBVIOUS
    <2>2. fl2[p] = fl[q]
        OBVIOUS
    <2> HIDE DEF q
    <2>3. PICK j \in lo..h : /\ q + 1 = start[j] + Size(s[j])
                             /\ q < start[j + 1]
                             /\ fl[q] = Sum(s[j])
        BY <1>11, <2>1, <2>2 DEF Laid
    <2>4. j \in (lo + 1)..h
        <3> SUFFICES ASSUME j = lo PROVE FALSE
            OBVIOUS
        <3>1. q < n + 1
            BY <2>3
        <3> QED BY <2>1, <3>1
    <2>5. /\ st[j + 1] + n = start[j + 1] /\ st[j] + n = start[j]
          /\ st[j + 1] \in Nat /\ st[j] \in Nat
        BY <1>5, <1>9, <2>4
    <2>6. Size(s[j]) \in Nat
        BY SizeFacts
    <2>7. p + 1 = st[j] + Size(s[j]) /\ p < st[j + 1]
        BY <2>1, <2>3, <2>5, <2>6
    <2> QED BY <2>2, <2>3, <2>4, <2>7
<1>12. Laid(st, fl2, l - n, lo + 1, s, h)
    BY <1>7, <1>8, <1>10, <1>11 DEF Laid
<1> QED BY <1>3, <1>5, <1>12

\* The frames behind h do not matter.
LEMMA LaidSame ==
    ASSUME NEW start, NEW fl, NEW l, NEW lo, NEW h, NEW s, NEW s2,
           Laid(start, fl, l, lo, s, h),
           \A j \in lo..h : s2[j] = s[j]
    PROVE  Laid(start, fl, l, lo, s2, h)
BY DEF Laid

-----------------------------------------------------------------------------
(* Every step keeps the invariant *)

LEMMA WireStarts == Init => WireInv
<1> SUFFICES ASSUME Init PROVE WireInv
    OBVIOUS
<1> DEFINE start == [j \in Nat |-> j]
<1>1. <<>> \in Seq(Frames) /\ <<>> \in Seq(Cells) /\ Len(<<>>) = 0
    BY EmptySeq
<1>2. WireTypes
    BY <1>1, BoundsAssumption DEF Init, WireTypes
<1>3. Sending /\ Reading
    BY <1>1 DEF Init, Sending, Reading, Header
<1>4. Flight = <<>> /\ Len(Flight) = 0 /\ Len(sent) = 0 /\ Len(got) = 0
    BY <1>1, ConcatEmptySeq DEF Init, Flight
<1>5. start \in [Nat -> Nat] /\ start[1] = 1
    OBVIOUS
<1> HIDE DEF start
<1>6. Laid(start, Flight, 0, 1, sent, 0)
    BY <1>5 DEF Laid
<1>7. Underway(start)
    BY DEF Init, Underway
<1>8. InOrder
    <2>1. Laid(start, Flight, Len(Flight), Len(got) + 1, sent, Len(sent))
        BY <1>4, <1>6
    <2>2. Len(got) <= Len(sent)
        BY <1>4
    <2> QED BY <1>5, <1>7, <2>1, <2>2 DEF InOrder
<1> QED BY <1>2, <1>3, <1>8 DEF WireInv

LEMMA SendFrameStep ==
    ASSUME WireInv, NEW f \in Frames, send_frame(f)
    PROVE  WireInv'
<1> DEFINE e == encode_frame(f)
<1>1. e \in Seq(Cells) /\ Len(e) \in Nat /\ Len(e) > Header
    BY Encoded
<1>2. WireTypes'
    BY <1>1 DEF WireInv, WireTypes, send_frame
<1>3. Sending'
    <2>1. SubSeq(e, 0 + 1, Len(e)) = e
        BY <1>1, SubSeqFull
    <2>2. 0 \in 0..Len(e) - 1
        BY <1>1 DEF Header
    <2>3. cur' = f /\ left' = e
        BY DEF send_frame
    <2> HIDE DEF e
    <2>4. \E k \in 0..Len(e) - 1 : left' = SubSeq(e, k + 1, Len(e))
        BY <2>1, <2>2, <2>3
    <2> QED BY <2>3, <2>4 DEF Sending, e
<1>4. Reading'
    BY DEF WireInv, Reading, send_frame
<1>5. receiver' => InOrder'
    <2> SUFFICES ASSUME receiver PROVE InOrder'
        BY DEF send_frame
    <2>1. UNCHANGED <<Flight, got, sent>> /\ left' = encode_frame(cur')
        BY DEF send_frame, Flight
    <2>2. PICK start \in [Nat -> Nat] :
             Laid(start, Flight, Len(Flight), Len(got) + 1, sent, Len(sent))
        BY DEF WireInv, InOrder
    <2>3. Underway(start)'
        BY <2>1 DEF Underway
    <2>4. Len(got) <= Len(sent)
        BY DEF WireInv, InOrder
    <2> QED BY <2>1, <2>2, <2>3, <2>4 DEF InOrder
<1> QED BY <1>2, <1>3, <1>4, <1>5 DEF WireInv

\* The sending end gives up a frame, whether or not it is closed.
LEMMA GivesUp ==
    ASSUME WireInv, cur' = NoFrame, left' = <<>>,
           sender' \in BOOLEAN, faults' \in 0..MaxFaults,
           UNCHANGED <<sent, got, stream, buf, receiver>>
    PROVE  WireInv'
<1>1. <<>> \in Seq(Cells)
    BY EmptySeq
<1>2. WireTypes'
    BY <1>1 DEF WireInv, WireTypes
<1>3. Sending' /\ Reading'
    BY DEF WireInv, Sending, Reading
<1>4. receiver' => InOrder'
    <2> SUFFICES ASSUME receiver PROVE InOrder'
        OBVIOUS
    <2>1. UNCHANGED <<Flight, got, sent>>
        BY DEF Flight
    <2>2. PICK start \in [Nat -> Nat] :
             Laid(start, Flight, Len(Flight), Len(got) + 1, sent, Len(sent))
        BY DEF WireInv, InOrder
    <2>3. Underway(start)'
        BY DEF Underway
    <2>4. Len(got) <= Len(sent)
        BY DEF WireInv, InOrder
    <2> QED BY <2>1, <2>2, <2>3, <2>4 DEF InOrder
<1> QED BY <1>2, <1>3, <1>4 DEF WireInv

\* The receiving end is closed.
LEMMA ReaderGone ==
    ASSUME WireInv, receiver' = FALSE, stream' = <<>>, buf' = <<>>,
           faults' \in 0..MaxFaults, UNCHANGED <<sent, got, cur, left, sender>>
    PROVE  WireInv'
<1>1. <<>> \in Seq(Cells) /\ Len(<<>>) = 0
    BY EmptySeq
<1>2. WireTypes'
    <2>1. Window \in Nat
        BY BoundsAssumption
    <2>2. Len(stream') <= Window /\ stream' \in Seq(Cells) /\ buf' \in Seq(Cells)
        BY <1>1, <2>1
    <2> QED BY <2>2 DEF WireInv, WireTypes
<1>3. Sending'
    BY DEF WireInv, Sending
<1>4. Reading'
    BY <1>1 DEF Reading, Header
<1> QED BY <1>2, <1>3, <1>4 DEF WireInv

LEMMA DamageStep ==
    ASSUME WireInv, Damage
    PROVE  WireInv'
<1>1. PICK i \in 1..Len(stream), n \in Noise : stream' = [stream EXCEPT ![i] = Byte(n)]
    BY DEF Damage
<1>2. Byte(n) \in ByteCells /\ Byte(n) \in Cells
    BY BoundsAssumption DEF ByteCells, Cells
<1>3. WireTypes
    BY DEF WireInv
<1>4. /\ stream' \in Seq(Cells) /\ Len(stream') = Len(stream)
      /\ \A j \in 1..Len(stream) : stream'[j] = stream[j] \/ stream'[j] \in ByteCells
    <2>1. stream \in Seq(Cells)
        BY <1>3 DEF WireTypes
    <2> QED BY <1>1, <1>2, <2>1, ExceptSeq
<1>5. WireTypes'
    BY <1>3, <1>4, BoundsAssumption DEF WireTypes, Damage
<1>6. Sending' /\ Reading'
    BY DEF WireInv, Sending, Reading, Damage
<1>7. receiver' => InOrder'
    <2> SUFFICES ASSUME receiver PROVE InOrder'
        BY DEF Damage
    <2>1. /\ Len(buf) \in Nat /\ Len(stream) \in Nat
          /\ Len(Flight) = Len(buf) + Len(stream)
          /\ \A p \in 1..(Len(buf) + Len(stream)) :
                Flight[p] = IF p <= Len(buf) THEN buf[p] ELSE stream[p - Len(buf)]
        BY <1>3, LenProperties, ConcatProperties DEF WireTypes, Flight
    <2>2. /\ Len(Flight') = Len(buf) + Len(stream)
          /\ \A p \in 1..(Len(buf) + Len(stream)) :
                Flight'[p] = IF p <= Len(buf) THEN buf[p] ELSE stream'[p - Len(buf)]
        <3>1. buf \in Seq(Cells) /\ buf' = buf
            BY <1>3 DEF WireTypes, Damage
        <3>2. /\ Len(buf \o stream') = Len(buf) + Len(stream')
              /\ \A p \in 1..(Len(buf) + Len(stream')) :
                   (buf \o stream')[p] = IF p <= Len(buf) THEN buf[p] ELSE stream'[p - Len(buf)]
            BY <1>4, <3>1, ConcatProperties
        <3>3. Flight' = buf \o stream'
            BY <3>1 DEF Flight
        <3> QED BY <1>4, <3>2, <3>3
    <2>3. \A p \in 1..Len(Flight) : Flight'[p] = Flight[p] \/ Flight'[p] \in ByteCells
        <3> SUFFICES ASSUME NEW p \in 1..(Len(buf) + Len(stream))
                     PROVE  Flight'[p] = Flight[p] \/ Flight'[p] \in ByteCells
            BY <2>1
        <3>1. ~ (p <= Len(buf)) => p - Len(buf) \in 1..Len(stream)
            BY <2>1
        <3> QED BY <1>4, <2>1, <2>2, <3>1
    <2>4. PICK start \in [Nat -> Nat] :
             /\ Laid(start, Flight, Len(Flight), Len(got) + 1, sent, Len(sent))
             /\ Underway(start)
        BY DEF WireInv, InOrder
    <2>5. Laid(start, Flight', Len(Flight), Len(got) + 1, sent, Len(sent))
        BY <2>3, <2>4, LaidDamaged
    <2>6. Len(Flight') = Len(Flight) /\ UNCHANGED <<got, sent, cur, left>>
        BY <2>1, <2>2 DEF Damage
    <2>7. Underway(start)'
        BY <2>4, <2>6 DEF Underway
    <2>8. Len(got) <= Len(sent)
        BY DEF WireInv, InOrder
    <2> QED BY <2>5, <2>6, <2>7, <2>8 DEF InOrder
<1> QED BY <1>5, <1>6, <1>7 DEF WireInv

\* The end of a sequence, told by its elements.
LEMMA EndOf ==
    ASSUME NEW S, NEW e \in Seq(S), NEW r \in Seq(S), Len(r) \in 1..Len(e),
           \A i \in 1..Len(r) : r[i] = e[Len(e) - Len(r) + i]
    PROVE  \E k \in 0..Len(e) - 1 : r = SubSeq(e, k + 1, Len(e))
<1> DEFINE k == Len(e) - Len(r)
           t == SubSeq(e, k + 1, Len(e))
<1>1. Len(e) \in Nat /\ Len(r) \in Nat
    BY LenProperties
<1>2. k \in 0..Len(e) - 1 /\ k \in Nat /\ k <= Len(e) /\ Len(e) - k = Len(r)
    BY <1>1
<1>3. /\ t \in Seq(S) /\ Len(t) = Len(e) - k
      /\ \A i \in 1..(Len(e) - k) : t[i] = e[k + i]
    <2> HIDE DEF k
    <2> QED BY <1>2, Back
<1>4. r = t
    <2>1. \A i \in 1..Len(r) : r[i] = e[k + i]
        OBVIOUS
    <2> HIDE DEF k, t
    <2>2. Len(t) = Len(r) /\ \A i \in 1..Len(r) : r[i] = t[i]
        BY <1>2, <1>3, <2>1
    <2> QED BY <1>3, <2>2, SeqEqual
<1> QED BY <1>2, <1>4

\* The numbers of a partial write: z cells in all, x left of them before.
LEMMA Writing ==
    ASSUME NEW z \in Nat, NEW x \in 1..z, NEW k \in 1..x
    PROVE  /\ z - x \in Nat /\ k \in Nat \ {0} /\ z - x + k <= z
           /\ k # x => x - k \in 1..z
           /\ x - k \in Nat
           /\ x = z => z - x = 0
           /\ \A i \in 1..(x - k) : k + i \in 1..x /\ z - x + (k + i) = z - (x - k) + i
           /\ \A i \in 1..k : i \in 1..x
OBVIOUS

LEMMA OneMore ==
    ASSUME NEW n \in Nat
    PROVE  n + 1 \in Nat \ {0} /\ \A m \in Nat : n < m => n + 1 \in 1..m
OBVIOUS

LEMMA BehindBefore ==
    ASSUME NEW z \in Nat, NEW x \in 1..z, NEW l \in Nat, NEW a \in Nat,
           a + z = l + 1 + x
    PROVE  a + (z - x) = l + 1
OBVIOUS

LEMMA BehindAfter ==
    ASSUME NEW z \in Nat, NEW x \in 1..z, NEW k \in 1..x, NEW l \in Nat, NEW a \in Nat,
           a + (z - x) = l + 1
    PROVE  a + z = l + k + 1 + (x - k)
OBVIOUS

LEMMA SendSomeStep ==
    ASSUME WireInv, NEW k \in 1..Window, send_some(k)
    PROVE  WireInv'
<1> DEFINE e == encode_frame(cur)
           z == Len(e)
           x == Len(left)
           l == Len(Flight)
           off == z - x
           u == SubSeq(left, 1, k)
           h == Len(sent')
<1>1. WireTypes /\ Sending /\ Reading /\ InOrder /\ cur # NoFrame
    BY DEF WireInv, send_some
<1>2. /\ cur \in Frames /\ e \in Seq(Cells) /\ z \in Nat
      /\ x \in 1..z
      /\ \A i \in 1..x : left[i] = e[z - x + i]
      /\ left = e <=> x = z
    BY <1>1, LeftOf
<1>3. k \in 1..x
    BY <1>2 DEF send_some
<1>4. /\ left \in Seq(Cells) /\ stream \in Seq(Cells) /\ buf \in Seq(Cells)
      /\ sent \in Seq(Frames) /\ got \in Seq(Frames)
    BY <1>1 DEF WireTypes
<1>5. /\ Len(sent) \in Nat /\ Len(got) \in Nat /\ l \in Nat /\ Flight \in Seq(Cells)
    BY <1>1, <1>4, WireNumbers, LenProperties
<1>6. /\ stream' = stream \o u /\ left' = SubSeq(left, k + 1, Len(left))
      /\ UNCHANGED <<got, buf>>
    BY DEF send_some
<1>7. /\ stream' \in Seq(Cells) /\ Len(stream') = Len(stream) + k
      /\ left' \in Seq(Cells) /\ Len(left') = x - k
      /\ \A i \in 1..Len(left') : left'[i] = left[k + i]
    <2> DEFINE b == stream \o SubSeq(left, 1, k)
               r == SubSeq(left, k + 1, Len(left))
    <2>1. k \in 1..Len(left)
        BY <1>3
    <2>2. /\ b \in Seq(Cells) /\ Len(b) = Len(stream) + k
          /\ r \in Seq(Cells) /\ Len(r) = Len(left) - k
          /\ \A i \in 1..Len(r) : r[i] = left[k + i]
        <3>1. stream \in Seq(Cells) /\ left \in Seq(Cells)
            BY <1>4
        <3> QED BY <2>1, <3>1, Moved
    <2>3. stream' = b /\ left' = r
        BY <1>6
    <2> HIDE DEF b, r
    <2> QED BY <2>2, <2>3
<1>8. u \in Seq(Cells)
    <2>1. k \in Nat /\ k <= Len(left)
        BY <1>2, <1>3
    <2> QED BY <1>4, <2>1, Front
<1>9. Flight' = Flight \o u
    <2>1. \A s, t \in Seq(Cells) : (buf \o s) \o t = buf \o (s \o t)
        BY <1>1, Regroup, Zenon
    <2>2. Flight' = buf \o (stream \o u)
        BY <1>6 DEF Flight
    <2> HIDE DEF u
    <2> QED BY <1>4, <1>8, <2>1, <2>2, Zenon DEF Flight
<1>10. /\ Len(Flight') = l + k
       /\ \A p \in 1..l : Flight'[p] = Flight[p]
       /\ \A i \in 1..k : Flight'[l + i] = left[i]
    BY <1>3, <1>4, <1>5, <1>9, Moved
<1> HIDE DEF u, l
<1>11. sent' \in Seq(Frames) /\ h \in Nat /\ (\A j \in 1..Len(sent) : sent'[j] = sent[j])
    <2>1. CASE left = e
        BY <1>2, <1>4, <2>1, AppendProperties, LenProperties DEF send_some
    <2>2. CASE left # e
        BY <1>4, <1>5, <2>2 DEF send_some
    <2> QED BY <2>1, <2>2
<1>12. WireTypes'
    <2>1. Len(stream') <= Window
        BY <1>7 DEF send_some
    <2>2. cur' \in Frames \cup {NoFrame} /\ UNCHANGED <<got, buf, sender, receiver, faults>>
        BY <1>2 DEF send_some
    <2> QED BY <1>1, <1>7, <1>11, <2>1, <2>2 DEF WireTypes
<1> HIDE DEF e, z, x, h
<1>13. /\ off \in Nat /\ k \in Nat \ {0} /\ off + k <= z
       /\ k # x => x - k \in 1..z
       /\ x - k \in Nat
       /\ x = z => off = 0
       /\ \A i \in 1..(x - k) : k + i \in 1..x /\ off + (k + i) = z - (x - k) + i
       /\ \A i \in 1..k : i \in 1..x
    BY <1>2, <1>3, Writing
<1> HIDE DEF off
<1>14. Sending'
    <2> SUFFICES ASSUME cur' # NoFrame
                 PROVE  \E i \in 0..Len(encode_frame(cur')) - 1 :
                          left' = SubSeq(encode_frame(cur'), i + 1, Len(encode_frame(cur')))
        BY DEF Sending
    <2>1. k # x /\ cur' = cur
        BY DEF send_some, x
    <2>2. Len(left') \in 1..Len(e)
        BY <1>7, <1>13, <2>1 DEF z
    <2>3. \A i \in 1..(x - k) : left'[i] = e[z - (x - k) + i]
        <3> SUFFICES ASSUME NEW i \in 1..(x - k) PROVE left'[i] = e[z - (x - k) + i]
            OBVIOUS
        <3>1. left'[i] = left[k + i]
            BY <1>7
        <3>2. k + i \in 1..x /\ off + (k + i) = z - (x - k) + i
            BY <1>13
        <3>3. left[k + i] = e[off + (k + i)]
            BY <1>2, <3>2 DEF off
        <3> QED BY <3>1, <3>2, <3>3
    <2>4. \A i \in 1..Len(left') : left'[i] = e[Len(e) - Len(left') + i]
        BY <1>7, <2>3 DEF z
    <2>5. \E i \in 0..Len(e) - 1 : left' = SubSeq(e, i + 1, Len(e))
        BY <1>2, <1>7, <2>2, <2>4, EndOf
    <2> QED BY <2>1, <2>5 DEF e
<1>15. Reading'
    BY <1>1, <1>6 DEF Reading
<1>16. InOrder'
    <2> DEFINE lo == Len(got) + 1
    <2>1. PICK start \in [Nat -> Nat] :
             /\ Laid(start, Flight, l, lo, sent, Len(sent))
             /\ Underway(start)
        BY <1>1 DEF InOrder, l
    <2>2. lo \in Nat \ {0} /\ Len(got) <= Len(sent)
        <3>1. lo \in Nat \ {0}
            BY <1>5, OneMore, Zenon
        <3> QED BY <1>1, <3>1 DEF InOrder
    <2>3. /\ lo <= h /\ sent'[h] = cur /\ Len(sent) <= h
          /\ \/ off = 0 /\ Laid(start, Flight, l, lo, sent', h - 1)
             \/ Laid(start, Flight, l, lo, sent', h) /\ start[h] + off = l + 1
        <3>1. CASE left = e
            <4>1. h = Len(sent) + 1 /\ sent'[h] = cur
                <5>1. sent' = Append(sent, cur)
                    BY <3>1 DEF send_some, e
                <5> QED BY <1>2, <1>4, <5>1, AppendProperties DEF h
            <4>2. h - 1 = Len(sent) /\ lo <= h /\ Len(sent) <= h
                BY <1>5, <2>2, <4>1
            <4>3. \A j \in lo..Len(sent) : j \in 1..Len(sent)
                BY <1>5
            <4>4. Laid(start, Flight, l, lo, sent', Len(sent))
                <5> HIDE DEF lo
                <5> QED BY <1>11, <2>1, <4>3, LaidSame
            <4> QED BY <1>2, <1>13, <3>1, <4>1, <4>2, <4>4
        <3>2. CASE left # e
            <4>1. sent' = sent /\ h = Len(sent)
                BY <3>2 DEF send_some, e, h
            <4>2. /\ Len(got) < Len(sent) /\ sent[Len(sent)] = cur
                  /\ start[Len(sent)] + z = l + 1 + x
                BY <1>1, <2>1, <3>2 DEF Underway, e, l, x, z, Size
            <4>3. start[h] \in Nat
                BY <1>11
            <4>4. start[h] + off = l + 1
                <5>1. start[h] + z = l + 1 + x
                    BY <4>1, <4>2
                <5>2. z \in Nat /\ x \in 1..z /\ k \in 1..x /\ l \in Nat
                    BY <1>2, <1>3, <1>5
                <5>3. start[h] + (z - x) = l + 1
                    BY <4>3, <5>1, <5>2, BehindBefore
                <5> QED BY <5>3 DEF off
            <4>5. lo <= h /\ Len(sent) <= h
                BY <1>5, <4>1, <4>2
            <4> QED BY <2>1, <4>1, <4>2, <4>4, <4>5
        <3> QED BY <3>1, <3>2
    <2>4. \A j \in lo..h : sent'[j] \in Frames
        <3>1. \A j \in lo..h : j \in 1..h
            BY <1>5, <1>11
        <3> QED BY <1>11, <3>1, ElementOfSeq DEF h
    <2>5. off + k <= Size(sent'[h])
        BY <1>13, <2>3 DEF Size, e, z
    <2>6. \A i \in 1..k : Flight'[l + i] = encode_frame(sent'[h])[off + i]
        BY <1>2, <1>10, <1>13, <2>3 DEF off, e
    <2> HIDE DEF lo
    <2>7. PICK st \in [Nat -> Nat] : /\ Laid(st, Flight', l + k, lo, sent', h)
                                     /\ st[h] + off = l + 1
        <3>1. h \in Nat /\ l \in Nat /\ off \in Nat /\ k \in Nat \ {0} /\ lo \in Nat \ {0}
            BY <1>5, <1>11, <1>13, <2>2
        <3>2. Growing(start, Flight, l, lo, sent', h, off, k, Flight')
            BY <1>10, <2>3, <2>4, <2>5, <2>6, <3>1 DEF Growing
        <3> QED BY <3>2, LaidMore
    <2>8. Len(got) < h
        BY <1>5, <1>11, <2>3 DEF lo
    <2>9. Underway(st)'
        <3> SUFFICES ASSUME cur' # NoFrame
                     PROVE  /\ Len(got') < Len(sent')
                            /\ sent'[Len(sent')] = cur'
                            /\ st[Len(sent')] + Size(cur') = Len(Flight') + 1 + Len(left')
            BY DEF Underway
        <3>1. cur' = cur
            BY DEF send_some
        <3>2. st[h] \in Nat
            BY <1>11
        <3>3. st[h] + z = l + k + 1 + (x - k)
            <4>1. z \in Nat /\ x \in 1..z /\ k \in 1..x /\ l \in Nat
                BY <1>2, <1>3, <1>5
            <4>2. st[h] + (z - x) = l + 1
                BY <2>7 DEF off
            <4> QED BY <3>2, <4>1, <4>2, BehindAfter
        <3>4. st[h] + Size(cur') = Len(Flight') + 1 + Len(left')
            BY <1>7, <1>10, <3>1, <3>3 DEF Size, e, z
        <3> QED BY <1>6, <2>3, <2>8, <3>1, <3>4 DEF h
    <2>10. Laid(st, Flight', Len(Flight'), Len(got') + 1, sent', Len(sent'))
        BY <1>6, <1>10, <2>7 DEF h, lo
    <2>11. Len(got') <= Len(sent')
        BY <1>5, <1>6, <1>11, <2>8 DEF h
    <2> QED BY <2>9, <2>10, <2>11 DEF InOrder
<1> QED BY <1>12, <1>14, <1>15, <1>16 DEF WireInv

\* What recv_frame holds once k more cells are read, as a part of what was in flight.
Reads(b, r) ==
    /\ b \in Seq(Cells) /\ r \in Seq(Cells)
    /\ Len(b) \in Nat /\ Len(r) \in Nat
    /\ Flight = b \o r
    /\ \A i \in 1..Len(b) : Flight[i] = b[i]
    /\ \A i \in 1..Len(r) : Flight[Len(b) + i] = r[i]
    /\ Len(Flight) = Len(b) + Len(r)

LEMMA ReadOn ==
    ASSUME WireTypes, NEW k \in 1..Len(stream)
    PROVE  LET b == buf \o SubSeq(stream, 1, k)
               r == SubSeq(stream, k + 1, Len(stream))
           IN  /\ Reads(b, r)
               /\ Len(b) = Len(buf) + k /\ Len(r) = Len(stream) - k
               /\ \A i \in 1..Len(buf) : b[i] = buf[i]
<1> DEFINE u == SubSeq(stream, 1, k)
           b == buf \o u
           r == SubSeq(stream, k + 1, Len(stream))
<1>1. stream \in Seq(Cells) /\ buf \in Seq(Cells)
    BY DEF WireTypes
<1>2. /\ b \in Seq(Cells) /\ Len(b) = Len(buf) + k
      /\ r \in Seq(Cells) /\ Len(r) = Len(stream) - k
    BY <1>1, Moved
<1>3. \A i \in 1..Len(buf) : b[i] = buf[i]
    BY <1>1, Moved
<1>4. b \o r = buf \o stream
    <2>1. u \in Seq(Cells)
        <3>1. k \in Nat /\ k <= Len(stream)
            BY <1>1, LenProperties
        <3> QED BY <1>1, <3>1, Front
    <2>2. u \o r = stream
        BY <1>1, Cut
    <2>3. r \in Seq(Cells)
        BY <1>2
    <2> HIDE DEF u, r
    <2>4. \A x, y \in Seq(Cells) : (buf \o x) \o y = buf \o (x \o y)
        BY Regroup, Zenon
    <2> QED BY <2>1, <2>2, <2>3, <2>4, Zenon
<1> HIDE DEF b, r
<1>5. b \in Seq(Cells) /\ r \in Seq(Cells)
    BY <1>2
<1>6. /\ Len(b) \in Nat /\ Len(r) \in Nat
      /\ Len(b \o r) = Len(b) + Len(r)
      /\ \A i \in 1..(Len(b) + Len(r)) : (b \o r)[i] = IF i <= Len(b) THEN b[i] ELSE r[i - Len(b)]
    BY <1>5, ConcatProperties, LenProperties
<1>7. Flight = b \o r
    BY <1>4 DEF Flight
<1> DEFINE n == Len(b)
           m == Len(r)
<1>8. /\ n \in Nat /\ m \in Nat
      /\ \A i \in 1..(n + m) : Flight[i] = IF i <= n THEN b[i] ELSE r[i - n]
    BY <1>6, <1>7
<1> HIDE DEF n, m
<1>9. \A i \in 1..n : Flight[i] = b[i]
    BY <1>8
<1>10. \A i \in 1..m : Flight[n + i] = r[i]
    <2> SUFFICES ASSUME NEW i \in 1..m PROVE Flight[n + i] = r[i]
        OBVIOUS
    <2> DEFINE p == n + i
    <2>1. p \in 1..(n + m) /\ ~ (p <= n) /\ p - n = i
        BY <1>8
    <2> HIDE DEF p
    <2>2. Flight[p] = r[p - n]
        BY <1>8, <2>1
    <2> QED BY <2>1, <2>2 DEF p
<1>11. Reads(b, r)
    BY <1>5, <1>6, <1>7, <1>9, <1>10 DEF Reads, n, m
<1> QED BY <1>2, <1>3, <1>11 DEF b, r

(***************************************************************************)
(* recv_frame holds the cells b of a frame and returns it: it is the       *)
(* oldest one not returned, and the others are in flight behind it, in r.  *)
(***************************************************************************)
LEMMA Returned ==
    ASSUME WireTypes, Sending, InOrder, NEW b, NEW r, Reads(b, r), recv_step(b) = "frame"
    PROVE  /\ Len(got) < Len(sent)
           /\ FrameOf(b) = sent[Len(got) + 1]
           /\ \E st \in [Nat -> Nat] :
                 /\ Laid(st, r, Len(r), Len(got) + 1 + 1, sent, Len(sent))
                 /\ cur # NoFrame /\ left # encode_frame(cur) =>
                       /\ Len(got) + 1 < Len(sent)
                       /\ sent[Len(sent)] = cur
                       /\ st[Len(sent)] + Size(cur) = Len(r) + 1 + Len(left)
<1> DEFINE n == Len(b)
           m == Len(r)
           l == Len(Flight)
           lo == Len(got) + 1
           h == Len(sent)
<1>1. /\ b \in Seq(Cells) /\ r \in Seq(Cells)
      /\ \A i \in 1..Len(b) : Flight[i] = b[i]
      /\ \A i \in 1..Len(r) : Flight[Len(b) + i] = r[i]
      /\ Len(Flight) = Len(b) + Len(r)
    BY DEF Reads
<1>2. /\ sent \in Seq(Frames) /\ Len(got) \in Nat /\ h \in Nat /\ Len(left) \in Nat
      /\ l \in Nat
    BY WireNumbers, LenProperties DEF WireTypes
<1>3. recv_step(b) = "frame"
    OBVIOUS
<1>4. n \in Nat /\ m \in Nat
    BY DEF Reads
<1>5. n > Header /\ checksum_ok(b)
    <2>1. Len(b) > Header
        <3> SUFFICES ASSUME Len(b) <= Header PROVE FALSE
            BY <1>4, HeaderCases
        <3>1. Len(b) < Header \/ Len(b) = Header
            BY <1>4, HeaderCases
        <3> QED BY <1>1, <1>3, <3>1, StepAtHeader
    <2> QED BY <1>1, <1>3, <2>1, StepBehindHeader
<1>6. PICK start \in [Nat -> Nat] :
         /\ Laid(start, Flight, l, lo, sent, h)
         /\ Underway(start)
    BY DEF InOrder
<1>7. lo \in Nat \ {0}
    BY <1>2, OneMore, Zenon
<1>8. n \in 1..l
    <2>1. l = n + m
        BY <1>1
    <2> HIDE DEF n, m, l
    <2> QED BY <1>2, <1>4, <1>5, <2>1 DEF Header
<1>9. \A j \in lo..h : sent[j] \in Frames
    <2>1. \A j \in lo..h : j \in 1..h
        BY <1>2
    <2> QED BY <1>2, <2>1, ElementOfSeq
<1>10. l = n + m /\ \A i \in 1..n : b[i] = Flight[i]
    BY <1>1
<1>11. \A i \in 1..m : r[i] = Flight[n + i]
    BY <1>1
<1> DEFINE N == n = Len(b)
<1>12. N
    OBVIOUS
<1> HIDE DEF n, m, l, lo, h, N
<1>13. /\ lo <= h
       /\ FrameOf(b) = sent[lo]
       /\ n = Size(sent[lo])
       /\ start[lo + 1] = n + 1
    <2>1. h \in Nat /\ l \in Nat /\ lo \in Nat \ {0}
        BY <1>2, <1>7, Zenon
    <2>2. b \in Seq(Cells) /\ n \in 1..l /\ n = Len(b)
        BY <1>1, <1>8, <1>12, Zenon DEF N
    <2>3. \A i \in 1..n : b[i] = Flight[i]
        BY <1>10, Zenon
    <2>4. Whole(start, Flight, l, lo, sent, h, b, n)
        BY <1>5, <1>6, <1>9, <2>1, <2>2, <2>3 DEF Whole
    <2> QED BY <2>4, FrameIsNext
<1>14. l - n = m
    BY <1>4, <1>10
<1>15. PICK st \in [Nat -> Nat] :
              /\ Laid(st, r, l - n, lo + 1, sent, h)
              /\ \A j \in (lo + 1)..(h + 1) : st[j] + n = start[j]
    <2>1. \A p \in 1..(l - n) : r[p] = Flight[n + p]
        BY <1>11, <1>14
    <2>2. n <= l
        BY <1>4, <1>10
    <2>3. h \in Nat /\ l \in Nat /\ lo \in Nat \ {0} /\ n \in Nat
        BY <1>2, <1>4, <1>7, Zenon
    <2>4. lo <= h /\ start[lo + 1] = n + 1 /\ Laid(start, Flight, l, lo, sent, h)
        BY <1>6, <1>13, Zenon
    <2>5. Shrinking(start, Flight, l, lo, sent, h, n, r)
        BY <1>9, <2>1, <2>2, <2>3, <2>4 DEF Shrinking
    <2> QED BY <2>5, LaidTaken
<1>16. Len(got) < h
    BY <1>2, <1>13 DEF lo
<1>17. ASSUME cur # NoFrame, left # encode_frame(cur)
       PROVE  /\ lo < h
              /\ sent[h] = cur
              /\ st[h] + Size(cur) = m + 1 + Len(left)
    <2> DEFINE x == Len(left)
    <2>1. sent[h] = cur /\ start[h] + Size(cur) = l + 1 + x
        BY <1>6, <1>17 DEF Underway, h, l
    <2>2. x \in Nat /\ x >= 1 /\ Size(cur) \in Nat
        BY <1>2, <1>17, LeftOf DEF Size
    <2> HIDE DEF x
    <2>3. lo # h
        <3> SUFFICES ASSUME lo = h PROVE FALSE
            OBVIOUS
        <3>1. start[lo] = 1 /\ n = Size(cur) /\ n <= l
            BY <1>4, <1>6, <1>10, <1>13, <2>1 DEF Laid
        <3>2. 1 + n = l + 1 + x
            BY <2>1, <3>1
        <3> QED BY <1>2, <1>4, <2>2, <3>1, <3>2
    <2>4. lo < h /\ h \in (lo + 1)..(h + 1) /\ h \in Nat
        BY <1>2, <1>7, <1>13, <2>3
    <2>5. st[h] + n = start[h] /\ st[h] \in Nat /\ start[h] \in Nat
        BY <1>15, <2>4
    <2>6. st[h] + Size(cur) = m + 1 + x
        <3> DEFINE z == Size(cur)
                   a == start[h]
                   c == st[h]
        <3>1. l = n + m /\ a + z = l + 1 + x /\ c + n = a
            BY <1>10, <2>1, <2>5
        <3>2. /\ l \in Nat /\ n \in Nat /\ m \in Nat /\ x \in Nat
              /\ a \in Nat /\ c \in Nat /\ z \in Nat
            BY <1>2, <1>4, <2>2, <2>5
        <3> HIDE DEF z, a, c
        <3>3. c + z = m + 1 + x
            BY <3>1, <3>2, Behead
        <3> QED BY <3>3 DEF c, z
    <2> QED BY <2>1, <2>4, <2>6 DEF x
<1>18. FrameOf(b) = sent[lo]
    BY <1>13
<1>19. Laid(st, r, m, lo + 1, sent, h)
    BY <1>14, <1>15
<1> QED BY <1>16, <1>17, <1>18, <1>19 DEF m, lo, h

\* What one recv() of recv_frame comes to.
Held(k) == buf \o SubSeq(stream, 1, k)
Rest(k) == SubSeq(stream, k + 1, Len(stream))

LEMMA RecvCases ==
    ASSUME WireTypes, NEW k \in 1..Window, recv_some(k)
    PROVE  /\ receiver /\ Reads(Held(k), Rest(k)) /\ k \in Nat
           /\ Len(Held(k)) = Len(buf) + k
           /\ Len(Rest(k)) <= Len(stream)
           /\ \A i \in 1..Len(buf) : Held(k)[i] = buf[i]
           /\ Len(Held(k)) <= awaited(buf)
           /\ \/ recv_step(Held(k)) = "fail" /\ RecvFails
              \/ /\ recv_step(Held(k)) = "frame"
                 /\ stream' = Rest(k) /\ buf' = <<>>
                 /\ got' = Append(got, FrameOf(Held(k)))
                 /\ UNCHANGED <<sent, cur, left, sender, receiver, faults>>
              \/ /\ recv_step(Held(k)) = "more"
                 /\ stream' = Rest(k) /\ buf' = Held(k)
                 /\ UNCHANGED <<sent, got, cur, left, sender, receiver, faults>>
<1>1. k \in 1..Len(stream) /\ k \in Nat /\ Len(stream) \in Nat
    BY WireNumbers DEF recv_some
<1>2. /\ Reads(Held(k), Rest(k)) /\ Len(Held(k)) = Len(buf) + k
      /\ Len(Rest(k)) = Len(stream) - k
      /\ \A i \in 1..Len(buf) : Held(k)[i] = buf[i]
    BY <1>1, ReadOn DEF Held, Rest
<1>3. Len(Rest(k)) <= Len(stream)
    BY <1>1, <1>2
<1>4. recv_step(Held(k)) \in {"fail", "more", "frame"}
    BY DEF recv_step
<1>5. /\ receiver /\ Len(Held(k)) <= awaited(buf)
      /\ \/ recv_step(Held(k)) = "fail" /\ RecvFails
         \/ /\ recv_step(Held(k)) # "fail"
            /\ stream' = Rest(k)
            /\ buf' = IF recv_step(Held(k)) = "frame" THEN <<>> ELSE Held(k)
            /\ got' = IF recv_step(Held(k)) = "frame" THEN Append(got, FrameOf(Held(k))) ELSE got
            /\ UNCHANGED <<sent, cur, left, sender, receiver, faults>>
    BY DEF recv_some, Held, Rest
<1> QED BY <1>1, <1>2, <1>3, <1>4, <1>5

\* Reading on inside a frame never goes past it.
LEMMA ReadingOn ==
    ASSUME WireTypes, Reading, NEW b \in Seq(Cells),
           \A i \in 1..Len(buf) : b[i] = buf[i],
           Len(buf) <= Len(b), Len(b) <= awaited(buf), recv_step(b) = "more"
    PROVE  Len(b) >= Header => Length(b) <= MaxPayload /\ Len(b) < Total(b)
<1> DEFINE n == Len(b)
           m == Len(buf)
<1>1. n \in Nat /\ m \in Nat /\ MaxPayload \in Nat /\ m <= n
    BY WireNumbers, LenProperties
<1>2. CASE n = Header
    <2>1. ~ (Length(b) > MaxPayload)
        <3>1. Len(b) <= Header
            BY <1>1, <1>2 DEF Header
        <3> QED BY <1>2, <3>1, StepAtHeader
    <2>2. Length(b) \in Nat
        <3>1. 4 \in 1..Len(b)
            BY <1>2 DEF Header
        <3> QED BY <3>1, ElementOfSeq, CellFacts DEF Length
    <2> QED BY <1>1, <1>2, <2>1, <2>2 DEF Total, Header
<1>3. CASE n > Header
    <2>1. Length(b) \in Nat /\ n # Total(b)
        BY <1>3, StepBehindHeader
    <2>2. m >= Header
        <3> SUFFICES ASSUME ~ (m >= Header) PROVE FALSE
            OBVIOUS
        <3>1. awaited(buf) = Header
            BY <1>1 DEF awaited, Header
        <3> QED BY <1>1, <1>3, <3>1 DEF Header
    <2>3. Length(b) = Length(buf)
        <3>1. 4 \in 1..Len(buf)
            BY <1>1, <2>2 DEF Header
        <3> QED BY <3>1 DEF Length
    <2>4. Length(b) <= MaxPayload
        BY <2>2, <2>3 DEF Reading
    <2>5. n <= Total(b)
        <3> DEFINE c == Length(b)
        <3>1. awaited(buf) = IF m < Header THEN Header
                             ELSE IF m < Header + c THEN Header + c ELSE Header + c + 1
            BY <2>3 DEF awaited, Total
        <3>2. Total(b) = Header + c + 1 /\ c \in Nat /\ n <= awaited(buf)
            BY <2>1 DEF Total
        <3> HIDE DEF c, n, m
        <3> QED BY <1>1, <2>2, <3>1, <3>2 DEF Header
    <2> HIDE DEF n
    <2>6. Total(b) \in Nat
        BY <2>1 DEF Total, Header
    <2>7. n < Total(b)
        BY <1>1, <2>1, <2>5, <2>6
    <2> QED BY <2>4, <2>7 DEF n
<1>4. n >= Header => n = Header \/ n > Header
    BY <1>1, HeaderCases
<1> QED BY <1>2, <1>3, <1>4

LEMMA RecvSomeStep ==
    ASSUME WireInv, NEW k \in 1..Window, recv_some(k)
    PROVE  WireInv'
<1> DEFINE b == Held(k)
           r == Rest(k)
<1>1. WireTypes /\ Sending /\ Reading
    BY DEF WireInv
<1>2. /\ receiver /\ Reads(b, r) /\ k \in Nat
      /\ Len(b) = Len(buf) + k /\ Len(r) <= Len(stream)
      /\ \A i \in 1..Len(buf) : b[i] = buf[i]
      /\ Len(b) <= awaited(buf)
    BY <1>1, RecvCases
<1>3. InOrder
    BY <1>2 DEF WireInv
<1> HIDE DEF b, r
<1>4. b \in Seq(Cells) /\ r \in Seq(Cells) /\ Flight = b \o r
    BY <1>2 DEF Reads
<1>5. Len(r) <= Window
    <2>1. Len(r) \in Nat /\ Len(stream) \in Nat /\ Window \in Nat /\ Len(stream) <= Window
        BY <1>1, <1>2, WireNumbers DEF Reads, WireTypes
    <2> QED BY <1>2, <2>1
<1>6. CASE recv_step(b) = "fail" /\ RecvFails
    BY <1>1, <1>6, ReaderGone DEF RecvFails, WireTypes
<1>7. CASE /\ recv_step(b) = "frame"
           /\ stream' = r /\ buf' = <<>>
           /\ got' = Append(got, FrameOf(b))
           /\ UNCHANGED <<sent, cur, left, sender, receiver, faults>>
    <2>1. /\ Len(got) < Len(sent)
          /\ FrameOf(b) = sent[Len(got) + 1]
          /\ \E st \in [Nat -> Nat] :
                 /\ Laid(st, r, Len(r), Len(got) + 1 + 1, sent, Len(sent))
                 /\ cur # NoFrame /\ left # encode_frame(cur) =>
                       /\ Len(got) + 1 < Len(sent)
                       /\ sent[Len(sent)] = cur
                       /\ st[Len(sent)] + Size(cur) = Len(r) + 1 + Len(left)
        BY <1>1, <1>2, <1>3, <1>7, Returned
    <2>2. got' \in Seq(Frames) /\ Len(got') = Len(got) + 1
        <3>1. Len(got) + 1 \in 1..Len(sent)
            <4>1. Len(got) \in Nat /\ Len(sent) \in Nat /\ Len(got) < Len(sent)
                BY <1>1, <2>1, WireNumbers
            <4> QED BY <4>1, OneMore, Zenon
        <3>2. FrameOf(b) \in Frames
            BY <1>1, <2>1, <3>1, ElementOfSeq DEF WireTypes
        <3>3. got \in Seq(Frames)
            BY <1>1 DEF WireTypes
        <3> QED BY <1>7, <3>2, <3>3, AppendProperties
    <2>3. <<>> \in Seq(Cells) /\ Len(<<>>) = 0
        BY EmptySeq
    <2>4. WireTypes'
        BY <1>1, <1>4, <1>5, <1>7, <2>2, <2>3 DEF WireTypes
    <2>5. Sending'
        BY <1>1, <1>7 DEF Sending
    <2>6. Reading'
        BY <1>7, <2>3 DEF Reading, Header
    <2>7. Flight' = r
        BY <1>4, <1>7, ConcatEmptySeq DEF Flight
    <2>8. InOrder'
        <3>1. PICK st \in [Nat -> Nat] :
                 /\ Laid(st, r, Len(r), Len(got) + 1 + 1, sent, Len(sent))
                 /\ cur # NoFrame /\ left # encode_frame(cur) =>
                       /\ Len(got) + 1 < Len(sent)
                       /\ sent[Len(sent)] = cur
                       /\ st[Len(sent)] + Size(cur) = Len(r) + 1 + Len(left)
            BY <2>1
        <3>2. Laid(st, Flight', Len(Flight'), Len(got') + 1, sent', Len(sent'))
            BY <1>7, <2>2, <2>7, <3>1
        <3>3. Underway(st)'
            BY <1>7, <2>2, <2>7, <3>1 DEF Underway
        <3>4. Len(got') <= Len(sent')
            <4>1. Len(got) \in Nat /\ Len(sent) \in Nat /\ sent' = sent
                BY <1>1, <1>7, WireNumbers
            <4> QED BY <2>1, <2>2, <4>1
        <3> QED BY <3>2, <3>3, <3>4 DEF InOrder
    <2> QED BY <2>4, <2>5, <2>6, <2>8 DEF WireInv
<1>8. CASE /\ recv_step(b) = "more"
           /\ stream' = r /\ buf' = b
           /\ UNCHANGED <<sent, got, cur, left, sender, receiver, faults>>
    <2>1. WireTypes'
        BY <1>1, <1>4, <1>5, <1>8 DEF WireTypes
    <2>2. Sending'
        BY <1>1, <1>8 DEF Sending
    <2>3. Reading'
        <3>1. Len(buf) <= Len(b)
            <4>1. Len(buf) \in Nat
                BY <1>1, WireNumbers
            <4> QED BY <1>2, <4>1
        <3>2. Len(b) >= Header => Length(b) <= MaxPayload /\ Len(b) < Total(b)
            BY <1>1, <1>2, <1>4, <1>8, <3>1, ReadingOn
        <3> QED BY <1>8, <3>2 DEF Reading
    <2>4. Flight' = Flight
        BY <1>4, <1>8 DEF Flight
    <2>5. InOrder'
        BY <1>3, <1>8, <2>4 DEF InOrder, Underway
    <2> QED BY <2>1, <2>2, <2>3, <2>5 DEF WireInv
<1>9. \/ recv_step(b) = "fail" /\ RecvFails
      \/ /\ recv_step(b) = "frame"
         /\ stream' = r /\ buf' = <<>>
         /\ got' = Append(got, FrameOf(b))
         /\ UNCHANGED <<sent, cur, left, sender, receiver, faults>>
      \/ /\ recv_step(b) = "more"
         /\ stream' = r /\ buf' = b
         /\ UNCHANGED <<sent, got, cur, left, sender, receiver, faults>>
    BY <1>1, RecvCases DEF b, r
<1> QED BY <1>6, <1>7, <1>8, <1>9

LEMMA WireStep == WireInv /\ [Next]_vars => WireInv'
<1> SUFFICES ASSUME WireInv, [Next]_vars PROVE WireInv'
    OBVIOUS
<1>1. WireTypes /\ MaxFaults \in Nat /\ faults \in 0..MaxFaults
    BY BoundsAssumption DEF WireInv, WireTypes
<1>2. ASSUME NEW f \in Frames, send_frame(f) PROVE WireInv'
    BY <1>2, SendFrameStep
<1>3. CASE SendSome
    BY <1>3, SendSomeStep DEF SendSome
<1>4. CASE send_fails
    BY <1>1, <1>4, GivesUp DEF send_fails, WireTypes
<1>5. CASE sender_closes
    <2>1. faults' \in 0..MaxFaults
        BY <1>1, <1>5 DEF sender_closes
    <2> QED BY <2>1, <1>5, GivesUp DEF sender_closes
<1>6. CASE RecvSome
    BY <1>6, RecvSomeStep DEF RecvSome
<1>7. CASE recv_eof
    BY <1>1, <1>7, ReaderGone DEF recv_eof, RecvFails, WireTypes
<1>8. CASE receiver_dies
    <2>1. faults' \in 0..MaxFaults
        BY <1>1, <1>8 DEF receiver_dies
    <2> QED BY <2>1, <1>8, ReaderGone DEF receiver_dies
<1>9. CASE Damage
    BY <1>9, DamageStep
<1>10. CASE UNCHANGED vars
    BY <1>10 DEF vars, WireInv, WireTypes, Sending, Reading, InOrder, Underway, Flight
<1> QED BY <1>2, <1>3, <1>4, <1>5, <1>6, <1>7, <1>8, <1>9, <1>10 DEF Next

LEMMA WireHolds == Spec => []WireInv
BY WireStarts, WireStep, PTL DEF Spec

-----------------------------------------------------------------------------
(* The theorems *)

\* recv_frame never holds more than one frame of the largest legal size,
\* whatever length a damaged header announces, and what is written of a frame
\* is a beginning of it.
THEOREM OneFrameHeld == Spec => []TypeOK
<1>1. WireInv => TypeOK
    <2> SUFFICES ASSUME WireInv PROVE TypeOK
        OBVIOUS
    <2>1. WireTypes /\ Sending /\ Reading
        BY DEF WireInv
    <2>2. Len(buf) \in Nat /\ MaxPayload \in Nat
        BY <2>1, WireNumbers
    <2>3. Len(buf) <= MaxPayload + Header
        <3>1. CASE Len(buf) >= Header
            <4> DEFINE n == Len(buf)
                       c == Length(buf)
            <4>1. c <= MaxPayload /\ n < Header + c + 1 /\ n \in Nat
                BY <2>1, <2>2, <3>1 DEF Reading, Total
            <4>2. c \in Nat
                <5>1. 4 \in 1..Len(buf)
                    BY <2>2, <3>1 DEF Header
                <5>2. buf[4] \in Cells
                    BY <2>1, <5>1, ElementOfSeq DEF WireTypes
                <5> QED BY <5>2, CellFacts DEF Length
            <4> HIDE DEF n, c
            <4>3. n <= MaxPayload + Header
                BY <2>2, <4>1, <4>2 DEF Header
            <4> QED BY <4>3 DEF n
        <3>2. CASE ~ (Len(buf) >= Header)
            BY <2>2, <3>2 DEF Header
        <3> QED BY <3>1, <3>2
    <2> QED BY <2>1, <2>3 DEF TypeOK, WireTypes, Sending
<1> QED BY <1>1, WireHolds, PTL

\* decode_frame accepts a prefix of what is in flight exactly when recv_frame
\* reads through it and returns a frame there.
THEOREM DecodersAlwaysAgree == Spec => []DecodersAgree
<1>1. WireInv => DecodersAgree
    <2> SUFFICES ASSUME WireInv PROVE DecodersAgree
        OBVIOUS
    <2>1. Flight \in Seq(Cells)
        BY WireNumbers DEF WireInv
    <2>2. \A n \in 0..Len(Flight) :
             decode_frame(SubSeq(Flight, 1, n)) <=>
                /\ recv_step(SubSeq(Flight, 1, n)) = "frame"
                /\ \A m \in 0..n - 1 : recv_step(SubSeq(Flight, 1, m)) = "more"
        BY <2>1, DecodersAgreeOn
    <2> QED BY <2>2, Zenon DEF DecodersAgree, Flight
<1> QED BY <1>1, WireHolds, PTL

\* send_frame and recv_frame over a stream that splits, damages, tears and cuts
\* off implement the channel: what recv_frame returns is the next frame that was
\* put on the wire, whole, each once and in order.
THEOREM WireImplementsChannel == Spec => ImplementsChannel
<1>1. Init => ChannelSpec!Init
    BY DEF Init, ChannelSpec!Init
<1>2. ASSUME WireInv, [Next]_vars
      PROVE  [ChannelSpec!Send \/ ChannelSpec!Receive]_<<sent, got>>
    <2>1. WireTypes /\ Sending /\ (receiver => InOrder)
        BY <1>2 DEF WireInv
    <2>2. CASE SendSome
        <3>1. PICK k \in 1..Window : send_some(k)
            BY <2>2 DEF SendSome
        <3>2. cur \in Frames /\ got' = got
            BY <2>1, <3>1 DEF send_some, WireTypes
        <3>3. sent' = Append(sent, cur) \/ sent' = sent
            BY <3>1 DEF send_some
        <3> QED BY <3>2, <3>3 DEF ChannelSpec!Send
    <2>3. CASE RecvSome
        <3>1. PICK k \in 1..Window : recv_some(k)
            BY <2>3 DEF RecvSome
        <3>2. /\ receiver /\ Reads(Held(k), Rest(k))
              /\ \/ recv_step(Held(k)) = "fail" /\ RecvFails
                 \/ /\ recv_step(Held(k)) = "frame"
                    /\ got' = Append(got, FrameOf(Held(k)))
                    /\ UNCHANGED sent
                 \/ UNCHANGED <<sent, got>>
            BY <2>1, <3>1, RecvCases
        <3>3. CASE /\ recv_step(Held(k)) = "frame"
                   /\ got' = Append(got, FrameOf(Held(k)))
                   /\ UNCHANGED sent
            <4>1. Len(got) < Len(sent) /\ FrameOf(Held(k)) = sent[Len(got) + 1]
                BY <2>1, <3>2, <3>3, Returned
            <4> QED BY <3>3, <4>1 DEF ChannelSpec!Receive
        <3> QED BY <3>2, <3>3 DEF RecvFails
    <2>4. CASE \E f \in Frames : send_frame(f)
        BY <2>4 DEF send_frame
    <2>5. CASE \/ send_fails \/ sender_closes \/ recv_eof
               \/ receiver_dies \/ Damage \/ UNCHANGED vars
        BY <2>5 DEF send_fails, sender_closes, recv_eof, RecvFails, receiver_dies,
                    Damage, vars
    <2> QED BY <1>2, <2>2, <2>3, <2>4, <2>5 DEF Next
<1> QED BY <1>1, <1>2, WireHolds, PTL DEF Spec, ImplementsChannel, ChannelSpec!Spec
=============================================================================

--------------------------- MODULE WebTextProofs ---------------------------
(***************************************************************************)
(* Proofs about WebText for rings and lines of any size and for any number *)
(* of bytes, log calls and requests.                                       *)
(***************************************************************************)
EXTENDS WebText, TLAPS

LEMMA Sizes ==
  /\ ConsoleSize \in Nat /\ ConsoleLine \in Nat /\ LogSize \in Nat /\ LogLine \in Nat
  /\ 2 <= ConsoleLine /\ ConsoleLine <= ConsoleSize /\ 4 <= LogLine /\ LogLine <= LogSize
  /\ MaxEvents \in Nat
<1>1. {ConsoleSize, ConsoleLine, LogSize, LogLine, MaxEvents} \subseteq Nat
      /\ ConsoleLine \in 2..ConsoleSize /\ LogLine \in 4..LogSize
  BY SizesAssumption
<1> QED
  BY <1>1

-----------------------------------------------------------------------------
(* Rings.                                                                  *)

\* The position of the k-th newest character of a ring that is written at h.
Back(h, k, size) == (h + size - 1 - k) % size

Least(a, b) == IF a <= b THEN a ELSE b

\* A ring holds the newest characters of a text.
Ring(data, size, h, u, text) ==
    /\ h \in 0..(size - 1)
    /\ u = Least(Len(text), size)
    /\ \A k \in 0..(u - 1) : data[Back(h, k, size)] = text[Len(text) - k]

LEMMA Mod ==
  ASSUME NEW size \in Nat, size > 0, NEW a \in 0..(2 * size - 1)
  PROVE  a % size = IF a < size THEN a ELSE a - size
<1>1. a < size => a % size = a
  OBVIOUS
<1>2. ~(a < size) => a % size = a - size
  OBVIOUS
<1> QED
  BY <1>1, <1>2

\* What is written to a ring is the end of its text then.
LEMMA RingWritten ==
  ASSUME NEW S, NEW size \in Nat, size > 0, NEW data, NEW h, NEW u,
         NEW text \in Seq(S), NEW add \in Seq(S), Len(add) <= size, Len(add) > 0,
         Ring(data, size, h, u, text)
  PROVE  Ring(Written(data, size, h, add), size, (h + Len(add)) % size,
              Fill(size, u, add), text \o add)
<1> DEFINE n  == Len(add)
           L  == Len(text)
           h1 == (h + n) % size
           u1 == Fill(size, u, add)
           d1 == Written(data, size, h, add)
           t1 == text \o add
<1>1. /\ n \in Nat /\ L \in Nat /\ n <= size /\ n > 0 /\ h \in 0..(size - 1)
      /\ u = Least(L, size)
  BY DEF Ring
<1>2. Len(t1) = L + n /\ (\A i \in 1..L : t1[i] = text[i])
      /\ \A i \in 1..n : t1[L + i] = add[i]
  OBVIOUS
<1>3. h1 = (IF h + n < size THEN h + n ELSE h + n - size)
  <2> DEFINE a == h + n
  <2>1. a \in 0..(2 * size - 1) /\ h1 = a % size
    BY <1>1
  <2>4. h + n < size <=> a < size
    OBVIOUS
  <2> HIDE DEF a, h1
  <2>2. a % size = IF a < size THEN a ELSE a - size
    BY <2>1, Mod
  <2>3. h1 = IF a < size THEN a ELSE a - size
    BY <2>1, <2>2
  <2>5. h1 = IF h + n < size THEN a ELSE a - size
    BY <2>3, <2>4
  <2> QED
    BY <1>1, <2>5 DEF a
<1>4. u1 = Least(L + n, size)
  BY <1>1 DEF Fill, Least
<1>5. \A i \in 0..(size - 1) :
         d1[i] = LET k == (i - h + size) % size IN IF k < n THEN add[k + 1] ELSE data[i]
  BY DEF Written
<1>6. \A k \in 0..(u - 1) : data[Back(h, k, size)] = text[L - k]
  BY DEF Ring
<1> HIDE DEF n, L, h1, u1, d1, t1
<1>7. h1 \in 0..(size - 1)
  BY <1>1, <1>3
<1>8. ASSUME NEW k \in 0..(u1 - 1) PROVE d1[Back(h1, k, size)] = t1[L + n - k]
  <2> DEFINE p == Back(h1, k, size)
  <2>1. k \in 0..(size - 1) /\ k < L + n
    BY <1>1, <1>4, <1>8 DEF Least
  <2>2. p = IF h1 + size - 1 - k < size THEN h1 + size - 1 - k ELSE h1 - 1 - k
    <3>1. h1 + size - 1 - k \in 0..(2 * size - 1)
      BY <1>7, <2>1
    <3>2. p = IF h1 + size - 1 - k < size THEN h1 + size - 1 - k
              ELSE h1 + size - 1 - k - size
      <4> DEFINE a == h1 + size - 1 - k
      <4>1. p = a % size /\ a \in 0..(2 * size - 1)
        BY <3>1 DEF Back
      <4> HIDE DEF a, p
      <4>2. a % size = IF a < size THEN a ELSE a - size
        BY <4>1, Mod
      <4>3. p = IF a < size THEN a ELSE a - size
        BY <4>1, <4>2
      <4> QED
        BY <1>7, <2>1, <4>1, <4>3 DEF a
    <3> QED
      BY <1>7, <2>1, <3>2
  <2>3. p \in 0..(size - 1)
    BY <1>7, <2>1, <2>2
  <2> HIDE DEF p
  <2>4. p - h + size \in 0..(2 * size - 1)
    BY <1>1, <2>3
  <2>5. (p - h + size) % size = IF p < h THEN p - h + size ELSE p - h
    BY <1>1, <2>3, <2>4, Mod
  <2>6. CASE k < n
    <3>1. (p - h + size) % size = n - 1 - k
      BY <1>1, <1>3, <2>1, <2>2, <2>5, <2>6
    <3>2. d1[p] = add[n - k]
      <4>1. n - 1 - k < n /\ n - 1 - k + 1 = n - k
        BY <1>1, <2>1
      <4> QED
        BY <1>5, <2>3, <3>1, <4>1
    <3>3. n - k \in 1..n /\ L + (n - k) = L + n - k
      BY <1>1, <2>1, <2>6
    <3> QED
      BY <1>2, <3>2, <3>3 DEF p
  <2>7. CASE ~(k < n)
    <3>1. k - n \in 0..(u - 1)
      BY <1>1, <1>4, <1>8, <2>1, <2>7 DEF Least
    <3>2. Back(h, k - n, size) = p
      <4>1. h + size - 1 - (k - n) \in 0..(2 * size - 1)
        BY <1>1, <2>1, <2>7
      <4>2. Back(h, k - n, size) = IF h + size - 1 - (k - n) < size
                                   THEN h + size - 1 - (k - n) ELSE h - 1 - (k - n)
        BY <1>1, <2>1, <4>1, Mod DEF Back
      <4> QED
        BY <1>1, <1>3, <2>1, <2>2, <2>7, <4>2
    <3>3. (p - h + size) % size = size - 1 - (k - n)
      BY <1>1, <1>3, <2>1, <2>2, <2>5, <2>7
    <3>4. ~(size - 1 - (k - n) < n)
      BY <1>1, <2>1
    <3>5. d1[p] = data[p]
      BY <1>5, <2>3, <3>3, <3>4
    <3>6. L - (k - n) \in 1..L /\ L - (k - n) = L + n - k
      BY <1>1, <2>1, <3>1 DEF Least
    <3> QED
      BY <1>2, <1>6, <3>1, <3>2, <3>5, <3>6 DEF p
  <2> QED
    BY <2>6, <2>7
<1>9. Len(t1) = L + n
  BY <1>2
<1>10. Ring(d1, size, h1, u1, t1)
  <2>1. \A k \in 0..(u1 - 1) : d1[Back(h1, k, size)] = t1[Len(t1) - k]
    <3> SUFFICES ASSUME NEW k \in 0..(u1 - 1)
                 PROVE  d1[Back(h1, k, size)] = t1[Len(t1) - k]
      OBVIOUS
    <3>1. d1[Back(h1, k, size)] = t1[L + n - k]
      BY <1>8
    <3> QED
      BY <1>1, <1>9, <3>1
  <2>2. u1 = Least(Len(t1), size)
    BY <1>4, <1>9
  <2> QED
    BY <1>7, <2>1, <2>2 DEF Ring
<1> QED
  BY <1>10 DEF n, h1, u1, d1, t1

\* The content of a ring, from its oldest character on, is the newest of its text.
LEMMA RingContent ==
  ASSUME NEW S, NEW size \in Nat, size > 0, NEW data, NEW h, NEW u,
         NEW text \in Seq(S), Ring(data, size, h, u, text)
  PROVE  Content(data, size, h, u) = Newest(text, size)
<1> DEFINE L == Len(text)
           w == Newest(text, size)
<1>1. L \in Nat /\ h \in 0..(size - 1) /\ u = Least(L, size)
  BY DEF Ring
<1>2. w \in Seq(S) /\ Len(w) = u /\ \A i \in 1..u : w[i] = text[L - u + i]
  <2>1. CASE L <= size
    BY <1>1, <2>1 DEF Newest, Least
  <2>2. CASE ~(L <= size)
    <3>1. u = size /\ w = SubSeq(text, L - size + 1, L) /\ L - size + 1 \in 1..L
      BY <1>1, <2>2 DEF Newest, Least
    <3>2. L - (L - size + 1) + 1 = size
      BY <1>1
    <3>3. Len(w) = size /\ \A i \in 1..size : w[i] = text[L - size + 1 + i - 1]
      BY <1>1, <3>1, <3>2
    <3>4. w \in Seq(S)
      BY <1>1, <3>1
    <3>5. \A i \in 1..size : L - size + 1 + i - 1 = L - u + i
      BY <1>1, <3>1
    <3> QED
      BY <3>1, <3>3, <3>4, <3>5
  <2> QED
    BY <2>1, <2>2
<1>3. \A k \in 0..(u - 1) : data[Back(h, k, size)] = text[L - k]
  BY DEF Ring
<1> HIDE DEF L, w
<1>4. ASSUME NEW i \in 1..u PROVE data[(h + size - u + i - 1) % size] = w[i]
  <2>1. u - i \in 0..(u - 1) /\ h + size - 1 - (u - i) = h + size - u + i - 1
        /\ L - (u - i) = L - u + i
    BY <1>1, <1>4 DEF Least
  <2> QED
    BY <1>2, <1>3, <1>4, <2>1 DEF Back
<1>5. w = [i \in 1..u |-> w[i]]
  BY <1>2
<1> QED
  BY <1>4, <1>5 DEF Content, w

LEMMA RingEmpty ==
  ASSUME NEW size \in Nat, size > 0, NEW data
  PROVE  Ring(data, size, 0, 0, <<>>)
  BY DEF Ring, Least
-----------------------------------------------------------------------------
(* The invariant.                                                          *)

Kinds == {"newline", "start", "text", "binary", "R", "W", "I", "a", "b"}
Chars == [n : Nat, class : Kinds]

Types ==
    /\ buffers \in [0..1 -> [0..(ConsoleSize - 1) -> Chars]]
    /\ active_buffer \in 0..1
    /\ line \in Seq(Chars) /\ said \in Seq(Chars)
    /\ pending \in Seq(Chars) /\ writing \in Seq(Chars) /\ logged \in Seq(Chars)
    /\ shown \in Seq(Chars) /\ due \in Seq(Chars)
    /\ Len(line) < ConsoleLine /\ Len(pending) < LogLine
    /\ received \in Nat
    /\ job.kind \in {"none", "console", "answer", "receive", "command"}

\* Both rings hold the newest of what was stored.
ConsoleRing == Ring(buffers[active_buffer], ConsoleSize, head, used, said)
LogRing     == Ring(log.data, LogSize, log.head, log.used, logged)

\* The console that is being copied is the one that nobody writes, and what was
\* copied is the beginning of what is due.
AnswerInv ==
    /\ job.kind = "console" =>
          /\ job.buffer = 1 - active_buffer
          /\ job.start \in 0..(ConsoleSize - 1)
          /\ job.count \in 0..ConsoleSize /\ Len(due) = job.count
          /\ Len(shown) <= job.count
          /\ \A i \in 1..job.count :
                due[i] = buffers[job.buffer][(job.start + i - 1) % ConsoleSize]
          /\ \A i \in 1..Len(shown) : shown[i] = due[i]
    /\ job.kind # "console" => shown = due

\* The line ends with the last byte that was received.
LineInv ==
    /\ binary \in BOOLEAN
    /\ binary \/ suppressed => line = <<>>
    /\ line # <<>> => line[Len(line)].n = received
    /\ \A i \in 1..(Len(line) - 1) : line[i + 1].n = line[i].n + 1
    /\ said # <<>> => said[Len(said)] = Newline
    /\ ConsoleLinesAreRuns

CommandInv ==
    /\ job.kind \in {"receive", "command"} /\ ~arrived => ~client
    /\ CommandWhole

TextInv == Types /\ ConsoleRing /\ LogRing /\ AnswerInv /\ LineInv /\ CommandInv

LEMMA CharTypes == Newline \in Chars /\ Restarted \in Chars
                   /\ \A n \in Nat : \A c \in Classes : Char(n, c) \in Chars /\ Char(n, c).n = n
<1>1. Newline \in Chars
  BY DEF Newline, Char, Chars, Kinds
<1>2. Restarted \in Chars
  BY DEF Restarted, Char, Chars, Kinds
<1>3. ASSUME NEW n \in Nat, NEW c \in Classes
      PROVE  Char(n, c) \in Chars /\ Char(n, c).n = n
  <2>1. c \in Kinds
    BY <1>3 DEF Classes, Kinds
  <2> QED
    BY <2>1 DEF Char, Chars
<1> QED
  BY <1>1, <1>2, <1>3

LEMMA TextInitially == TextInit => TextInv
<1> SUFFICES ASSUME TextInit PROVE TextInv
  OBVIOUS
<1> USE Sizes
<1>1. Types
  <2>1. <<>> \in Seq(Chars) /\ <<Restarted>> \in Seq(Chars)
    BY CharTypes
  <2>2. buffers \in [0..1 -> [0..(ConsoleSize - 1) -> Chars]]
    BY CharTypes DEF TextInit
  <2>3. Len(<<>>) < ConsoleLine /\ Len(<<>>) < LogLine
    OBVIOUS
  <2> QED
    <3>1. /\ active_buffer = 0 /\ line = <<>> /\ said = <<>> /\ pending = <<>>
          /\ writing = <<>> /\ logged = <<Restarted>> /\ shown = <<>> /\ due = <<>>
          /\ received = 0 /\ job.kind = "none"
      BY DEF TextInit, NoJob
    <3> QED
      BY <2>1, <2>2, <2>3, <3>1 DEF Types
<1>2. ConsoleRing
  BY RingEmpty DEF TextInit, ConsoleRing
<1>3. LogRing
  <2> DEFINE data == [i \in 0..(LogSize - 1) |-> Restarted]
  <2>1. Back(1, 0, LogSize) = 0
    <3>1. 1 + LogSize - 1 - 0 = LogSize /\ LogSize \in 0..(2 * LogSize - 1)
      OBVIOUS
    <3> QED
      BY <3>1, Mod DEF Back
  <2>2. data[0] = Restarted
    OBVIOUS
  <2> HIDE DEF data
  <2>3. Ring(data, LogSize, 1, 1, <<Restarted>>)
    <3>1. Len(<<Restarted>>) = 1 /\ <<Restarted>>[1] = Restarted
      OBVIOUS
    <3>2. 1 = Least(1, LogSize) /\ 1 \in 0..(LogSize - 1)
      BY DEF Least
    <3>3. \A k \in 0..(1 - 1) : k = 0
      OBVIOUS
    <3>4. \A k \in 0..(1 - 1) : data[Back(1, k, LogSize)] = <<Restarted>>[1 - k]
      BY <2>1, <2>2, <3>1, <3>3
    <3> QED
      BY <3>1, <3>2, <3>4 DEF Ring
  <2>4. log.data = data /\ log.head = 1 /\ log.used = 1 /\ logged = <<Restarted>>
    BY DEF TextInit, data
  <2> QED
    BY <2>3, <2>4 DEF LogRing
<1>4. AnswerInv /\ LineInv /\ CommandInv
  <2>1. /\ job.kind = "none" /\ shown = <<>> /\ due = <<>> /\ line = <<>> /\ said = <<>>
        /\ binary = FALSE
    BY DEF TextInit, NoJob
  <2>2. AnswerInv
    BY <2>1 DEF AnswerInv
  <2>3. LineInv
    <3>1. Len(line) = 0 /\ Len(said) = 0 /\ 1..(0 - 1) = {}
      BY <2>1
    <3> QED
      BY <2>1, <3>1 DEF LineInv, ConsoleLinesAreRuns
  <2>4. CommandInv
    BY <2>1 DEF CommandInv, CommandWhole
  <2> QED
    BY <2>2, <2>3, <2>4
<1> QED
  BY <1>1, <1>2, <1>3, <1>4 DEF TextInv
-----------------------------------------------------------------------------
(* The console.                                                            *)

Consecutive(l) == \A i \in 1..(Len(l) - 1) : l[i + 1].n = l[i].n + 1

Runs(s) == \A i \in 1..(Len(s) - 1) : \/ Newline \in {s[i], s[i + 1]}
                                      \/ s[i + 1].n = s[i].n + 1

Ends(s) == s # <<>> => s[Len(s)] = Newline

\* A line is added behind a newline, and brings its own.
LEMMA RunsWithLine ==
  ASSUME NEW s \in Seq(Chars), NEW l \in Seq(Chars), Runs(s), Ends(s), Consecutive(l)
  PROVE  /\ s \o Append(l, Newline) \in Seq(Chars)
         /\ Runs(s \o Append(l, Newline)) /\ Ends(s \o Append(l, Newline))
<1> DEFINE a == Append(l, Newline)
           t == s \o a
<1>1. /\ a \in Seq(Chars) /\ Len(a) = Len(l) + 1 /\ a[Len(l) + 1] = Newline
      /\ \A i \in 1..Len(l) : a[i] = l[i]
  BY CharTypes
<1> HIDE DEF a
<1>2. /\ t \in Seq(Chars) /\ Len(t) = Len(s) + Len(a) /\ Len(s) \in Nat /\ Len(l) \in Nat
      /\ \A i \in 1..Len(s) : t[i] = s[i]
      /\ \A i \in 1..Len(a) : t[Len(s) + i] = a[i]
  BY <1>1
<1> HIDE DEF t
<1>3. t[Len(t)] = Newline
  <2>1. Len(a) \in 1..Len(a) /\ a[Len(a)] = Newline
    BY <1>1, <1>2
  <2> QED
    BY <1>2, <2>1
<1>4. ASSUME NEW i \in 1..(Len(t) - 1)
      PROVE  Newline \in {t[i], t[i + 1]} \/ t[i + 1].n = t[i].n + 1
  <2>1. CASE i < Len(s)
    <3>1. i \in 1..(Len(s) - 1) /\ i \in 1..Len(s) /\ i + 1 \in 1..Len(s)
      BY <1>2, <2>1
    <3> QED
      BY <1>2, <3>1 DEF Runs
  <2>2. CASE i = Len(s)
    <3>1. Len(s) > 0 /\ i \in 1..Len(s)
      BY <1>2, <2>2
    <3>2. t[i] = Newline
      BY <1>2, <2>2, <3>1 DEF Ends
    <3> QED
      BY <3>2
  <2>3. CASE i > Len(s)
    <3> DEFINE j == i - Len(s)
    <3>1. j \in 1..Len(l) /\ i = Len(s) + j /\ i + 1 = Len(s) + (j + 1)
      BY <1>1, <1>2, <2>3
    <3> HIDE DEF j
    <3>2. j \in 1..Len(a) /\ j + 1 \in 1..Len(a)
      BY <1>1, <1>2, <3>1
    <3>3. t[i] = a[j] /\ t[i + 1] = a[j + 1]
      BY <1>2, <3>1, <3>2
    <3>4. CASE j = Len(l)
      BY <1>1, <3>3, <3>4
    <3>5. CASE j # Len(l)
      <4>1. j \in 1..(Len(l) - 1) /\ j + 1 \in 1..Len(l)
        BY <1>2, <3>1, <3>5
      <4> QED
        BY <1>1, <3>1, <3>3, <4>1 DEF Consecutive
    <3> QED
      BY <3>4, <3>5
  <2> QED
    BY <1>2, <2>1, <2>2, <2>3
<1> QED
  BY <1>2, <1>3, <1>4 DEF Runs, Ends, t, a

\* console_store_line_locked, for any line of its buffer.
LEMMA StoreKeeps ==
  ASSUME TextInv, NEW l \in Seq(Chars), Len(l) < ConsoleLine, Consecutive(l),
         NEW b, Store(l, b), active_buffer' = active_buffer
  PROVE  /\ buffers' \in [0..1 -> [0..(ConsoleSize - 1) -> Chars]]
         /\ buffers'[1 - active_buffer] = buffers[1 - active_buffer]
         /\ said' \in Seq(Chars) /\ Runs(said') /\ Ends(said')
         /\ ConsoleRing'
<1>1. Runs(said) /\ Ends(said)
  BY DEF TextInv, LineInv, ConsoleLinesAreRuns, Runs, Ends
<1>2. /\ active_buffer \in 0..1 /\ said \in Seq(Chars) /\ ConsoleRing
      /\ buffers \in [0..1 -> [0..(ConsoleSize - 1) -> Chars]]
  BY DEF TextInv, Types
<1>3. CASE UNCHANGED <<buffers, head, used, said>>
  BY <1>1, <1>2, <1>3 DEF ConsoleRing
<1> DEFINE text == Append(l, Newline)
<1>4. CASE /\ buffers' = [buffers EXCEPT
                            ![active_buffer] = Written(@, ConsoleSize, head, text)]
           /\ head' = (head + Len(text)) % ConsoleSize
           /\ used' = Fill(ConsoleSize, used, text)
           /\ said' = said \o text
  <2>1. text \in Seq(Chars) /\ Len(text) > 0 /\ Len(text) <= ConsoleSize
        /\ \A i \in 1..Len(text) : text[i] \in Chars
    <3>1. text \in Seq(Chars) /\ Len(text) = Len(l) + 1 /\ Len(l) \in Nat
      BY CharTypes
    <3> HIDE DEF text
    <3> QED
      BY <3>1, Sizes
  <2>2. said' \in Seq(Chars) /\ Runs(said') /\ Ends(said')
    BY <1>1, <1>2, <1>4, RunsWithLine
  <2> DEFINE w == Written(buffers[active_buffer], ConsoleSize, head, text)
  <2> HIDE DEF text
  <2>3. w \in [0..(ConsoleSize - 1) -> Chars]
    <3>1. ASSUME NEW i \in 0..(ConsoleSize - 1), NEW k, k = (i - head + ConsoleSize) % ConsoleSize
          PROVE  (IF k < Len(text) THEN text[k + 1] ELSE buffers[active_buffer][i]) \in Chars
      <4>1. k \in Nat
        <5>1. head \in 0..(ConsoleSize - 1)
          BY <1>2 DEF ConsoleRing, Ring
        <5>2. i - head + ConsoleSize \in 0..(2 * ConsoleSize - 1)
          BY <5>1, Sizes
        <5>3. i - head + ConsoleSize \in Nat /\ ConsoleSize > 0
          BY <5>2, Sizes
        <5> QED
          BY <3>1, <5>3, Sizes
      <4>2. buffers[active_buffer][i] \in Chars
        BY <1>2
      <4>3. k < Len(text) => k + 1 \in 1..Len(text)
        BY <2>1, <4>1
      <4> QED
        BY <2>1, <4>2, <4>3
    <3> QED
      BY <3>1 DEF Written
  <2>4. Ring(w, ConsoleSize, head', used', said')
    BY <1>2, <1>4, <2>1, RingWritten, Sizes DEF ConsoleRing
  <2> HIDE DEF w
  <2>5. buffers' = [buffers EXCEPT ![active_buffer] = w]
    BY <1>4 DEF w
  <2>6. /\ buffers' \in [0..1 -> [0..(ConsoleSize - 1) -> Chars]]
        /\ buffers'[active_buffer] = w
        /\ buffers'[1 - active_buffer] = buffers[1 - active_buffer]
    BY <1>2, <2>3, <2>5
  <2> QED
    BY <2>2, <2>4, <2>6 DEF ConsoleRing
<1> QED
  BY <1>3, <1>4 DEF Store
LEMMA NothingStored ==
  ASSUME TextInv, NotStored, active_buffer' = active_buffer
  PROVE  /\ buffers' \in [0..1 -> [0..(ConsoleSize - 1) -> Chars]]
         /\ buffers'[1 - active_buffer] = buffers[1 - active_buffer]
         /\ said' \in Seq(Chars) /\ Runs(said') /\ Ends(said')
         /\ ConsoleRing'
<1>1. Runs(said) /\ Ends(said)
  BY DEF TextInv, LineInv, ConsoleLinesAreRuns, Runs, Ends
<1>2. /\ active_buffer \in 0..1 /\ said \in Seq(Chars) /\ ConsoleRing
      /\ buffers \in [0..1 -> [0..(ConsoleSize - 1) -> Chars]]
  BY DEF TextInv, Types
<1> QED
  BY <1>1, <1>2 DEF ConsoleRing, NotStored

\* A byte goes on a line that ends with the byte before it.
LEMMA LineGrows ==
  ASSUME NEW l \in Seq(Chars), NEW c \in Chars, NEW n \in Nat,
         Consecutive(l), l # <<>> => l[Len(l)].n = n, c.n = n + 1
  PROVE  /\ Append(l, c) \in Seq(Chars) /\ Len(Append(l, c)) = Len(l) + 1
         /\ Append(l, c)[Len(Append(l, c))].n = n + 1
         /\ Consecutive(Append(l, c))
<1> DEFINE m == Append(l, c)
<1>1. /\ m \in Seq(Chars) /\ Len(m) = Len(l) + 1 /\ m[Len(l) + 1] = c /\ Len(l) \in Nat
      /\ \A i \in 1..Len(l) : m[i] = l[i]
  OBVIOUS
<1> HIDE DEF m
<1>2. m[Len(m)].n = n + 1
  BY <1>1
<1>3. ASSUME NEW i \in 1..(Len(m) - 1) PROVE m[i + 1].n = m[i].n + 1
  <2>1. CASE i = Len(l)
    <3>1. l # <<>> /\ i \in 1..Len(l)
      BY <1>1, <2>1
    <3>2. m[i].n = n /\ m[i + 1] = c
      BY <1>1, <2>1, <3>1
    <3> QED
      BY <3>2
  <2>2. CASE i # Len(l)
    <3>1. i \in 1..(Len(l) - 1) /\ i \in 1..Len(l) /\ i + 1 \in 1..Len(l)
      BY <1>1, <2>2
    <3> QED
      BY <1>1, <3>1 DEF Consecutive
  <2> QED
    BY <2>1, <2>2
<1> QED
  BY <1>1, <1>2, <1>3 DEF m, Consecutive

LEMMA AnswerKept ==
  ASSUME AnswerInv, UNCHANGED answerVars, active_buffer' = active_buffer,
         buffers'[1 - active_buffer] = buffers[1 - active_buffer]
  PROVE  AnswerInv'
  BY DEF AnswerInv, answerVars

LEMMA PushKeeps == ASSUME TextInv, NEW class \in Classes, Push(class) PROVE TextInv'
<1>1. /\ active_buffer' = active_buffer /\ suppressed' = suppressed
      /\ log' = log /\ pending' = pending /\ writing' = writing /\ logged' = logged
      /\ client' = client /\ wire' = wire /\ arrived' = arrived
      /\ UNCHANGED answerVars /\ received' = received + 1
  BY DEF Push, logVars, uartVars
<1>2. /\ line \in Seq(Chars) /\ Len(line) < ConsoleLine /\ received \in Nat
      /\ binary \in BOOLEAN /\ (binary \/ suppressed => line = <<>>)
      /\ (line # <<>> => line[Len(line)].n = received) /\ Consecutive(line)
  BY DEF TextInv, Types, LineInv, Consecutive
<1> DEFINE StoreOk == /\ buffers' \in [0..1 -> [0..(ConsoleSize - 1) -> Chars]]
                      /\ buffers'[1 - active_buffer] = buffers[1 - active_buffer]
                      /\ said' \in Seq(Chars) /\ Runs(said') /\ Ends(said')
                      /\ ConsoleRing'
           LineOk  == /\ line' \in Seq(Chars) /\ Len(line') < ConsoleLine
                      /\ binary' \in BOOLEAN /\ (binary' \/ suppressed' => line' = <<>>)
                      /\ (line' # <<>> => line'[Len(line')].n = received')
                      /\ Consecutive(line')
<1>3. NotStored => StoreOk
  BY <1>1, NothingStored
<1>4. \A b : Store(line, b) => StoreOk
  BY <1>1, <1>2, StoreKeeps
<1>5. line' = <<>> /\ binary' \in BOOLEAN => LineOk
  <2>1. Len(<<>>) = 0 /\ <<>> \in Seq(Chars) /\ 1..(0 - 1) = {} /\ Consecutive(<<>>)
    BY DEF Consecutive
  <2> QED
    BY <2>1, Sizes
<1> HIDE DEF StoreOk
<1>6. ASSUME ~suppressed, NEW c \in Chars, c.n = received + 1, PushText(c)
      PROVE  StoreOk /\ LineOk
  <2>1. binary' = FALSE /\ suppressed' = FALSE
    BY <1>1, <1>6, <1>2 DEF PushText, TextInv, Types
  <2>2. <<c>> \in Seq(Chars) /\ Len(<<c>>) = 1 /\ <<c>>[1] = c /\ Consecutive(<<c>>)
    BY DEF Consecutive
  <2>6. ASSUME line' = <<c>> PROVE LineOk
    <3>1. line' \in Seq(Chars) /\ Len(line') = 1 /\ line'[1] = c /\ Consecutive(line')
      BY <2>2, <2>6
    <3>2. Len(line') < ConsoleLine
      BY <3>1, Sizes
    <3>3. line'[Len(line')].n = received'
      BY <1>1, <1>6, <3>1
    <3> QED
      BY <2>1, <3>1, <3>2, <3>3
  <2> HIDE DEF LineOk
  <2>3. CASE binary
    <3>1. line' = <<c>> /\ NotStored
      BY <2>3, <1>6 DEF PushText
    <3> QED
      BY <1>3, <2>6, <3>1
  <2>4. CASE ~binary /\ Len(line) + 1 >= ConsoleLine
    <3>1. line' = <<c>> /\ Store(line, binary)
      BY <2>4, <1>6 DEF PushText
    <3> QED
      BY <1>4, <2>6, <3>1
  <2>5. CASE ~binary /\ ~(Len(line) + 1 >= ConsoleLine)
    <3>1. line' = Append(line, c) /\ NotStored
      BY <2>5, <1>6 DEF PushText
    <3> DEFINE m == Append(line, c)
    <3>4. /\ m \in Seq(Chars) /\ Len(m) = Len(line) + 1
          /\ m[Len(m)].n = received + 1 /\ Consecutive(m)
      BY <1>2, <1>6, LineGrows
    <3>5. line' = m
      BY <3>1
    <3> HIDE DEF m
    <3>2. /\ line' \in Seq(Chars) /\ Len(line') = Len(line) + 1
          /\ line'[Len(line')].n = received' /\ Consecutive(line')
      BY <1>1, <3>4, <3>5
    <3>3. Len(line') < ConsoleLine
      <4>1. Len(line) \in Nat
        BY <1>2
      <4> QED
        BY <2>5, <3>2, <4>1, Sizes
    <3> QED
      BY <1>3, <2>1, <3>1, <3>2, <3>3 DEF LineOk
  <2> QED
    BY <1>2, <2>3, <2>4, <2>5
<1>7. StoreOk /\ LineOk
  <2>1. CASE suppressed
    <3>1. PushSuppressed
      BY <2>1 DEF Push
    <3> QED
      BY <1>3, <1>5, <3>1 DEF PushSuppressed
  <2>2. CASE ~suppressed
    <3>1. class \in {"newline", "start", "text", "binary"}
      BY DEF Classes
    <3>2. CASE class = "newline"
      <4>1. PushNewline
        BY <2>2, <3>2 DEF Push
      <4>2. CASE line = <<>>
        <5>1. NotStored /\ line' = <<>> /\ binary' = binary
          BY <4>1, <4>2 DEF PushNewline
        <5> QED
          BY <1>2, <1>3, <1>5, <5>1
      <4>3. CASE line # <<>>
        <5>1. Store(line, binary) /\ line' = <<>> /\ binary' = FALSE
          BY <4>1, <4>3 DEF PushNewline
        <5> QED
          BY <1>4, <1>5, <5>1
      <4> QED
        BY <4>2, <4>3
    <3>3. CASE class = "binary"
      <4>1. PushBinary
        BY <2>2, <3>3 DEF Push
      <4> QED
        BY <1>3, <1>5, <4>1 DEF PushBinary
    <3> DEFINE c == Char(received + 1, class)
    <3>4. c \in Chars /\ c.n = received + 1
      BY <1>2, CharTypes
    <3>5. CASE class = "start"
      <4>1. PushText(c)
        BY <2>2, <3>5 DEF Push
      <4> HIDE DEF c
      <4> QED
        BY <1>6, <2>2, <3>4, <4>1
    <3>6. CASE class = "text"
      <4>1. IF binary THEN SkipText ELSE PushText(c)
        BY <2>2, <3>6 DEF Push
      <4> HIDE DEF c
      <4>2. CASE binary
        <5>1. NotStored /\ line' = line /\ binary' = binary
          BY <4>1, <4>2 DEF SkipText
        <5>2. line = <<>>
          BY <1>2, <4>2
        <5> QED
          BY <1>2, <1>3, <1>5, <5>1, <5>2
      <4>3. CASE ~binary
        BY <1>6, <2>2, <3>4, <4>1, <4>3
      <4> QED
        BY <4>2, <4>3
    <3> QED
      BY <3>1, <3>2, <3>3, <3>5, <3>6
  <2> QED
    BY <2>1, <2>2
<1>8. Types'
  BY <1>1, <1>2, <1>7 DEF TextInv, Types, answerVars, StoreOk
<1>9. LogRing'
  BY <1>1 DEF TextInv, LogRing
<1>10. AnswerInv'
  BY <1>1, <1>7, AnswerKept DEF TextInv, StoreOk
<1>11. LineInv'
  BY <1>7 DEF LineInv, StoreOk, Runs, Ends, Consecutive, ConsoleLinesAreRuns
<1>12. CommandInv'
  BY <1>1 DEF TextInv, CommandInv, CommandWhole, answerVars
<1> QED
  BY <1>7, <1>8, <1>9, <1>10, <1>11, <1>12 DEF TextInv, StoreOk
LEMMA SuppressionEndsKeeps == ASSUME TextInv, SuppressionEnds PROVE TextInv'
<1>1. /\ UNCHANGED <<buffers, active_buffer, head, used, line, binary, received, said>>
      /\ UNCHANGED <<log, pending, writing, logged, client, wire, arrived>>
      /\ UNCHANGED answerVars /\ suppressed' = FALSE
  BY DEF SuppressionEnds, logVars, uartVars
<1>2. Types'
  BY <1>1 DEF TextInv, Types, answerVars
<1>3. ConsoleRing' /\ LogRing'
  BY <1>1 DEF TextInv, ConsoleRing, LogRing
<1>4. AnswerInv'
  BY <1>1, AnswerKept DEF TextInv
<1>5. LineInv'
  BY <1>1 DEF TextInv, LineInv, ConsoleLinesAreRuns
<1>6. CommandInv'
  BY <1>1 DEF TextInv, CommandInv, CommandWhole, answerVars
<1> QED
  BY <1>2, <1>3, <1>4, <1>5, <1>6 DEF TextInv

-----------------------------------------------------------------------------
(* The log.                                                                *)

\* Three records: the ring of the log, all that it stored, the pending line.
LogOf(g, t, q) == [log |-> g, logged |-> t, pending |-> q]

LogRings(g, t) == Ring(g.data, LogSize, g.head, g.used, t)

LEMMA StorePendingKeeps ==
  ASSUME NEW g, NEW t \in Seq(Chars), NEW q \in Seq(Chars),
         Len(q) \in 1..LogSize, LogRings(g, t)
  PROVE  \E g1 : \E t1 \in Seq(Chars) :
            StorePending(LogOf(g, t, q)) = LogOf(g1, t1, <<>>) /\ LogRings(g1, t1)
<1> DEFINE g1 == [data |-> Written(g.data, LogSize, g.head, q),
                  head |-> (g.head + Len(q)) % LogSize,
                  used |-> Fill(LogSize, g.used, q)]
<1>1. CASE Kept(q)
  <2>1. StorePending(LogOf(g, t, q)) = LogOf(g1, t \o q, <<>>)
    BY <1>1 DEF StorePending, Stored, LogOf
  <2>2. t \o q \in Seq(Chars)
    OBVIOUS
  <2>3. LogRings(g1, t \o q)
    <3>1. Len(q) > 0 /\ Len(q) <= LogSize /\ LogSize > 0 /\ LogSize \in Nat
      BY Sizes
    <3>2. Ring(g.data, LogSize, g.head, g.used, t)
      BY DEF LogRings
    <3>3. Ring(Written(g.data, LogSize, g.head, q), LogSize, (g.head + Len(q)) % LogSize,
               Fill(LogSize, g.used, q), t \o q)
      BY <3>1, <3>2, RingWritten
    <3> QED
      BY <3>3 DEF LogRings
  <2> HIDE DEF g1
  <2> QED
    BY <2>1, <2>2, <2>3
<1>2. CASE ~Kept(q)
  <2>1. StorePending(LogOf(g, t, q)) = LogOf(g, t, <<>>)
    BY <1>2 DEF StorePending, LogOf
  <2> QED
    BY <2>1
<1> QED
  BY <1>1, <1>2

LEMMA Put ==
  ASSUME NEW g, NEW t, NEW q, NEW c
  PROVE  [LogOf(g, t, q) EXCEPT !.pending = Append(@, c)] = LogOf(g, t, Append(q, c))
  BY DEF LogOf

\* One character is put at the end of a line with room for it.
LEMMA PutCharKeeps ==
  ASSUME NEW c \in Chars, NEW g, NEW t \in Seq(Chars), NEW q \in Seq(Chars),
         Len(q) < LogLine, LogRings(g, t)
  PROVE  \E g1 : \E t1, q1 \in Seq(Chars) :
            /\ PutChar(c, LogOf(g, t, q)) = LogOf(g1, t1, q1)
            /\ Len(q1) < LogLine /\ LogRings(g1, t1)
<1> DEFINE l    == LogOf(g, t, q)
           room == IF Len(q) + 1 >= LogLine THEN StorePending(l) ELSE l
<1>1. \E g2 : \E t2, q2 \in Seq(Chars) :
         room = LogOf(g2, t2, q2) /\ Len(q2) + 1 < LogLine /\ LogRings(g2, t2)
  <2>1. CASE Len(q) + 1 >= LogLine
    <3>1. Len(q) \in 1..LogSize
      <4>1. Len(q) \in Nat
        OBVIOUS
      <4> QED
        BY <2>1, <4>1, Sizes
    <3>5. PICK g2 : \E t2 \in Seq(Chars) :
             StorePending(l) = LogOf(g2, t2, <<>>) /\ LogRings(g2, t2)
      BY <3>1, StorePendingKeeps
    <3>2. PICK t2 \in Seq(Chars) : StorePending(l) = LogOf(g2, t2, <<>>) /\ LogRings(g2, t2)
      BY <3>5
    <3>3. room = LogOf(g2, t2, <<>>)
      BY <2>1, <3>2
    <3>4. <<>> \in Seq(Chars) /\ Len(<<>>) + 1 < LogLine
      BY Sizes
    <3> HIDE DEF room, l
    <3> QED
      BY <3>2, <3>3, <3>4
  <2>2. CASE ~(Len(q) + 1 >= LogLine)
    <3>1. room = LogOf(g, t, q)
      BY <2>2
    <3>2. Len(q) + 1 < LogLine
      <4>1. Len(q) \in Nat
        OBVIOUS
      <4> QED
        BY <2>2, <4>1, Sizes
    <3> HIDE DEF room, l
    <3> QED
      BY <3>1, <3>2
  <2> QED
    BY <2>1, <2>2
<1>2. PutChar(c, l) = LET put == [room EXCEPT !.pending = Append(@, c)]
                      IN IF c = Newline THEN StorePending(put) ELSE put
  BY DEF PutChar, LogOf
<1> HIDE DEF room, l
<1>9. PICK g2 : \E t2, q2 \in Seq(Chars) :
         room = LogOf(g2, t2, q2) /\ Len(q2) + 1 < LogLine /\ LogRings(g2, t2)
  BY <1>1
<1>3. PICK t2 \in Seq(Chars), q2 \in Seq(Chars) :
         room = LogOf(g2, t2, q2) /\ Len(q2) + 1 < LogLine /\ LogRings(g2, t2)
  BY <1>9
<1> DEFINE q3 == Append(q2, c)
<1>4. [room EXCEPT !.pending = Append(@, c)] = LogOf(g2, t2, q3)
  BY <1>3, Put
<1>5. q3 \in Seq(Chars) /\ Len(q3) = Len(q2) + 1 /\ Len(q2) \in Nat
  OBVIOUS
<1>6. Len(q3) \in 1..LogSize /\ Len(q3) < LogLine
  <2> HIDE DEF q3
  <2> QED
    BY <1>3, <1>5, Sizes
<1> HIDE DEF q3
<1>7. CASE c = Newline
  <2>1. PutChar(c, l) = StorePending(LogOf(g2, t2, q3))
    BY <1>2, <1>4, <1>7
  <2>2. \E g4 : \E t4 \in Seq(Chars) :
           StorePending(LogOf(g2, t2, q3)) = LogOf(g4, t4, <<>>) /\ LogRings(g4, t4)
    BY <1>3, <1>5, <1>6, StorePendingKeeps
  <2>3. <<>> \in Seq(Chars) /\ Len(<<>>) < LogLine
    BY Sizes
  <2> QED
    BY <2>1, <2>2, <2>3 DEF l
<1>8. CASE c # Newline
  <2>1. PutChar(c, l) = LogOf(g2, t2, q3)
    BY <1>2, <1>4, <1>8
  <2> QED
    BY <1>3, <1>5, <1>6, <2>1 DEF l
<1> QED
  BY <1>7, <1>8

LEMMA TextsAreText == ASSUME NEW text \in LogText PROVE text \in Seq(Chars)
<1>1. \A x \in Kinds : Char(0, x) \in Chars
  BY DEF Char, Chars
<1>2. CASE \E level \in {"W", "I"} : text = <<Char(0, level), Char(0, "a"), Newline>>
  <2>1. PICK level \in {"W", "I"} : text = <<Char(0, level), Char(0, "a"), Newline>>
    BY <1>2
  <2>2. Char(0, level) \in Chars /\ Char(0, "a") \in Chars /\ Newline \in Chars
    <3>1. level \in Kinds /\ "a" \in Kinds
      BY DEF Kinds
    <3> QED
      BY <1>1, <3>1, CharTypes
  <2> QED
    BY <2>1, <2>2
<1>3. CASE text = [i \in 1..(LogLine - 1) |-> Char(0, IF i = 1 THEN "W" ELSE "b")]
  <2>1. \A i \in 1..(LogLine - 1) : Char(0, IF i = 1 THEN "W" ELSE "b") \in Chars
    <3>1. "W" \in Kinds /\ "b" \in Kinds
      BY DEF Kinds
    <3> QED
      BY <1>1, <3>1
  <2>2. text \in [1..(LogLine - 1) -> Chars]
    BY <1>3, <2>1
  <2>3. LogLine - 1 \in Nat
    BY Sizes
  <2> QED
    BY <2>2, <2>3
<1> QED
  BY <1>2, <1>3 DEF LogText

\* What a step of the log leaves alone.
LEMMA LogVprintfKeeps == ASSUME TextInv, NEW text \in LogText, LogVprintf(text) PROVE TextInv'
<1>1. /\ UNCHANGED <<log, pending, logged>> /\ UNCHANGED consoleVars
      /\ UNCHANGED <<client, wire, arrived>> /\ UNCHANGED answerVars
      /\ writing' = text /\ text \in Seq(Chars)
  BY TextsAreText DEF LogVprintf, uartVars
<1>2. Types'
  BY <1>1 DEF TextInv, Types, answerVars, consoleVars
<1>3. ConsoleRing' /\ LogRing'
  BY <1>1 DEF TextInv, ConsoleRing, LogRing, consoleVars
<1>4. AnswerInv'
  BY <1>1, AnswerKept DEF TextInv, consoleVars
<1>5. LineInv'
  BY <1>1 DEF TextInv, LineInv, ConsoleLinesAreRuns, consoleVars
<1>6. CommandInv'
  BY <1>1 DEF TextInv, CommandInv, CommandWhole, answerVars
<1> QED
  BY <1>2, <1>3, <1>4, <1>5, <1>6 DEF TextInv

LEMMA LogCharKeeps == ASSUME TextInv, LogChar PROVE TextInv'
<1>1. /\ UNCHANGED consoleVars /\ UNCHANGED <<client, wire, arrived>> /\ UNCHANGED answerVars
      /\ writing # <<>> /\ writing' = Tail(writing)
  BY DEF LogChar, uartVars
<1> DEFINE c == Head(writing)
           l == PutChar(c, LogOf(log, logged, pending))
<1>2. log' = l.log /\ logged' = l.logged /\ pending' = l.pending
  BY DEF LogChar, LogOf
<1>3. /\ writing \in Seq(Chars) /\ logged \in Seq(Chars) /\ pending \in Seq(Chars)
      /\ Len(pending) < LogLine /\ LogRings(log, logged)
  BY DEF TextInv, Types, LogRing, LogRings
<1>4. c \in Chars /\ Tail(writing) \in Seq(Chars)
  BY <1>1, <1>3
<1> HIDE DEF c, l
<1>13. PICK g1 : \E t1, q1 \in Seq(Chars) :
         l = LogOf(g1, t1, q1) /\ Len(q1) < LogLine /\ LogRings(g1, t1)
  BY <1>3, <1>4, PutCharKeeps DEF l
<1>5. PICK t1 \in Seq(Chars), q1 \in Seq(Chars) :
         l = LogOf(g1, t1, q1) /\ Len(q1) < LogLine /\ LogRings(g1, t1)
  BY <1>13
<1>6. log' = g1 /\ logged' = t1 /\ pending' = q1
  <2>1. l.log = g1 /\ l.logged = t1 /\ l.pending = q1
    BY <1>5 DEF LogOf
  <2> QED
    BY <1>2, <2>1
<1>7. Types'
  BY <1>1, <1>4, <1>5, <1>6 DEF TextInv, Types, answerVars, consoleVars
<1>8. ConsoleRing'
  BY <1>1 DEF TextInv, ConsoleRing, consoleVars
<1>9. LogRing'
  BY <1>5, <1>6 DEF LogRing, LogRings
<1>10. AnswerInv'
  BY <1>1, AnswerKept DEF TextInv, consoleVars
<1>11. LineInv'
  BY <1>1 DEF TextInv, LineInv, ConsoleLinesAreRuns, consoleVars
<1>12. CommandInv'
  BY <1>1 DEF TextInv, CommandInv, CommandWhole, answerVars
<1> QED
  BY <1>7, <1>8, <1>9, <1>10, <1>11, <1>12 DEF TextInv
-----------------------------------------------------------------------------
(* The requests.                                                           *)

LEMMA NewestIsText ==
  ASSUME NEW S, NEW text \in Seq(S), NEW size \in Nat
  PROVE  Newest(text, size) \in Seq(S)
<1>1. CASE Len(text) <= size
  BY <1>1 DEF Newest
<1>2. CASE ~(Len(text) <= size)
  <2>1. Newest(text, size) = SubSeq(text, Len(text) - size + 1, Len(text))
    BY <1>2 DEF Newest
  <2>2. Len(text) - size + 1 \in 1..(Len(text) + 1) /\ Len(text) \in 0..Len(text)
    BY <1>2
  <2> QED
    BY <2>1, <2>2
<1> QED
  BY <1>1, <1>2

\* A step that leaves the console and the log alone.
LEMMA RequestKeeps ==
  ASSUME TextInv, UNCHANGED consoleVars, UNCHANGED logVars,
         shown' \in Seq(Chars), due' \in Seq(Chars),
         job'.kind \in {"none", "console", "answer", "receive", "command"},
         AnswerInv', CommandInv'
  PROVE  TextInv'
<1>1. Types'
  BY DEF TextInv, Types, consoleVars, logVars
<1>2. ConsoleRing' /\ LogRing'
  BY DEF TextInv, ConsoleRing, LogRing, consoleVars, logVars
<1>3. LineInv'
  BY DEF TextInv, LineInv, ConsoleLinesAreRuns, consoleVars
<1> QED
  BY <1>1, <1>2, <1>3 DEF TextInv

LEMMA AnswerTypes ==
  ASSUME TextInv
  PROVE  /\ shown \in Seq(Chars) /\ due \in Seq(Chars)
         /\ job.kind \in {"none", "console", "answer", "receive", "command"}
         /\ active_buffer \in 0..1
         /\ job.kind # "console" => shown = due
         /\ job.kind \in {"receive", "command"} /\ ~arrived => ~client
         /\ job.kind = "command" /\ ~arrived => wire = "command"
  BY DEF TextInv, Types, AnswerInv, CommandInv, CommandWhole

LEMMA JobKinds ==
  /\ NoJob.kind = "none"
  /\ \A k : [NoJob EXCEPT !.kind = k].kind = k
  BY DEF NoJob

\* A step of a request that is not being copied.
LEMMA JobKeeps ==
  ASSUME TextInv, UNCHANGED consoleVars, UNCHANGED logVars,
         job'.kind \in {"none", "answer", "receive", "command"},
         shown' = due', shown' \in Seq(Chars), CommandInv'
  PROVE  TextInv'
<1>1. AnswerInv'
  BY DEF AnswerInv
<1> QED
  BY <1>1, RequestKeeps

LEMMA GetLogKeeps == ASSUME TextInv, GetLog PROVE TextInv'
<1>1. /\ UNCHANGED consoleVars /\ UNCHANGED logVars /\ job'.kind = "answer"
      /\ shown' = Content(log.data, LogSize, log.head, log.used)
      /\ due' = Newest(logged, LogSize)
  BY JobKinds DEF GetLog
<1>2. logged \in Seq(Chars) /\ Ring(log.data, LogSize, log.head, log.used, logged)
  BY DEF TextInv, Types, LogRing
<1>3. LogSize \in Nat /\ LogSize > 0
  BY Sizes
<1>4. shown' = due'
  BY <1>1, <1>2, <1>3, RingContent
<1>5. shown' \in Seq(Chars)
  BY <1>1, <1>2, <1>3, <1>4, NewestIsText
<1>6. CommandInv'
  BY <1>1 DEF CommandInv, CommandWhole
<1> QED
  BY <1>1, <1>4, <1>5, <1>6, JobKeeps

LEMMA ConsumeKeeps == ASSUME TextInv, Consume PROVE TextInv'
<1> DEFINE size  == ConsoleSize
           start == (head + size - used) % size
<1>1. /\ job'.kind = "console" /\ job'.buffer = active_buffer /\ job'.count = used
      /\ job'.start = start
      /\ active_buffer' = 1 - active_buffer /\ head' = 0 /\ used' = 0 /\ shown' = <<>>
      /\ due' = Newest(said, size) /\ said' = <<>>
      /\ UNCHANGED <<buffers, line, binary, suppressed, received>> /\ UNCHANGED logVars
  BY DEF Consume
<1>2. /\ said \in Seq(Chars) /\ active_buffer \in 0..1
      /\ Ring(buffers[active_buffer], size, head, used, said)
  BY DEF TextInv, Types, ConsoleRing
<1>3. size \in Nat /\ size > 0
  BY Sizes
<1>4. head \in 0..(size - 1) /\ used \in 0..size
  <2>1. Len(said) \in Nat
    BY <1>2
  <2> QED
    BY <1>2, <1>3, <2>1 DEF Ring, Least
<1>5. due' = [i \in 1..used |-> buffers[active_buffer][(head + size - used + i - 1) % size]]
  BY <1>1, <1>2, <1>3, RingContent DEF Content
<1>6. due' \in Seq(Chars)
  BY <1>1, <1>2, <1>3, NewestIsText
<1> HIDE DEF size, start
<1>7. start \in 0..(size - 1)
      /\ \A i \in 1..used : (start + i - 1) % size = (head + size - used + i - 1) % size
  <2> DEFINE a == head + size - used
  <2>1. a \in 0..(2 * size - 1) /\ start = a % size
    BY <1>3, <1>4 DEF start, size
  <2>2. \A i \in 1..used : a + i - 1 \in 0..(2 * size - 1) /\ a + i - 1 < 2 * size - 1
    BY <1>3, <1>4
  <2> HIDE DEF a
  <2>3. start = IF a < size THEN a ELSE a - size
    BY <1>3, <2>1, Mod
  <2>4. start \in 0..(size - 1)
    BY <1>3, <2>1, <2>3
  <2>5. ASSUME NEW i \in 1..used PROVE (start + i - 1) % size = (a + i - 1) % size
    <3>1. CASE a < size
      BY <2>3, <3>1
    <3>2. CASE ~(a < size)
      <4> DEFINE b == a + i - 1
      <4>1. start + i - 1 = b - size /\ b \in 0..(2 * size - 1) /\ b >= size
        BY <1>3, <1>4, <2>1, <2>2, <2>3, <3>2
      <4> HIDE DEF b
      <4>2. b % size = b - size
        BY <1>3, <4>1, Mod
      <4>3. b - size \in 0..(2 * size - 1) /\ b - size < size
        BY <1>3, <4>1
      <4>4. (b - size) % size = b - size
        BY <1>3, <4>3, Mod
      <4> QED
        BY <4>1, <4>2, <4>4 DEF b
    <3> QED
      BY <3>1, <3>2
  <2> QED
    BY <2>4, <2>5 DEF a
<1>8. AnswerInv'
  <2>1. Len(due') = used /\ Len(<<>>) = 0 /\ 1..0 = {}
    BY <1>4, <1>5
  <2>2. active_buffer = 1 - (1 - active_buffer)
    BY <1>2
  <2>3. ASSUME NEW i \in 1..used
        PROVE  due'[i] = buffers'[active_buffer][(start + i - 1) % size]
    BY <1>1, <1>5, <1>7
  <2>4. Len(shown') = 0 /\ 0 <= used
    BY <1>1, <1>4
  <2> QED
    BY <1>1, <1>4, <1>7, <2>1, <2>2, <2>3, <2>4 DEF AnswerInv, size
<1>9. Types'
  <2>1. 1 - active_buffer \in 0..1 /\ <<>> \in Seq(Chars)
    BY <1>2
  <2> QED
    BY <1>1, <1>6, <2>1 DEF TextInv, Types, logVars
<1>10. ConsoleRing'
  BY <1>1, <1>3, RingEmpty DEF ConsoleRing, size
<1>11. LogRing'
  BY <1>1 DEF TextInv, LogRing, logVars
<1>12. LineInv'
  <2>1. Len(<<>>) = 0 /\ 1..(0 - 1) = {}
    OBVIOUS
  <2> QED
    BY <1>1, <2>1 DEF TextInv, LineInv, ConsoleLinesAreRuns
<1>13. CommandInv'
  BY <1>1 DEF CommandInv, CommandWhole
<1> QED
  BY <1>8, <1>9, <1>10, <1>11, <1>12, <1>13 DEF TextInv
LEMMA CopyCharKeeps == ASSUME TextInv, CopyChar PROVE TextInv'
<1> DEFINE i == (job.start + Len(shown)) % ConsoleSize
           c == buffers[job.buffer][i]
<1>1. /\ UNCHANGED consoleVars /\ UNCHANGED logVars /\ job' = job /\ due' = due
      /\ UNCHANGED <<client, wire, arrived>>
      /\ job.kind = "console" /\ Len(shown) < job.count /\ shown' = Append(shown, c)
  BY DEF CopyChar, uartVars
<1>2. shown \in Seq(Chars) /\ due \in Seq(Chars)
  BY AnswerTypes
<1>3. /\ job.buffer = 1 - active_buffer
      /\ job.start \in 0..(ConsoleSize - 1)
      /\ job.count \in 0..ConsoleSize /\ Len(due) = job.count
      /\ \A k \in 1..job.count :
            due[k] = buffers[job.buffer][(job.start + k - 1) % ConsoleSize]
      /\ \A k \in 1..Len(shown) : shown[k] = due[k]
  BY <1>1 DEF TextInv, AnswerInv
<1> HIDE DEF c
<1> DEFINE n == Len(shown)
<1>4. n \in Nat /\ n + 1 \in 1..job.count /\ job.start + (n + 1) - 1 = job.start + n
  BY <1>1, <1>2, <1>3, Sizes
<1>5. c = due[n + 1]
  <2>1. due[n + 1] = buffers[job.buffer][(job.start + (n + 1) - 1) % ConsoleSize]
    BY <1>3, <1>4
  <2> QED
    BY <1>4, <2>1 DEF c
<1>6. c \in Chars
  BY <1>2, <1>3, <1>4, <1>5
<1>7. /\ shown' \in Seq(Chars) /\ Len(shown') = n + 1 /\ shown'[n + 1] = c
      /\ \A k \in 1..n : shown'[k] = shown[k]
  BY <1>1, <1>2, <1>6
<1> HIDE DEF n
<1>8. AnswerInv'
  <2>1. ASSUME NEW k \in 1..Len(shown') PROVE shown'[k] = due'[k]
    <3>1. CASE k = n + 1
      BY <1>1, <1>5, <1>7, <3>1
    <3>2. CASE k # n + 1
      <4>1. k \in 1..n
        BY <1>4, <1>7, <3>2
      <4> QED
        BY <1>1, <1>3, <1>7, <4>1 DEF n
    <3> QED
      BY <3>1, <3>2
  <2>2. Len(shown') <= job'.count
    BY <1>1, <1>3, <1>4, <1>7
  <2>3. buffers' = buffers /\ active_buffer' = active_buffer
    BY <1>1 DEF consoleVars
  <2> QED
    BY <1>1, <1>3, <2>1, <2>2, <2>3 DEF AnswerInv
<1>9. CommandInv'
  BY <1>1 DEF CommandInv, CommandWhole
<1> QED
  BY <1>1, <1>2, <1>7, <1>8, <1>9, RequestKeeps

LEMMA CopiedKeeps == ASSUME TextInv, Copied PROVE TextInv'
<1>1. /\ UNCHANGED consoleVars /\ UNCHANGED logVars /\ due' = due /\ shown' = shown
      /\ job.kind = "console" /\ Len(shown) = job.count /\ job'.kind = "answer"
  BY JobKinds DEF Copied
<1>2. shown \in Seq(Chars) /\ due \in Seq(Chars)
  BY AnswerTypes
<1>3. Len(due) = Len(shown) /\ \A k \in 1..Len(shown) : shown[k] = due[k]
  BY <1>1 DEF TextInv, AnswerInv
<1>4. shown = due
  BY <1>2, <1>3
<1>5. CommandInv'
  BY <1>1 DEF CommandInv, CommandWhole
<1> QED
  BY <1>1, <1>2, <1>4, <1>5, JobKeeps

LEMMA AnswerKeeps == ASSUME TextInv, Answer PROVE TextInv'
<1>1. /\ UNCHANGED consoleVars /\ UNCHANGED logVars /\ due' = <<>> /\ shown' = <<>>
      /\ job'.kind = "none"
  BY JobKinds DEF Answer
<1>2. CommandInv'
  BY <1>1 DEF CommandInv, CommandWhole
<1>3. <<>> \in Seq(Chars)
  OBVIOUS
<1> QED
  BY <1>1, <1>2, <1>3, JobKeeps

LEMMA ClearKeeps == ASSUME TextInv, Clear PROVE TextInv'
<1>1. /\ head' = 0 /\ used' = 0 /\ line' = <<>> /\ binary' = FALSE /\ said' = <<>>
      /\ UNCHANGED <<buffers, active_buffer, received>> /\ UNCHANGED answerVars
      /\ UNCHANGED logVars /\ UNCHANGED <<client, wire, arrived>>
  BY DEF Clear, uartVars
<1>2. Len(<<>>) = 0 /\ <<>> \in Seq(Chars) /\ 1..(0 - 1) = {}
  OBVIOUS
<1>3. Types'
  BY <1>1, <1>2, Sizes DEF TextInv, Types, answerVars, logVars
<1>4. ConsoleRing'
  BY <1>1, RingEmpty, Sizes DEF ConsoleRing
<1>5. LogRing'
  BY <1>1 DEF TextInv, LogRing, logVars
<1>6. AnswerInv'
  BY <1>1, AnswerKept DEF TextInv
<1>7. LineInv'
  BY <1>1, <1>2 DEF LineInv, ConsoleLinesAreRuns
<1>8. CommandInv'
  BY <1>1 DEF TextInv, CommandInv, CommandWhole, answerVars
<1> QED
  BY <1>3, <1>4, <1>5, <1>6, <1>7, <1>8 DEF TextInv

LEMMA CommandKeeps ==
  ASSUME TextInv, CommandCheck \/ CommandFails \/ SendCommand \/ SendLineEnd
  PROVE  TextInv'
<1>1. /\ UNCHANGED consoleVars /\ UNCHANGED logVars /\ shown' = shown /\ due' = due
      /\ job.kind \in {"none", "receive", "command"}
  BY JobKinds DEF CommandCheck, CommandFails, SendCommand, SendLineEnd, Begins
<1>2. /\ shown \in Seq(Chars) /\ shown = due
      /\ job.kind \in {"receive", "command"} /\ ~arrived => ~client
  BY <1>1, AnswerTypes
<1>3. CASE CommandCheck
  <2>1. job'.kind = "receive" /\ ~client' 
    BY <1>3, JobKinds DEF CommandCheck
  <2>2. CommandInv'
    BY <2>1 DEF CommandInv, CommandWhole
  <2> QED
    BY <1>1, <1>2, <2>1, <2>2, JobKeeps
<1>4. CASE CommandFails
  <2>1. job'.kind = "none"
    BY <1>4, JobKinds DEF CommandFails
  <2>2. CommandInv'
    BY <2>1 DEF CommandInv, CommandWhole
  <2> QED
    BY <1>1, <1>2, <2>1, <2>2, JobKeeps
<1>5. CASE SendCommand
  <2>1. /\ job'.kind = "command" /\ wire' = "command" /\ job.kind = "receive"
        /\ client' = client /\ arrived' = arrived
    BY <1>5, JobKinds DEF SendCommand
  <2>2. CommandInv'
    BY <1>2, <2>1 DEF CommandInv, CommandWhole
  <2> QED
    BY <1>1, <1>2, <2>1, <2>2, JobKeeps
<1>6. CASE SendLineEnd
  <2>1. job'.kind = "answer"
    BY <1>6, JobKinds DEF SendLineEnd
  <2>2. CommandInv'
    BY <2>1 DEF CommandInv, CommandWhole
  <2> QED
    BY <1>1, <1>2, <2>1, <2>2, JobKeeps
<1> QED
  BY <1>3, <1>4, <1>5, <1>6

\* A client that comes is one that arrived; one that writes is there.
LEMMA TcpKeeps ==
  ASSUME TextInv, TcpClientComes \/ TcpClientWrites \/ TcpClientLeaves PROVE TextInv'
<1>1. UNCHANGED consoleVars /\ UNCHANGED logVars /\ UNCHANGED answerVars
  BY DEF TcpClientComes, TcpClientWrites, TcpClientLeaves
<1>2. /\ job.kind \in {"receive", "command"} /\ ~arrived => ~client
      /\ job.kind = "command" /\ ~arrived => wire = "command"
  BY AnswerTypes
<1>3. CommandInv'
  <2>1. CASE TcpClientComes
    BY <2>1 DEF TcpClientComes, CommandInv, CommandWhole
  <2>2. CASE TcpClientWrites
    BY <1>1, <1>2, <2>2 DEF TcpClientWrites, CommandInv, CommandWhole, answerVars
  <2>3. CASE TcpClientLeaves
    BY <1>1, <1>2, <2>3 DEF TcpClientLeaves, CommandInv, CommandWhole, answerVars
  <2> QED
    BY <2>1, <2>2, <2>3
<1>4. AnswerInv'
  BY <1>1, AnswerKept DEF TextInv, consoleVars
<1>5. shown' \in Seq(Chars) /\ due' \in Seq(Chars)
      /\ job'.kind \in {"none", "console", "answer", "receive", "command"}
  BY <1>1, AnswerTypes DEF answerVars
<1> QED
  BY <1>1, <1>3, <1>4, <1>5, RequestKeeps

LEMMA TextStutters == ASSUME TextInv, UNCHANGED textVars PROVE TextInv'
<1>1. UNCHANGED consoleVars /\ UNCHANGED logVars /\ UNCHANGED answerVars /\ UNCHANGED uartVars
  BY DEF textVars
<1>2. CommandInv'
  BY <1>1 DEF TextInv, CommandInv, CommandWhole, answerVars, uartVars
<1>3. AnswerInv'
  BY <1>1, AnswerKept DEF TextInv, consoleVars
<1>4. shown' \in Seq(Chars) /\ due' \in Seq(Chars)
      /\ job'.kind \in {"none", "console", "answer", "receive", "command"}
  BY <1>1, AnswerTypes DEF answerVars
<1> QED
  BY <1>1, <1>2, <1>3, <1>4, RequestKeeps

LEMMA TextSteps == TextInv /\ [TextNext]_textVars => TextInv'
<1> SUFFICES ASSUME TextInv, [TextNext]_textVars PROVE TextInv'
  OBVIOUS
<1>1. CASE \E class \in Classes : Push(class)
  BY <1>1, PushKeeps
<1>2. CASE SuppressionEnds
  BY <1>2, SuppressionEndsKeeps
<1>3. CASE \E text \in LogText : LogVprintf(text)
  BY <1>3, LogVprintfKeeps
<1>4. CASE LogChar
  BY <1>4, LogCharKeeps
<1>5. CASE HttpTask
  <2>1. CASE GetLog
    BY <2>1, GetLogKeeps
  <2>2. CASE Consume
    BY <2>2, ConsumeKeeps
  <2>3. CASE CopyChar
    BY <2>3, CopyCharKeeps
  <2>4. CASE Copied
    BY <2>4, CopiedKeeps
  <2>5. CASE Answer
    BY <2>5, AnswerKeeps
  <2>6. CASE Clear
    BY <2>6, ClearKeeps
  <2>7. CASE CommandCheck \/ CommandFails \/ SendCommand \/ SendLineEnd
    BY <2>7, CommandKeeps
  <2> QED
    BY <1>5, <2>1, <2>2, <2>3, <2>4, <2>5, <2>6, <2>7 DEF HttpTask
<1>6. CASE TcpClientComes \/ TcpClientWrites \/ TcpClientLeaves
  BY <1>6, TcpKeeps
<1>7. CASE UNCHANGED textVars
  BY <1>7, TextStutters
<1> QED
  BY <1>1, <1>2, <1>3, <1>4, <1>5, <1>6, <1>7 DEF TextNext

-----------------------------------------------------------------------------

\* An answer shows all, or the newest of it that the ring holds, of what the log
\* or the emptied console had stored, although the reader goes on while it is
\* copied.
THEOREM ShownCorrect == TextSpec => []ShownIsNewest
<1>1. TextInv => ShownIsNewest
  BY DEF TextInv, AnswerInv, ShownIsNewest
<1> QED
  BY <1>1, TextInitially, TextSteps, PTL DEF TextSpec

\* No line of the console is glued from pieces that did not follow each other.
THEOREM ConsoleCorrect == TextSpec => []ConsoleLinesAreRuns
<1>1. TextInv => ConsoleLinesAreRuns
  BY DEF TextInv, LineInv
<1> QED
  BY <1>1, TextInitially, TextSteps, PTL DEF TextSpec

\* A command from the web page and its line end are not torn apart, unless a TCP
\* client came after the handler had looked for one.
THEOREM CommandCorrect == TextSpec => []CommandWhole
<1>1. TextInv => CommandWhole
  BY DEF TextInv, CommandInv
<1> QED
  BY <1>1, TextInitially, TextSteps, PTL DEF TextSpec
-----------------------------------------------------------------------------
(* Types.                                                                  *)

\* What the types need beyond TextInv.
NumbersOk(l, n) == \A i \in DOMAIN l : l[i].n \in 1..n /\ l[i].class \in Classes

JobOk(j) == /\ j.buffer \in 0..1
            /\ j.start \in 0..(ConsoleSize - 1)
            /\ j.count \in 0..ConsoleSize

MoreTypes ==
    /\ NumbersOk(line, received)
    /\ suppressed \in BOOLEAN /\ client \in BOOLEAN /\ arrived \in BOOLEAN
    /\ Len(writing) < LogLine
    /\ JobOk(job)
    /\ wire \in {"client", "command", "end"}
    /\ events \in 0..MaxEvents

LEMMA JobsOk == JobOk(NoJob) /\ \A k : JobOk([NoJob EXCEPT !.kind = k])
  BY Sizes DEF JobOk, NoJob

\* The bytes of a line stay numbered when another one comes.
LEMMA NumbersGrow ==
  ASSUME NEW l \in Seq(Chars), NEW n \in Nat, NumbersOk(l, n), NEW c \in Classes
  PROVE  /\ NumbersOk(l, n + 1) /\ NumbersOk(<<>>, n + 1)
         /\ NumbersOk(<<Char(n + 1, c)>>, n + 1)
         /\ NumbersOk(Append(l, Char(n + 1, c)), n + 1)
<1> DEFINE x == Char(n + 1, c)
<1>1. x.n = n + 1 /\ x.class = c
  BY DEF Char
<1> HIDE DEF x
<1>2. NumbersOk(l, n + 1)
  <2>1. \A m \in 1..n : m \in 1..(n + 1)
    OBVIOUS
  <2> QED
    BY <2>1 DEF NumbersOk
<1>3. NumbersOk(<<>>, n + 1)
  BY DEF NumbersOk
<1>4. NumbersOk(<<x>>, n + 1)
  <2>1. DOMAIN <<x>> = {1} /\ <<x>>[1] = x
    OBVIOUS
  <2> QED
    BY <1>1, <2>1 DEF NumbersOk
<1>5. NumbersOk(Append(l, x), n + 1)
  <2>1. DOMAIN l = 1..Len(l) /\ Len(l) \in Nat
    OBVIOUS
  <2>2. /\ DOMAIN Append(l, x) = 1..(Len(l) + 1)
        /\ Append(l, x)[Len(l) + 1] = x
        /\ \A i \in 1..Len(l) : Append(l, x)[i] = l[i]
    OBVIOUS
  <2>3. ASSUME NEW i \in DOMAIN Append(l, x)
        PROVE  Append(l, x)[i].n \in 1..(n + 1) /\ Append(l, x)[i].class \in Classes
    <3>1. CASE i = Len(l) + 1
      BY <1>1, <2>2, <3>1
    <3>2. CASE i # Len(l) + 1
      <4>1. i \in 1..Len(l)
        BY <2>1, <2>2, <2>3, <3>2
      <4>2. Append(l, x)[i] = l[i] /\ i \in DOMAIN l
        BY <2>1, <2>2, <4>1
      <4> QED
        BY <1>2, <4>2 DEF NumbersOk
    <3> QED
      BY <3>1, <3>2
  <2> QED
    BY <2>3 DEF NumbersOk
<1> QED
  BY <1>2, <1>3, <1>4, <1>5 DEF x

LEMMA PushTypes ==
  ASSUME Types, MoreTypes, NEW class \in Classes, Push(class)
  PROVE  NumbersOk(line', received')
<1>1. received' = received + 1 /\ received \in Nat /\ line \in Seq(Chars)
      /\ NumbersOk(line, received)
  BY DEF Push, Types, MoreTypes
<1>2. \/ line' = <<>> \/ line' = line
      \/ \E c \in Classes : /\ \/ line' = <<Char(received + 1, c)>>
                               \/ line' = Append(line, Char(received + 1, c))
  BY DEF Push, PushSuppressed, PushNewline, PushBinary, PushText, SkipText, Classes
<1> QED
  BY <1>1, <1>2, NumbersGrow

LEMMA MoreTypesInitially == TextInit => MoreTypes
<1> SUFFICES ASSUME TextInit PROVE MoreTypes
  OBVIOUS
<1>1. NumbersOk(line, received)
  BY DEF TextInit, NumbersOk
<1>2. suppressed \in BOOLEAN /\ client \in BOOLEAN /\ arrived \in BOOLEAN
  BY DEF TextInit
<1>3. Len(writing) = 0 /\ wire = "end" /\ events = 0
  BY DEF TextInit
<1>4. JobOk(job)
  BY JobsOk DEF TextInit
<1> QED
  BY <1>1, <1>2, <1>3, <1>4, Sizes DEF MoreTypes

LEMMA HappensType ==
  ASSUME events \in 0..MaxEvents, Happens PROVE events' \in 0..MaxEvents
  BY Sizes DEF Happens

\* The steps that leave the console's line and the log's text alone.
LEMMA RestTypes ==
  ASSUME TextInv, MoreTypes, UNCHANGED <<line, received, writing>>,
         suppressed' \in BOOLEAN, client' \in BOOLEAN, arrived' \in BOOLEAN,
         JobOk(job'), wire' \in {"client", "command", "end"}, events' \in 0..MaxEvents
  PROVE  MoreTypes'
  BY DEF MoreTypes, NumbersOk

LEMMA LogTypes ==
  ASSUME TextInv, MoreTypes,
         LogChar \/ \E text \in LogText : LogVprintf(text)
  PROVE  MoreTypes'
<1>1. UNCHANGED <<line, received, suppressed, client, arrived, job, wire>>
  BY DEF LogChar, LogVprintf, consoleVars, uartVars, answerVars
<1>2. events' \in 0..MaxEvents
  BY HappensType DEF LogChar, LogVprintf, MoreTypes
<1>3. Len(writing') < LogLine
  <2>1. CASE LogChar
    <3>1. writing \in Seq(Chars) /\ writing # <<>> /\ writing' = Tail(writing)
          /\ Len(writing) < LogLine
      BY <2>1 DEF LogChar, TextInv, Types, MoreTypes
    <3>2. Len(Tail(writing)) = Len(writing) - 1 /\ Len(writing) \in Nat
      <4>1. \A s \in Seq(Chars) : s # <<>> => Len(Tail(s)) = Len(s) - 1 /\ Len(s) \in Nat
        OBVIOUS
      <4> QED
        BY <3>1, <4>1
    <3> QED
      BY <3>1, <3>2, Sizes
  <2>2. ASSUME NEW text \in LogText, LogVprintf(text) PROVE Len(writing') < LogLine
    <3>1. writing' = text
      BY <2>2 DEF LogVprintf
    <3>2. CASE text \in {<<Char(0, level), Char(0, "a"), Newline>> : level \in {"W", "I"}}
      <4>1. PICK level \in {"W", "I"} : text = <<Char(0, level), Char(0, "a"), Newline>>
        BY <3>2
      <4>2. \A a, b, c : Len(<<a, b, c>>) = 3
        OBVIOUS
      <4>3. Len(text) = 3
        BY <4>1, <4>2
      <4> QED
        BY <3>1, <4>3, Sizes
    <3>3. CASE text = [i \in 1..(LogLine - 1) |-> Char(0, IF i = 1 THEN "W" ELSE "b")]
      <4>1. LogLine - 1 \in Nat
        BY Sizes
      <4>2. DOMAIN text = 1..(LogLine - 1)
        BY <3>3
      <4>3. Len(text) = LogLine - 1
        BY <4>1, <4>2, TextsAreText
      <4> QED
        BY <3>1, <4>3, Sizes
    <3> QED
      BY <2>2, <3>2, <3>3 DEF LogText
  <2> QED
    BY <2>1, <2>2
<1> QED
  BY <1>1, <1>2, <1>3 DEF MoreTypes, NumbersOk

LEMMA RequestTypes ==
  ASSUME TextInv, TextInv', MoreTypes, HttpTask
  PROVE  MoreTypes'
<1>1. /\ suppressed \in BOOLEAN /\ client \in BOOLEAN /\ arrived \in BOOLEAN
      /\ JobOk(job) /\ wire \in {"client", "command", "end"} /\ events \in 0..MaxEvents
  BY DEF MoreTypes
<1>2. CASE Clear
  <2>1. line' = <<>> /\ suppressed' = TRUE
        /\ UNCHANGED <<received, writing, client, arrived, wire, job>>
    BY <1>2 DEF Clear, logVars, uartVars, answerVars
  <2>2. NumbersOk(<<>>, received)
    BY DEF NumbersOk
  <2>3. events' \in 0..MaxEvents
    BY <1>1, <1>2, HappensType DEF Clear, Begins
  <2> QED
    BY <1>1, <2>1, <2>2, <2>3 DEF MoreTypes, NumbersOk
<1>3. CASE Consume
  <2>1. /\ UNCHANGED <<line, received, writing, suppressed, client, arrived, wire>>
        /\ job'.kind = "console"
    BY <1>3 DEF Consume, logVars, uartVars
  <2>2. JobOk(job')
    <3>1. job'.buffer = 1 - active_buffer' /\ active_buffer' \in 0..1
          /\ job'.start \in 0..(ConsoleSize - 1) /\ job'.count \in 0..ConsoleSize
      BY <2>1 DEF TextInv, AnswerInv, Types
    <3>2. \A b \in 0..1 : 1 - b \in 0..1
      OBVIOUS
    <3> QED
      BY <3>1, <3>2 DEF JobOk
  <2>3. events' \in 0..MaxEvents
    BY <1>1, <1>3, HappensType DEF Consume, Begins
  <2> QED
    BY <1>1, <2>1, <2>2, <2>3, RestTypes
<1>4. CASE \/ GetLog \/ CopyChar \/ Copied \/ Answer \/ CommandCheck \/ CommandFails
           \/ SendCommand \/ SendLineEnd
  <2>1. UNCHANGED <<line, received, writing, suppressed, client>>
    BY <1>4 DEF GetLog, CopyChar, Copied, Answer, CommandCheck, CommandFails, SendCommand,
                SendLineEnd, consoleVars, logVars, uartVars
  <2>2. events' \in 0..MaxEvents
    BY <1>1, <1>4, HappensType
       DEF GetLog, CopyChar, Copied, Answer, CommandCheck, CommandFails, SendCommand,
           SendLineEnd, Begins
  <2>3. \/ job' = job \/ job' = NoJob
        \/ \E k \in {"answer", "receive", "command"} : job' = [NoJob EXCEPT !.kind = k]
    BY <1>4 DEF GetLog, CopyChar, Copied, Answer, CommandCheck, CommandFails, SendCommand,
                SendLineEnd
  <2>4. arrived' \in {arrived, FALSE} /\ wire' \in {wire, "command", "end"}
    BY <1>4 DEF GetLog, CopyChar, Copied, Answer, CommandCheck, CommandFails, SendCommand,
                SendLineEnd, uartVars
  <2>5. JobOk(job')
    BY <1>1, <2>3, JobsOk
  <2>6. suppressed' \in BOOLEAN /\ client' \in BOOLEAN /\ arrived' \in BOOLEAN
    BY <1>1, <2>1, <2>4
  <2>7. wire' \in {"client", "command", "end"}
    BY <1>1, <2>4
  <2> QED
    BY <2>1, <2>2, <2>5, <2>6, <2>7, RestTypes
<1> QED
  BY <1>2, <1>3, <1>4 DEF HttpTask

LEMMA MoreTypesStep ==
  TextInv /\ MoreTypes /\ [TextNext]_textVars => TextInv' /\ MoreTypes'
<1> SUFFICES ASSUME TextInv, MoreTypes, [TextNext]_textVars PROVE MoreTypes'
  BY TextSteps
<1>1. TextInv'
  BY TextSteps
<1>2. /\ suppressed \in BOOLEAN /\ client \in BOOLEAN /\ arrived \in BOOLEAN
      /\ JobOk(job) /\ wire \in {"client", "command", "end"} /\ events \in 0..MaxEvents
  BY DEF MoreTypes
<1>3. ASSUME NEW class \in Classes, Push(class) PROVE MoreTypes'
  <2>1. NumbersOk(line', received')
    BY <1>3, PushTypes DEF TextInv
  <2>2. UNCHANGED <<suppressed, client, arrived, writing, job, wire>>
    BY <1>3 DEF Push, logVars, uartVars, answerVars
  <2>3. events' \in 0..MaxEvents
    BY <1>2, <1>3, HappensType DEF Push
  <2> QED
    BY <2>1, <2>2, <2>3 DEF MoreTypes, NumbersOk
<1>4. CASE SuppressionEnds
  <2>1. suppressed' = FALSE
        /\ UNCHANGED <<line, received, writing, client, arrived, job, wire, events>>
    BY <1>4 DEF SuppressionEnds, logVars, uartVars, answerVars
  <2> QED
    BY <1>2, <2>1, RestTypes
<1>5. CASE TcpClientComes \/ TcpClientWrites \/ TcpClientLeaves
  <2>1. UNCHANGED <<line, received, writing, suppressed, job>>
    BY <1>5 DEF TcpClientComes, TcpClientWrites, TcpClientLeaves, consoleVars, logVars,
                answerVars
  <2>2. events' \in 0..MaxEvents
    BY <1>2, <1>5, HappensType DEF TcpClientComes, TcpClientWrites, TcpClientLeaves
  <2>3. client' \in {client, TRUE, FALSE} /\ arrived' \in {arrived, TRUE}
        /\ wire' \in {wire, "client"}
    BY <1>5 DEF TcpClientComes, TcpClientWrites, TcpClientLeaves
  <2>4. suppressed' \in BOOLEAN /\ client' \in BOOLEAN /\ arrived' \in BOOLEAN
    BY <1>2, <2>1, <2>3
  <2>5. wire' \in {"client", "command", "end"} /\ JobOk(job')
    BY <1>2, <2>1, <2>3
  <2> QED
    BY <2>1, <2>2, <2>4, <2>5, RestTypes
<1>6. CASE UNCHANGED textVars
  BY <1>6 DEF textVars, consoleVars, logVars, uartVars, answerVars, MoreTypes, NumbersOk
<1> QED
  BY <1>1, <1>3, <1>4, <1>5, <1>6, LogTypes, RequestTypes DEF TextNext

LEMMA RingIndices ==
  ASSUME NEW size \in Nat, NEW data, NEW h, NEW u, NEW text \in Seq(Chars),
         Ring(data, size, h, u, text)
  PROVE  h \in 0..(size - 1) /\ u \in 0..size
<1>1. Len(text) \in Nat
  OBVIOUS
<1> QED
  BY <1>1 DEF Ring, Least

LEMMA AllTextTypes == TextInv /\ MoreTypes => TextTypeOK
<1> SUFFICES ASSUME TextInv, MoreTypes PROVE TextTypeOK
  OBVIOUS
<1>1. head \in 0..(ConsoleSize - 1) /\ used \in 0..ConsoleSize
      /\ log.head \in 0..(LogSize - 1) /\ log.used \in 0..LogSize
  BY Sizes, RingIndices DEF TextInv, ConsoleRing, LogRing, Types
<1>2. {binary, suppressed, client, arrived} \subseteq BOOLEAN
  BY DEF TextInv, LineInv, MoreTypes
<1> QED
  BY <1>1, <1>2 DEF TextInv, Types, MoreTypes, NumbersOk, JobOk, TextTypeOK

\* Rings, lines and texts stay inside their buffers, and a line consists of
\* bytes that were received (gnss_uart.c, log.c).
THEOREM TextTypeCorrect == TextSpec => []TextTypeOK
<1>1. TextInit => TextInv /\ MoreTypes
  BY TextInitially, MoreTypesInitially
<1> QED
  BY <1>1, MoreTypesStep, AllTextTypes, PTL DEF TextSpec
=============================================================================

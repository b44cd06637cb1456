------------------------- MODULE GatewayEvents_proofs -------------------------
(***************************************************************************)
(* Proofs about the gateway's event bus, for any number of publishers and  *)
(* clients, any capacity and any number of restarts.                       *)
(*                                                                         *)
(* What is proved rests on one order: numbers grow along the retained      *)
(* window, along every snapshot of it, and along what each client was      *)
(* given and has yet to replay, with the client's cursor in between.       *)
(***************************************************************************)
EXTENDS GatewayEvents, SequenceTheorems, WellFoundedInduction, TLAPS

\* Every snapshot of the window is in order.
SavedInOrder == InOrder(disk.recent) /\ \A t \in Threads : InOrder(snap[t].recent)

\* A publisher about to send has an event.
RecordReady == \A p \in Publishers : at[p] = "retained" => record[p] \in Record

\* What a client was given is in order and not past its cursor.
GivenInOrder ==
    \A c \in Clients :
        InOrder(got[c]) /\ \A i \in DOMAIN got[c] : got[c][i].seq <= cursor[c]

\* What a client has yet to replay is in order and past its cursor.
PendingAhead ==
    \A c \in Clients :
        /\ InOrder(pending[c])
        /\ \A i \in DOMAIN pending[c] : pending[c][i].seq > cursor[c]
        /\ at[c] # "live" => pending[c] = <<>>

Inv ==
    /\ TypeOK
    /\ Len(history) <= MaxEvents
    /\ RetainedInOrder
    /\ SavedInOrder
    /\ RecordReady
    /\ GivenInOrder
    /\ PendingAhead

-----------------------------------------------------------------------------
(* Numbers *)

\* A set of naturals has a least element.
LEMMA LeastExists ==
    ASSUME NEW S, S \subseteq Nat, S # {}
    PROVE  \E x \in S : \A y \in S : x <= y
<1> DEFINE Less == {ss \in Nat \X Nat : ss[1] < ss[2]}
<1>1. IsWellFoundedOn(Less, Nat)
  BY NatLessThanWellFounded DEF OpToRel
<1> HIDE DEF Less
<1>2. PICK x \in S : \A y \in S : ~ (<<y, x>> \in Less)
  BY <1>1, WFMin
<1>3. \A y \in S : ~ (y < x)
  BY <1>2 DEF Less
<1> QED
  BY <1>3

\* A bounded set of naturals has a greatest element.
LEMMA GreatestExists ==
    ASSUME NEW S, NEW bound \in Nat, S \subseteq 0 .. bound, S # {}
    PROVE  \E x \in S : \A y \in S : x >= y
<1> DEFINE Bounds == {n \in Nat : \A y \in S : n >= y}
<1>1. Bounds \subseteq Nat /\ bound \in Bounds
  OBVIOUS
<1>2. PICK n \in Bounds : \A m \in Bounds : n <= m
  BY <1>1, LeastExists
<1>3. CASE n \in S
  BY <1>2, <1>3
<1>4. CASE n \notin S
  <2>1. \A y \in S : n - 1 >= y
    BY <1>2, <1>4
  <2>2. PICK y \in S : TRUE
    OBVIOUS
  <2>3. n - 1 >= y /\ y \in Nat /\ n \in Nat
    BY <1>1, <1>2, <2>1, <2>2
  <2>4. n - 1 \in Nat
    BY <2>3
  <2> QED
    BY <1>2, <2>1, <2>4
<1> QED
  BY <1>3, <1>4

-----------------------------------------------------------------------------
(* Windows *)

\* The elements of a sequence of records.
LEMMA RecordsAt ==
    ASSUME NEW s \in Seq(Record)
    PROVE  /\ Len(s) \in Nat /\ DOMAIN s = 1 .. Len(s)
           /\ \A i \in 1 .. Len(s) : s[i] \in Record /\ s[i].seq \in Nat /\ s[i].seq \in Seqs
<1>1. Len(s) \in Nat /\ DOMAIN s = 1 .. Len(s)
  BY LenProperties
<1>2. \A i \in 1 .. Len(s) : s[i] \in Record
  BY ElementOfSeq
<1> QED
  BY <1>1, <1>2, GatewayEventsAssumption DEF Record, Seqs

\* The end of a window from some position on.
LEMMA SuffixInOrder ==
    ASSUME NEW s \in Seq(Record), NEW m \in 1 .. Len(s) + 1
    PROVE  /\ SubSeq(s, m, Len(s)) \in Seq(Record)
           /\ Len(SubSeq(s, m, Len(s))) = Len(s) + 1 - m
           /\ \A i \in 1 .. Len(s) + 1 - m : SubSeq(s, m, Len(s))[i] = s[m + i - 1]
           /\ InOrder(s) => InOrder(SubSeq(s, m, Len(s)))
<1> DEFINE w == SubSeq(s, m, Len(s))
<1>1. Len(s) \in Nat /\ DOMAIN s = 1 .. Len(s) /\ \A i \in m .. Len(s) : s[i] \in Record
  BY RecordsAt
<1>2. /\ w \in Seq(Record) /\ Len(w) = Len(s) + 1 - m
      /\ \A i \in 1 .. Len(s) + 1 - m : w[i] = s[m + i - 1]
  BY <1>1, SubSeqProperties
<1>3. DOMAIN w = 1 .. Len(s) + 1 - m
  BY <1>2, LenProperties
<1> HIDE DEF w
<1>4. ASSUME InOrder(s), NEW i \in DOMAIN w, NEW j \in DOMAIN w, i < j
      PROVE  w[i].seq < w[j].seq
  <2>1. m + i - 1 \in DOMAIN s /\ m + j - 1 \in DOMAIN s /\ m + i - 1 < m + j - 1
    BY <1>1, <1>3, <1>4
  <2> QED
    BY <1>2, <1>3, <1>4, <2>1 DEF InOrder
<1> QED
  BY <1>2, <1>4 DEF InOrder, w

\* The last records of a window.
LEMMA LastOfInOrder ==
    ASSUME NEW s \in Seq(Record), NEW n \in Nat \ {0}
    PROVE  /\ LastOf(s, n) \in Seq(Record) /\ Len(LastOf(s, n)) <= n
           /\ \A i \in DOMAIN LastOf(s, n) : \E j \in DOMAIN s : LastOf(s, n)[i] = s[j]
           /\ InOrder(s) => InOrder(LastOf(s, n))
<1> DEFINE m == Largest(1, Len(s) + 1 - n)
<1>1. Len(s) \in Nat /\ DOMAIN s = 1 .. Len(s)
  BY RecordsAt
<1>2. m \in 1 .. Len(s) + 1 /\ Len(s) + 1 - m <= n
  BY <1>1 DEF Largest
<1>3. LastOf(s, n) = SubSeq(s, m, Len(s))
  BY DEF LastOf
<1> HIDE DEF m
<1>4. /\ LastOf(s, n) \in Seq(Record) /\ Len(LastOf(s, n)) = Len(s) + 1 - m
      /\ \A i \in 1 .. Len(s) + 1 - m : LastOf(s, n)[i] = s[m + i - 1]
      /\ InOrder(s) => InOrder(LastOf(s, n))
  BY <1>2, <1>3, SuffixInOrder
<1>5. DOMAIN LastOf(s, n) = 1 .. Len(s) + 1 - m
  BY <1>4, LenProperties
<1>6. \A i \in 1 .. Len(s) + 1 - m : m + i - 1 \in DOMAIN s
  BY <1>1, <1>2
<1> QED
  BY <1>2, <1>4, <1>5, <1>6

\* A record with a larger number than all others goes to the end.
LEMMA AppendInOrder ==
    ASSUME NEW s \in Seq(Record), NEW r \in Record, InOrder(s),
           \A i \in DOMAIN s : s[i].seq < r.seq
    PROVE  /\ Append(s, r) \in Seq(Record) /\ InOrder(Append(s, r))
           /\ \A i \in DOMAIN Append(s, r) : Append(s, r)[i].seq <= r.seq
<1> DEFINE w == Append(s, r)
<1>1. Len(s) \in Nat /\ DOMAIN s = 1 .. Len(s)
  BY RecordsAt
<1>2. /\ w \in Seq(Record) /\ Len(w) = Len(s) + 1 /\ w[Len(s) + 1] = r
      /\ \A i \in 1 .. Len(s) : w[i] = s[i]
  BY AppendProperties
<1>3. DOMAIN w = 1 .. Len(s) + 1
  BY <1>2, LenProperties
<1>4. \A i \in 1 .. Len(s) + 1 : w[i].seq \in Nat
  BY <1>2, RecordsAt
<1> HIDE DEF w
<1>5. ASSUME NEW i \in DOMAIN w, NEW j \in DOMAIN w, i < j
      PROVE  w[i].seq < w[j].seq
  <2>1. i \in 1 .. Len(s)
    BY <1>1, <1>3, <1>5
  <2>2. CASE j = Len(s) + 1
    BY <1>1, <1>2, <2>1, <2>2
  <2>3. CASE j # Len(s) + 1
    <3>1. j \in 1 .. Len(s)
      BY <1>1, <1>3, <2>3
    <3> QED
      BY <1>1, <1>2, <1>5, <2>1, <3>1 DEF InOrder
  <2> QED
    BY <2>2, <2>3
<1>6. ASSUME NEW i \in DOMAIN w PROVE w[i].seq <= r.seq
  <2>1. CASE i = Len(s) + 1
    BY <1>2, <1>4, <1>3, <2>1
  <2>2. CASE i # Len(s) + 1
    <3>1. i \in 1 .. Len(s)
      BY <1>1, <1>3, <2>2
    <3>2. w[i].seq < r.seq /\ w[i].seq \in Nat /\ r.seq \in Nat
      BY <1>1, <1>2, <1>4, <3>1
    <3> QED
      BY <3>2
  <2> QED
    BY <2>1, <2>2
<1> QED
  BY <1>2, <1>5, <1>6 DEF InOrder, w

\* Two windows one after the other.
LEMMA ConcatInOrder ==
    ASSUME NEW s \in Seq(Record), NEW r \in Seq(Record), InOrder(s), InOrder(r),
           \A i \in DOMAIN s : \A j \in DOMAIN r : s[i].seq < r[j].seq
    PROVE  /\ s \o r \in Seq(Record) /\ InOrder(s \o r)
           /\ \A i \in DOMAIN (s \o r) :
                 \/ \E j \in DOMAIN s : (s \o r)[i] = s[j]
                 \/ \E j \in DOMAIN r : (s \o r)[i] = r[j]
<1> DEFINE w == s \o r
<1>1. /\ Len(s) \in Nat /\ DOMAIN s = 1 .. Len(s)
      /\ Len(r) \in Nat /\ DOMAIN r = 1 .. Len(r)
  BY RecordsAt
<1>2. /\ w \in Seq(Record) /\ Len(w) = Len(s) + Len(r)
      /\ \A i \in 1 .. Len(s) + Len(r) : w[i] = IF i <= Len(s) THEN s[i] ELSE r[i - Len(s)]
  BY ConcatProperties
<1>3. DOMAIN w = 1 .. Len(s) + Len(r)
  BY <1>2, LenProperties
<1> HIDE DEF w
<1>4. ASSUME NEW i \in DOMAIN w
      PROVE  \/ i <= Len(s) /\ i \in DOMAIN s /\ w[i] = s[i]
             \/ i > Len(s) /\ i - Len(s) \in DOMAIN r /\ w[i] = r[i - Len(s)]
  BY <1>1, <1>2, <1>3
<1>5. ASSUME NEW i \in DOMAIN w, NEW j \in DOMAIN w, i < j
      PROVE  w[i].seq < w[j].seq
  <2>1. i \in Nat /\ j \in Nat
    BY <1>3
  <2>2. CASE j <= Len(s)
    BY <1>1, <1>4, <1>5, <2>1, <2>2 DEF InOrder
  <2>3. CASE i <= Len(s) /\ j > Len(s)
    BY <1>1, <1>4, <2>1, <2>3
  <2>4. CASE i > Len(s)
    <3>1. /\ i - Len(s) \in DOMAIN r /\ j - Len(s) \in DOMAIN r /\ i - Len(s) < j - Len(s)
          /\ w[i] = r[i - Len(s)] /\ w[j] = r[j - Len(s)]
      BY <1>1, <1>4, <1>5, <2>1, <2>4
    <3> QED
      BY <3>1 DEF InOrder
  <2> QED
    BY <1>1, <2>1, <2>2, <2>3, <2>4
<1> QED
  BY <1>2, <1>4, <1>5 DEF InOrder, w

\* What a replay hands out is in order and past the number it starts after.
LEMMA ReplayInOrder ==
    ASSUME recent \in Seq(Record), InOrder(recent), NEW q \in Nat
    PROVE  /\ ReplayAfter(q) \in Seq(Record) /\ InOrder(ReplayAfter(q))
           /\ \A i \in DOMAIN ReplayAfter(q) : ReplayAfter(q)[i].seq > q
<1> DEFINE n == Len(recent)
           Past(i) == \A j \in i .. n : recent[j].seq > q
           Ends == {i \in 1 .. n + 1 : Past(i)}
<1>1. n \in Nat /\ \A i \in 1 .. n : recent[i].seq \in Nat
  BY RecordsAt
<1>2. n + 1 \in Ends /\ Ends \subseteq Nat
  BY <1>1
<1>3. PICK f \in Ends : \A i \in Ends : f <= i
  BY <1>2, LeastExists
<1>4. f > 1 => recent[f - 1].seq <= q
  <2> SUFFICES ASSUME f > 1, ~ (recent[f - 1].seq <= q) PROVE FALSE
    OBVIOUS
  <2>1. f - 1 \in 1 .. n /\ recent[f - 1].seq > q
    BY <1>1, <1>3
  <2>2. f - 1 \in Ends
    BY <1>1, <1>3, <2>1
  <2> QED
    BY <1>1, <1>3, <2>2
<1>5. FirstAfter(q) \in 1 .. n + 1 /\ Past(FirstAfter(q))
  BY <1>3, <1>4 DEF FirstAfter
<1> DEFINE m == Largest(FirstAfter(q), n + 1 - Limit)
<1>6. m \in 1 .. n + 1 /\ m >= FirstAfter(q)
  BY <1>1, <1>5, GatewayEventsAssumption DEF Largest
<1>7. ReplayAfter(q) = SubSeq(recent, m, Len(recent))
  BY DEF ReplayAfter
<1> HIDE DEF m
<1>8. /\ ReplayAfter(q) \in Seq(Record) /\ Len(ReplayAfter(q)) = n + 1 - m
      /\ \A i \in 1 .. n + 1 - m : ReplayAfter(q)[i] = recent[m + i - 1]
      /\ InOrder(ReplayAfter(q))
  BY <1>6, <1>7, SuffixInOrder
<1>9. \A i \in 1 .. n + 1 - m : m + i - 1 \in FirstAfter(q) .. n
  BY <1>1, <1>5, <1>6
<1>10. DOMAIN ReplayAfter(q) = 1 .. n + 1 - m
  BY <1>8, LenProperties
<1> QED
  BY <1>5, <1>8, <1>9, <1>10

\* The number of the last record is the largest.
LEMMA LastSeqLargest ==
    ASSUME NEW s \in Seq(Record), InOrder(s)
    PROVE  /\ LastSeq(s) \in Seqs
           /\ \A i \in DOMAIN s : s[i].seq <= LastSeq(s)
           /\ s # <<>> => \E i \in DOMAIN s : s[i].seq = LastSeq(s)
<1>1. /\ Len(s) \in Nat /\ DOMAIN s = 1 .. Len(s)
      /\ \A i \in 1 .. Len(s) : s[i].seq \in Seqs /\ s[i].seq \in Nat
  BY RecordsAt
<1>2. CASE s = <<>>
  <2>1. DOMAIN s = {}
    BY <1>2, EmptySeq
  <2> QED
    BY <1>2, <2>1, GatewayEventsAssumption DEF LastSeq, Seqs
<1>3. CASE s # <<>>
  <2>1. Len(s) \in 1 .. Len(s)
    BY <1>1, <1>3, EmptySeq
  <2>2. ASSUME NEW i \in 1 .. Len(s) PROVE s[i].seq <= s[Len(s)].seq
    <3>1. CASE i = Len(s)
      BY <1>1, <2>1, <3>1
    <3>2. CASE i # Len(s)
      <4>1. Len(s) \in Nat
        BY <1>1
      <4>2. i < Len(s)
        BY <3>2, <4>1
      <4> QED
        BY <1>1, <2>1, <4>2 DEF InOrder
    <3> QED
      BY <3>1, <3>2
  <2> QED
    BY <1>1, <1>3, <2>1, <2>2 DEF LastSeq
<1> QED
  BY <1>2, <1>3

\* Handing a client records past its cursor keeps what it was given in order.
LEMMA DeliverInOrder ==
    ASSUME TypeOK, GivenInOrder, NEW c \in Clients, NEW r \in Seq(Record), InOrder(r),
           \A i \in DOMAIN r : r[i].seq > cursor[c], Deliver(c, r)
    PROVE  /\ GivenInOrder'
           /\ got' \in [Clients -> Seq(Record)] /\ cursor' \in [Clients -> Seqs]
           /\ \A d \in Clients \ {c} : cursor'[d] = cursor[d]
           /\ \A i \in DOMAIN r : r[i].seq <= cursor'[c]
<1>1. /\ got[c] \in Seq(Record) /\ cursor[c] \in Seqs /\ cursor[c] \in Nat
      /\ got'[c] = got[c] \o r /\ cursor'[c] = NextCursor(c, r)
      /\ \A d \in Clients \ {c} : cursor'[d] = cursor[d] /\ got'[d] = got[d]
  <2>1. got[c] \in Seq(Record) /\ cursor[c] \in Seqs /\ cursor[c] \in Nat
    BY GatewayEventsAssumption DEF TypeOK, Seqs
  <2>2. /\ got' = [got EXCEPT ![c] = got[c] \o r]
        /\ cursor' = [cursor EXCEPT ![c] = NextCursor(c, r)]
    BY DEF Deliver
  <2> QED
    BY <2>1, <2>2 DEF TypeOK
<1>2. /\ InOrder(got[c]) /\ \A i \in DOMAIN got[c] : got[c][i].seq <= cursor[c]
      /\ \A i \in DOMAIN got[c] : got[c][i].seq \in Nat
      /\ \A i \in DOMAIN r : r[i].seq \in Nat
  BY <1>1, RecordsAt DEF GivenInOrder
<1>3. \A i \in DOMAIN got[c] : \A j \in DOMAIN r : got[c][i].seq < r[j].seq
  BY <1>1, <1>2
<1>4. /\ got[c] \o r \in Seq(Record) /\ InOrder(got[c] \o r)
      /\ \A i \in DOMAIN (got[c] \o r) :
            \/ \E j \in DOMAIN got[c] : (got[c] \o r)[i] = got[c][j]
            \/ \E j \in DOMAIN r : (got[c] \o r)[i] = r[j]
  BY <1>1, <1>2, <1>3, ConcatInOrder
<1>5. /\ cursor'[c] \in Seqs /\ cursor'[c] \in Nat /\ cursor'[c] >= cursor[c]
      /\ \A i \in DOMAIN r : r[i].seq <= cursor'[c]
  <2>1. CASE r = <<>>
    <3>1. DOMAIN r = {}
      BY <2>1, EmptySeq
    <3> QED
      BY <1>1, <2>1, <3>1 DEF NextCursor
  <2>2. CASE r # <<>>
    <3>1. cursor'[c] = LastSeq(r)
      BY <1>1, <2>2 DEF NextCursor
    <3>2. /\ LastSeq(r) \in Seqs /\ \A i \in DOMAIN r : r[i].seq <= LastSeq(r)
          /\ \E i \in DOMAIN r : r[i].seq = LastSeq(r)
      BY <2>2, LastSeqLargest
    <3>3. LastSeq(r) \in Nat
      BY <3>2, GatewayEventsAssumption DEF Seqs
    <3> QED
      BY <1>1, <3>1, <3>2, <3>3
  <2> QED
    BY <2>1, <2>2
<1>6. \A i \in DOMAIN got'[c] : got'[c][i].seq <= cursor'[c]
  BY <1>1, <1>2, <1>4, <1>5
<1>7. GivenInOrder'
  BY <1>1, <1>4, <1>6 DEF GivenInOrder
<1> QED
  BY <1>1, <1>4, <1>5, <1>7 DEF TypeOK, Deliver

-----------------------------------------------------------------------------
(* Publishing and persisting *)

\* A thread that moves on, and touches neither what it publishes nor what a client
\* is given, keeps both in shape.
LEMMA MoveStep ==
    ASSUME Inv, NEW t \in Threads, NEW step \in Steps, step # "retained",
           at[t] # "live" \/ pending[t] = <<>>, Goto(t, step), UNCHANGED <<record, pending, cursor>>
    PROVE  at' \in [Threads -> Steps] /\ RecordReady' /\ PendingAhead'
<1>1. at' = [at EXCEPT ![t] = step] /\ at \in [Threads -> Steps]
  BY DEF Inv, TypeOK, Goto
<1>2. RecordReady'
  BY <1>1 DEF Inv, RecordReady, Threads
<1>3. \A c \in Clients : at'[c] # "live" => pending[c] = <<>>
  BY <1>1 DEF Inv, PendingAhead, Threads
<1> QED
  BY <1>1, <1>2, <1>3 DEF Inv, PendingAhead

\* A number is given and the window trimmed under one lock.
LEMMA PublishStep ==
    ASSUME Inv, NEW p \in Publishers, Publish(p)
    PROVE  Inv'
<1> DEFINE r == [seq |-> nextSeq + 1, id |-> Len(history) + 1]
<1>1. /\ nextSeq \in Nat /\ nextSeq + 1 \in Seqs /\ Len(history) \in Nat
      /\ history \in Seq(Seqs) /\ recent \in Seq(Record) /\ Capacity \in Nat \ {0}
  <2>1. history \in Seq(Seqs) /\ Len(history) \in Nat
    BY LenProperties DEF Inv, TypeOK
  <2> QED
    BY <2>1, GatewayEventsAssumption DEF Inv, TypeOK, Publish, Seqs
<1>2. /\ history' = Append(history, nextSeq + 1) /\ nextSeq' = nextSeq + 1
      /\ history' \in Seq(Seqs) /\ Len(history') = Len(history) + 1
  BY <1>1, AppendProperties DEF Publish
<1>3. r \in Record /\ record' = [record EXCEPT ![p] = r]
  BY <1>1, <1>2, GatewayEventsAssumption DEF Publish, Record, Seqs
<1>4. record'[p] = r /\ \A q \in Publishers \ {p} : record'[q] = record[q]
  BY <1>3 DEF Inv, TypeOK
<1>5. \A i \in DOMAIN recent : recent[i].seq < r.seq
  <2>1. \A i \in DOMAIN recent : recent[i].seq \in Nat /\ recent[i].seq <= nextSeq
    BY <1>1, RecordsAt DEF Inv, RetainedInOrder
  <2> QED
    BY <1>1, <2>1
<1> DEFINE longer == Append(recent, r)
<1>6. /\ longer \in Seq(Record) /\ InOrder(longer)
      /\ \A i \in DOMAIN longer : longer[i].seq <= r.seq
  BY <1>1, <1>3, <1>5, AppendInOrder DEF Inv, RetainedInOrder
<1>7. recent' = LastOf(longer, Capacity)
  BY <1>4 DEF Publish
<1> HIDE DEF longer
<1>8. /\ recent' \in Seq(Record) /\ Len(recent') <= Capacity /\ InOrder(recent')
      /\ \A i \in DOMAIN recent' : recent'[i].seq <= nextSeq'
  BY <1>1, <1>2, <1>6, <1>7, LastOfInOrder
<1>9. at' \in [Threads -> Steps] /\ at' = [at EXCEPT ![p] = "retained"]
  BY DEF Inv, TypeOK, Publish, Goto, Steps, Threads
<1>10. RecordReady'
  BY <1>3, <1>4, <1>9 DEF Inv, TypeOK, RecordReady, Threads
<1>11. \A c \in Clients : at'[c] = at[c]
  BY <1>9, GatewayEventsAssumption DEF Inv, TypeOK, Clients, Threads
<1>12. PendingAhead'
  BY <1>11 DEF Inv, PendingAhead, Publish, stream, client
<1>13. record' \in [Publishers -> [seq: Seqs, id: 0 .. MaxEvents]]
  <2>1. r \in [seq: Seqs, id: 0 .. MaxEvents]
    BY <1>3, GatewayEventsAssumption DEF Record, Seqs
  <2> QED
    BY <1>3, <2>1 DEF Inv, TypeOK
<1>14. TypeOK'
  BY <1>1, <1>2, <1>8, <1>9, <1>13 DEF Inv, TypeOK, Publish, stream, client
<1>15. GivenInOrder' /\ SavedInOrder'
  BY DEF Inv, GivenInOrder, SavedInOrder, Publish, client
<1>16. Len(history') <= MaxEvents
  BY <1>1, <1>2, GatewayEventsAssumption DEF Publish
<1> QED
  BY <1>8, <1>10, <1>12, <1>14, <1>15, <1>16 DEF Inv, RetainedInOrder

\* A record goes into the broadcast channel once.
LEMMA SendStep ==
    ASSUME Inv, NEW p \in Publishers, Send(p)
    PROVE  Inv'
<1>1. record[p] \in Record /\ sent' = Append(sent, record[p]) /\ sent \in Seq(Record)
  BY DEF Inv, TypeOK, RecordReady, Send
<1>2. sent' \in Seq(Record)
  BY <1>1, AppendProperties
<1>3. at' = [at EXCEPT ![p] = "leases"] /\ at' \in [Threads -> Steps]
  BY DEF Inv, TypeOK, Send, Goto, Steps, PersistSteps, Threads
<1>4. record' \in [Publishers -> [seq: Seqs, id: 0 .. MaxEvents]]
  BY GatewayEventsAssumption DEF Inv, TypeOK, Send, NoRecord, Seqs
<1>5. TypeOK'
  BY <1>2, <1>3, <1>4 DEF Inv, TypeOK, Send, stream, client
<1>6. RecordReady'
  BY <1>3 DEF Inv, TypeOK, RecordReady, Send, Threads
<1>7. \A c \in Clients : at'[c] = at[c]
  BY <1>3, GatewayEventsAssumption DEF Inv, TypeOK, Clients, Threads
<1>8. PendingAhead'
  BY <1>7 DEF Inv, PendingAhead, Send, stream, client
<1> QED
  BY <1>5, <1>6, <1>8
  DEF Inv, Send, client, RetainedInOrder, SavedInOrder, GivenInOrder

\* What is persisted is as well typed and as much in order as what it is read from.
LEMMA PersistStep ==
    ASSUME Inv, NEW t \in Threads, Persist(t)
    PROVE  Inv'
<1>1. snap \in [Threads -> Snapshot] /\ snap[t] \in Snapshot /\ nextSeq \in Seqs
  BY DEF Inv, TypeOK
<1>2. at[t] # "live"
  BY DEF Persist, SnapshotLeases, LoadNextSeq, CloneRecent, WriteState
<1>3. /\ UNCHANGED <<bus, acks, record, stream, client, history, restarts>>
      /\ \E step \in Steps \ {"retained"} : Goto(t, step)
  BY DEF Persist, SnapshotLeases, LoadNextSeq, CloneRecent, WriteState, Steps, PersistSteps
<1>4. at' \in [Threads -> Steps] /\ RecordReady' /\ PendingAhead'
  BY <1>2, <1>3, MoveStep DEF stream, client
<1>5. snap' \in [Threads -> Snapshot] /\ disk' \in Snapshot /\ SavedInOrder'
  <2>1. CASE SnapshotLeases(t)
    <3>1. snap' = [snap EXCEPT ![t] = [snap[t] EXCEPT !.acks = acks]] /\ disk' = disk
      BY <2>1 DEF SnapshotLeases
    <3>2. [snap[t] EXCEPT !.acks = acks] \in Snapshot
      BY <1>1 DEF Inv, TypeOK, Snapshot
    <3>3. [snap[t] EXCEPT !.acks = acks].recent = snap[t].recent
      BY <1>1 DEF Snapshot
    <3> QED
      BY <1>1, <3>1, <3>2, <3>3 DEF Inv, TypeOK, SavedInOrder
  <2>2. CASE LoadNextSeq(t)
    <3> DEFINE numbers == {nextSeq} \cup {snap[t].acks[c] : c \in Clients}
    <3>1. snap' = [snap EXCEPT ![t] = [snap[t] EXCEPT !.next = SnapshotNext(t)]] /\ disk' = disk
      BY <2>2 DEF LoadNextSeq
    <3>2. numbers \subseteq Seqs
      BY <1>1 DEF Snapshot
    <3>3. PICK n \in numbers : \A m \in numbers : n >= m
      BY <3>2, GreatestExists, GatewayEventsAssumption DEF Seqs
    <3>4. SnapshotNext(t) \in numbers
      BY <3>3 DEF SnapshotNext
    <3> HIDE DEF numbers
    <3>5. [snap[t] EXCEPT !.next = SnapshotNext(t)] \in Snapshot
      BY <1>1, <3>2, <3>4 DEF Snapshot
    <3>6. [snap[t] EXCEPT !.next = SnapshotNext(t)].recent = snap[t].recent
      BY <1>1 DEF Snapshot
    <3> QED
      BY <1>1, <3>1, <3>5, <3>6 DEF Inv, TypeOK, SavedInOrder
  <2>3. CASE CloneRecent(t)
    <3>1. snap' = [snap EXCEPT ![t] = [snap[t] EXCEPT !.recent = recent]] /\ disk' = disk
      BY <2>3 DEF CloneRecent
    <3>2. [snap[t] EXCEPT !.recent = recent] \in Snapshot
      BY <1>1 DEF Inv, TypeOK, Snapshot
    <3>3. [snap[t] EXCEPT !.recent = recent].recent = recent
      BY <1>1 DEF Snapshot
    <3> QED
      BY <1>1, <3>1, <3>2, <3>3 DEF Inv, TypeOK, SavedInOrder, RetainedInOrder
  <2>4. CASE WriteState(t)
    <3>1. snap' = [snap EXCEPT ![t] = NothingSaved] /\ disk' \in {snap[t], disk}
      BY <2>4 DEF WriteState
    <3>2. NothingSaved \in Snapshot /\ InOrder(NothingSaved.recent)
      BY EmptySeq, GatewayEventsAssumption DEF NothingSaved, Snapshot, Seqs, InOrder
    <3> QED
      BY <1>1, <3>1, <3>2 DEF Inv, TypeOK, SavedInOrder
  <2> QED
    BY <2>1, <2>2, <2>3, <2>4 DEF Persist
<1>6. TypeOK'
  BY <1>3, <1>4, <1>5 DEF Inv, TypeOK, bus, stream, client
<1> QED
  BY <1>3, <1>4, <1>5, <1>6 DEF Inv, bus, client, RetainedInOrder, GivenInOrder

-----------------------------------------------------------------------------
(* Requests and streams *)

\* A request that only moves on keeps the invariant.
LEMMA RequestStep ==
    ASSUME Inv, NEW c \in Clients, NEW step \in Steps, step # "retained",
           at[c] # "live" \/ pending[c] = <<>>, Goto(c, step),
           acks' \in [Clients -> Seqs], position' \in [Clients -> Nat \ {0}],
           UNCHANGED <<bus, record, snap, pending, disk, cursor, got, history, restarts>>
    PROVE  Inv'
<1>1. c \in Threads
  BY DEF Threads
<1>2. at' \in [Threads -> Steps] /\ RecordReady' /\ PendingAhead'
  BY <1>1, MoveStep
<1>3. TypeOK'
  BY <1>2 DEF Inv, TypeOK, bus
<1> QED
  BY <1>2, <1>3 DEF Inv, bus, RetainedInOrder, SavedInOrder, GivenInOrder

\* The stale_cursor answer moves a client's cursor forward.
LEMMA StaleStep ==
    ASSUME Inv, NEW c \in Clients, at[c] # "live", Stale(cursor[c]), AnswerStale(c),
           UNCHANGED <<bus, acks, record, snap, stream, disk, got, history, restarts>>
    PROVE  Inv'
<1>1. recent \in Seq(Record) /\ recent # <<>> /\ cursor[c] \in Seqs /\ cursor[c] \in Nat
  BY GatewayEventsAssumption DEF Inv, TypeOK, Stale, Seqs
<1>2. 1 \in DOMAIN recent /\ 1 \in 1 .. Len(recent)
  BY <1>1, EmptySeq, RecordsAt
<1>3. recent[1].seq \in Seqs /\ recent[1].seq \in Nat
  BY <1>1, <1>2, RecordsAt
<1>4. recent[1].seq - 1 \in Seqs /\ recent[1].seq - 1 > cursor[c]
  BY <1>1, <1>3, GatewayEventsAssumption DEF Stale, Seqs
<1>5. /\ cursor' \in [Clients -> Seqs]
      /\ cursor'[c] = recent[1].seq - 1 /\ \A d \in Clients \ {c} : cursor'[d] = cursor[d]
  BY <1>4 DEF AnswerStale, Inv, TypeOK
<1>6. /\ at' = [at EXCEPT ![c] = "idle"] /\ at' \in [Threads -> Steps]
      /\ \A d \in Clients \ {c} : at'[d] = at[d]
  BY DEF AnswerStale, Goto, Inv, TypeOK, Steps, Threads
<1>7. RecordReady'
  BY <1>6, GatewayEventsAssumption DEF Inv, TypeOK, RecordReady, Threads, Clients
<1>8. GivenInOrder'
  <2>1. ASSUME NEW i \in DOMAIN got[c] PROVE got[c][i].seq <= recent[1].seq - 1
    <3>1. got[c][i].seq \in Nat /\ got[c][i].seq <= cursor[c]
      BY RecordsAt DEF Inv, TypeOK, GivenInOrder
    <3> QED
      BY <1>1, <1>3, <1>4, <3>1
  <2> QED
    BY <1>5, <2>1 DEF Inv, GivenInOrder
<1>9. PendingAhead'
  <2>1. pending[c] = <<>> /\ DOMAIN pending[c] = {}
    BY EmptySeq DEF Inv, PendingAhead
  <2>2. ASSUME NEW d \in Clients \ {c}
        PROVE  at'[d] = at[d] /\ cursor'[d] = cursor[d] /\ pending'[d] = pending[d]
    BY <1>5, <1>6 DEF stream
  <2>3. pending' = pending
    BY DEF stream
  <2> QED
    BY <2>1, <2>2, <2>3 DEF Inv, PendingAhead
<1>10. TypeOK'
  BY <1>5, <1>6 DEF Inv, TypeOK, bus, stream
<1> QED
  BY <1>7, <1>8, <1>9, <1>10 DEF Inv, bus, RetainedInOrder, SavedInOrder

\* A request acknowledges what its client has.
LEMMA AcknowledgingStep ==
    ASSUME Inv, NEW c \in Clients, PollAcknowledging(c)
    PROVE  Inv'
<1>1. acks' \in [Clients -> Seqs]
  BY DEF Inv, TypeOK, PollAcknowledging, Largest
<1>2. /\ "leases" \in Steps \ {"retained"} /\ at[c] # "live" /\ Goto(c, "leases")
      /\ position' \in [Clients -> Nat \ {0}]
      /\ UNCHANGED <<bus, record, snap, pending, disk, cursor, got, history, restarts>>
  BY DEF PollAcknowledging, Inv, TypeOK, stream, client, Steps, PersistSteps
<1> QED
  BY <1>1, <1>2, RequestStep

\* A poll looks at the window, then fetches a page.
LEMMA PollStep ==
    ASSUME Inv, NEW c \in Clients, Poll(c) \/ ServePoll(c)
    PROVE  Inv'
<1>0. c \in Threads /\ TypeOK
  BY DEF Threads, Inv
<1>1. CASE Poll(c)
  <2>1. /\ "window" \in Steps \ {"retained"} /\ at[c] # "live" /\ Goto(c, "window")
        /\ acks' \in [Clients -> Seqs]
        /\ position' \in [Clients -> Nat \ {0}]
        /\ UNCHANGED <<bus, record, snap, pending, disk, cursor, got, history, restarts>>
    BY <1>1 DEF Poll, Inv, TypeOK, stream, client, Steps
  <2> QED
    BY <2>1, RequestStep
<1>2. CASE CheckWindow(c) /\ Stale(cursor[c])
  BY <1>2, StaleStep DEF CheckWindow
<1>3. CASE CheckWindow(c) /\ ~ Stale(cursor[c])
  <2>1. /\ "fetch" \in Steps \ {"retained"} /\ at[c] # "live" /\ Goto(c, "fetch")
        /\ acks' \in [Clients -> Seqs]
        /\ position' \in [Clients -> Nat \ {0}]
        /\ UNCHANGED <<bus, record, snap, pending, disk, cursor, got, history, restarts>>
    BY <1>3 DEF CheckWindow, Inv, TypeOK, stream, client, Steps
  <2> QED
    BY <2>1, RequestStep
<1>4. CASE Fetch(c)
  <2> DEFINE page == ReplayAfter(cursor[c])
  <2>1. cursor[c] \in Nat
    BY <1>0, GatewayEventsAssumption DEF TypeOK, Seqs
  <2>2. page \in Seq(Record) /\ InOrder(page) /\ \A i \in DOMAIN page : page[i].seq > cursor[c]
    BY <2>1, ReplayInOrder DEF Inv, TypeOK, RetainedInOrder
  <2>3. Deliver(c, page)
    BY <1>4 DEF Fetch
  <2> HIDE DEF page
  <2>4. /\ GivenInOrder' /\ got' \in [Clients -> Seq(Record)] /\ cursor' \in [Clients -> Seqs]
        /\ \A d \in Clients \ {c} : cursor'[d] = cursor[d]
    BY <2>2, <2>3, DeliverInOrder DEF Inv
  <2>5. /\ at' = [at EXCEPT ![c] = "idle"] /\ at' \in [Threads -> Steps] /\ at[c] = "fetch"
        /\ \A d \in Clients \ {c} : at'[d] = at[d]
    BY <1>4 DEF Fetch, Goto, Inv, TypeOK, Steps, Threads
  <2>6. RecordReady'
    BY <1>4, <2>5, GatewayEventsAssumption
    DEF Fetch, Inv, TypeOK, RecordReady, Threads, Clients
  <2>7. PendingAhead'
    <3>1. pending[c] = <<>> /\ DOMAIN pending[c] = {} /\ pending' = pending
      BY <1>4, <2>5, EmptySeq DEF Inv, PendingAhead, Fetch, stream
    <3> QED
      BY <2>4, <2>5, <3>1 DEF Inv, PendingAhead
  <2>8. TypeOK'
    BY <1>4, <2>4, <2>5 DEF Fetch, Inv, TypeOK, bus, stream
  <2> QED
    BY <1>4, <2>4, <2>6, <2>7, <2>8 DEF Fetch, Inv, bus, RetainedInOrder, SavedInOrder
<1> QED
  BY <1>1, <1>2, <1>3, <1>4 DEF ServePoll

\* A stream is checked against the window and subscribed before it is served.
LEMMA ConnectStep ==
    ASSUME Inv, NEW c \in Clients, OpenStream(c) \/ CheckStream(c) \/ Subscribe(c)
    PROVE  Inv'
<1>1. CASE OpenStream(c)
  <2>1. /\ "check" \in Steps \ {"retained"} /\ at[c] # "live" /\ Goto(c, "check")
        /\ acks' \in [Clients -> Seqs]
        /\ position' \in [Clients -> Nat \ {0}]
        /\ UNCHANGED <<bus, record, snap, pending, disk, cursor, got, history, restarts>>
    BY <1>1 DEF OpenStream, Inv, TypeOK, stream, client, Steps, StreamSteps
  <2> QED
    BY <2>1, RequestStep
<1>2. CASE CheckStream(c) /\ Stale(cursor[c])
  BY <1>2, StaleStep DEF CheckStream
<1>3. CASE CheckStream(c) /\ ~ Stale(cursor[c])
  <2>1. /\ "subscribe" \in Steps \ {"retained"} /\ at[c] # "live" /\ Goto(c, "subscribe")
        /\ acks' \in [Clients -> Seqs]
        /\ position' \in [Clients -> Nat \ {0}]
        /\ UNCHANGED <<bus, record, snap, pending, disk, cursor, got, history, restarts>>
    BY <1>3 DEF CheckStream, Inv, TypeOK, stream, client, Steps, StreamSteps
  <2> QED
    BY <2>1, RequestStep
<1>4. CASE Subscribe(c)
  <2>1. Len(sent) + 1 \in Nat \ {0}
    BY LenProperties DEF Inv, TypeOK
  <2>2. /\ "replay" \in Steps \ {"retained"} /\ at[c] # "live" /\ Goto(c, "replay")
        /\ acks' \in [Clients -> Seqs]
        /\ position' \in [Clients -> Nat \ {0}]
        /\ UNCHANGED <<bus, record, snap, pending, disk, cursor, got, history, restarts>>
    BY <1>4, <2>1 DEF Subscribe, Inv, TypeOK, stream, client, Steps, StreamSteps
  <2> QED
    BY <2>2, RequestStep
<1> QED
  BY <1>1, <1>2, <1>3, <1>4

\* A stream is given what is retained past its client's cursor to replay.
LEMMA ReplayStep ==
    ASSUME Inv, NEW c \in Clients, Replay(c)
    PROVE  Inv'
<1> DEFINE page == ReplayAfter(cursor[c])
<1>1. cursor[c] \in Nat /\ c \in Threads
  BY GatewayEventsAssumption DEF Inv, TypeOK, Seqs, Threads
<1>2. page \in Seq(Record) /\ InOrder(page) /\ \A i \in DOMAIN page : page[i].seq > cursor[c]
  BY <1>1, ReplayInOrder DEF Inv, TypeOK, RetainedInOrder
<1>3. pending' = [pending EXCEPT ![c] = page]
  BY DEF Replay
<1> HIDE DEF page
<1>4. /\ at' = [at EXCEPT ![c] = "live"] /\ at' \in [Threads -> Steps]
      /\ at'[c] = "live" /\ \A d \in Clients \ {c} : at'[d] = at[d]
  BY <1>1 DEF Replay, Goto, Inv, TypeOK, Steps, StreamSteps, Threads
<1>5. /\ UNCHANGED <<bus, acks, record, snap, disk, client, history, restarts>>
      /\ position' \in [Clients -> Nat \ {0}]
  BY DEF Replay, Inv, TypeOK
<1>6. RecordReady'
  BY <1>4, <1>5, GatewayEventsAssumption DEF Inv, TypeOK, RecordReady, Threads, Clients
<1>7. PendingAhead'
  <2>1. pending'[c] = page /\ \A d \in Clients \ {c} : pending'[d] = pending[d]
    BY <1>3 DEF Inv, TypeOK
  <2>2. cursor' = cursor
    BY <1>5 DEF client
  <2> QED
    BY <1>2, <1>4, <2>1, <2>2 DEF Inv, PendingAhead
<1>8. TypeOK'
  BY <1>2, <1>3, <1>4, <1>5 DEF Inv, TypeOK, bus, client
<1> QED
  BY <1>5, <1>6, <1>7, <1>8 DEF Inv, bus, client, RetainedInOrder, SavedInOrder, GivenInOrder

\* A receiver that lags skips in the channel.
LEMMA LagStep ==
    ASSUME Inv, NEW c \in Clients, Lag(c)
    PROVE  Inv'
<1>1. OldestSent \in Nat \ {0}
  BY LenProperties, GatewayEventsAssumption DEF OldestSent, Largest, Inv, TypeOK
<1>2. /\ "replay" \in Steps \ {"retained"} /\ pending[c] = <<>> /\ Goto(c, "replay")
      /\ acks' \in [Clients -> Seqs]
      /\ position' \in [Clients -> Nat \ {0}]
      /\ UNCHANGED <<bus, record, snap, pending, disk, cursor, got, history, restarts>>
  BY <1>1 DEF Lag, Inv, TypeOK, client, Steps, StreamSteps
<1> QED
  BY <1>2, RequestStep

\* What is left to replay after its first event.
LEMMA TailInOrder ==
    ASSUME NEW s \in Seq(Record), s # <<>>, InOrder(s)
    PROVE  /\ Head(s) = s[1] /\ s[1] \in Record
           /\ Tail(s) \in Seq(Record) /\ InOrder(Tail(s))
           /\ \A i \in DOMAIN Tail(s) : Tail(s)[i].seq > Head(s).seq
<1> DEFINE w == Tail(s)
<1>1. Len(s) \in Nat /\ Len(s) >= 1 /\ DOMAIN s = 1 .. Len(s) /\ s[1] \in Record
  BY RecordsAt, EmptySeq
<1>2. /\ Head(s) = s[1] /\ w \in Seq(Record) /\ Len(w) = Len(s) - 1
      /\ \A i \in 1 .. Len(w) : w[i] = s[i + 1]
  BY HeadTailProperties
<1>3. DOMAIN w = 1 .. Len(s) - 1
  BY <1>2, LenProperties
<1> HIDE DEF w
<1>4. \A i \in DOMAIN w : i + 1 \in DOMAIN s /\ w[i] = s[i + 1] /\ 1 < i + 1
  BY <1>1, <1>2, <1>3
<1>5. \A i \in DOMAIN w : s[1].seq < w[i].seq
  BY <1>1, <1>4 DEF InOrder
<1>6. \A i \in DOMAIN w : w[i].seq \in Nat
  BY <1>2, RecordsAt
<1>7. ASSUME NEW i \in DOMAIN w, NEW j \in DOMAIN w, i < j
      PROVE  w[i].seq < w[j].seq
  <2>1. i + 1 \in DOMAIN s /\ j + 1 \in DOMAIN s /\ i + 1 < j + 1
    BY <1>3, <1>4, <1>7
  <2> QED
    BY <1>4, <2>1 DEF InOrder
<1>8. s[1].seq \in Nat
  BY <1>1, RecordsAt
<1>9. \A i \in DOMAIN w : w[i].seq > s[1].seq
  BY <1>5, <1>6, <1>8
<1> QED
  BY <1>1, <1>2, <1>7, <1>9 DEF InOrder, w

\* One record is a window in order.
LEMMA OneInOrder ==
    ASSUME NEW r \in Record
    PROVE  /\ <<r>> \in Seq(Record) /\ InOrder(<<r>>) /\ DOMAIN <<r>> = {1} /\ <<r>>[1] = r
<1>1. <<r>> \in Seq(Record) /\ Len(<<r>>) = 1 /\ <<r>>[1] = r
  OBVIOUS
<1>2. DOMAIN <<r>> = {1}
  BY <1>1, LenProperties
<1> QED
  BY <1>1, <1>2 DEF InOrder

\* A stream is given one event, replayed or live.
LEMMA ServeStep ==
    ASSUME Inv, NEW c \in Clients, DeliverPending(c) \/ Receive(c)
    PROVE  Inv'
<1>0. /\ cursor[c] \in Nat /\ pending[c] \in Seq(Record) /\ InOrder(pending[c])
      /\ \A i \in DOMAIN pending[c] : pending[c][i].seq > cursor[c]
  BY GatewayEventsAssumption DEF Inv, TypeOK, Seqs, PendingAhead
<1>1. CASE DeliverPending(c)
  <2> DEFINE r == Head(pending[c])
             left == Tail(pending[c])
  <2>1. /\ r = pending[c][1] /\ r \in Record /\ left \in Seq(Record) /\ InOrder(left)
        /\ \A i \in DOMAIN left : left[i].seq > r.seq
    BY <1>0, <1>1, TailInOrder DEF DeliverPending
  <2>2. r.seq > cursor[c] /\ r.seq \in Nat
    <3>1. 1 \in DOMAIN pending[c]
      BY <1>0, <1>1, RecordsAt, EmptySeq DEF DeliverPending
    <3> QED
      BY <1>0, <2>1, <3>1, GatewayEventsAssumption DEF Record, Seqs
  <2>3. Deliver(c, <<r>>) /\ pending' = [pending EXCEPT ![c] = left]
    BY <1>1 DEF DeliverPending
  <2> HIDE DEF r, left
  <2>4. <<r>> \in Seq(Record) /\ InOrder(<<r>>) /\ DOMAIN <<r>> = {1} /\ <<r>>[1] = r
    BY <2>1, OneInOrder
  <2>5. /\ GivenInOrder' /\ got' \in [Clients -> Seq(Record)] /\ cursor' \in [Clients -> Seqs]
        /\ \A d \in Clients \ {c} : cursor'[d] = cursor[d]
    BY <2>2, <2>3, <2>4, DeliverInOrder DEF Inv
  <2>6. cursor'[c] = r.seq
    <3>1. Len(<<r>>) = 1 /\ <<r>> # <<>>
      OBVIOUS
    <3>2. cursor'[c] = NextCursor(c, <<r>>)
      BY <2>3 DEF Deliver, Inv, TypeOK
    <3> QED
      BY <2>4, <3>1, <3>2 DEF NextCursor, LastSeq
  <2>7. PendingAhead'
    <3>1. /\ pending'[c] = left /\ at' = at /\ at[c] = "live"
          /\ \A d \in Clients \ {c} : pending'[d] = pending[d]
      BY <1>1, <2>3 DEF DeliverPending, Inv, TypeOK
    <3> QED
      BY <2>1, <2>5, <2>6, <3>1 DEF Inv, PendingAhead
  <2>8. TypeOK'
    BY <1>1, <2>1, <2>3, <2>5 DEF DeliverPending, Inv, TypeOK, bus
  <2> QED
    BY <1>1, <2>5, <2>7, <2>8
    DEF DeliverPending, Inv, bus, RetainedInOrder, SavedInOrder, RecordReady
<1>2. CASE Receive(c)
  <2>1. position[c] \in 1 .. Len(sent) /\ position[c] + 1 \in Nat \ {0}
    <3>1. Len(sent) \in Nat /\ OldestSent >= 1 /\ OldestSent \in Nat
      BY LenProperties, GatewayEventsAssumption DEF OldestSent, Largest, Inv, TypeOK
    <3> QED
      BY <1>2, <3>1 DEF Receive
  <2> DEFINE r == sent[position[c]]
  <2>2. r \in Record /\ r.seq \in Nat
    BY <2>1, RecordsAt DEF Inv, TypeOK
  <2>3. /\ position' \in [Clients -> Nat \ {0}]
        /\ UNCHANGED <<bus, acks, at, record, snap, pending, disk, history, restarts>>
    BY <1>2, <2>1 DEF Receive, Inv, TypeOK
  <2>4. /\ GivenInOrder' /\ got' \in [Clients -> Seq(Record)] /\ cursor' \in [Clients -> Seqs]
        /\ \A d \in Clients \ {c} : cursor'[d] = cursor[d]
    <3>1. CASE AlreadySeen(c, r)
      BY <1>2, <3>1 DEF Receive, Inv, TypeOK, GivenInOrder
    <3>2. CASE ~ AlreadySeen(c, r)
      <4>1. Deliver(c, <<r>>) /\ r.seq > cursor[c]
        BY <1>0, <1>2, <2>2, <3>2 DEF Receive, AlreadySeen
      <4> HIDE DEF r
      <4>2. <<r>> \in Seq(Record) /\ InOrder(<<r>>) /\ DOMAIN <<r>> = {1} /\ <<r>>[1] = r
        BY <2>2, OneInOrder
      <4> QED
        BY <4>1, <4>2, DeliverInOrder DEF Inv
    <3> QED
      BY <3>1, <3>2
  <2>5. PendingAhead'
    <3>1. pending[c] = <<>> /\ DOMAIN pending[c] = {} /\ pending' = pending /\ at' = at
      BY <1>2, <2>3, EmptySeq DEF Receive
    <3> QED
      BY <2>4, <3>1 DEF Inv, PendingAhead
  <2>6. TypeOK'
    BY <2>3, <2>4 DEF Inv, TypeOK, bus
  <2> QED
    BY <2>3, <2>4, <2>5, <2>6 DEF Inv, bus, RetainedInOrder, SavedInOrder, RecordReady
<1> QED
  BY <1>1, <1>2

\* A connection that ends leaves nothing to replay.
LEMMA DisconnectStep ==
    ASSUME Inv, NEW c \in Clients, Disconnect(c)
    PROVE  Inv'
<1>1. /\ at' = [at EXCEPT ![c] = "idle"] /\ at' \in [Threads -> Steps]
      /\ \A d \in Clients \ {c} : at'[d] = at[d]
  BY DEF Disconnect, Goto, Inv, TypeOK, Steps, Threads
<1>2. /\ pending' \in [Clients -> Seq(Record)] /\ pending'[c] = <<>>
      /\ \A d \in Clients \ {c} : pending'[d] = pending[d]
  BY DEF Disconnect, Inv, TypeOK
<1>3. position' \in [Clients -> Nat \ {0}]
  BY DEF Disconnect, Inv, TypeOK
<1>4. RecordReady'
  BY <1>1, GatewayEventsAssumption
  DEF Disconnect, Inv, TypeOK, RecordReady, Threads, Clients
<1>5. PendingAhead'
  <2>1. DOMAIN pending'[c] = {} /\ InOrder(pending'[c])
    BY <1>2, EmptySeq DEF InOrder
  <2>2. cursor' = cursor
    BY DEF Disconnect, client
  <2> QED
    BY <1>1, <1>2, <2>1, <2>2 DEF Inv, PendingAhead
<1>6. TypeOK'
  BY <1>1, <1>2, <1>3 DEF Disconnect, Inv, TypeOK, bus, client
<1> QED
  BY <1>4, <1>5, <1>6
  DEF Disconnect, Inv, bus, client, RetainedInOrder, SavedInOrder, GivenInOrder

\* A gateway that starts again numbers past everything it restored.
LEMMA RestartStep ==
    ASSUME Inv, Restart
    PROVE  Inv'
<1>1. /\ disk \in Snapshot /\ disk.recent \in Seq(Record) /\ InOrder(disk.recent)
      /\ disk.next \in Seqs /\ disk.next \in Nat /\ disk.acks \in [Clients -> Seqs]
  BY GatewayEventsAssumption DEF Inv, TypeOK, SavedInOrder, Snapshot, Seqs
<1>2. /\ LastSeq(disk.recent) \in Seqs /\ LastSeq(disk.recent) \in Nat
      /\ \A i \in DOMAIN disk.recent : disk.recent[i].seq <= LastSeq(disk.recent)
  BY <1>1, LastSeqLargest, GatewayEventsAssumption DEF Seqs
<1>3. /\ nextSeq' \in Seqs /\ nextSeq' \in Nat /\ nextSeq' >= LastSeq(disk.recent)
  BY <1>1, <1>2 DEF Restart, RestoredSeq, Largest
<1>4. \A i \in DOMAIN disk.recent : disk.recent[i].seq \in Nat
  BY <1>1, RecordsAt
<1>5. \A i \in DOMAIN disk.recent : disk.recent[i].seq <= nextSeq'
  BY <1>2, <1>3, <1>4
<1>6. /\ recent' \in Seq(Record) /\ Len(recent') <= Capacity /\ InOrder(recent')
      /\ \A i \in DOMAIN recent' : recent'[i].seq <= nextSeq'
  BY <1>1, <1>5, LastOfInOrder, GatewayEventsAssumption DEF Restart
<1>7. NothingSaved \in Snapshot /\ InOrder(NothingSaved.recent)
  BY EmptySeq, GatewayEventsAssumption DEF NothingSaved, Snapshot, Seqs, InOrder
<1>8. SavedInOrder'
  BY <1>7 DEF Restart, Inv, SavedInOrder
<1>9. RecordReady'
  BY DEF Restart, RecordReady, Threads
<1>10. PendingAhead'
  <2>1. \A c \in Clients : pending'[c] = <<>>
    BY DEF Restart
  <2>2. \A c \in Clients : DOMAIN pending'[c] = {} /\ InOrder(pending'[c])
    BY <2>1, EmptySeq DEF InOrder
  <2> QED
    BY <2>1, <2>2 DEF PendingAhead
<1>11. TypeOK'
  <2>1. record' \in [Publishers -> [seq: Seqs, id: 0 .. MaxEvents]]
    BY GatewayEventsAssumption DEF Restart, NoRecord, Seqs
  <2>2. sent' \in Seq(Record) /\ pending' \in [Clients -> Seq(Record)]
    BY EmptySeq DEF Restart
  <2>3. snap' \in [Threads -> Snapshot] /\ at' \in [Threads -> Steps]
    BY <1>7 DEF Restart, Steps
  <2>4. restarts' \in 0 .. MaxRestarts
    BY GatewayEventsAssumption DEF Restart, Inv, TypeOK
  <2> QED
    BY <1>1, <1>3, <1>6, <2>1, <2>2, <2>3, <2>4 DEF Restart, Inv, TypeOK, client
<1> QED
  BY <1>6, <1>8, <1>9, <1>10, <1>11
  DEF Restart, Inv, client, RetainedInOrder, GivenInOrder

-----------------------------------------------------------------------------
(* The invariant *)

\* Everything is in order before the first event.
LEMMA InitInv == Init => Inv
<1> SUFFICES ASSUME Init PROVE Inv
  OBVIOUS
<1>1. InOrder(<<>>) /\ DOMAIN <<>> = {} /\ Len(<<>>) = 0
  BY EmptySeq DEF InOrder
<1>2. 0 \in Seqs /\ NothingSaved \in Snapshot /\ "idle" \in Steps
  BY GatewayEventsAssumption DEF Seqs, NothingSaved, Snapshot, Steps
<1>3. NoRecord \in [seq: Seqs, id: 0 .. MaxEvents]
  BY <1>2, GatewayEventsAssumption DEF NoRecord
<1>4. <<>> \in Seq(Record) /\ <<>> \in Seq(Seqs)
  BY EmptySeq
<1>5. TypeOK
  BY <1>2, <1>3, <1>4, GatewayEventsAssumption DEF Init, TypeOK
<1>6. SavedInOrder
  BY <1>1 DEF Init, SavedInOrder, NothingSaved
<1>7. GivenInOrder /\ PendingAhead
  BY <1>1 DEF Init, GivenInOrder, PendingAhead
<1>8. RecordReady
  BY DEF Init, RecordReady, Threads
<1> QED
  BY <1>1, <1>5, <1>6, <1>7, <1>8, GatewayEventsAssumption DEF Init, Inv, RetainedInOrder

\* Every step keeps the order.
LEMMA NextInv == Inv /\ [Next]_vars => Inv'
<1> SUFFICES ASSUME Inv, [Next]_vars PROVE Inv'
  OBVIOUS
<1>1. ASSUME NEW p \in Publishers, Publish(p) \/ Send(p) \/ Persist(p) PROVE Inv'
  BY <1>1, PublishStep, SendStep, PersistStep DEF Threads
<1>2. ASSUME NEW c \in Pollers,
             PollAcknowledging(c) \/ Poll(c) \/ Persist(c) \/ ServePoll(c)
      PROVE  Inv'
  BY <1>2, AcknowledgingStep, PollStep, PersistStep DEF Threads, Clients
<1>3. ASSUME NEW c \in Streamers, OpenStream(c) \/ ServeStream(c) \/ Disconnect(c)
      PROVE  Inv'
  BY <1>3, ConnectStep, ReplayStep, LagStep, ServeStep, DisconnectStep DEF ServeStream, Clients
<1>4. CASE UNCHANGED vars
  BY <1>4 DEF vars, bus, client, stream, Inv, TypeOK, RetainedInOrder, SavedInOrder,
              RecordReady, GivenInOrder, PendingAhead
<1> QED
  BY <1>1, <1>2, <1>3, <1>4, RestartStep DEF Next

\* The invariant holds of every behaviour.
LEMMA Invariance == Spec => []Inv
BY InitInv, NextInv, PTL DEF Spec

\* Type correctness of the event bus and of its clients.
THEOREM TypeCorrect == Spec => []TypeOK
<1>1. Inv => TypeOK
  BY DEF Inv
<1> QED
  BY <1>1, Invariance, PTL

\* The retained window is bounded, in order, and below every number to come, after any
\* number of restarts from snapshots taken at any moment (publish, from_snapshot).
THEOREM WindowInOrder == Spec => []RetainedInOrder
<1>1. Inv => RetainedInOrder
  BY DEF Inv
<1> QED
  BY <1>1, Invariance, PTL

\* Every client is given each event at most once and in order (next_gateway_sse_item,
\* recent_events_after).
THEOREM DeliveredInOrderOnce == Spec => []InOrderOnce
<1>1. Inv => InOrderOnce
  BY DEF Inv, GivenInOrder, InOrderOnce
<1> QED
  BY <1>1, Invariance, PTL

-----------------------------------------------------------------------------
(* Restored acknowledgements *)

\* The persisted number covers the persisted acknowledgements.
Covers(saved) == \A c \in Clients : saved.acks[c] <= saved.next
SavedCovers ==
    Covers(disk) /\ \A t \in Threads : at[t] \in {"recent", "write"} => Covers(snap[t])

\* Numbers are read after acknowledgements, and raised to them.
LEMMA CoversStep ==
    ASSUME TypeOK, SavedCovers, [Next]_vars
    PROVE  SavedCovers'
<1>1. /\ snap \in [Threads -> Snapshot] /\ at \in [Threads -> Steps] /\ nextSeq \in Seqs
      /\ \A t \in Threads : snap[t] \in Snapshot
  BY DEF TypeOK
<1>2. ASSUME NEW t \in Threads, Persist(t) PROVE SavedCovers'
  <2>1. CASE SnapshotLeases(t)
    <3>1. at' = [at EXCEPT ![t] = "next"] /\ disk' = disk
          /\ \A u \in Threads \ {t} : snap'[u] = snap[u] /\ at'[u] = at[u]
      BY <1>1, <2>1 DEF SnapshotLeases, Goto
    <3> QED
      BY <1>1, <3>1 DEF SavedCovers, Covers
  <2>2. CASE LoadNextSeq(t)
    <3> DEFINE numbers == {nextSeq} \cup {snap[t].acks[c] : c \in Clients}
    <3>1. /\ snap' = [snap EXCEPT ![t] = [snap[t] EXCEPT !.next = SnapshotNext(t)]]
          /\ at' = [at EXCEPT ![t] = "recent"] /\ disk' = disk
          /\ \A u \in Threads \ {t} : snap'[u] = snap[u] /\ at'[u] = at[u]
      BY <1>1, <2>2 DEF LoadNextSeq, Goto
    <3>2. numbers \subseteq Seqs
      BY <1>1 DEF Snapshot
    <3>3. PICK n \in numbers : \A m \in numbers : n >= m
      BY <3>2, GreatestExists, GatewayEventsAssumption DEF Seqs
    <3>4. \A c \in Clients : SnapshotNext(t) >= snap[t].acks[c]
      BY <3>3 DEF SnapshotNext
    <3>5. snap'[t].next = SnapshotNext(t) /\ snap'[t].acks = snap[t].acks
      BY <1>1, <3>1 DEF Snapshot
    <3>6. SnapshotNext(t) \in numbers
      BY <3>3 DEF SnapshotNext
    <3>7. SnapshotNext(t) \in Nat /\ \A c \in Clients : snap[t].acks[c] \in Nat
      BY <3>2, <3>6, <1>1, GatewayEventsAssumption DEF Seqs, Snapshot
    <3>8. Covers(snap'[t])
      BY <3>4, <3>5, <3>7 DEF Covers
    <3> QED
      BY <3>1, <3>8 DEF SavedCovers, Covers
  <2>3. CASE CloneRecent(t)
    <3>1. /\ snap' = [snap EXCEPT ![t] = [snap[t] EXCEPT !.recent = recent]]
          /\ at' = [at EXCEPT ![t] = "write"] /\ at[t] = "recent" /\ disk' = disk
          /\ \A u \in Threads \ {t} : snap'[u] = snap[u] /\ at'[u] = at[u]
      BY <1>1, <2>3 DEF CloneRecent, Goto
    <3>2. snap'[t].next = snap[t].next /\ snap'[t].acks = snap[t].acks
      BY <1>1, <3>1 DEF Snapshot
    <3> QED
      BY <3>1, <3>2 DEF SavedCovers, Covers
  <2>4. CASE WriteState(t)
    <3>1. /\ disk' \in {snap[t], disk} /\ at[t] = "write" /\ at'[t] \in {"idle", "window"}
          /\ \A u \in Threads \ {t} : snap'[u] = snap[u] /\ at'[u] = at[u]
      BY <1>1, <2>4 DEF WriteState, Goto
    <3> QED
      BY <3>1 DEF SavedCovers, Covers
  <2> QED
    BY <1>2, <2>1, <2>2, <2>3, <2>4 DEF Persist
<1>3. ASSUME NEW t \in Threads, NEW step \in Steps \ {"recent", "write"}, Goto(t, step),
             UNCHANGED <<snap, disk>>
      PROVE  SavedCovers'
  BY <1>1, <1>3 DEF Goto, SavedCovers
<1>4. CASE UNCHANGED <<at, snap, disk>>
  BY <1>4 DEF SavedCovers
<1>5. ASSUME NEW p \in Publishers, Publish(p) \/ Send(p) \/ Persist(p) PROVE SavedCovers'
  BY <1>2, <1>3, <1>5 DEF Threads, Publish, Send, Steps, PersistSteps
<1>6. ASSUME NEW c \in Pollers,
             PollAcknowledging(c) \/ Poll(c) \/ Persist(c) \/ ServePoll(c)
      PROVE  SavedCovers'
  <2>1. c \in Threads
    BY DEF Threads, Clients
  <2>2. CASE CheckWindow(c)
    BY <1>3, <2>1, <2>2 DEF CheckWindow, AnswerStale, Steps
  <2> QED
    BY <1>2, <1>3, <1>6, <2>1, <2>2
    DEF PollAcknowledging, Poll, ServePoll, Fetch, Steps, PersistSteps
<1>7. ASSUME NEW c \in Streamers, OpenStream(c) \/ ServeStream(c) \/ Disconnect(c)
      PROVE  SavedCovers'
  <2>1. c \in Threads
    BY DEF Threads, Clients
  <2>2. CASE CheckStream(c)
    BY <1>3, <2>1, <2>2 DEF CheckStream, AnswerStale, Steps, StreamSteps
  <2>3. CASE DeliverPending(c) \/ Receive(c)
    BY <1>4, <2>3 DEF DeliverPending, Receive
  <2>4. CASE OpenStream(c) \/ Subscribe(c) \/ Replay(c) \/ Lag(c) \/ Disconnect(c)
    BY <1>3, <2>1, <2>4
    DEF OpenStream, Subscribe, Replay, Lag, Disconnect, Steps, StreamSteps
  <2> QED
    BY <1>7, <2>2, <2>3, <2>4 DEF ServeStream
<1>8. CASE Restart
  BY <1>8 DEF Restart, SavedCovers
<1> QED
  BY <1>4, <1>5, <1>6, <1>7, <1>8 DEF Next, vars

\* No acknowledged position a restart brings back is ahead of the events to come, though
\* acknowledgements and numbers are read under different locks and clients acknowledge
\* what they like (persist_gateway_pairing_runtime_state).
THEOREM RestoredNotAhead == Spec => RestoredAhead
<1>1. Init => SavedCovers
  BY DEF Init, SavedCovers, Covers, NothingSaved, Threads
<1>2. TypeOK /\ SavedCovers /\ [Next]_vars => SavedCovers'
  BY CoversStep
<1>3. TypeOK /\ SavedCovers /\ [Next]_vars
      => [Restart => \A c \in Clients : acks'[c] <= nextSeq']_vars
  <2> SUFFICES ASSUME TypeOK, SavedCovers, Restart, NEW c \in Clients
               PROVE  acks'[c] <= nextSeq'
    OBVIOUS
  <2>1. /\ disk \in Snapshot /\ disk.recent \in Seq(Record) /\ disk.next \in Nat
        /\ disk.acks[c] \in Nat /\ disk.acks[c] <= disk.next
    BY GatewayEventsAssumption DEF TypeOK, SavedCovers, Covers, Snapshot, Seqs
  <2>2. LastSeq(disk.recent) \in Nat
    BY <2>1, RecordsAt, EmptySeq DEF LastSeq
  <2>3. acks'[c] = disk.acks[c] /\ nextSeq' = Largest(disk.next, LastSeq(disk.recent))
    BY DEF Restart, RestoredSeq
  <2> QED
    BY <2>1, <2>2, <2>3 DEF Largest
<1> QED
  BY <1>1, <1>2, <1>3, TypeCorrect, PTL DEF Spec, RestoredAhead

-----------------------------------------------------------------------------
(* No event left out *)

Event(n) == [seq |-> n, id |-> n]

\* One task publishes and the gateway has not been restarted.
Calm == restarts = 0 /\ OneTaskPublishes

\* Events are numbered from one; the window holds the last of them; the channel was sent
\* them all, but for the one that is about to be sent.
WindowComplete ==
    /\ nextSeq = Len(history)
    /\ \A i \in DOMAIN history : history[i] = i
    /\ Len(recent) <= Len(history)
    /\ Len(recent) = Len(history) \/ Len(recent) = Capacity
    /\ \A i \in DOMAIN recent : recent[i] = Event(Len(history) - Len(recent) + i)
    /\ Len(sent) <= Len(history)
    /\ \A i \in DOMAIN sent : sent[i] = Event(i)
    /\ \A p \in Publishers :
          IF at[p] = "retained"
          THEN record[p] = Event(Len(history)) /\ Len(history) = Len(sent) + 1
          ELSE Len(history) = Len(sent)

Given(c, n) == \E i \in DOMAIN got[c] : got[c][i].id = n

\* A client was given what comes up to some number, or a page of newer events is there;
\* what it has yet to replay goes on from that number, and its receiver is not past what
\* comes after that.
UnbrokenFrom(c, start) ==
    /\ cursor[c] <= start /\ start + Len(pending[c]) <= Len(history)
    /\ \A i \in DOMAIN pending[c] : pending[c][i] = Event(start + i)
    /\ at[c] = "live" => position[c] <= start + Len(pending[c]) + 1
    /\ \A n \in 1 .. start : n + Limit <= Len(history) \/ Given(c, n)

Unbroken(c) ==
    /\ position[c] <= Len(sent) + 1
    /\ \E start \in Nat : UnbrokenFrom(c, start)

NothingSkipped == \A c \in Clients : Unbroken(c)

CalmInv == Calm => WindowComplete /\ NothingSkipped

\* The sizes of what the bus holds.
LEMMA CalmSizes ==
    ASSUME Inv, WindowComplete
    PROVE  /\ Len(history) \in Nat /\ Limit \in Nat /\ Limit >= 1
           /\ Limit <= Capacity /\ Capacity \in Nat /\ Capacity >= 1
           /\ history \in Seq(Seqs) /\ DOMAIN history = 1 .. Len(history)
           /\ recent \in Seq(Record) /\ Len(recent) \in Nat /\ DOMAIN recent = 1 .. Len(recent)
           /\ sent \in Seq(Record) /\ Len(sent) \in Nat /\ DOMAIN sent = 1 .. Len(sent)
<1>1. history \in Seq(Seqs) /\ recent \in Seq(Record) /\ sent \in Seq(Record)
  BY DEF Inv, TypeOK
<1>2. /\ Len(history) \in Nat /\ DOMAIN history = 1 .. Len(history)
      /\ Len(recent) \in Nat /\ DOMAIN recent = 1 .. Len(recent)
      /\ Len(sent) \in Nat /\ DOMAIN sent = 1 .. Len(sent)
  BY <1>1, LenProperties
<1> QED
  BY <1>1, <1>2, GatewayEventsAssumption

\* The types of what a stream has.
LEMMA ClientSizes ==
    ASSUME Inv, NEW c \in Clients
    PROVE  /\ cursor[c] \in Nat /\ cursor[c] \in Seqs
           /\ pending[c] \in Seq(Record) /\ Len(pending[c]) \in Nat
           /\ DOMAIN pending[c] = 1 .. Len(pending[c])
           /\ position[c] \in Nat /\ position[c] >= 1
           /\ got[c] \in Seq(Record) /\ DOMAIN got[c] = 1 .. Len(got[c]) /\ Len(got[c]) \in Nat
<1>1. /\ cursor[c] \in Seqs /\ pending[c] \in Seq(Record) /\ got[c] \in Seq(Record)
      /\ position[c] \in Nat /\ position[c] >= 1
  BY DEF Inv, TypeOK
<1>2. /\ Len(pending[c]) \in Nat /\ DOMAIN pending[c] = 1 .. Len(pending[c])
      /\ DOMAIN got[c] = 1 .. Len(got[c]) /\ Len(got[c]) \in Nat
  BY <1>1, LenProperties
<1> QED
  BY <1>1, <1>2, GatewayEventsAssumption DEF Seqs

\* The number before the window: a page of newer events is retained, or nothing is older.
LEMMA CalmOldest ==
    ASSUME Inv, WindowComplete
    PROVE  \E o \in Nat : /\ o = Len(history) - Len(recent) /\ o + Len(recent) = Len(history)
                          /\ o = 0 \/ o + Limit <= Len(history)
                          /\ \A i \in 1 .. Len(recent) :
                                recent[i] = Event(o + i) /\ recent[i].seq = o + i
<1>1. PICK N \in Nat, L \in Nat : N = Len(history) /\ L = Len(recent)
  BY CalmSizes
<1>2. PICK o \in Nat : o = N - L
  BY <1>1 DEF WindowComplete
<1>3. L = N \/ L = Capacity
  BY <1>1 DEF WindowComplete
<1>4. o + L = N /\ (o = 0 \/ o + Limit <= N)
  BY <1>2, <1>3, CalmSizes
<1>5. \A i \in 1 .. L : recent[i] = Event(o + i)
  BY <1>1, <1>2, CalmSizes DEF WindowComplete
<1>6. ASSUME NEW i \in 1 .. L PROVE recent[i].seq = o + i
  <2>1. recent[i] = Event(o + i)
    BY <1>5
  <2> QED
    BY <2>1 DEF Event
<1> QED
  BY <1>1, <1>2, <1>4, <1>5, <1>6

\* A stale cursor is told to go on right before the window, which holds a page at least.
LEMMA CalmStale ==
    ASSUME Inv, WindowComplete, NEW q \in Nat, Stale(q)
    PROVE  \E o \in Nat : o = recent[1].seq - 1 /\ o > q /\ o + Limit <= Len(history)
<1>1. PICK o \in Nat : /\ o = 0 \/ o + Limit <= Len(history)
                       /\ \A i \in 1 .. Len(recent) : recent[i].seq = o + i
  BY CalmOldest
<1>2. 1 \in 1 .. Len(recent)
  BY CalmSizes, EmptySeq DEF Stale
<1>3. recent[1].seq = o + 1
  BY <1>1, <1>2
<1>4. q + 1 < recent[1].seq
  BY DEF Stale
<1>5. o = recent[1].seq - 1 /\ o > q
  BY <1>3, <1>4
<1>6. o # 0
  BY <1>5
<1> QED
  BY <1>1, <1>5, <1>6

\* A replay goes on from the number it starts after, or leaves out what has a page of
\* newer events after it, and ends with the newest event.
LEMMA CalmReplay ==
    ASSUME Inv, WindowComplete, NEW q \in Nat, q <= Len(history)
    PROVE  \E start \in Nat, page \in Seq(Record) :
              /\ page = ReplayAfter(q) /\ q <= start /\ start + Len(page) = Len(history)
              /\ start = q \/ start + Limit <= Len(history)
              /\ \A i \in DOMAIN page : page[i] = Event(start + i)
<1>1. PICK N \in Nat, L \in Nat : N = Len(history) /\ L = Len(recent)
  BY CalmSizes
<1>2. PICK o \in Nat : /\ o + L = N /\ (o = 0 \/ o + Limit <= N)
                       /\ \A i \in 1 .. L : recent[i] = Event(o + i) /\ recent[i].seq = o + i
  BY <1>1, CalmOldest
<1> DEFINE Starts(i) == /\ \A j \in i .. L : recent[j].seq > q
                        /\ i > 1 => recent[i - 1].seq <= q
<1>3. PICK f \in 1 .. L + 1 : f = IF q < o THEN 1 ELSE q - o + 1
  <2>1. CASE q < o
    BY <2>1
  <2>2. CASE ~ (q < o)
    <3>1. PICK d \in Nat : d = q - o /\ d <= L
      BY <1>1, <1>2, <2>2
    <3>2. d + 1 \in 1 .. L + 1
      BY <3>1
    <3> QED
      BY <2>2, <3>1, <3>2
  <2> QED
    BY <2>1, <2>2
<1>4. Starts(f)
  <2>1. ASSUME NEW j \in f .. L PROVE recent[j].seq > q
    <3>1. j \in 1 .. L /\ o + j > q
      BY <1>2, <1>3
    <3> QED
      BY <1>2, <3>1
  <2>2. ASSUME f > 1 PROVE recent[f - 1].seq <= q
    <3>1. f - 1 \in 1 .. L /\ o + (f - 1) <= q
      BY <1>2, <1>3, <2>2
    <3> QED
      BY <1>2, <3>1
  <2> QED
    BY <2>1, <2>2
<1>5. ASSUME NEW i \in 1 .. L + 1, Starts(i) PROVE i = f
  <2>1. CASE i > f
    <3>1. i - 1 \in 1 .. L /\ i > 1 /\ o + (i - 1) > q
      BY <1>2, <1>3, <2>1
    <3> QED
      BY <1>2, <1>5, <3>1
  <2>2. CASE i < f
    <3>1. i \in i .. L /\ i \in 1 .. L /\ ~(o + i > q)
      BY <1>2, <1>3, <2>2
    <3> QED
      BY <1>2, <1>5, <3>1
  <2> QED
    BY <1>3, <2>1, <2>2
<1>6. FirstAfter(q) = CHOOSE i \in 1 .. L + 1 : Starts(i)
  BY <1>1 DEF FirstAfter
<1> HIDE DEF Starts
<1>7. FirstAfter(q) = f
  BY <1>4, <1>5, <1>6
<1>8. PICK m \in Nat, k \in Nat : /\ m = Largest(f, L + 1 - Limit) /\ m >= f /\ m >= 1
                                 /\ k + m = L + 1 /\ (m = f \/ k = Limit)
  <2>1. PICK d \in Nat : d = Limit /\ d >= 1
    BY CalmSizes
  <2>2. CASE f + d >= L + 1
    <3>1. Largest(f, L + 1 - d) = f
      BY <1>3, <2>1, <2>2 DEF Largest
    <3>2. L + 1 - f \in Nat /\ (L + 1 - f) + f = L + 1
      BY <1>3
    <3> QED
      BY <1>3, <2>1, <3>1, <3>2
  <2>3. CASE ~ (f + d >= L + 1)
    <3>1. L + 1 - d \in Nat /\ L + 1 - d >= f /\ d + (L + 1 - d) = L + 1
      BY <1>3, <2>1, <2>3
    <3>2. Largest(f, L + 1 - d) = L + 1 - d
      BY <1>3, <2>1, <2>3 DEF Largest
    <3> QED
      BY <1>3, <2>1, <3>1, <3>2
  <2> QED
    BY <2>2, <2>3
<1>9. PICK page \in Seq(Record) : page = ReplayAfter(q) /\ Len(page) = k
                                  /\ \A i \in 1 .. k : page[i] = recent[m + i - 1]
  <2>1. ReplayAfter(q) = SubSeq(recent, m, Len(recent)) /\ m \in 1 .. Len(recent) + 1
    BY <1>1, <1>7, <1>8 DEF ReplayAfter
  <2>2. /\ ReplayAfter(q) \in Seq(Record) /\ Len(ReplayAfter(q)) = Len(recent) + 1 - m
        /\ \A i \in 1 .. Len(recent) + 1 - m : ReplayAfter(q)[i] = recent[m + i - 1]
    BY <2>1, SuffixInOrder, CalmSizes
  <2>3. Len(recent) + 1 - m = k
    BY <1>1, <1>8
  <2> QED
    BY <2>2, <2>3
<1>10. PICK start \in Nat : start + 1 = o + m
  <2>1. o + m - 1 \in Nat /\ (o + m - 1) + 1 = o + m
    BY <1>8
  <2> QED
    BY <2>1
<1>11. q <= start /\ start + k = N
  <2>1. q + 1 <= o + f
    BY <1>3
  <2>2. q + 1 <= o + m
    BY <1>3, <1>8, <2>1
  <2>3. start + k = o + L
    BY <1>8, <1>10
  <2> QED
    BY <1>2, <1>10, <2>2, <2>3
<1>12. start = q \/ start + Limit <= N
  <2>1. CASE k = Limit
    BY <1>11, <2>1
  <2>2. CASE m = f /\ q < o
    <3>1. start = o /\ o # 0
      BY <1>3, <1>10, <2>2
    <3> QED
      BY <1>2, <3>1
  <2>3. CASE m = f /\ ~ (q < o)
    BY <1>3, <1>10, <2>3
  <2> QED
    BY <1>8, <2>1, <2>2, <2>3
<1>13. \A i \in 1 .. k : page[i] = Event(start + i)
  <2> SUFFICES ASSUME NEW x \in Nat, x >= 1, x <= k PROVE page[x] = Event(start + x)
    OBVIOUS
  <2>1. PICK j \in Nat : j + 1 = m + x /\ j = m + x - 1
    BY <1>8
  <2>2. L + 1 = k + m /\ m >= 1 /\ start + 1 = o + m
    BY <1>8, <1>10
  <2>3. j >= 1 /\ j <= L
    BY <2>1, <2>2
  <2>4. o + j = start + x
    BY <2>1, <2>2
  <2>5. page[x] = recent[j] /\ recent[j] = Event(o + j)
    <3>1. x \in 1 .. k /\ j \in 1 .. L
      BY <2>3
    <3>2. page[x] = recent[m + x - 1]
      BY <1>9, <3>1
    <3> QED
      BY <1>2, <2>1, <3>1, <3>2
  <2> QED
    BY <2>4, <2>5
<1>14. DOMAIN page = 1 .. k
  BY <1>9, LenProperties
<1> QED
  BY <1>1, <1>9, <1>11, <1>12, <1>13, <1>14

\* What a client is handed from some number on it was given from then on.
LEMMA DeliverGiven ==
    ASSUME Inv, NEW c \in Clients, NEW start \in Nat, NEW r \in Seq(Record),
           \A i \in DOMAIN r : r[i] = Event(start + i), Deliver(c, r)
    PROVE  /\ cursor'[c] = IF r = <<>> THEN cursor[c] ELSE start + Len(r)
           /\ \A n \in 1 .. start + Len(r) : Given(c, n) \/ n > start => Given(c, n)'
           /\ \A d \in Clients \ {c} : cursor'[d] = cursor[d] /\ got'[d] = got[d]
<1>1. /\ cursor'[c] = NextCursor(c, r) /\ got'[c] = got[c] \o r
      /\ \A d \in Clients \ {c} : cursor'[d] = cursor[d] /\ got'[d] = got[d]
  BY DEF Deliver, Inv, TypeOK
<1>2. Len(r) \in Nat /\ DOMAIN r = 1 .. Len(r)
  BY RecordsAt
<1>3. cursor'[c] = IF r = <<>> THEN cursor[c] ELSE start + Len(r)
  <2>1. CASE r = <<>>
    BY <1>1, <2>1 DEF NextCursor
  <2>2. CASE r # <<>>
    <3>1. Len(r) \in DOMAIN r
      BY <1>2, <2>2, EmptySeq
    <3>2. r[Len(r)].seq = start + Len(r)
      BY <3>1 DEF Event
    <3> QED
      BY <1>1, <2>2, <3>2 DEF NextCursor, LastSeq
  <2> QED
    BY <2>1, <2>2
<1>4. PICK g \in Nat : g = Len(got[c])
  BY ClientSizes
<1>5. /\ got'[c] \in Seq(Record) /\ Len(got'[c]) = g + Len(r)
      /\ \A i \in 1 .. g + Len(r) : got'[c][i] = IF i <= g THEN got[c][i] ELSE r[i - g]
  BY <1>1, <1>4, ClientSizes, ConcatProperties
<1>6. DOMAIN got'[c] = 1 .. g + Len(r) /\ DOMAIN got[c] = 1 .. g
  BY <1>4, <1>5, ClientSizes, LenProperties
<1>7. ASSUME NEW n \in 1 .. start + Len(r), Given(c, n) PROVE Given(c, n)'
  <2>1. PICK i \in 1 .. g : got[c][i].id = n
    BY <1>6, <1>7 DEF Given
  <2>2. i \in 1 .. g + Len(r) /\ i <= g
    BY <1>2, <1>4
  <2>3. got'[c][i].id = n
    BY <1>5, <2>1, <2>2
  <2> QED
    BY <1>6, <2>2, <2>3 DEF Given
<1>8. ASSUME NEW n \in 1 .. start + Len(r), n > start PROVE Given(c, n)'
  <2>1. PICK k \in 1 .. Len(r) : k = n - start /\ start + k = n
    BY <1>2, <1>8
  <2>2. r[k].id = n
    BY <1>2, <2>1 DEF Event
  <2>3. PICK i \in 1 .. g + Len(r) : i = g + k
    <3>1. g + k \in 1 .. g + Len(r)
      BY <1>2, <1>4, <2>1
    <3> QED
      BY <3>1
  <2>4. ~ (i <= g) /\ i - g = k
    BY <1>4, <2>1, <2>3
  <2>5. got'[c][i].id = n
    BY <1>5, <2>2, <2>3, <2>4
  <2> QED
    BY <1>6, <2>5 DEF Given
<1> QED
  BY <1>1, <1>3, <1>7, <1>8

\* A bus and its publishers that a step leaves alone stay complete.
LEMMA WindowKept ==
    ASSUME WindowComplete, UNCHANGED <<bus, history, record>>,
           \A p \in Publishers : (at[p] = "retained")' = (at[p] = "retained")
    PROVE  WindowComplete'
<1>1. /\ nextSeq' = nextSeq /\ recent' = recent /\ sent' = sent /\ history' = history
      /\ record' = record
  BY DEF bus
<1> QED
  BY <1>1 DEF WindowComplete

\* A client whose cursor, replay and receiver a step leaves alone stays unbroken, as
\* events only ever become more.
LEMMA UnbrokenKept ==
    ASSUME Inv, Inv', NEW c \in Clients, Unbroken(c),
           cursor'[c] = cursor[c], pending'[c] = pending[c], got'[c] = got[c],
           position'[c] = position[c], at'[c] = "live" => at[c] = "live",
           Len(history) <= Len(history'), Len(sent) <= Len(sent')
    PROVE  Unbroken(c)'
<1>1. /\ cursor[c] \in Nat /\ Len(pending[c]) \in Nat /\ position[c] \in Nat
      /\ Len(history) \in Nat /\ Len(sent) \in Nat /\ Limit \in Nat
      /\ Len(history') \in Nat /\ Len(sent') \in Nat
  <2>1. /\ history \in Seq(Seqs) /\ sent \in Seq(Record)
        /\ history' \in Seq(Seqs) /\ sent' \in Seq(Record)
    BY DEF Inv, TypeOK
  <2> QED
    BY <2>1, ClientSizes, LenProperties, GatewayEventsAssumption
<1>2. PICK start \in Nat : UnbrokenFrom(c, start)
  BY DEF Unbroken
<1>3. start + Len(pending'[c]) <= Len(history') /\ position'[c] <= Len(sent') + 1
  BY <1>1, <1>2 DEF UnbrokenFrom, Unbroken
<1>4. \A n \in 1 .. start : n + Limit <= Len(history') \/ Given(c, n)'
  BY <1>1, <1>2 DEF UnbrokenFrom, Given
<1>5. UnbrokenFrom(c, start)'
  BY <1>2, <1>3, <1>4 DEF UnbrokenFrom
<1> QED
  BY <1>3, <1>5 DEF Unbroken

\* A publisher numbers its event next and retains it at the end of the window, which
\* loses its oldest event when it is full.
LEMMA CalmPublish ==
    ASSUME Inv, Inv', Calm, WindowComplete, NothingSkipped,
           NEW p \in Publishers, Publish(p)
    PROVE  WindowComplete' /\ NothingSkipped'
<1>1. PICK n \in Nat, L \in Nat : n = Len(history) /\ L = Len(recent)
  BY CalmSizes
<1>2. PICK r \in Record : r = Event(n + 1)
  <2>1. n + 1 \in 1 .. MaxEvents /\ n + 1 \in Seqs \ {0}
    BY <1>1, GatewayEventsAssumption DEF Publish, Seqs
  <2>2. Event(n + 1) \in Record
    BY <2>1 DEF Event, Record
  <2> QED
    BY <2>2
<1>3. /\ history' = Append(history, n + 1) /\ nextSeq' = n + 1
      /\ history \in Seq(Seqs) /\ n + 1 \in Seqs /\ DOMAIN history = 1 .. n
  <2>1. nextSeq' = nextSeq + 1 /\ nextSeq' \in Seqs /\ history' = Append(history, nextSeq')
    BY DEF Publish, Inv, TypeOK
  <2> QED
    BY <1>1, <2>1, CalmSizes DEF WindowComplete
<1>4. /\ Len(history') = n + 1 /\ DOMAIN history' = 1 .. n + 1
      /\ history'[n + 1] = n + 1 /\ \A i \in 1 .. n : history'[i] = history[i]
  BY <1>1, <1>3, AppendProperties, LenProperties
<1>5. record' = [record EXCEPT ![p] = r] /\ recent' = LastOf(Append(recent, r), Capacity)
  <2>1. record' = [record EXCEPT ![p] = [seq |-> nextSeq', id |-> Len(history')]]
    BY DEF Publish
  <2>2. record' = [record EXCEPT ![p] = r]
    BY <1>2, <1>3, <1>4, <2>1 DEF Event
  <2>3. record'[p] = r
    BY <2>2 DEF Inv, TypeOK
  <2> QED
    BY <2>2, <2>3 DEF Publish
<1>6. PICK o \in Nat : o + L = n /\ \A i \in 1 .. L : recent[i] = Event(o + i)
  BY <1>1, CalmOldest
<1>7. PICK longer \in Seq(Record) : longer = Append(recent, r)
  BY CalmSizes, AppendProperties
<1>8. Len(longer) = L + 1 /\ longer[L + 1] = r /\ \A i \in 1 .. L : longer[i] = recent[i]
  BY <1>1, <1>7, CalmSizes, AppendProperties
<1>9. ASSUME NEW i \in 1 .. L + 1 PROVE longer[i] = Event(o + i)
  <2>1. CASE i = L + 1
    <3>1. o + i = n + 1
      BY <1>6, <2>1
    <3> QED
      BY <1>2, <1>8, <2>1, <3>1
  <2>2. CASE i # L + 1
    <3>1. i \in 1 .. L
      BY <2>2
    <3> QED
      BY <1>6, <1>8, <3>1
  <2> QED
    BY <2>1, <2>2
<1>10. PICK m \in {1, 2}, k \in Nat :
          /\ m = Largest(1, L + 1 + 1 - Capacity) /\ k + m = L + 2
          /\ k = Capacity \/ m = 1
  <2>1. PICK C \in Nat : C = Capacity /\ L <= C
    BY <1>1, CalmSizes DEF Inv, RetainedInOrder
  <2>2. CASE L = C
    <3>1. Largest(1, L + 1 + 1 - C) = 2
      BY <2>1, <2>2 DEF Largest
    <3> QED
      BY <2>1, <2>2, <3>1
  <2>3. CASE L < C
    <3>1. Largest(1, L + 1 + 1 - C) = 1
      BY <2>1, <2>3 DEF Largest
    <3>2. L + 1 \in Nat /\ (L + 1) + 1 = L + 2
      OBVIOUS
    <3> QED
      BY <2>1, <3>1, <3>2
  <2> QED
    BY <2>1, <2>2, <2>3
<1>11. recent' = SubSeq(longer, m, L + 1)
  BY <1>5, <1>7, <1>8, <1>10 DEF LastOf
<1>12. /\ Len(recent') = k /\ DOMAIN recent' = 1 .. k
       /\ \A i \in 1 .. k : recent'[i] = longer[m + i - 1]
  <2>1. m \in 1 .. Len(longer) + 1
    BY <1>8, <1>10
  <2>2. /\ SubSeq(longer, m, Len(longer)) \in Seq(Record)
        /\ Len(SubSeq(longer, m, Len(longer))) = Len(longer) + 1 - m
        /\ \A i \in 1 .. Len(longer) + 1 - m :
              SubSeq(longer, m, Len(longer))[i] = longer[m + i - 1]
    BY <2>1, SuffixInOrder
  <2>3. Len(longer) + 1 - m = k
    BY <1>8, <1>10
  <2>4. /\ recent' \in Seq(Record) /\ Len(recent') = k
        /\ \A i \in 1 .. k : recent'[i] = longer[m + i - 1]
    BY <1>8, <1>11, <2>2, <2>3
  <2> QED
    BY <2>4, LenProperties
<1>13. k <= n + 1 /\ (k = n + 1 \/ k = Capacity)
  <2>1. L <= n /\ (L = n \/ L = Capacity)
    BY <1>1 DEF WindowComplete
  <2>2. CASE k = Capacity
    <3>1. k <= L + 1
      BY <1>10
    <3> QED
      BY <2>1, <2>2, <3>1
  <2>3. CASE m = 1 /\ k # Capacity
    <3>1. k = L + 1
      BY <1>10, <2>3
    <3>2. L # Capacity
      BY <1>1, <1>10, <2>3, CalmSizes DEF Largest
    <3> QED
      BY <2>1, <3>1, <3>2
  <2> QED
    BY <1>10, <2>2, <2>3
<1>14. \A i \in 1 .. k : recent'[i] = Event(n + 1 - k + i)
  <2> SUFFICES ASSUME NEW x \in Nat, x >= 1, x <= k PROVE recent'[x] = Event(n + 1 - k + x)
    OBVIOUS
  <2>1. PICK j \in Nat : j + 1 = m + x /\ j = m + x - 1
    BY <1>10
  <2>2. k + m = L + 2 /\ m \in Nat /\ m >= 1 /\ o + L = n
    BY <1>6, <1>10
  <2>3. j >= 1 /\ j <= L + 1
    BY <2>1, <2>2
  <2>4. n + 1 - k + x = o + j
    BY <2>1, <2>2
  <2>5. recent'[x] = longer[j] /\ longer[j] = Event(o + j)
    BY <1>9, <1>12, <2>1, <2>3
  <2> QED
    BY <2>4, <2>5
<1>15. ASSUME NEW i \in 1 .. n + 1 PROVE history'[i] = i
  <2>1. CASE i = n + 1
    BY <1>4, <2>1
  <2>2. CASE i # n + 1
    <3>1. i \in 1 .. n
      BY <2>2
    <3> QED
      BY <1>3, <1>4, <3>1 DEF WindowComplete
  <2> QED
    BY <2>1, <2>2
<1>16. /\ sent' = sent /\ Len(sent) = n /\ Len(sent') = n
       /\ at[p] = "idle" /\ at' = [at EXCEPT ![p] = "retained"]
  BY <1>1 DEF Publish, Goto, WindowComplete
<1>17. WindowComplete'
  <2>1. ASSUME NEW q \in Publishers
        PROVE  at'[q] = "retained" /\ record'[q] = Event(n + 1) /\ n + 1 = Len(sent') + 1
    <3>1. q = p
      BY DEF Calm, OneTaskPublishes
    <3> QED
      BY <1>2, <1>5, <1>16, <3>1 DEF Inv, TypeOK, Threads
  <2>2. \A i \in DOMAIN sent' : sent'[i] = Event(i)
    BY <1>16 DEF WindowComplete
  <2>3. Len(sent') <= n + 1
    BY <1>16
  <2>4. /\ Len(recent') <= Len(history')
        /\ Len(recent') = Len(history') \/ Len(recent') = Capacity
        /\ \A i \in DOMAIN recent' : recent'[i] = Event(Len(history') - Len(recent') + i)
    BY <1>4, <1>12, <1>13, <1>14
  <2>5. nextSeq' = Len(history') /\ \A i \in DOMAIN history' : history'[i] = i
    BY <1>3, <1>4, <1>15
  <2> QED
    BY <1>4, <2>1, <2>2, <2>3, <2>4, <2>5 DEF WindowComplete
<1>18. ASSUME NEW c \in Clients PROVE Unbroken(c)'
  <2>1. /\ cursor' = cursor /\ pending' = pending /\ got' = got /\ position' = position
    BY DEF Publish, client, stream
  <2>2. at'[c] = at[c]
    BY <1>16, GatewayEventsAssumption DEF Inv, TypeOK, Threads, Clients
  <2>3. Len(history) <= Len(history') /\ Len(sent) <= Len(sent')
    BY <1>1, <1>4, <1>16
  <2> QED
    BY <2>1, <2>2, <2>3, UnbrokenKept DEF NothingSkipped
<1> QED
  BY <1>17, <1>18 DEF NothingSkipped

\* The only publisher sends its event after all before it.
LEMMA CalmSend ==
    ASSUME Inv, Inv', Calm, WindowComplete, NothingSkipped, NEW p \in Publishers, Send(p)
    PROVE  WindowComplete' /\ NothingSkipped'
<1>1. PICK n \in Nat : n = Len(sent)
  BY CalmSizes
<1>2. /\ record[p] = Event(n + 1) /\ Len(history) = n + 1 /\ record[p] \in Record
      /\ sent' = Append(sent, record[p]) /\ sent \in Seq(Record)
  BY <1>1, CalmSizes DEF Send, WindowComplete, Inv, RecordReady
<1>3. /\ Len(sent') = n + 1 /\ DOMAIN sent' = 1 .. n + 1
      /\ sent'[n + 1] = Event(n + 1) /\ \A i \in 1 .. n : sent'[i] = sent[i]
  BY <1>1, <1>2, AppendProperties, LenProperties
<1>4. ASSUME NEW i \in 1 .. n + 1 PROVE sent'[i] = Event(i)
  <2>1. CASE i = n + 1
    BY <1>3, <2>1
  <2>2. CASE i # n + 1
    <3>1. i \in 1 .. n /\ i \in DOMAIN sent
      BY <1>1, <2>2, CalmSizes
    <3> QED
      BY <1>3, <3>1 DEF WindowComplete
  <2> QED
    BY <2>1, <2>2
<1>5. /\ nextSeq' = nextSeq /\ recent' = recent /\ history' = history
      /\ at' = [at EXCEPT ![p] = "leases"]
  BY DEF Send, Goto
<1>6. \A q \in Publishers : at'[q] # "retained"
  BY <1>5 DEF Calm, OneTaskPublishes, Inv, TypeOK, Threads
<1>7. WindowComplete'
  BY <1>1, <1>2, <1>3, <1>4, <1>5, <1>6 DEF WindowComplete
<1>8. ASSUME NEW c \in Clients PROVE Unbroken(c)'
  <2>1. cursor' = cursor /\ pending' = pending /\ got' = got /\ position' = position
    BY DEF Send, client, stream
  <2>2. at'[c] = at[c]
    BY <1>5, GatewayEventsAssumption DEF Inv, TypeOK, Threads, Clients
  <2>3. Len(history) <= Len(history') /\ Len(sent) <= Len(sent')
    BY <1>1, <1>2, <1>3, <1>5
  <2> QED
    BY <2>1, <2>2, <2>3, UnbrokenKept DEF NothingSkipped
<1> QED
  BY <1>7, <1>8 DEF NothingSkipped

\* A thread that only moves on leaves the bus and every client as they are.
LEMMA CalmMove ==
    ASSUME Inv, Inv', WindowComplete, NothingSkipped, NEW t \in Threads, NEW step \in Steps,
           step \notin {"live", "retained"}, at[t] # "retained", Goto(t, step),
           UNCHANGED <<bus, record, stream, client, history>>
    PROVE  WindowComplete' /\ NothingSkipped'
<1>1. /\ at' = [at EXCEPT ![t] = step] /\ at \in [Threads -> Steps]
      /\ \A u \in Threads : at'[u] = (IF u = t THEN step ELSE at[u])
  BY DEF Goto, Inv, TypeOK
<1>2. \A p \in Publishers : (at[p] = "retained")' = (at[p] = "retained")
  BY <1>1 DEF Threads
<1>3. WindowComplete'
  BY <1>2, WindowKept
<1>4. ASSUME NEW c \in Clients PROVE Unbroken(c)'
  <2>1. cursor' = cursor /\ pending' = pending /\ got' = got /\ position' = position
    BY DEF client, stream
  <2>2. at'[c] = "live" => at[c] = "live"
    BY <1>1 DEF Threads
  <2>3. Len(history) <= Len(history') /\ Len(sent) <= Len(sent')
    BY LenProperties DEF bus, Inv, TypeOK
  <2> QED
    BY <2>1, <2>2, <2>3, UnbrokenKept DEF NothingSkipped
<1> QED
  BY <1>3, <1>4 DEF NothingSkipped

\* A step of one client touches neither the bus nor another client.
LEMMA CalmClient ==
    ASSUME Inv, Inv', WindowComplete, NothingSkipped, NEW c \in Clients,
           UNCHANGED <<bus, record, history>>,
           \A t \in Threads \ {c} : at'[t] = at[t],
           \A d \in Clients \ {c} : /\ cursor'[d] = cursor[d] /\ pending'[d] = pending[d]
                                    /\ got'[d] = got[d] /\ position'[d] = position[d],
           Unbroken(c)'
    PROVE  WindowComplete' /\ NothingSkipped'
<1>1. \A p \in Publishers : (at[p] = "retained")' = (at[p] = "retained")
  BY GatewayEventsAssumption DEF Threads, Clients
<1>2. WindowComplete'
  BY <1>1, WindowKept
<1>3. ASSUME NEW d \in Clients \ {c} PROVE Unbroken(d)'
  <2>1. at'[d] = "live" => at[d] = "live"
    BY DEF Threads
  <2>2. Len(history) <= Len(history') /\ Len(sent) <= Len(sent')
    BY LenProperties DEF bus, Inv, TypeOK
  <2> QED
    BY <2>1, <2>2, UnbrokenKept DEF NothingSkipped
<1> QED
  BY <1>2, <1>3 DEF NothingSkipped

\* Nobody persists between retaining an event and sending it.
LEMMA CalmPersist ==
    ASSUME Inv, Inv', WindowComplete, NothingSkipped, NEW t \in Threads, Persist(t)
    PROVE  WindowComplete' /\ NothingSkipped'
<1>1. /\ at[t] # "retained" /\ UNCHANGED <<bus, record, stream, client, history>>
      /\ \E step \in Steps \ {"live", "retained"} : Goto(t, step)
  BY DEF Persist, SnapshotLeases, LoadNextSeq, CloneRecent, WriteState, Steps, PersistSteps
<1> QED
  BY <1>1, CalmMove

\* A client that is told that its cursor is stale has at least a page before it.
LEMMA CalmAnswer ==
    ASSUME Inv, Inv', WindowComplete, NothingSkipped, NEW c \in Clients, at[c] # "live",
           Stale(cursor[c]), AnswerStale(c),
           UNCHANGED <<bus, record, stream, got, history>>
    PROVE  WindowComplete' /\ NothingSkipped'
<1>1. PICK o \in Nat : /\ o = recent[1].seq - 1 /\ o > cursor[c]
                       /\ o + Limit <= Len(history)
  BY ClientSizes, CalmStale
<1>2. c \in Threads /\ cursor' = [cursor EXCEPT ![c] = o] /\ at' = [at EXCEPT ![c] = "idle"]
  BY <1>1 DEF AnswerStale, Goto, Threads
<1>3. /\ cursor'[c] = o /\ \A d \in Clients \ {c} : cursor'[d] = cursor[d]
      /\ at'[c] = "idle" /\ \A t \in Threads \ {c} : at'[t] = at[t]
  BY <1>1, <1>2 DEF Inv, TypeOK
<1>4. /\ got' = got /\ pending' = pending /\ position' = position
      /\ history' = history /\ sent' = sent
  BY DEF stream, bus
<1>5. Len(pending[c]) = 0 /\ DOMAIN pending[c] = {}
  BY EmptySeq DEF Inv, PendingAhead
<1>6. o + 0 <= Len(history) /\ \A n \in 1 .. o : n + Limit <= Len(history)
  BY <1>1, CalmSizes
<1>7. UnbrokenFrom(c, o)'
  BY <1>3, <1>4, <1>5, <1>6 DEF UnbrokenFrom
<1>8. Unbroken(c)'
  BY <1>4, <1>7 DEF NothingSkipped, Unbroken
<1> QED
  BY <1>3, <1>4, <1>8, CalmClient

\* A page goes on from the client's cursor, or leaves out what has a page after it.
LEMMA CalmPoll ==
    ASSUME Inv, Inv', WindowComplete, NothingSkipped, NEW c \in Clients,
           PollAcknowledging(c) \/ Poll(c) \/ ServePoll(c)
    PROVE  WindowComplete' /\ NothingSkipped'
<1>1. c \in Threads /\ cursor[c] \in Nat
  BY ClientSizes DEF Threads
<1>2. CASE PollAcknowledging(c) \/ Poll(c) \/ (CheckWindow(c) /\ ~ Stale(cursor[c]))
  <2>1. /\ at[c] # "retained" /\ UNCHANGED <<bus, record, stream, client, history>>
        /\ \E step \in {"leases", "window", "fetch"} : Goto(c, step)
    BY <1>1, <1>2 DEF PollAcknowledging, Poll, CheckWindow
  <2> QED
    BY <1>1, <2>1, CalmMove DEF Steps, PersistSteps
<1>3. CASE CheckWindow(c) /\ Stale(cursor[c])
  BY <1>3, CalmAnswer DEF CheckWindow
<1>4. CASE Fetch(c)
  <2>1. /\ at[c] = "fetch" /\ at' = [at EXCEPT ![c] = "idle"]
        /\ UNCHANGED <<bus, record, stream, history>>
        /\ Deliver(c, ReplayAfter(cursor[c]))
    BY <1>4 DEF Fetch, Goto
  <2>2. /\ at'[c] = "idle" /\ \A t \in Threads \ {c} : at'[t] = at[t]
        /\ pending' = pending /\ position' = position
        /\ history' = history /\ sent' = sent
    BY <1>1, <2>1 DEF Inv, TypeOK, stream, bus
  <2>3. Len(pending[c]) = 0 /\ DOMAIN pending[c] = {}
    BY <2>1, EmptySeq DEF Inv, PendingAhead
  <2>4. PICK N \in Nat, old \in Nat : N = Len(history) /\ UnbrokenFrom(c, old)
    BY CalmSizes DEF NothingSkipped, Unbroken
  <2>5. /\ cursor[c] <= old /\ old <= N
        /\ \A n \in 1 .. old : n + Limit <= N \/ Given(c, n)
    BY <2>3, <2>4 DEF UnbrokenFrom
  <2>6. cursor[c] <= Len(history)
    BY <1>1, <2>4, <2>5
  <2>7. PICK start \in Nat, page \in Seq(Record) :
           /\ page = ReplayAfter(cursor[c]) /\ cursor[c] <= start
           /\ start + Len(page) = Len(history)
           /\ start = cursor[c] \/ start + Limit <= Len(history)
           /\ \A i \in DOMAIN page : page[i] = Event(start + i)
    BY <1>1, <2>6, CalmReplay
  <2>8. /\ cursor'[c] = IF page = <<>> THEN cursor[c] ELSE start + Len(page)
        /\ \A n \in 1 .. start + Len(page) : Given(c, n) \/ n > start => Given(c, n)'
        /\ \A d \in Clients \ {c} : cursor'[d] = cursor[d] /\ got'[d] = got[d]
    BY <2>1, <2>7, DeliverGiven
  <2>9. cursor'[c] <= N
    BY <1>1, <2>4, <2>6, <2>7, <2>8
  <2>10. ASSUME NEW n \in 1 .. N PROVE n + Limit <= N \/ Given(c, n)'
    <3>1. n \in 1 .. start + Len(page)
      BY <2>4, <2>7
    <3>2. CASE n > start
      BY <2>8, <3>1, <3>2
    <3>3. CASE ~ (n > start) /\ start + Limit <= N
      BY <2>4, <3>3, CalmSizes
    <3>4. CASE ~ (n > start) /\ start = cursor[c]
      <4>1. n \in 1 .. old
        BY <1>1, <2>5, <3>4
      <4> QED
        BY <2>5, <2>8, <3>1, <4>1
    <3> QED
      BY <2>4, <2>7, <3>2, <3>3, <3>4
  <2>11. N + 0 <= Len(history')
    BY <2>2, <2>4
  <2>12. UnbrokenFrom(c, N)'
    BY <2>2, <2>3, <2>4, <2>9, <2>10, <2>11 DEF UnbrokenFrom
  <2>13. Unbroken(c)'
    BY <2>2, <2>4, <2>12 DEF NothingSkipped, Unbroken
  <2> QED
    BY <2>1, <2>2, <2>8, <2>13, CalmClient
<1> QED
  BY <1>2, <1>3, <1>4 DEF ServePoll

\* A stream subscribes where the channel ends, before it looks at the window.
LEMMA CalmConnect ==
    ASSUME Inv, Inv', WindowComplete, NothingSkipped, NEW c \in Clients,
           OpenStream(c) \/ CheckStream(c) \/ Subscribe(c) \/ Disconnect(c)
    PROVE  WindowComplete' /\ NothingSkipped'
<1>1. /\ c \in Threads /\ Len(sent) \in Nat /\ Len(history) \in Nat
      /\ Len(pending[c]) \in Nat
  BY ClientSizes, CalmSizes DEF Threads
<1>2. PICK start \in Nat : UnbrokenFrom(c, start)
  BY DEF NothingSkipped, Unbroken
<1>3. CASE OpenStream(c) \/ (CheckStream(c) /\ ~ Stale(cursor[c]))
  <2>1. /\ at[c] # "retained" /\ UNCHANGED <<bus, record, stream, client, history>>
        /\ \E step \in {"check", "subscribe"} : Goto(c, step)
    BY <1>3 DEF OpenStream, CheckStream
  <2> QED
    BY <1>1, <2>1, CalmMove DEF Steps, StreamSteps
<1>4. CASE CheckStream(c) /\ Stale(cursor[c])
  BY <1>4, CalmAnswer DEF CheckStream
<1>5. CASE Subscribe(c)
  <2>1. /\ at' = [at EXCEPT ![c] = "replay"]
        /\ position' = [position EXCEPT ![c] = Len(sent) + 1]
        /\ UNCHANGED <<bus, record, history>>
        /\ pending' = pending /\ cursor' = cursor /\ got' = got
        /\ history' = history /\ sent' = sent
    BY <1>5 DEF Subscribe, Goto, client, bus
  <2>2. /\ at'[c] = "replay" /\ \A t \in Threads \ {c} : at'[t] = at[t]
        /\ position'[c] = Len(sent) + 1 /\ \A d \in Clients \ {c} : position'[d] = position[d]
    BY <1>1, <2>1 DEF Inv, TypeOK
  <2>3. UnbrokenFrom(c, start)'
    BY <1>2, <2>1, <2>2 DEF UnbrokenFrom, Given
  <2>4. Unbroken(c)'
    BY <1>1, <2>1, <2>2, <2>3 DEF Unbroken
  <2> QED
    BY <2>1, <2>2, <2>4, CalmClient
<1>6. CASE Disconnect(c)
  <2>1. /\ at' = [at EXCEPT ![c] = "idle"]
        /\ pending' = [pending EXCEPT ![c] = <<>>]
        /\ position' = [position EXCEPT ![c] = 1]
        /\ UNCHANGED <<bus, record, history>>
        /\ cursor' = cursor /\ got' = got /\ history' = history /\ sent' = sent
    BY <1>6 DEF Disconnect, Goto, client, bus
  <2>2. /\ at'[c] = "idle" /\ \A t \in Threads \ {c} : at'[t] = at[t]
        /\ pending'[c] = <<>> /\ \A d \in Clients \ {c} : pending'[d] = pending[d]
        /\ position'[c] = 1 /\ \A d \in Clients \ {c} : position'[d] = position[d]
    BY <1>1, <2>1 DEF Inv, TypeOK
  <2>3. Len(pending'[c]) = 0 /\ DOMAIN pending'[c] = {}
    BY <2>2, EmptySeq
  <2>4. start + 0 <= Len(history) /\ 1 <= Len(sent) + 1
    BY <1>1, <1>2 DEF UnbrokenFrom
  <2>5. UnbrokenFrom(c, start)'
    BY <1>2, <2>1, <2>2, <2>3, <2>4 DEF UnbrokenFrom, Given
  <2>6. Unbroken(c)'
    BY <2>1, <2>2, <2>4, <2>5 DEF Unbroken
  <2> QED
    BY <2>1, <2>2, <2>6, CalmClient
<1> QED
  BY <1>3, <1>4, <1>5, <1>6

\* A replay goes on from the client's cursor, or leaves out what has a page after it, and
\* what the receiver has yet to read is no older than what comes after the replay.
LEMMA CalmReplays ==
    ASSUME Inv, Inv', WindowComplete, NothingSkipped, NEW c \in Clients, Replay(c)
    PROVE  WindowComplete' /\ NothingSkipped'
<1>1. c \in Threads /\ cursor[c] \in Nat /\ position[c] \in Nat /\ Len(pending[c]) \in Nat
  BY ClientSizes DEF Threads
<1>2. PICK N \in Nat, old \in Nat : N = Len(history) /\ UnbrokenFrom(c, old)
  BY CalmSizes DEF NothingSkipped, Unbroken
<1>3. /\ cursor[c] <= old /\ old <= N
      /\ \A n \in 1 .. old : n + Limit <= N \/ Given(c, n)
  BY <1>1, <1>2 DEF UnbrokenFrom
<1>4. /\ at' = [at EXCEPT ![c] = "live"]
      /\ pending' = [pending EXCEPT ![c] = ReplayAfter(cursor[c])]
      /\ UNCHANGED <<bus, record, history>>
      /\ position' = position /\ cursor' = cursor /\ got' = got
      /\ history' = history /\ sent' = sent
  BY DEF Replay, Goto, client, bus
<1>5. cursor[c] <= Len(history)
  BY <1>1, <1>2, <1>3
<1>6. PICK start \in Nat, page \in Seq(Record) :
         /\ page = ReplayAfter(cursor[c]) /\ cursor[c] <= start
         /\ start + Len(page) = Len(history)
         /\ start = cursor[c] \/ start + Limit <= Len(history)
         /\ \A i \in DOMAIN page : page[i] = Event(start + i)
  BY <1>1, <1>5, CalmReplay
<1>7. /\ at'[c] = "live" /\ \A t \in Threads \ {c} : at'[t] = at[t]
      /\ pending'[c] = page /\ \A d \in Clients \ {c} : pending'[d] = pending[d]
  BY <1>1, <1>4, <1>6 DEF Inv, TypeOK
<1>8. position[c] <= Len(sent) + 1 /\ position[c] <= start + Len(page) + 1
  <2>1. PICK k \in Nat : k = Len(sent) /\ position[c] <= k + 1 /\ k <= N
    BY <1>2, CalmSizes DEF NothingSkipped, Unbroken, WindowComplete
  <2>2. position[c] <= N + 1
    BY <1>1, <2>1
  <2> QED
    BY <1>2, <1>6, <2>1, <2>2
<1>9. ASSUME NEW n \in 1 .. start PROVE n + Limit <= N \/ Given(c, n)
  <2>1. CASE start + Limit <= N
    BY <2>1, CalmSizes
  <2>2. CASE start = cursor[c]
    <3>1. n \in 1 .. old
      BY <1>1, <1>3, <2>2
    <3> QED
      BY <1>3, <3>1
  <2> QED
    BY <1>2, <1>6, <2>1, <2>2
<1>10. start + Len(page) <= N /\ N = Len(history')
  BY <1>2, <1>4, <1>6
<1>11. UnbrokenFrom(c, start)'
  BY <1>4, <1>6, <1>7, <1>8, <1>9, <1>10 DEF UnbrokenFrom, Given
<1>12. Unbroken(c)'
  BY <1>4, <1>8, <1>11 DEF Unbroken
<1> QED
  BY <1>4, <1>7, <1>12, CalmClient

\* A receiver that lags behind the channel skips to its oldest event, and the stream
\* replays from its cursor.
LEMMA CalmLag ==
    ASSUME Inv, Inv', WindowComplete, NothingSkipped, NEW c \in Clients, Lag(c)
    PROVE  WindowComplete' /\ NothingSkipped'
<1>1. c \in Threads /\ OldestSent \in Nat \ {0} /\ OldestSent <= Len(sent) + 1
  BY CalmSizes DEF Threads, OldestSent, Largest
<1>2. PICK start \in Nat : UnbrokenFrom(c, start)
  BY DEF NothingSkipped, Unbroken
<1>3. /\ at' = [at EXCEPT ![c] = "replay"]
      /\ position' = [position EXCEPT ![c] = OldestSent]
      /\ UNCHANGED <<bus, record, history>>
      /\ pending' = pending /\ cursor' = cursor /\ got' = got
      /\ history' = history /\ sent' = sent
  BY DEF Lag, Goto, client, bus
<1>4. /\ at'[c] = "replay" /\ \A t \in Threads \ {c} : at'[t] = at[t]
      /\ position'[c] = OldestSent /\ \A d \in Clients \ {c} : position'[d] = position[d]
  BY <1>1, <1>3 DEF Inv, TypeOK
<1>5. UnbrokenFrom(c, start)'
  BY <1>2, <1>3, <1>4 DEF UnbrokenFrom, Given
<1>6. Unbroken(c)'
  BY <1>1, <1>3, <1>4, <1>5 DEF Unbroken
<1> QED
  BY <1>3, <1>4, <1>6, CalmClient

\* A stream hands out the next event it has yet to replay.
LEMMA CalmPending ==
    ASSUME Inv, Inv', WindowComplete, NothingSkipped, NEW c \in Clients, DeliverPending(c)
    PROVE  WindowComplete' /\ NothingSkipped'
<1>1. PICK start \in Nat, k \in Nat, N \in Nat :
         UnbrokenFrom(c, start) /\ k = Len(pending[c]) /\ N = Len(history)
  BY ClientSizes, CalmSizes DEF NothingSkipped, Unbroken
<1>2. /\ pending[c] \in Seq(Record) /\ DOMAIN pending[c] = 1 .. k
      /\ start + k <= N /\ \A i \in 1 .. k : pending[c][i] = Event(start + i)
      /\ \A n \in 1 .. start : n + Limit <= N \/ Given(c, n)
      /\ position[c] \in Nat
  BY <1>1, ClientSizes DEF UnbrokenFrom
<1>3. /\ at' = at /\ UNCHANGED <<bus, record, history>>
      /\ position' = position /\ history' = history /\ sent' = sent
      /\ pending[c] # <<>> /\ at[c] = "live"
      /\ Deliver(c, <<Head(pending[c])>>)
      /\ pending' = [pending EXCEPT ![c] = Tail(pending[c])]
  BY DEF DeliverPending, bus
<1>4. k >= 1 /\ 1 \in 1 .. k
  BY <1>1, <1>2, <1>3, EmptySeq
<1>5. /\ Head(pending[c]) = pending[c][1] /\ pending[c][1] \in Record
      /\ Tail(pending[c]) \in Seq(Record) /\ Len(Tail(pending[c])) = k - 1
      /\ \A i \in 1 .. Len(Tail(pending[c])) : Tail(pending[c])[i] = pending[c][i + 1]
  BY <1>1, <1>2, <1>3, <1>4, HeadTailProperties, RecordsAt
<1>6. PICK r \in Record : r = Head(pending[c]) /\ r = Event(start + 1)
  BY <1>2, <1>4, <1>5
<1>7. PICK left \in Seq(Record) : left = Tail(pending[c])
  BY <1>5
<1>8. /\ <<r>> \in Seq(Record) /\ DOMAIN <<r>> = {1} /\ <<r>>[1] = r
      /\ Len(<<r>>) = 1 /\ <<r>> # <<>>
  BY <1>6, OneInOrder
<1>9. /\ cursor'[c] = start + 1
      /\ \A n \in 1 .. start + 1 : Given(c, n) \/ n > start => Given(c, n)'
      /\ \A d \in Clients \ {c} : cursor'[d] = cursor[d] /\ got'[d] = got[d]
  <2>1. Deliver(c, <<r>>) /\ \A i \in DOMAIN <<r>> : <<r>>[i] = Event(start + i)
    BY <1>3, <1>6, <1>8
  <2>2. /\ cursor'[c] = IF <<r>> = <<>> THEN cursor[c] ELSE start + Len(<<r>>)
        /\ \A n \in 1 .. start + Len(<<r>>) : Given(c, n) \/ n > start => Given(c, n)'
        /\ \A d \in Clients \ {c} : cursor'[d] = cursor[d] /\ got'[d] = got[d]
    BY <1>8, <2>1, DeliverGiven
  <2> QED
    BY <1>8, <2>2
<1>10. pending'[c] = left /\ \A d \in Clients \ {c} : pending'[d] = pending[d]
  BY <1>3, <1>7 DEF Inv, TypeOK
<1>11. PICK z \in Nat : /\ z = Len(left) /\ z = k - 1 /\ DOMAIN left = 1 .. z
                        /\ start + 1 + z = start + k
  <2>1. Len(left) = k - 1 /\ DOMAIN left = 1 .. Len(left) /\ Len(left) \in Nat
    BY <1>5, <1>7, LenProperties
  <2> QED
    BY <2>1
<1>12. ASSUME NEW i \in DOMAIN left PROVE left[i] = Event(start + 1 + i)
  <2>1. i \in 1 .. z /\ i + 1 \in 1 .. k /\ start + (i + 1) = start + 1 + i
    BY <1>11
  <2>2. left[i] = pending[c][i + 1] /\ pending[c][i + 1] = Event(start + (i + 1))
    BY <1>2, <1>5, <1>7, <1>11, <2>1
  <2> QED
    BY <2>1, <2>2
<1>13. ASSUME NEW n \in 1 .. start + 1 PROVE n + Limit <= N \/ Given(c, n)'
  <2>1. CASE n > start
    BY <1>9, <2>1
  <2>2. CASE ~ (n > start)
    <3>1. n \in 1 .. start
      BY <2>2
    <3> QED
      BY <1>2, <1>9, <3>1
  <2> QED
    BY <2>1, <2>2
<1>14. position[c] <= start + 1 + z + 1
  BY <1>1, <1>3, <1>11 DEF UnbrokenFrom
<1>15. UnbrokenFrom(c, start + 1)'
  <2>1. start + 1 + Len(pending'[c]) <= Len(history')
    BY <1>1, <1>2, <1>3, <1>10, <1>11
  <2>2. position'[c] <= start + 1 + Len(pending'[c]) + 1
    BY <1>3, <1>10, <1>11, <1>14
  <2>3. \A i \in DOMAIN pending'[c] : pending'[c][i] = Event(start + 1 + i)
    BY <1>10, <1>12
  <2>4. cursor'[c] <= start + 1
    BY <1>9
  <2>5. \A n \in 1 .. start + 1 : n + Limit <= Len(history') \/ Given(c, n)'
    BY <1>1, <1>3, <1>13
  <2> QED
    BY <2>1, <2>2, <2>3, <2>4, <2>5 DEF UnbrokenFrom
<1>16. Unbroken(c)'
  BY <1>3, <1>15 DEF NothingSkipped, Unbroken
<1> QED
  BY <1>3, <1>9, <1>10, <1>16, CalmClient

\* A stream with nothing left to replay reads the next event of the channel.
LEMMA CalmReceive ==
    ASSUME Inv, Inv', WindowComplete, NothingSkipped, NEW c \in Clients, Receive(c)
    PROVE  WindowComplete' /\ NothingSkipped'
<1>1. PICK start \in Nat, N \in Nat, x \in Nat, k \in Nat :
         /\ UnbrokenFrom(c, start) /\ N = Len(history) /\ x = position[c] /\ k = Len(sent)
  BY ClientSizes, CalmSizes DEF NothingSkipped, Unbroken
<1>2. /\ at' = at /\ UNCHANGED <<bus, record, history>>
      /\ pending' = pending /\ history' = history /\ sent' = sent
      /\ pending[c] = <<>> /\ at[c] = "live"
      /\ x \in OldestSent .. k
      /\ position' = [position EXCEPT ![c] = x + 1]
  BY <1>1 DEF Receive, bus
<1>3. /\ Len(pending[c]) = 0 /\ DOMAIN pending[c] = {}
      /\ Len(pending'[c]) = 0 /\ DOMAIN pending'[c] = {}
  BY <1>2, EmptySeq
<1>4. x >= 1 /\ x <= k /\ k <= N /\ cursor[c] \in Nat
  BY <1>1, <1>2, ClientSizes, CalmSizes DEF WindowComplete
<1>5. /\ cursor[c] <= start /\ start <= N /\ x <= start + 1
      /\ \A n \in 1 .. start : n + Limit <= N \/ Given(c, n)
  BY <1>1, <1>2, <1>3 DEF UnbrokenFrom
<1>6. PICK r \in Record : r = sent[x] /\ r = Event(x)
  <2>1. x \in DOMAIN sent /\ sent \in Seq(Record)
    BY <1>1, <1>4, CalmSizes
  <2> QED
    BY <2>1, RecordsAt DEF WindowComplete
<1>7. r.seq = x
  BY <1>6 DEF Event
<1>8. position'[c] = x + 1 /\ \A d \in Clients \ {c} : position'[d] = position[d]
  BY <1>2 DEF Inv, TypeOK
<1>9. CASE x <= cursor[c]
  <2>1. cursor' = cursor /\ got' = got
    BY <1>1, <1>6, <1>7, <1>9 DEF Receive, AlreadySeen
  <2>2. x + 1 <= start + 0 + 1 /\ start + 0 <= N
    BY <1>4, <1>5, <1>9
  <2>3. UnbrokenFrom(c, start)'
    BY <1>1, <1>2, <1>3, <1>5, <1>8, <2>1, <2>2 DEF UnbrokenFrom, Given
  <2>4. Unbroken(c)'
    BY <1>1, <1>2, <1>4, <1>8, <2>3 DEF Unbroken
  <2> QED
    BY <1>2, <1>8, <2>1, <2>4, CalmClient
<1>10. CASE ~ (x <= cursor[c])
  <2>1. Deliver(c, <<r>>)
    BY <1>1, <1>6, <1>7, <1>10 DEF Receive, AlreadySeen
  <2>2. PICK y \in Nat : y + 1 = x
    BY <1>4
  <2>3. /\ <<r>> \in Seq(Record) /\ DOMAIN <<r>> = {1} /\ <<r>>[1] = r
        /\ Len(<<r>>) = 1 /\ <<r>> # <<>>
    BY <1>6, OneInOrder
  <2>4. \A i \in DOMAIN <<r>> : <<r>>[i] = Event(y + i)
    BY <1>6, <2>2, <2>3
  <2>5. /\ cursor'[c] = IF <<r>> = <<>> THEN cursor[c] ELSE y + Len(<<r>>)
        /\ \A n \in 1 .. y + Len(<<r>>) : Given(c, n) \/ n > y => Given(c, n)'
        /\ \A d \in Clients \ {c} : cursor'[d] = cursor[d] /\ got'[d] = got[d]
    BY <2>1, <2>3, <2>4, DeliverGiven
  <2>6. cursor'[c] = x /\ \A n \in 1 .. x : Given(c, n) \/ n = x => Given(c, n)'
    BY <2>2, <2>3, <2>5
  <2>7. ASSUME NEW n \in 1 .. start, Given(c, n) PROVE Given(c, n)'
    <3>1. /\ got'[c] = got[c] \o <<r>> /\ got[c] \in Seq(Record)
          /\ Len(got[c]) \in Nat /\ DOMAIN got[c] = 1 .. Len(got[c])
      BY <2>1, ClientSizes DEF Deliver, Inv, TypeOK
    <3>2. PICK longer \in Seq(Record) :
             /\ longer = got'[c] /\ Len(longer) = Len(got[c]) + 1
             /\ \A i \in 1 .. Len(got[c]) + 1 : i <= Len(got[c]) => longer[i] = got[c][i]
      <4>1. /\ got[c] \o <<r>> \in Seq(Record)
            /\ Len(got[c] \o <<r>>) = Len(got[c]) + Len(<<r>>)
            /\ \A i \in 1 .. Len(got[c]) + Len(<<r>>) :
                  (got[c] \o <<r>>)[i] = IF i <= Len(got[c]) THEN got[c][i]
                                         ELSE <<r>>[i - Len(got[c])]
        BY <2>3, <3>1, ConcatProperties
      <4> QED
        BY <2>3, <3>1, <4>1
    <3>3. PICK i \in 1 .. Len(got[c]) : got[c][i].id = n
      BY <2>7, <3>1 DEF Given
    <3>4. i \in DOMAIN longer /\ longer[i] = got[c][i]
      BY <3>1, <3>2, <3>3, LenProperties
    <3> QED
      BY <3>2, <3>3, <3>4 DEF Given
  <2>8. PICK new \in Nat : new = Largest(start, x) /\ new >= start /\ new >= x /\ new <= N
    BY <1>4, <1>5 DEF Largest
  <2>9. ASSUME NEW n \in 1 .. new PROVE n + Limit <= N \/ Given(c, n)'
    <3>1. CASE n <= start
      <4>1. n \in 1 .. start
        BY <3>1
      <4> QED
        BY <1>5, <2>7, <4>1
    <3>2. CASE ~ (n <= start)
      <4>1. n = x
        BY <1>5, <2>8, <3>2 DEF Largest
      <4>2. x \in 1 .. x
        BY <1>4
      <4> QED
        BY <2>6, <4>1, <4>2
    <3> QED
      BY <3>1, <3>2
  <2>10. x + 1 <= new + 0 + 1 /\ new + 0 <= N
    BY <2>8
  <2>11. UnbrokenFrom(c, new)'
    BY <1>1, <1>2, <1>3, <1>8, <2>6, <2>8, <2>9, <2>10 DEF UnbrokenFrom
  <2>12. Unbroken(c)'
    BY <1>1, <1>2, <1>4, <1>8, <2>11 DEF Unbroken
  <2> QED
    BY <1>2, <1>8, <2>5, <2>12, CalmClient
<1> QED
  BY <1>9, <1>10

\* Nothing is published before the first step.
LEMMA CalmInit == Init => CalmInv
<1> SUFFICES ASSUME Init PROVE WindowComplete /\ NothingSkipped
  BY DEF CalmInv
<1>1. DOMAIN <<>> = {} /\ Len(<<>>) = 0 /\ 0 <= 0 /\ 1 <= 0 + 1 /\ 0 + 0 <= 0
  BY EmptySeq
<1>2. WindowComplete
  BY <1>1 DEF Init, WindowComplete, Threads
<1>3. ASSUME NEW c \in Clients PROVE Unbroken(c)
  <2>1. /\ cursor[c] = 0 /\ pending[c] = <<>> /\ at[c] = "idle" /\ position[c] = 1
        /\ history = <<>> /\ sent = <<>>
    BY DEF Init, Threads
  <2>2. UnbrokenFrom(c, 0)
    BY <1>1, <2>1 DEF UnbrokenFrom
  <2> QED
    BY <1>1, <2>1, <2>2 DEF Unbroken
<1> QED
  BY <1>2, <1>3 DEF NothingSkipped

\* Every step of a calm gateway keeps the window complete and the streams unbroken, and
\* a gateway that is calm was calm before.
LEMMA CalmNext == Inv /\ Inv' /\ CalmInv /\ [Next]_vars => CalmInv'
<1> SUFFICES ASSUME Inv, Inv', CalmInv, [Next]_vars, Calm'
             PROVE  WindowComplete' /\ NothingSkipped'
  BY DEF CalmInv
<1>1. restarts \in Nat
  BY GatewayEventsAssumption DEF Inv, TypeOK
<1>2. ~ Restart
  BY <1>1 DEF Restart, Calm
<1>3. restarts' = restarts
  BY <1>2 DEF Next, vars, Publish, Send, Persist, SnapshotLeases, LoadNextSeq, CloneRecent,
              WriteState, PollAcknowledging, Poll, ServePoll, CheckWindow, Fetch, OpenStream,
              ServeStream, CheckStream, Subscribe, Replay, DeliverPending, Receive, Lag,
              Disconnect
<1>4. Calm /\ WindowComplete /\ NothingSkipped
  BY <1>3 DEF Calm, OneTaskPublishes, CalmInv
<1>5. ASSUME NEW p \in Publishers, Publish(p) \/ Send(p) \/ Persist(p)
      PROVE  WindowComplete' /\ NothingSkipped'
  BY <1>4, <1>5, CalmPublish, CalmSend, CalmPersist DEF Threads
<1>6. ASSUME NEW c \in Pollers,
             PollAcknowledging(c) \/ Poll(c) \/ Persist(c) \/ ServePoll(c)
      PROVE  WindowComplete' /\ NothingSkipped'
  BY <1>4, <1>6, CalmPoll, CalmPersist DEF Threads, Clients
<1>7. ASSUME NEW c \in Streamers, OpenStream(c) \/ ServeStream(c) \/ Disconnect(c)
      PROVE  WindowComplete' /\ NothingSkipped'
  <2>1. c \in Clients
    BY DEF Clients
  <2>2. CASE OpenStream(c) \/ CheckStream(c) \/ Subscribe(c) \/ Disconnect(c)
    BY <1>4, <2>1, <2>2, CalmConnect
  <2>3. CASE Replay(c) \/ Lag(c)
    BY <1>4, <2>1, <2>3, CalmReplays, CalmLag
  <2>4. CASE DeliverPending(c) \/ Receive(c)
    BY <1>4, <2>1, <2>4, CalmPending, CalmReceive
  <2> QED
    BY <1>7, <2>2, <2>3, <2>4 DEF ServeStream
<1>8. CASE UNCHANGED vars
  <2>1. UNCHANGED <<bus, record, history>> /\ UNCHANGED <<at, position, pending, cursor, got>>
    BY <1>8 DEF vars, stream, client
  <2>2. WindowComplete'
    BY <1>4, <2>1, WindowKept
  <2>3. ASSUME NEW c \in Clients PROVE Unbroken(c)'
    <3>1. Len(history) <= Len(history') /\ Len(sent) <= Len(sent')
      BY <1>4, <2>1, CalmSizes DEF bus
    <3> QED
      BY <1>4, <2>1, <3>1, UnbrokenKept DEF NothingSkipped
  <2> QED
    BY <2>2, <2>3 DEF NothingSkipped
<1> QED
  BY <1>2, <1>5, <1>6, <1>7, <1>8 DEF Next

\* What a client's cursor is past it was given, or a page of newer events was published,
\* when one task publishes and the gateway is not restarted, however polls, replays, live
\* events, lag, stale cursors and reconnections mix: a stream subscribes before it replays,
\* so that nothing falls in between, a receiver that lags replays again, and a window that
\* is full holds a page (next_gateway_sse_item, list_gateway_pairing_events).
THEOREM NothingLeftOut == Spec => []NewestPageGiven
<1>1. Inv /\ CalmInv => NewestPageGiven
  <2> SUFFICES ASSUME Inv, WindowComplete, NothingSkipped, NEW c \in Clients,
                      NEW id \in DOMAIN history, id + Limit > Len(history),
                      ~(history[id] > cursor[c])
               PROVE  \E i \in DOMAIN got[c] : got[c][i].id = id
    BY DEF CalmInv, Calm, NewestPageGiven
  <2>1. /\ history[id] = id /\ id \in 1 .. Len(history) /\ Len(history) \in Nat
        /\ cursor[c] \in Nat /\ Limit \in Nat
    BY CalmSizes, ClientSizes DEF WindowComplete
  <2>2. PICK start \in Nat : UnbrokenFrom(c, start)
    BY DEF NothingSkipped, Unbroken
  <2>3. id \in 1 .. start
    BY <2>1, <2>2 DEF UnbrokenFrom
  <2>4. ~ (id + Limit <= Len(history))
    BY <2>1
  <2> QED
    BY <2>2, <2>3, <2>4 DEF UnbrokenFrom, Given
<1> QED
  BY <1>1, InitInv, NextInv, CalmInit, CalmNext, PTL DEF Spec

-----------------------------------------------------------------------------
(* A stream that has read the whole channel *)

\* What was sent, or is about to be, is no newer than the end of the window.
SentRetained ==
    /\ \A i \in DOMAIN sent : sent[i].seq <= LastSeq(recent)
    /\ \A p \in Publishers : at[p] = "retained" => record[p].seq <= LastSeq(recent)

\* What a stream has read past, it was given or is about to replay.
ReadPast(c) ==
    /\ at[c] \in {"replay", "live"} => position[c] <= Len(sent) + 1
    /\ at[c] = "live" =>
          \A i \in DOMAIN sent :
              i < position[c] => sent[i].seq <= cursor[c] \/ sent[i].seq <= LastSeq(pending[c])

\* The safety half of StreamCatchesUp: a connected stream that has nothing to replay and
\* nothing to receive is at the newest event, whether it was given it live, replayed it
\* or skipped it in the channel when it lagged.
CaughtUp ==
    \A c \in Clients :
        at[c] = "live" /\ pending[c] = <<>> /\ position[c] > Len(sent)
        => \A i \in DOMAIN sent : sent[i].seq <= cursor[c]

CaughtUpInv == SentRetained /\ \A c \in Clients : ReadPast(c)

\* The end of a window is the end of each of its non-empty ends.
LEMMA SuffixKeepsLast ==
    ASSUME NEW s \in Seq(Record), NEW m \in 1 .. Len(s)
    PROVE  LastSeq(SubSeq(s, m, Len(s))) = LastSeq(s)
<1>1. Len(s) \in Nat /\ m \in 1 .. Len(s) + 1 /\ m \in Nat /\ m >= 1 /\ m <= Len(s)
  BY RecordsAt
<1>2. PICK w \in Seq(Record) : w = SubSeq(s, m, Len(s))
  BY <1>1, SuffixInOrder
<1>3. Len(w) = Len(s) + 1 - m /\ \A i \in 1 .. Len(s) + 1 - m : w[i] = s[m + i - 1]
  BY <1>1, <1>2, SuffixInOrder
<1>4. PICK k \in Nat : k = Len(w)
  BY LenProperties
<1>5. k \in 1 .. Len(s) + 1 - m /\ m + k - 1 = Len(s) /\ k # 0 /\ Len(s) # 0
  BY <1>1, <1>3, <1>4
<1>6. w[k] = s[Len(s)]
  BY <1>3, <1>5
<1>7. w # <<>> /\ s # <<>>
  BY <1>4, <1>5, EmptySeq
<1> QED
  BY <1>2, <1>4, <1>6, <1>7 DEF LastSeq

\* The number at the end of a window is a number.
LEMMA LastSeqNat ==
    ASSUME NEW s \in Seq(Record)
    PROVE  LastSeq(s) \in Nat /\ (s = <<>> => LastSeq(s) = 0)
<1>1. s # <<>> => Len(s) \in 1 .. Len(s)
  BY RecordsAt, EmptySeq
<1> QED
  BY <1>1, RecordsAt DEF LastSeq

\* A replay reaches the end of the window, if the window is past where it starts.
LEMMA ReplayReachesLast ==
    ASSUME recent \in Seq(Record), InOrder(recent), NEW q \in Nat, LastSeq(recent) > q
    PROVE  LastSeq(ReplayAfter(q)) = LastSeq(recent)
<1> DEFINE n == Len(recent)
           Past(i) == \A j \in i .. n : recent[j].seq > q
           Ends == {i \in 1 .. n + 1 : Past(i)}
<1>1. n \in Nat /\ \A i \in 1 .. n : recent[i].seq \in Nat
  BY RecordsAt
<1>2. n \in 1 .. n /\ recent[n].seq > q
  <2>1. recent # <<>>
    BY LastSeqNat
  <2>2. n # 0
    BY <2>1, EmptySeq
  <2> QED
    BY <1>1, <2>1, <2>2 DEF LastSeq
<1>3. n \in Ends /\ Ends \subseteq Nat
  BY <1>1, <1>2
<1>4. PICK f \in Ends : \A i \in Ends : f <= i
  BY <1>3, LeastExists
<1>5. f <= n
  BY <1>3, <1>4
<1>6. f > 1 => recent[f - 1].seq <= q
  <2> SUFFICES ASSUME f > 1, ~ (recent[f - 1].seq <= q) PROVE FALSE
    OBVIOUS
  <2>1. f - 1 \in 1 .. n /\ recent[f - 1].seq > q
    BY <1>1, <1>4, <1>5
  <2>2. f - 1 \in Ends
    BY <1>1, <1>4, <2>1
  <2> QED
    BY <1>1, <1>4, <2>2
<1>7. ASSUME NEW i \in 1 .. n + 1, i > 1 => recent[i - 1].seq <= q
      PROVE  i <= n
  BY <1>1, <1>2, <1>7
<1>8. FirstAfter(q) \in 1 .. n + 1 /\ (FirstAfter(q) > 1 => recent[FirstAfter(q) - 1].seq <= q)
  BY <1>4, <1>6 DEF FirstAfter
<1>9. FirstAfter(q) \in 1 .. n
  BY <1>1, <1>7, <1>8
<1> DEFINE m == Largest(FirstAfter(q), n + 1 - Limit)
<1>10. m \in 1 .. n
  BY <1>1, <1>9, GatewayEventsAssumption DEF Largest
<1> QED
  BY <1>10, SuffixKeepsLast DEF ReplayAfter

\* What a stream has read past stays behind it as long as its own place does not change:
\* what is sent goes to the end of the channel.
LEMMA ReadPastKept ==
    ASSUME Inv, NEW c \in Clients, ReadPast(c), sent' \in Seq(Record),
           Len(sent) <= Len(sent'), \A i \in DOMAIN sent : sent'[i] = sent[i],
           at'[c] = at[c], position'[c] = position[c], pending'[c] = pending[c],
           cursor'[c] = cursor[c]
    PROVE  ReadPast(c)'
<1>1. /\ Len(sent) \in Nat /\ DOMAIN sent = 1 .. Len(sent) /\ position[c] \in Nat
      /\ Len(sent') \in Nat /\ DOMAIN sent' = 1 .. Len(sent')
  BY ClientSizes, RecordsAt, LenProperties DEF Inv, TypeOK
<1>2. at'[c] \in {"replay", "live"} => position'[c] <= Len(sent') + 1
  BY <1>1 DEF ReadPast
<1>3. ASSUME at'[c] = "live", NEW i \in DOMAIN sent', i < position'[c]
      PROVE  sent'[i].seq <= cursor'[c] \/ sent'[i].seq <= LastSeq(pending'[c])
  <2>1. i \in DOMAIN sent
    BY <1>1, <1>3 DEF ReadPast
  <2> QED
    BY <1>3, <2>1 DEF ReadPast
<1> QED
  BY <1>2, <1>3 DEF ReadPast

\* The event published last ends the window.
LEMMA PublishReadPast ==
    ASSUME Inv, CaughtUpInv, NEW p \in Publishers, Publish(p)
    PROVE  CaughtUpInv'
<1>1. /\ recent \in Seq(Record) /\ nextSeq \in Nat /\ Capacity \in Nat \ {0}
      /\ sent \in Seq(Record) /\ InOrder(recent)
  BY GatewayEventsAssumption DEF Inv, TypeOK, Seqs, RetainedInOrder
<1>2. LastSeq(recent) \in Nat /\ LastSeq(recent) <= nextSeq
  <2>1. recent # <<>> => \E i \in DOMAIN recent : recent[i].seq = LastSeq(recent)
    BY <1>1, LastSeqLargest
  <2> QED
    BY <1>1, <2>1, LastSeqNat DEF Inv, RetainedInOrder
<1>3. PICK r : r = [seq |-> nextSeq + 1, id |-> Len(history) + 1]
  OBVIOUS
<1>4. r \in Record /\ r.seq = nextSeq + 1 /\ record' = [record EXCEPT ![p] = r]
      /\ recent' = LastOf(Append(recent, r), Capacity)
  <2>1. history \in Seq(Seqs) /\ Len(history) \in Nat
    BY LenProperties DEF Inv, TypeOK
  <2>2. /\ history' = Append(history, nextSeq + 1) /\ nextSeq' = nextSeq + 1
        /\ Len(history') = Len(history) + 1
    BY <2>1, <1>1, AppendProperties, GatewayEventsAssumption DEF Publish, Seqs
  <2>3. record' = [record EXCEPT ![p] = r] /\ recent' = LastOf(Append(recent, record'[p]), Capacity)
    BY <1>3, <2>2 DEF Publish
  <2>4. record'[p] = r
    BY <2>3 DEF Inv, TypeOK
  <2>5. r.seq = nextSeq + 1
    BY <1>3
  <2>6. r \in Record
    BY <1>1, <1>3, <2>1, GatewayEventsAssumption DEF Publish, Record, Seqs
  <2> QED
    BY <2>3, <2>4, <2>5, <2>6
<1>5. LastSeq(recent') = nextSeq + 1
  <2>1. PICK s \in Seq(Record) : s = Append(recent, r)
    BY <1>1, <1>4, AppendProperties
  <2>2. /\ Len(recent) \in Nat /\ Len(s) = Len(recent) + 1 /\ s[Len(s)] = r
    BY <1>1, <1>4, <2>1, RecordsAt, AppendProperties
  <2>3. s # <<>>
    BY <2>2, EmptySeq
  <2>4. LastSeq(s) = nextSeq + 1
    BY <1>4, <2>2, <2>3 DEF LastSeq
  <2>5. Largest(1, Len(s) + 1 - Capacity) \in 1 .. Len(s)
    BY <1>1, <2>2 DEF Largest
  <2>6. LastSeq(LastOf(s, Capacity)) = LastSeq(s)
    BY <2>5, SuffixKeepsLast DEF LastOf
  <2> QED
    BY <1>4, <2>1, <2>4, <2>6
<1>6. sent' = sent /\ \A i \in DOMAIN sent' : sent'[i].seq <= LastSeq(recent')
  <2>1. sent' = sent
    BY DEF Publish
  <2>2. \A i \in DOMAIN sent : sent[i].seq \in Nat /\ sent[i].seq <= LastSeq(recent)
    BY <1>1, RecordsAt DEF CaughtUpInv, SentRetained
  <2> QED
    BY <1>1, <1>2, <1>5, <2>1, <2>2
<1>7. ASSUME NEW q \in Publishers, at'[q] = "retained" PROVE record'[q].seq <= LastSeq(recent')
  <2>1. CASE q = p
    BY <1>1, <1>4, <1>5, <2>1 DEF Inv, TypeOK
  <2>2. CASE q # p
    <3>1. at'[q] = at[q] /\ record'[q] = record[q]
      BY <1>4, <2>2 DEF Inv, TypeOK, Publish, Goto, Threads
    <3>2. record[q].seq \in Nat /\ record[q].seq <= LastSeq(recent)
      BY <1>7, <3>1, GatewayEventsAssumption DEF Inv, RecordReady, Record, Seqs, CaughtUpInv, SentRetained
    <3> QED
      BY <1>1, <1>2, <1>5, <3>1, <3>2
  <2> QED
    BY <2>1, <2>2
<1>8. ASSUME NEW c \in Clients PROVE ReadPast(c)'
  <2>1. /\ at'[c] = at[c] /\ position'[c] = position[c] /\ pending'[c] = pending[c]
        /\ cursor'[c] = cursor[c]
    BY GatewayEventsAssumption DEF Inv, TypeOK, Publish, Goto, stream, client, Threads, Clients
  <2>2. Len(sent) <= Len(sent') /\ sent' \in Seq(Record)
    BY <1>1, <1>6, RecordsAt
  <2> QED
    BY <1>6, <2>1, <2>2, ReadPastKept DEF CaughtUpInv
<1> QED
  BY <1>6, <1>7, <1>8 DEF CaughtUpInv, SentRetained

\* An event goes into the channel when it is in the window.
LEMMA SendReadPast ==
    ASSUME Inv, CaughtUpInv, NEW p \in Publishers, Send(p)
    PROVE  CaughtUpInv'
<1>1. /\ record[p] \in Record /\ record[p].seq <= LastSeq(recent)
      /\ sent' = Append(sent, record[p]) /\ sent \in Seq(Record) /\ recent' = recent
  BY DEF Inv, TypeOK, RecordReady, Send, CaughtUpInv, SentRetained
<1>2. /\ sent' \in Seq(Record) /\ Len(sent') = Len(sent) + 1 /\ sent'[Len(sent) + 1] = record[p]
      /\ \A i \in 1 .. Len(sent) : sent'[i] = sent[i]
  BY <1>1, AppendProperties
<1>3. /\ Len(sent) \in Nat /\ DOMAIN sent = 1 .. Len(sent) /\ DOMAIN sent' = 1 .. Len(sent) + 1
  BY <1>1, <1>2, RecordsAt
<1>4. ASSUME NEW i \in DOMAIN sent' PROVE sent'[i].seq <= LastSeq(recent')
  <2>1. CASE i = Len(sent) + 1
    BY <1>1, <1>2, <2>1
  <2>2. CASE i # Len(sent) + 1
    <3>1. i \in DOMAIN sent
      BY <1>3, <2>2
    <3> QED
      BY <1>1, <1>2, <1>3, <3>1 DEF CaughtUpInv, SentRetained
  <2> QED
    BY <2>1, <2>2
<1>5. ASSUME NEW q \in Publishers, at'[q] = "retained" PROVE record'[q].seq <= LastSeq(recent')
  <2>1. q # p /\ at'[q] = at[q] /\ record'[q] = record[q]
    BY <1>5 DEF Inv, TypeOK, Send, Goto, Threads
  <2> QED
    BY <1>1, <1>5, <2>1 DEF CaughtUpInv, SentRetained
<1>6. ASSUME NEW c \in Clients PROVE ReadPast(c)'
  <2>1. /\ at'[c] = at[c] /\ position'[c] = position[c] /\ pending'[c] = pending[c]
        /\ cursor'[c] = cursor[c]
    BY GatewayEventsAssumption DEF Inv, TypeOK, Send, Goto, stream, client, Threads, Clients
  <2> QED
    BY <1>2, <1>3, <2>1, ReadPastKept DEF CaughtUpInv
<1> QED
  BY <1>4, <1>5, <1>6 DEF CaughtUpInv, SentRetained

\* A step of a thread that publishes nothing leaves the window's end where it is.
LEMMA ThreadReadPast ==
    ASSUME Inv, Inv', CaughtUpInv, NEW t \in Threads, at[t] # "retained",
           UNCHANGED <<bus, record>>, NEW step \in Steps \ {"retained"},
           at' = [at EXCEPT ![t] = step],
           \A d \in Clients \ {t} : /\ position'[d] = position[d] /\ pending'[d] = pending[d]
                                    /\ cursor'[d] = cursor[d],
           t \in Clients => ReadPast(t)'
    PROVE  CaughtUpInv'
<1>1. recent' = recent /\ sent' = sent /\ record' = record
  BY DEF bus
<1>2. at'[t] = step /\ \A u \in Threads \ {t} : at'[u] = at[u]
  BY DEF Inv, TypeOK
<1>3. SentRetained'
  BY <1>1, <1>2 DEF CaughtUpInv, SentRetained, Threads
<1>4. ASSUME NEW c \in Clients \ {t} PROVE ReadPast(c)'
  <2>1. sent' \in Seq(Record) /\ Len(sent) <= Len(sent')
    BY <1>1, LenProperties DEF Inv, TypeOK
  <2> QED
    BY <1>1, <1>2, <2>1, ReadPastKept DEF CaughtUpInv, Threads
<1> QED
  BY <1>3, <1>4 DEF CaughtUpInv

\* A thread at none of the two steps of a connected stream has nothing to keep.
LEMMA NotConnected ==
    ASSUME Inv, NEW c \in Clients, NEW step \in Steps \ {"replay", "live"},
           at' = [at EXCEPT ![c] = step]
    PROVE  ReadPast(c)'
<1>1. at'[c] = step
  BY DEF Inv, TypeOK, Threads
<1> QED
  BY <1>1 DEF ReadPast

\* Requests, and the persisting of what they read.
LEMMA RequestReadPast ==
    ASSUME Inv, Inv', CaughtUpInv, NEW t \in Threads,
           \/ Persist(t)
           \/ t \in Clients /\ (PollAcknowledging(t) \/ Poll(t) \/ ServePoll(t))
           \/ t \in Clients /\ (OpenStream(t) \/ CheckStream(t) \/ Disconnect(t))
    PROVE  CaughtUpInv'
<1>1. at[t] # "retained" /\ UNCHANGED <<bus, record>>
  BY DEF Persist, SnapshotLeases, LoadNextSeq, CloneRecent, WriteState, PollAcknowledging,
         Poll, ServePoll, CheckWindow, Fetch, OpenStream, CheckStream, Disconnect
<1>2. PICK step \in Steps \ {"retained", "replay", "live"} : at' = [at EXCEPT ![t] = step]
  <2>1. CASE Persist(t)
    BY <2>1 DEF Persist, SnapshotLeases, LoadNextSeq, CloneRecent, WriteState, Goto, Steps,
                PersistSteps
  <2>2. CASE PollAcknowledging(t) \/ Poll(t) \/ OpenStream(t) \/ Disconnect(t)
    BY <2>2 DEF PollAcknowledging, Poll, OpenStream, Disconnect, Goto, Steps, PersistSteps,
                StreamSteps
  <2>3. CASE ServePoll(t) \/ CheckStream(t)
    BY <2>3 DEF ServePoll, CheckWindow, Fetch, CheckStream, AnswerStale, Goto, Steps, StreamSteps
  <2> QED
    BY <2>1, <2>2, <2>3
<1>3. \A d \in Clients \ {t} : /\ position'[d] = position[d] /\ pending'[d] = pending[d]
                               /\ cursor'[d] = cursor[d]
  <2>1. CASE Persist(t) \/ PollAcknowledging(t) \/ Poll(t) \/ OpenStream(t)
    BY <2>1 DEF Persist, SnapshotLeases, LoadNextSeq, CloneRecent, WriteState, PollAcknowledging,
                Poll, OpenStream, stream, client
  <2>2. CASE ServePoll(t) \/ CheckStream(t)
    <3>1. position' = position /\ pending' = pending
          /\ (cursor' = cursor \/ \E n : cursor' = [cursor EXCEPT ![t] = n])
      BY <2>2 DEF ServePoll, CheckWindow, Fetch, CheckStream, AnswerStale, Deliver, stream, client
    <3> QED
      BY <3>1 DEF Inv, TypeOK
  <2>3. CASE Disconnect(t)
    <3>1. /\ position' = [position EXCEPT ![t] = 1] /\ pending' = [pending EXCEPT ![t] = <<>>]
          /\ cursor' = cursor
      BY <2>3 DEF Disconnect, client
    <3> QED
      BY <3>1 DEF Inv, TypeOK
  <2> QED
    BY <2>1, <2>2, <2>3
<1>4. t \in Clients => ReadPast(t)'
  BY <1>2, NotConnected
<1> QED
  BY <1>1, <1>2, <1>3, <1>4, ThreadReadPast

\* A stream subscribes at the end of the channel; one that lags skips what the channel
\* has dropped, and replays the window, to whose end everything sent has come.
LEMMA SkipReadPast ==
    ASSUME Inv, Inv', CaughtUpInv, NEW c \in Clients, Subscribe(c) \/ Lag(c) \/ Replay(c)
    PROVE  CaughtUpInv'
<1>1. /\ c \in Threads /\ cursor[c] \in Nat /\ Len(sent) \in Nat /\ sent \in Seq(Record)
      /\ recent \in Seq(Record) /\ InOrder(recent) /\ position[c] \in Nat
      /\ DOMAIN sent = 1 .. Len(sent)
  BY ClientSizes, LenProperties DEF Inv, TypeOK, Threads, RetainedInOrder
<1>2. CASE Subscribe(c) \/ Lag(c)
  <2>1. /\ at[c] # "retained" /\ UNCHANGED <<bus, record>> /\ sent' = sent
        /\ at' = [at EXCEPT ![c] = "replay"] /\ pending' = pending /\ cursor' = cursor
        /\ \E n \in 1 .. Len(sent) + 1 : position' = [position EXCEPT ![c] = n]
    <3>1. Len(sent) + 1 \in 1 .. Len(sent) + 1 /\ OldestSent \in 1 .. Len(sent) + 1
      BY <1>1, GatewayEventsAssumption DEF OldestSent, Largest
    <3> QED
      BY <1>2, <3>1 DEF Subscribe, Lag, Goto, bus, client
  <2>2. PICK n \in 1 .. Len(sent) + 1 : position' = [position EXCEPT ![c] = n]
    BY <2>1
  <2>3. /\ at'[c] = "replay" /\ position'[c] = n
        /\ \A d \in Clients \ {c} : position'[d] = position[d]
    BY <1>1, <2>1, <2>2 DEF Inv, TypeOK
  <2>4. ReadPast(c)'
    BY <1>1, <2>1, <2>2, <2>3 DEF ReadPast
  <2>5. "replay" \in Steps \ {"retained"}
    BY DEF Steps, StreamSteps
  <2> QED
    BY <1>1, <2>1, <2>3, <2>4, <2>5, ThreadReadPast
<1>3. CASE Replay(c)
  <2>1. /\ at[c] = "replay" /\ UNCHANGED <<bus, record>> /\ sent' = sent
        /\ at' = [at EXCEPT ![c] = "live"] /\ cursor' = cursor /\ position' = position
        /\ pending' = [pending EXCEPT ![c] = ReplayAfter(cursor[c])]
    BY <1>3 DEF Replay, Goto, bus, client
  <2>2. /\ at'[c] = "live" /\ pending'[c] = ReplayAfter(cursor[c])
        /\ \A d \in Clients \ {c} : pending'[d] = pending[d]
    BY <1>1, <2>1 DEF Inv, TypeOK
  <2>3. position[c] <= Len(sent) + 1
    BY <2>1 DEF CaughtUpInv, ReadPast
  <2>4. ASSUME NEW i \in DOMAIN sent
        PROVE  sent[i].seq <= cursor[c] \/ sent[i].seq <= LastSeq(ReplayAfter(cursor[c]))
    <3>1. sent[i].seq \in Nat /\ LastSeq(recent) \in Nat /\ sent[i].seq <= LastSeq(recent)
      BY <1>1, RecordsAt, LastSeqNat DEF CaughtUpInv, SentRetained
    <3>2. CASE LastSeq(recent) > cursor[c]
      BY <1>1, <3>1, <3>2, ReplayReachesLast
    <3>3. CASE ~(LastSeq(recent) > cursor[c])
      BY <1>1, <3>1, <3>3
    <3> QED
      BY <3>2, <3>3
  <2>5. ReadPast(c)'
    BY <2>1, <2>2, <2>3, <2>4 DEF ReadPast
  <2>6. "live" \in Steps \ {"retained"} /\ at[c] # "retained"
    BY <2>1 DEF Steps, StreamSteps
  <2> QED
    BY <1>1, <2>1, <2>2, <2>5, <2>6, ThreadReadPast
<1> QED
  BY <1>2, <1>3

\* What a live stream is given takes its cursor along, over what it replays and what it
\* receives alike; what it takes for a repetition its cursor has passed.
LEMMA ServeReadPast ==
    ASSUME Inv, Inv', CaughtUpInv, NEW c \in Clients, DeliverPending(c) \/ Receive(c)
    PROVE  CaughtUpInv'
<1>1. /\ c \in Threads /\ cursor[c] \in Nat /\ Len(sent) \in Nat /\ sent \in Seq(Record)
      /\ position[c] \in Nat /\ DOMAIN sent = 1 .. Len(sent)
      /\ pending[c] \in Seq(Record) /\ InOrder(pending[c])
      /\ \A i \in DOMAIN pending[c] : pending[c][i].seq > cursor[c]
  BY ClientSizes, LenProperties DEF Inv, TypeOK, Threads, PendingAhead
<1>2. /\ at[c] = "live" /\ at' = [at EXCEPT ![c] = "live"] /\ UNCHANGED <<bus, record>>
      /\ sent' = sent /\ at' = at
  BY <1>1 DEF DeliverPending, Receive, Inv, TypeOK, bus
<1>3. /\ "live" \in Steps \ {"retained"} /\ at[c] # "retained" /\ at'[c] = "live"
  BY <1>2 DEF Steps, StreamSteps
<1>4. /\ position[c] <= Len(sent) + 1
      /\ \A i \in DOMAIN sent :
            i < position[c] => sent[i].seq <= cursor[c] \/ sent[i].seq <= LastSeq(pending[c])
      /\ \A i \in DOMAIN sent : sent[i].seq \in Nat /\ sent[i].seq > 0
  <2>1. ASSUME NEW i \in DOMAIN sent PROVE sent[i].seq \in Nat /\ sent[i].seq > 0
    <3>1. sent[i] \in Record
      BY <1>1, RecordsAt
    <3> QED
      BY <3>1, GatewayEventsAssumption DEF Record, Seqs
  <2> QED
    BY <1>2, <2>1 DEF CaughtUpInv, ReadPast
<1>5. CASE DeliverPending(c)
  <2>1. /\ pending[c] # <<>> /\ position' = position /\ Deliver(c, <<Head(pending[c])>>)
        /\ pending' = [pending EXCEPT ![c] = Tail(pending[c])]
    BY <1>5 DEF DeliverPending
  <2>2. PICK s \in Seq(Record) : s = pending[c]
    BY <1>1
  <2>3. PICK r \in Record : r = Head(s) /\ r = s[1]
    BY <1>1, <2>1, <2>2, TailInOrder
  <2>4. <<r>> \in Seq(Record) /\ <<r>> # <<>> /\ Len(<<r>>) = 1 /\ <<r>>[1] = r
    BY <2>3
  <2>5. /\ cursor' = [cursor EXCEPT ![c] = r.seq]
    BY <2>1, <2>2, <2>3, <2>4 DEF Deliver, NextCursor, LastSeq
  <2>6. /\ cursor'[c] = r.seq /\ \A d \in Clients \ {c} : cursor'[d] = cursor[d]
        /\ pending'[c] = Tail(s) /\ \A d \in Clients \ {c} : pending'[d] = pending[d]
    BY <2>1, <2>2, <2>5 DEF Inv, TypeOK
  <2>7. Len(s) \in Nat /\ Len(s) >= 1 /\ 1 \in DOMAIN s /\ r.seq \in Nat /\ r.seq > cursor[c]
    <3>1. Len(s) \in Nat /\ DOMAIN s = 1 .. Len(s) /\ Len(s) # 0
      BY <2>1, <2>2, RecordsAt, EmptySeq
    <3>2. 1 \in DOMAIN s
      BY <3>1
    <3>3. r.seq > cursor[c]
      BY <1>1, <2>2, <2>3, <3>2
    <3>4. r.seq \in Nat
      BY <2>3, GatewayEventsAssumption DEF Record, Seqs
    <3> QED
      BY <3>1, <3>2, <3>3, <3>4
  <2>8. LastSeq(s) = r.seq \/ LastSeq(s) = LastSeq(Tail(s))
    <3>1. CASE Len(s) = 1
      BY <2>1, <2>2, <2>3, <3>1 DEF LastSeq
    <3>2. CASE Len(s) # 1
      <4>1. 2 \in 1 .. Len(s)
        <5>1. PICK n \in Nat : n = Len(s)
          BY <2>7
        <5>2. n >= 1 /\ n # 1
          BY <2>7, <3>2, <5>1
        <5>3. 2 \in 1 .. n
          BY <5>2
        <5> QED
          BY <5>1, <5>3
      <4>2. Tail(s) = SubSeq(s, 2, Len(s))
        BY <2>1, <2>2, TailIsSubSeq
      <4> QED
        BY <4>1, <4>2, SuffixKeepsLast
    <3> QED
      BY <3>1, <3>2
  <2>9. ASSUME NEW i \in DOMAIN sent, i < position[c]
        PROVE  sent[i].seq <= cursor'[c] \/ sent[i].seq <= LastSeq(pending'[c])
    <3>1. sent[i].seq <= cursor[c] => sent[i].seq <= r.seq
      BY <1>1, <1>4, <2>7
    <3> QED
      BY <1>4, <2>2, <2>6, <2>8, <2>9, <3>1
  <2>10. ReadPast(c)'
    <3>1. position'[c] = position[c]
      BY <2>1
    <3> QED
      BY <1>2, <1>4, <2>9, <3>1 DEF ReadPast
  <2>11. \A d \in Clients \ {c} : position'[d] = position[d]
    BY <2>1
  <2> QED
    BY <1>1, <1>2, <1>3, <2>6, <2>10, <2>11, ThreadReadPast
<1>6. CASE Receive(c)
  <2>1. /\ pending[c] = <<>> /\ pending' = pending /\ position[c] \in OldestSent .. Len(sent)
        /\ position' = [position EXCEPT ![c] = position[c] + 1]
        /\ IF AlreadySeen(c, sent[position[c]])
           THEN UNCHANGED <<got, cursor>>
           ELSE Deliver(c, <<sent[position[c]]>>)
    BY <1>6 DEF Receive
  <2>2. /\ position'[c] = position[c] + 1
        /\ \A d \in Clients \ {c} : position'[d] = position[d]
    BY <2>1 DEF Inv, TypeOK
  <2>3. position[c] \in 1 .. Len(sent)
    BY <1>1, <2>1, GatewayEventsAssumption DEF OldestSent, Largest
  <2>4. PICK r \in Record : r = sent[position[c]]
    BY <1>1, <2>3, RecordsAt
  <2>5. <<r>> \in Seq(Record) /\ <<r>> # <<>> /\ Len(<<r>>) = 1 /\ <<r>>[1] = r
    BY <2>4
  <2>6. /\ cursor'[c] = IF r.seq <= cursor[c] THEN cursor[c] ELSE r.seq
        /\ \A d \in Clients \ {c} : cursor'[d] = cursor[d]
    <3>1. CASE r.seq <= cursor[c]
      BY <2>1, <2>4, <3>1 DEF AlreadySeen
    <3>2. CASE ~(r.seq <= cursor[c])
      <4>1. Deliver(c, <<r>>)
        BY <2>1, <2>4, <3>2 DEF AlreadySeen
      <4>2. cursor' = [cursor EXCEPT ![c] = r.seq]
        BY <2>5, <4>1 DEF Deliver, NextCursor, LastSeq
      <4> QED
        BY <3>2, <4>2 DEF Inv, TypeOK
    <3> QED
      BY <3>1, <3>2
  <2>7. r.seq \in Nat /\ r.seq <= cursor'[c] /\ cursor[c] <= cursor'[c] /\ cursor'[c] \in Nat
    <3>1. r.seq \in Nat
      BY <2>4, GatewayEventsAssumption DEF Record, Seqs
    <3> QED
      BY <1>1, <2>6, <3>1
  <2>8. ASSUME NEW i \in DOMAIN sent, i < position[c] + 1
        PROVE  sent[i].seq <= cursor'[c]
    <3>1. CASE i = position[c]
      BY <2>4, <2>7, <3>1
    <3>2. CASE i # position[c]
      <4>1. i < position[c]
        BY <1>1, <2>8, <3>2
      <4>2. sent[i].seq <= cursor[c] \/ sent[i].seq <= LastSeq(pending[c])
        BY <1>4, <4>1
      <4>3. LastSeq(pending[c]) = 0
        BY <2>1 DEF LastSeq
      <4>4. sent[i].seq \in Nat /\ sent[i].seq > 0 /\ sent[i].seq <= cursor[c]
        BY <1>4, <4>2, <4>3
      <4> QED
        BY <1>1, <2>7, <4>4
    <3> QED
      BY <3>1, <3>2
  <2>9. ReadPast(c)'
    <3>1. position'[c] <= Len(sent) + 1
      BY <1>1, <2>2, <2>3
    <3> QED
      BY <1>2, <2>2, <2>8, <3>1 DEF ReadPast
  <2>10. \A d \in Clients \ {c} : pending'[d] = pending[d]
    BY <2>1
  <2> QED
    BY <1>1, <1>2, <1>3, <2>2, <2>6, <2>9, <2>10, ThreadReadPast
<1> QED
  BY <1>5, <1>6

\* A start, the first one or a restart, closes every connection and empties the channel.
LEMMA FreshReadPast ==
    ASSUME sent = <<>>, \A t \in Threads : at[t] = "idle"
    PROVE  CaughtUpInv
BY EmptySeq DEF CaughtUpInv, SentRetained, ReadPast, Threads, Clients

\* Every step keeps what was read past behind.
LEMMA CaughtUpNext == Inv /\ Inv' /\ CaughtUpInv /\ [Next]_vars => CaughtUpInv'
<1> SUFFICES ASSUME Inv, Inv', CaughtUpInv, [Next]_vars PROVE CaughtUpInv'
  OBVIOUS
<1>1. ASSUME NEW p \in Publishers, Publish(p) \/ Send(p) \/ Persist(p) PROVE CaughtUpInv'
  BY <1>1, PublishReadPast, SendReadPast, RequestReadPast DEF Threads
<1>2. ASSUME NEW c \in Pollers,
             PollAcknowledging(c) \/ Poll(c) \/ Persist(c) \/ ServePoll(c)
      PROVE  CaughtUpInv'
  BY <1>2, RequestReadPast DEF Threads, Clients
<1>3. ASSUME NEW c \in Streamers, OpenStream(c) \/ ServeStream(c) \/ Disconnect(c)
      PROVE  CaughtUpInv'
  BY <1>3, RequestReadPast, SkipReadPast, ServeReadPast DEF ServeStream, Threads, Clients
<1>4. CASE Restart
  <2>1. sent' = <<>> /\ \A t \in Threads : at'[t] = "idle"
    BY <1>4 DEF Restart
  <2>2. DOMAIN sent' = {}
    BY <2>1, EmptySeq
  <2> QED
    BY <2>1, <2>2 DEF CaughtUpInv, SentRetained, ReadPast, Threads, Clients
<1>5. CASE UNCHANGED vars
  <2>1. UNCHANGED <<bus, record, at, position, pending, cursor>>
    BY <1>5 DEF vars, stream, client
  <2> QED
    BY <2>1 DEF CaughtUpInv, SentRetained, ReadPast, bus
<1> QED
  BY <1>1, <1>2, <1>3, <1>4, <1>5 DEF Next

\* A stream is behind only while it has something to replay or to receive, over any mix
\* of lag, repetitions, reconnections and restarts and for publishers that send in any
\* order: nothing it skips in the channel is missing from the window it then replays
\* (next_gateway_sse_item). The fairness of its connection does the rest of StreamCatchesUp.
THEOREM StreamsCaughtUp == Spec => []CaughtUp
<1>1. Init => CaughtUpInv
  BY FreshReadPast DEF Init
<1>2. Inv /\ CaughtUpInv => CaughtUp
  <2> SUFFICES ASSUME Inv, CaughtUpInv, NEW c \in Clients, at[c] = "live", pending[c] = <<>>,
                      position[c] > Len(sent), NEW i \in DOMAIN sent
               PROVE  sent[i].seq <= cursor[c]
    BY DEF CaughtUp
  <2>1. /\ Len(sent) \in Nat /\ DOMAIN sent = 1 .. Len(sent) /\ position[c] \in Nat
        /\ sent[i] \in Record /\ LastSeq(pending[c]) = 0
    BY ClientSizes, RecordsAt DEF Inv, TypeOK, LastSeq
  <2>2. i < position[c] /\ sent[i].seq \in Nat /\ sent[i].seq > 0
    BY <2>1, GatewayEventsAssumption DEF Record, Seqs
  <2> QED
    BY <2>1, <2>2 DEF CaughtUpInv, ReadPast
<1> QED
  BY <1>1, <1>2, InitInv, NextInv, CaughtUpNext, PTL DEF Spec
=============================================================================

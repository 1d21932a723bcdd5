------------------------ MODULE SignalClient_proofs ------------------------
(* Proofs about SignalClient, for any bounds.                              *)
EXTENDS SignalClient, SequenceTheorems, TLAPS

-----------------------------------------------------------------------------
(* The requests at the server, with the coroutines and in the queue, told  *)
(* pair by pair: no joined sequence is needed until the end.               *)

Spawned == [request : Nat, link : Nat]

Before(s, t) == \A i \in 1 .. Len(s), j \in 1 .. Len(t) : s[i] < t[j]
Rising(s) == \A i, j \in 1 .. Len(s) : i < j => s[i] < s[j]
UpTo(s, bound) == \A i \in 1 .. Len(s) : s[i] <= bound

\* The requests that coroutines hold.
Held(coroutines) == [i \in DOMAIN coroutines |-> coroutines[i].request]

Ordered(server, held, waiting, bound) ==
  /\ Rising(server) /\ Rising(held) /\ Rising(waiting)
  /\ Before(server, held) /\ Before(server, waiting) /\ Before(held, waiting)
  /\ UpTo(server, bound) /\ UpTo(held, bound) /\ UpTo(waiting, bound)

LEMMA HeldTyped ==
  ASSUME NEW c \in Seq(Spawned)
  PROVE  /\ Held(c) \in Seq(Nat) /\ Len(Held(c)) = Len(c)
         /\ \A i \in 1 .. Len(c) : Held(c)[i] = c[i].request
<1>1. DOMAIN c = 1 .. Len(c) /\ Len(c) \in Nat /\ \A i \in 1 .. Len(c) : c[i] \in Spawned
  BY LenProperties, ElementOfSeq
<1>2. \A i \in 1 .. Len(c) : c[i].request \in Nat
  BY <1>1 DEF Spawned
<1>3. Held(c) = [i \in 1 .. Len(c) |-> c[i].request]
  BY <1>1 DEF Held
<1>4. QED
  BY <1>1, <1>2, <1>3

\* A new request is later than all.
LEMMA Enqueued ==
  ASSUME NEW w \in Seq(Nat), NEW h \in Seq(Nat), NEW q \in Seq(Nat), NEW bound \in Nat,
         Ordered(w, h, q, bound)
  PROVE  Ordered(w, h, Append(q, bound + 1), bound + 1)
<1> DEFINE longer == Append(q, bound + 1)
<1>1. /\ Len(longer) = Len(q) + 1
      /\ \A i \in 1 .. Len(q) : longer[i] = q[i] /\ q[i] \in Nat
      /\ longer[Len(q) + 1] = bound + 1
      /\ \A i \in 1 .. Len(w) : w[i] \in Nat
      /\ \A i \in 1 .. Len(h) : h[i] \in Nat
      /\ Len(q) \in Nat /\ Len(w) \in Nat /\ Len(h) \in Nat
  OBVIOUS
<1> HIDE DEF longer
<1>2. \A i \in 1 .. Len(longer) : i \in 1 .. Len(q) \/ i = Len(q) + 1
  BY <1>1
<1>3. Rising(longer)
  <2>1. Rising(q) /\ UpTo(q, bound)
    BY DEF Ordered
  <2>2. SUFFICES ASSUME NEW i \in 1 .. Len(longer), NEW j \in 1 .. Len(longer), i < j
                 PROVE  longer[i] < longer[j]
    BY DEF Rising
  <2>3. i \in 1 .. Len(q) /\ longer[i] = q[i] /\ q[i] <= bound /\ q[i] \in Nat
    BY <1>1, <2>1, <2>2 DEF UpTo
  <2>4. CASE j \in 1 .. Len(q)
    BY <1>1, <2>1, <2>2, <2>3, <2>4 DEF Rising
  <2>5. CASE j = Len(q) + 1
    BY <1>1, <2>3, <2>5
  <2>6. QED
    BY <1>2, <2>4, <2>5
<1>4. Before(w, longer) /\ Before(h, longer)
  <2>1. /\ Before(w, q) /\ Before(h, q)
        /\ \A i \in 1 .. Len(w) : w[i] < bound + 1
        /\ \A i \in 1 .. Len(h) : h[i] < bound + 1
    BY SMTT(30), <1>1 DEF Ordered, UpTo
  <2>2. QED
    BY <1>1, <1>2, <2>1 DEF Before
<1>5. UpTo(w, bound + 1) /\ UpTo(h, bound + 1) /\ UpTo(longer, bound + 1)
  <2>1. /\ \A i \in 1 .. Len(w) : w[i] <= bound + 1
        /\ \A i \in 1 .. Len(h) : h[i] <= bound + 1
        /\ \A i \in 1 .. Len(q) : q[i] <= bound + 1
    BY <1>1 DEF Ordered, UpTo
  <2>2. QED
    BY SMTT(30), <1>1, <1>2, <2>1 DEF UpTo
<1>6. QED
  BY <1>3, <1>4, <1>5 DEF Ordered, longer

\* What is flushed goes behind what coroutines already hold.
LEMMA Flushed ==
  ASSUME NEW w \in Seq(Nat), NEW h \in Seq(Nat), NEW q \in Seq(Nat), NEW bound \in Nat,
         Ordered(w, h, q, bound)
  PROVE  Ordered(w, h \o q, <<>>, bound)
<1> DEFINE joined == h \o q
<1>1. /\ Len(joined) = Len(h) + Len(q)
      /\ \A i \in 1 .. Len(joined) :
           \/ i \in 1 .. Len(h) /\ joined[i] = h[i]
           \/ i - Len(h) \in 1 .. Len(q) /\ i > Len(h) /\ joined[i] = q[i - Len(h)]
  <2>1. /\ Len(joined) = Len(h) + Len(q)
        /\ \A i \in 1 .. Len(h) + Len(q) :
             joined[i] = IF i <= Len(h) THEN h[i] ELSE q[i - Len(h)]
    BY ConcatProperties
  <2>2. Len(h) \in Nat /\ Len(q) \in Nat
    BY LenProperties
  <2> HIDE DEF joined
  <2>3. QED
    BY <2>1, <2>2
<1>2. /\ Len(h) \in Nat /\ Len(q) \in Nat /\ Len(joined) \in Nat
      /\ \A i \in 1 .. Len(h) : h[i] \in Nat
      /\ \A i \in 1 .. Len(q) : q[i] \in Nat
  BY <1>1, LenProperties, ElementOfSeq
<1>3. Len(<<>>) = 0
  OBVIOUS
<1> HIDE DEF joined
<1>4. Rising(joined)
  <2>1. SUFFICES ASSUME NEW i \in 1 .. Len(joined), NEW j \in 1 .. Len(joined), i < j
                 PROVE  joined[i] < joined[j]
    BY DEF Rising
  <2>2. Rising(h) /\ Rising(q) /\ Before(h, q)
    BY DEF Ordered
  <2>3. CASE i \in 1 .. Len(h) /\ j \in 1 .. Len(h)
    <3>1. joined[i] = h[i] /\ joined[j] = h[j]
      BY <1>1, <1>2, <2>3
    <3>2. QED
      BY <2>1, <2>2, <2>3, <3>1 DEF Rising
  <2>4. CASE i \in 1 .. Len(h) /\ j > Len(h)
    <3>1. joined[i] = h[i]
      BY <1>1, <1>2, <2>4
    <3>2. j - Len(h) \in 1 .. Len(q) /\ joined[j] = q[j - Len(h)]
      BY <1>1, <1>2, <2>4
    <3>3. QED
      BY <2>2, <2>4, <3>1, <3>2 DEF Before
  <2>5. CASE i > Len(h) /\ j > Len(h)
    <3>1. /\ i - Len(h) \in 1 .. Len(q) /\ joined[i] = q[i - Len(h)]
          /\ j - Len(h) \in 1 .. Len(q) /\ joined[j] = q[j - Len(h)]
          /\ i - Len(h) < j - Len(h)
      BY <1>1, <1>2, <2>1, <2>5
    <3>2. QED
      BY <2>2, <3>1 DEF Rising
  <2>6. QED
    BY <1>2, <2>1, <2>3, <2>4, <2>5
<1>5. Before(w, joined) /\ UpTo(joined, bound)
  BY <1>1 DEF Ordered, Before, UpTo
<1>6. Rising(<<>>) /\ Before(w, <<>>) /\ Before(joined, <<>>) /\ UpTo(<<>>, bound)
  BY <1>3 DEF Rising, Before, UpTo
<1>7. QED
  BY <1>4, <1>5, <1>6 DEF Ordered, joined

\* The first coroutine ends; what it sent on a link that is gone is lost.
LEMMA Lost ==
  ASSUME NEW w \in Seq(Nat), NEW h \in Seq(Nat), NEW q \in Seq(Nat), NEW bound \in Nat,
         Ordered(w, h, q, bound), h # <<>>
  PROVE  Ordered(w, Tail(h), q, bound)
<1> DEFINE rest == Tail(h)
<1>1. /\ Len(rest) = Len(h) - 1 /\ Len(h) \in Nat \ {0}
      /\ \A i \in 1 .. Len(rest) : rest[i] = h[i + 1]
  BY HeadTailProperties, EmptySeq, LenProperties
<1> HIDE DEF rest
<1>2. \A i \in 1 .. Len(rest) : i + 1 \in 1 .. Len(h)
  BY <1>1
<1>3. Rising(rest)
  <2>1. Rising(h)
    BY DEF Ordered
  <2>2. SUFFICES ASSUME NEW i \in 1 .. Len(rest), NEW j \in 1 .. Len(rest), i < j
                 PROVE  rest[i] < rest[j]
    BY DEF Rising
  <2>3. i + 1 \in 1 .. Len(h) /\ j + 1 \in 1 .. Len(h) /\ i + 1 < j + 1
    BY <1>1, <2>2
  <2>4. rest[i] = h[i + 1] /\ rest[j] = h[j + 1]
    BY <1>1
  <2>5. QED
    BY <2>1, <2>3, <2>4 DEF Rising
<1>4. Before(w, rest) /\ Before(rest, q) /\ UpTo(rest, bound)
  BY <1>1, <1>2 DEF Ordered, Before, UpTo
<1>5. QED
  BY <1>3, <1>4 DEF Ordered, rest

LEMMA Sent ==
  ASSUME NEW w \in Seq(Nat), NEW h \in Seq(Nat), NEW q \in Seq(Nat), NEW bound \in Nat,
         Ordered(w, h, q, bound), h # <<>>
  PROVE  Ordered(Append(w, Head(h)), Tail(h), q, bound)
<1> DEFINE longer == Append(w, Head(h))
           rest == Tail(h)
<1>1. /\ Len(rest) = Len(h) - 1 /\ Len(h) \in Nat \ {0}
      /\ \A i \in 1 .. Len(rest) : rest[i] = h[i + 1]
      /\ Head(h) = h[1] /\ h[1] \in Nat
  BY HeadTailProperties, EmptySeq, LenProperties, ElementOfSeq
<1>2. /\ Len(longer) = Len(w) + 1 /\ Len(w) \in Nat
      /\ \A i \in 1 .. Len(w) : longer[i] = w[i]
      /\ longer[Len(w) + 1] = h[1]
  BY <1>1
<1>3. Ordered(w, rest, q, bound)
  BY Lost
<1> HIDE DEF rest, longer
<1>4. /\ \A i \in 1 .. Len(longer) : i \in 1 .. Len(w) \/ i = Len(w) + 1
      /\ \A i \in 1 .. Len(rest) : i + 1 \in 1 .. Len(h) /\ 1 < i + 1
      /\ 1 \in 1 .. Len(h)
  BY <1>1, <1>2
<1>5. Rising(longer)
  <2>1. \A i, j \in 1 .. Len(longer) : i < j => i \in 1 .. Len(w)
    BY <1>2
  <2>2. Rising(w) /\ Before(w, h)
    BY DEF Ordered
  <2>3. QED
    BY <1>2, <1>4, <2>1, <2>2 DEF Rising, Before
<1>6. Before(longer, rest)
  <2>1. Before(w, h) /\ Rising(h)
    BY DEF Ordered
  <2>2. \A j \in 1 .. Len(rest) : h[1] < rest[j]
    BY <1>1, <1>4, <2>1 DEF Rising
  <2>3. \A i \in 1 .. Len(w), j \in 1 .. Len(rest) : w[i] < rest[j]
    BY <1>3 DEF Ordered, Before
  <2>4. QED
    BY <1>2, <1>4, <2>2, <2>3 DEF Before
<1>7. Before(longer, q) /\ UpTo(longer, bound)
  BY <1>2, <1>4 DEF Ordered, Before, UpTo
<1>8. QED
  BY <1>3, <1>5, <1>6, <1>7 DEF Ordered, longer, rest

LEMMA FlushedToCoroutines ==
  ASSUME NEW c \in Seq(Spawned), NEW requests \in Seq(Nat), link.number \in Nat
  PROVE  /\ c \o OnLink(requests) \in Seq(Spawned)
         /\ Held(c \o OnLink(requests)) = Held(c) \o requests
<1> DEFINE added == OnLink(requests)
           both == c \o added
           joined == Held(c) \o requests
<1>1. /\ added \in Seq(Spawned) /\ Len(added) = Len(requests)
      /\ \A i \in 1 .. Len(requests) : added[i].request = requests[i]
  BY DEF OnLink, Spawned
<1>2. /\ Held(c) \in Seq(Nat) /\ Len(Held(c)) = Len(c)
      /\ \A i \in 1 .. Len(c) : Held(c)[i] = c[i].request
  BY HeldTyped
<1>3. Len(c) \in Nat /\ Len(requests) \in Nat
  BY LenProperties
<1> HIDE DEF added
<1>4. /\ both \in Seq(Spawned) /\ Len(both) = Len(c) + Len(requests)
      /\ \A i \in 1 .. Len(c) + Len(requests) :
           both[i] = IF i <= Len(c) THEN c[i] ELSE added[i - Len(c)]
  <2>1. /\ both \in Seq(Spawned) /\ Len(both) = Len(c) + Len(added)
        /\ \A i \in 1 .. Len(c) + Len(added) :
             both[i] = IF i <= Len(c) THEN c[i] ELSE added[i - Len(c)]
    BY ZenonT(30), <1>1, ConcatProperties
  <2> HIDE DEF both
  <2>2. QED
    BY <1>1, <2>1
<1>5. /\ joined \in Seq(Nat) /\ Len(joined) = Len(c) + Len(requests)
      /\ \A i \in 1 .. Len(c) + Len(requests) :
           joined[i] = IF i <= Len(c) THEN Held(c)[i] ELSE requests[i - Len(c)]
  <2>1. /\ joined \in Seq(Nat) /\ Len(joined) = Len(Held(c)) + Len(requests)
        /\ \A i \in 1 .. Len(Held(c)) + Len(requests) :
             joined[i] = IF i <= Len(Held(c)) THEN Held(c)[i] ELSE requests[i - Len(Held(c))]
    BY <1>2, ConcatProperties
  <2> HIDE DEF joined
  <2>2. QED
    BY <1>2, <2>1
<1> HIDE DEF both, joined
<1>6. /\ Held(both) \in Seq(Nat) /\ Len(Held(both)) = Len(both)
      /\ \A i \in 1 .. Len(both) : Held(both)[i] = both[i].request
  BY <1>4, HeldTyped
<1>7. ASSUME NEW i \in 1 .. Len(both)
      PROVE  Held(both)[i] = joined[i]
  <2>1. CASE i <= Len(c)
    <3>1. i \in 1 .. Len(c) /\ both[i] = c[i] /\ joined[i] = Held(c)[i]
      BY <1>3, <1>4, <1>5, <2>1
    <3>2. QED
      BY <1>2, <1>6, <3>1
  <2>2. CASE i > Len(c)
    <3>1. /\ i - Len(c) \in 1 .. Len(requests)
          /\ both[i] = added[i - Len(c)] /\ joined[i] = requests[i - Len(c)]
      BY <1>3, <1>4, <1>5, <2>2
    <3>2. QED
      BY <1>1, <1>6, <3>1
  <2>3. QED
    BY <1>3, <2>1, <2>2
<1>8. Held(both) = joined
  <2>1. Len(Held(both)) = Len(joined)
    BY <1>4, <1>5, <1>6
  <2>2. QED
    BY <1>5, <1>6, <1>7, <2>1, SeqEqual
<1>9. QED
  BY <1>4, <1>8 DEF both, added, joined

LEMMA FirstEnds ==
  ASSUME NEW c \in Seq(Spawned), c # <<>>
  PROVE  /\ Held(c) # <<>> /\ Tail(c) \in Seq(Spawned)
         /\ Head(Held(c)) = Head(c).request /\ Held(Tail(c)) = Tail(Held(c))
<1> DEFINE h == Held(c)
           rest == Tail(c)
           tail == Tail(h)
<1>1. /\ h \in Seq(Nat) /\ Len(h) = Len(c) /\ \A i \in 1 .. Len(c) : h[i] = c[i].request
  BY HeldTyped
<1>2. /\ rest \in Seq(Spawned) /\ Len(rest) = Len(c) - 1 /\ Len(c) \in Nat \ {0}
      /\ \A i \in 1 .. Len(rest) : rest[i] = c[i + 1]
      /\ Head(c) = c[1]
  BY HeadTailProperties, EmptySeq, LenProperties
<1> HIDE DEF h
<1>3. h # <<>> /\ Head(h) = h[1]
  BY <1>1, <1>2
<1>4. /\ tail \in Seq(Nat) /\ Len(tail) = Len(h) - 1
      /\ \A i \in 1 .. Len(tail) : tail[i] = h[i + 1]
  BY <1>1, <1>3, HeadTailProperties
<1> HIDE DEF rest, tail
<1>5. /\ Held(rest) \in Seq(Nat) /\ Len(Held(rest)) = Len(rest)
      /\ \A i \in 1 .. Len(rest) : Held(rest)[i] = rest[i].request
  BY <1>2, HeldTyped
<1>6. Len(tail) = Len(rest) /\ \A i \in 1 .. Len(rest) : i + 1 \in 1 .. Len(c)
  BY <1>1, <1>2, <1>4
<1>7. \A i \in 1 .. Len(rest) : Held(rest)[i] = tail[i]
  BY <1>1, <1>2, <1>4, <1>5, <1>6
<1>8. Held(rest) = tail
  BY <1>4, <1>5, <1>6, <1>7, SeqEqual
<1>9. QED
  <2>1. 1 \in 1 .. Len(c)
    BY <1>2
  <2>2. QED
    BY <1>1, <1>2, <1>3, <1>8, <2>1 DEF h, rest, tail

\* Two of three parts joined.
LEMMA JoinedRises ==
  ASSUME NEW s \in Seq(Nat), NEW t \in Seq(Nat), Rising(s), Rising(t), Before(s, t)
  PROVE  /\ s \o t \in Seq(Nat) /\ Rising(s \o t)
         /\ \A u \in Seq(Nat) : Before(s, u) /\ Before(t, u) => Before(s \o t, u)
<1> DEFINE joined == s \o t
<1>1. /\ joined \in Seq(Nat) /\ Len(joined) = Len(s) + Len(t)
      /\ \A i \in 1 .. Len(s) + Len(t) :
           joined[i] = IF i <= Len(s) THEN s[i] ELSE t[i - Len(s)]
  BY ConcatProperties
<1>2. Len(s) \in Nat /\ Len(t) \in Nat
  BY LenProperties
<1> HIDE DEF joined
<1>3. \A i \in 1 .. Len(joined) :
        \/ i \in 1 .. Len(s) /\ joined[i] = s[i]
        \/ i > Len(s) /\ i - Len(s) \in 1 .. Len(t) /\ joined[i] = t[i - Len(s)]
  BY <1>1, <1>2
<1>4. Rising(joined)
  <2>1. SUFFICES ASSUME NEW i \in 1 .. Len(joined), NEW j \in 1 .. Len(joined), i < j
                 PROVE  joined[i] < joined[j]
    BY DEF Rising
  <2>2. CASE i \in 1 .. Len(s) /\ j \in 1 .. Len(s)
    <3>1. joined[i] = s[i] /\ joined[j] = s[j]
      BY <1>2, <1>3, <2>2
    <3>2. QED
      BY <2>1, <2>2, <3>1 DEF Rising
  <2>3. CASE i \in 1 .. Len(s) /\ j > Len(s)
    <3>1. joined[i] = s[i] /\ j - Len(s) \in 1 .. Len(t) /\ joined[j] = t[j - Len(s)]
      BY <1>2, <1>3, <2>3
    <3>2. QED
      BY <2>3, <3>1 DEF Before
  <2>4. CASE i > Len(s) /\ j > Len(s)
    <3>1. /\ i - Len(s) \in 1 .. Len(t) /\ joined[i] = t[i - Len(s)]
          /\ j - Len(s) \in 1 .. Len(t) /\ joined[j] = t[j - Len(s)]
          /\ i - Len(s) < j - Len(s)
      BY <1>2, <1>3, <2>1, <2>4
    <3>2. QED
      BY <3>1 DEF Rising
  <2>5. QED
    BY <1>2, <2>1, <2>2, <2>3, <2>4
<1>5. ASSUME NEW u \in Seq(Nat), Before(s, u), Before(t, u)
      PROVE  Before(joined, u)
  BY <1>3, <1>5 DEF Before
<1>6. QED
  BY <1>1, <1>4, <1>5 DEF joined

LEMMA OrderedJoined ==
  ASSUME NEW w \in Seq(Nat), NEW h \in Seq(Nat), NEW q \in Seq(Nat), NEW bound \in Nat,
         Ordered(w, h, q, bound)
  PROVE  \A i, j \in DOMAIN (w \o h \o q) : i < j => (w \o h \o q)[i] < (w \o h \o q)[j]
<1> DEFINE front == w \o h
           all == front \o q
<1>1. front \in Seq(Nat) /\ Rising(front) /\ Before(front, q)
  BY JoinedRises DEF Ordered
<1>2. Rising(q)
  BY DEF Ordered
<1> HIDE DEF front
<1>3. all \in Seq(Nat) /\ Rising(all)
  BY <1>1, <1>2, JoinedRises
<1> HIDE DEF all
<1>4. DOMAIN all = 1 .. Len(all)
  BY <1>3, LenProperties
<1>5. \A i, j \in DOMAIN all : i < j => all[i] < all[j]
  BY <1>3, <1>4 DEF Rising
<1>6. QED
  BY <1>5 DEF all, front

-----------------------------------------------------------------------------
(* The inductive invariant.                                                *)

\* The resume is between Restart and the SyncState ...
Replacing == {"closing", "connecting", "waiting", "handshake", "syncing"}
\* ... and after the new stream has replaced the old one.
Replaced == {"handshake", "syncing", "negotiating", "media"}

\* The flags follow the resume, and a connected link that is not the stream is
\* the one the resume waits for.
FlagsFollow ==
  /\ eventReady <=> ~reconnecting
  /\ resume \in Replacing => reconnecting
  /\ resume \in Replaced /\ ~Closed => link.held
  /\ ~link.held /\ IsConnected => resume = "waiting"

\* What has come has been delivered or is buffered, behind what was delivered.
EventsAccounted ==
  /\ received = delivered \o buffered
  /\ eventReady => buffered = <<>>

RequestsOrdered == Ordered(wire, Held(spawned), queue, requested)

IInv == TypeOK /\ FlagsFollow /\ EventsAccounted /\ RequestsOrdered /\ QueuedOnlyWhileDown

LEMMA InitIInv == Init => IInv
<1> SUFFICES ASSUME Init PROVE IInv
  OBVIOUS
<1>1. TypeOK
  <2>1. link \in [number : Nat, state : {"none", "open", "silent", "reset", "down"}, held : BOOLEAN]
    BY DEF Init
  <2>2. link.held
    BY DEF Init
  <2>3. /\ queue \in Seq(Nat) /\ spawned \in Seq([request : Nat, link : Nat])
        /\ buffered \in Seq(Nat) /\ received \in Seq(Nat) /\ delivered \in Seq(Nat)
        /\ inbox \in Seq([kind : {"event"} \cup Answers, event : Nat]) /\ wire \in Seq(Nat)
    BY EmptySeq DEF Init
  <2>4. QED
    BY <2>1, <2>2, <2>3 DEF Init, TypeOK
<1>2. FlagsFollow /\ QueuedOnlyWhileDown
  BY DEF Init, FlagsFollow, QueuedOnlyWhileDown, Replacing, Replaced, Closed, IsConnected
<1>3. EventsAccounted
  BY DEF Init, EventsAccounted
<1>4. RequestsOrdered
  <2>1. Len(<<>>) = 0 /\ Held(<<>>) = <<>>
    <3>1. <<>> \in Seq(Spawned)
      OBVIOUS
    <3>2. Held(<<>>) \in Seq(Nat) /\ Len(Held(<<>>)) = 0
      BY <3>1, HeldTyped
    <3>3. QED
      BY <3>2, EmptySeq
  <2>2. wire = <<>> /\ spawned = <<>> /\ queue = <<>>
    BY DEF Init
  <2>3. QED
    BY <2>1, <2>2 DEF RequestsOrdered, Ordered, Rising, Before, UpTo
<1>5. QED
  BY <1>1, <1>2, <1>3, <1>4 DEF IInv

\* FlushQueue and its effect.
LEMMA FlushTypes ==
  ASSUME TypeOK, NEW connected \in BOOLEAN, FlushQueue(connected)
  PROVE  queue' \in Seq(Nat) /\ spawned' \in Seq(Spawned)
<1>1. queue \in Seq(Nat) /\ spawned \in Seq(Spawned) /\ link.number \in Nat
  BY DEF TypeOK, Spawned
<1>2. CASE connected
  <2>1. spawned' = spawned \o OnLink(queue) /\ queue' = <<>>
    BY <1>2 DEF FlushQueue
  <2>2. spawned \o OnLink(queue) \in Seq(Spawned)
    BY <1>1, FlushedToCoroutines
  <2>3. QED
    BY <2>1, <2>2
<1>3. CASE ~connected
  BY <1>1, <1>3 DEF FlushQueue
<1>4. QED
  BY <1>2, <1>3

LEMMA FlushOrdered ==
  ASSUME TypeOK, RequestsOrdered, NEW connected \in BOOLEAN, FlushQueue(connected),
         UNCHANGED <<wire, requested>>
  PROVE  RequestsOrdered'
<1>1. /\ queue \in Seq(Nat) /\ spawned \in Seq(Spawned) /\ link.number \in Nat
      /\ wire \in Seq(Nat) /\ requested \in Nat
  BY DEF TypeOK, Spawned
<1>2. CASE connected
  <2>1. spawned' = spawned \o OnLink(queue) /\ queue' = <<>>
    BY <1>2 DEF FlushQueue
  <2>2. Held(spawned)' = Held(spawned) \o queue
    BY <1>1, <2>1, FlushedToCoroutines DEF Held
  <2>3. Held(spawned) \in Seq(Nat)
    BY <1>1, HeldTyped
  <2>4. Ordered(wire, Held(spawned) \o queue, <<>>, requested)
    BY <1>1, <2>3, Flushed DEF RequestsOrdered
  <2>5. QED
    BY <2>1, <2>2, <2>4 DEF RequestsOrdered
<1>3. CASE ~connected
  BY <1>3 DEF FlushQueue, RequestsOrdered, Held
<1>4. QED
  BY <1>2, <1>3

LEMMA SendKeeps ==
  ASSUME TypeOK, RequestsOrdered, Send
  PROVE  queue' \in Seq(Nat) /\ spawned' \in Seq(Spawned) /\ requested' \in Nat /\ RequestsOrdered'
<1>1. /\ queue \in Seq(Nat) /\ spawned \in Seq(Spawned) /\ link.number \in Nat
      /\ wire \in Seq(Nat) /\ requested \in Nat /\ wire' = wire
  BY DEF TypeOK, Spawned, Send
<1>2. CASE ~QueueMutexFree
  BY <1>1, <1>2 DEF Send, RequestsOrdered, Held
<1>3. CASE QueueMutexFree
  <2> DEFINE longer == Append(queue, requested + 1)
  <2>1. requested' = requested + 1 /\ longer \in Seq(Nat)
    BY <1>1, <1>3 DEF Send
  <2>2. Held(spawned) \in Seq(Nat)
    BY <1>1, HeldTyped
  <2>3. Ordered(wire, Held(spawned), longer, requested + 1)
    BY <1>1, <2>2, Enqueued DEF RequestsOrdered
  <2>4. \/ spawned' = spawned \o OnLink(longer) /\ queue' = <<>>
        \/ queue' = longer /\ spawned' = spawned
    BY <1>3, <2>1 DEF Send
  <2> HIDE DEF longer
  <2>5. CASE spawned' = spawned \o OnLink(longer) /\ queue' = <<>>
    <3>1. spawned' \in Seq(Spawned) /\ Held(spawned)' = Held(spawned) \o longer
      BY <1>1, <2>1, <2>5, FlushedToCoroutines DEF Held
    <3>2. Ordered(wire, Held(spawned) \o longer, <<>>, requested + 1)
      BY <1>1, <2>1, <2>2, <2>3, Flushed
    <3>3. QED
      BY <1>1, <2>1, <2>5, <3>1, <3>2 DEF RequestsOrdered
  <2>6. CASE queue' = longer /\ spawned' = spawned
    BY <1>1, <2>1, <2>3, <2>6 DEF RequestsOrdered, Held
  <2>7. QED
    BY <2>4, <2>5, <2>6
<1>4. QED
  BY <1>2, <1>3

LEMMA StreamSendKeeps ==
  ASSUME TypeOK, RequestsOrdered, StreamSend
  PROVE  spawned' \in Seq(Spawned) /\ wire' \in Seq(Nat) /\ RequestsOrdered'
<1>1. /\ queue \in Seq(Nat) /\ spawned \in Seq(Spawned) /\ spawned # <<>>
      /\ wire \in Seq(Nat) /\ requested \in Nat
      /\ spawned' = Tail(spawned) /\ UNCHANGED <<queue, requested>>
  BY DEF TypeOK, Spawned, StreamSend, budgetVars
<1>2. /\ Held(spawned) \in Seq(Nat) /\ Held(spawned) # <<>> /\ Tail(spawned) \in Seq(Spawned)
      /\ Head(Held(spawned)) = Head(spawned).request
      /\ Held(spawned)' = Tail(Held(spawned))
  BY <1>1, HeldTyped, FirstEnds DEF Held
<1>3. Head(spawned).request \in Nat
  <2>1. Head(spawned) \in Spawned
    BY <1>1
  <2>2. QED
    BY <2>1 DEF Spawned
<1>4. Ordered(wire, Held(spawned), queue, requested)
  BY DEF RequestsOrdered
<1>5. wire' = wire \/ wire' = Append(wire, Head(spawned).request)
  BY DEF StreamSend
<1>6. CASE wire' = wire
  <2>1. Ordered(wire, Tail(Held(spawned)), queue, requested)
    BY <1>1, <1>2, <1>4, Lost
  <2>2. QED
    BY <1>1, <1>2, <1>6, <2>1 DEF RequestsOrdered
<1>7. CASE wire' = Append(wire, Head(spawned).request)
  <2>1. Ordered(Append(wire, Head(Held(spawned))), Tail(Held(spawned)), queue, requested)
    BY <1>1, <1>2, <1>4, Sent
  <2>2. wire' \in Seq(Nat)
    BY <1>1, <1>3, <1>7
  <2>3. QED
    BY <1>1, <1>2, <1>7, <2>1, <2>2 DEF RequestsOrdered
<1>8. QED
  BY <1>5, <1>6, <1>7

-----------------------------------------------------------------------------
(* Types.                                                                  *)

Message == [kind : {"event"} \cup Answers, event : Nat]

SequencesTyped ==
  /\ queue \in Seq(Nat) /\ spawned \in Seq(Spawned)
  /\ buffered \in Seq(Nat) /\ received \in Seq(Nat) /\ delivered \in Seq(Nat)
  /\ inbox \in Seq(Message) /\ wire \in Seq(Nat)

ScalarsTyped ==
  /\ room \in {"Connected", "Reconnecting", "Ended"}
  /\ resume \in {"idle", "delay", "closing", "connecting", "waiting", "handshake",
                 "syncing", "negotiating", "media"}
  /\ reconnecting \in BOOLEAN /\ eventReady \in BOOLEAN /\ heartbeat \in BOOLEAN
  /\ link \in [number : Nat, state : {"none", "open", "silent", "reset", "down"},
               held : BOOLEAN]
  /\ waited \in {"none", "reconnect", "leave", "closed"}
  /\ native \in {"idle", "flushing", "holding"}
  /\ stuck \in BOOLEAN /\ ignored \in BOOLEAN
  /\ requested \in Nat /\ emitted \in Nat /\ faults \in Nat /\ candidates \in Nat

ConnectedHasStream == room = "Connected" => link.held /\ resume = "idle"

LEMMA TypeParts == TypeOK <=> SequencesTyped /\ ScalarsTyped /\ ConnectedHasStream
BY DEF TypeOK, SequencesTyped, ScalarsTyped, ConnectedHasStream, Message, Spawned

LEMMA ConnectedIsBoolean == StreamConnected \in BOOLEAN
BY DEF StreamConnected, IsConnected

LEMMA ReceiveTypes ==
  ASSUME SequencesTyped, ScalarsTyped, Receive
  PROVE  /\ buffered' \in Seq(Nat) /\ received' \in Seq(Nat) /\ delivered' \in Seq(Nat)
         /\ inbox' \in Seq(Message)
         /\ waited' \in {"none", "reconnect", "leave", "closed"}
         /\ (resume' = resume \/ (resume = "negotiating" /\ resume' = "media"))
<1> DEFINE message == Head(inbox)
<1>1. message \in Message /\ Tail(inbox) \in Seq(Message) /\ inbox' = Tail(inbox)
  BY DEF Receive, SequencesTyped
<1>2. message.kind \in {"event", "reconnect", "leave", "answer"} /\ message.event \in Nat
  BY <1>1 DEF Message, Answers
<1> HIDE DEF message
<1>3. \/ /\ received' = Append(received, message.event)
         /\ \/ delivered' = Append(delivered, message.event) /\ UNCHANGED buffered
            \/ buffered' = Append(buffered, message.event) /\ UNCHANGED delivered
            \/ UNCHANGED <<buffered, delivered>>
         /\ UNCHANGED <<waited, resume>>
      \/ /\ waited' \in {"reconnect", "leave"}
         /\ UNCHANGED <<buffered, received, delivered, resume>>
      \/ /\ resume' = IF resume = "negotiating" THEN "media" ELSE resume
         /\ UNCHANGED <<buffered, received, delivered, waited>>
      \/ UNCHANGED <<buffered, received, delivered, waited, resume>>
  BY <1>2 DEF Receive, HandleIncomingMessage, BufferEvent, eventVars, message
<1>4. QED
  <2>1. /\ buffered \in Seq(Nat) /\ received \in Seq(Nat) /\ delivered \in Seq(Nat)
        /\ Append(buffered, message.event) \in Seq(Nat)
        /\ Append(received, message.event) \in Seq(Nat)
        /\ Append(delivered, message.event) \in Seq(Nat)
    BY <1>2 DEF SequencesTyped
  <2>2. buffered' \in Seq(Nat) /\ received' \in Seq(Nat) /\ delivered' \in Seq(Nat)
    BY <1>3, <2>1
  <2>3. waited \in {"none", "reconnect", "leave", "closed"}
    BY DEF ScalarsTyped
  <2>4. /\ waited' \in {"none", "reconnect", "leave", "closed"}
        /\ (resume' = resume \/ (resume = "negotiating" /\ resume' = "media"))
    <3>1. waited' = waited \/ waited' \in {"reconnect", "leave"}
      BY <1>3
    <3>2. (resume' = resume \/ (resume = "negotiating" /\ resume' = "media"))
      <4>1. \/ resume' = resume
            \/ resume' = IF resume = "negotiating" THEN "media" ELSE resume
        BY <1>3
      <4>2. QED
        BY <4>1
    <3>3. QED
      BY <2>3, <3>1, <3>2
  <2>5. QED
    BY <1>1, <2>2, <2>4

LEMMA SequencesStep ==
  ASSUME IInv, [Next]_vars
  PROVE  SequencesTyped'
<1>1. /\ TypeOK /\ SequencesTyped /\ ScalarsTyped /\ RequestsOrdered
      /\ <<>> \in Seq(Message) /\ <<>> \in Seq(Nat)
  BY TypeParts, EmptySeq DEF IInv
<1>2. CASE Send
  BY <1>1, <1>2, SendKeeps DEF Send, eventVars, SequencesTyped
<1>3. CASE StreamSend
  BY <1>1, <1>3, StreamSendKeeps DEF StreamSend, eventVars, SequencesTyped
<1>4. CASE NativeFlush
  <2>1. UNCHANGED <<queue, spawned>> \/ FlushQueue(StreamConnected)
    BY <1>4 DEF NativeFlush
  <2>2. queue' \in Seq(Nat) /\ spawned' \in Seq(Spawned)
    BY <1>1, <2>1, FlushTypes, ConnectedIsBoolean DEF SequencesTyped
  <2>3. QED
    BY <1>1, <1>4, <2>2 DEF NativeFlush, eventVars, SequencesTyped
<1>5. CASE SyncStateSent
  <2>1. queue' \in Seq(Nat) /\ spawned' \in Seq(Spawned)
    BY <1>1, <1>5, FlushTypes, ConnectedIsBoolean DEF SyncStateSent
  <2>2. delivered' \in Seq(Nat)
    BY <1>1, <1>5 DEF SyncStateSent, SequencesTyped
  <2>3. QED
    BY <1>1, <1>5, <2>1, <2>2 DEF SyncStateSent, SequencesTyped
<1>6. CASE Receive
  BY <1>1, <1>6, ReceiveTypes DEF Receive, SequencesTyped
<1>7. CASE ServerEvent \/ \E kind \in Answers : ServerAnswer(kind)
  <2>1. PICK kind \in {"event"} \cup Answers, event \in Nat : ServerSends(kind, event)
    <3>1. CASE ServerEvent
      <4>1. emitted' \in Nat
        BY <1>1, <3>1 DEF ServerEvent, ScalarsTyped
      <4>2. QED
        BY <3>1, <4>1 DEF ServerEvent
    <3>2. CASE \E kind \in Answers : ServerAnswer(kind)
      BY <3>2 DEF ServerAnswer
    <3>3. QED
      BY <1>7, <3>1, <3>2
  <2>2. [kind |-> kind, event |-> event] \in Message
    BY DEF Message
  <2>3. inbox' \in Seq(Message)
    BY <1>1, <2>1, <2>2 DEF ServerSends, SequencesTyped
  <2>4. QED
    BY <1>1, <2>1, <2>3 DEF ServerSends, eventVars, SequencesTyped
<1>8. CASE /\ UNCHANGED <<queue, spawned, buffered, received, delivered, wire>>
           /\ inbox' = inbox \/ inbox' = <<>>
  BY <1>1, <1>8 DEF SequencesTyped
<1>9. SendAsync \/ SendTrickle \/ NoticeError \/ PingTimeout \/ Disconnect
        \/ (\E how \in {"silent", "reset"} : LinkDies(how))
      => /\ UNCHANGED <<queue, spawned, buffered, received, delivered, wire>>
         /\ inbox' = inbox \/ inbox' = <<>>
  BY DEF SendAsync, SendTrickle, NoticeError, PingTimeout, Disconnect, LinkDies, eventVars
<1>10. Restart \/ StreamClosed \/ Connected \/ StreamReplaced \/ SendSyncState
         \/ ResumeCommits \/ ResumeStepFails
       => /\ UNCHANGED <<queue, spawned, buffered, received, delivered, wire>>
          /\ inbox' = inbox \/ inbox' = <<>>
  BY DEF Restart, StreamClosed, Connected, StreamReplaced, SendSyncState, ResumeCommits,
         ResumeStepFails, ResumeFails, eventVars
<1>11. CASE UNCHANGED vars
  BY <1>1, <1>11 DEF vars, eventVars, SequencesTyped
<1>12. QED
  BY <1>2, <1>3, <1>4, <1>5, <1>6, <1>7, <1>8, <1>9, <1>10, <1>11 DEF Next, ResumeStep

LEMMA ScalarsStep ==
  ASSUME IInv, [Next]_vars
  PROVE  ScalarsTyped' /\ ConnectedHasStream'
<1>1. /\ TypeOK /\ SequencesTyped /\ ScalarsTyped /\ ConnectedHasStream
      /\ RequestsOrdered /\ FlagsFollow
  BY TypeParts DEF IInv
<1>2. CASE Send \/ SendAsync
  <2>1. requested' \in Nat /\ stuck' \in BOOLEAN
    <3>1. requested \in Nat /\ stuck \in BOOLEAN
      BY <1>1 DEF ScalarsTyped
    <3>2. CASE Send
      <4>1. /\ requested' = requested + 1 \/ requested' = requested
            /\ stuck' = stuck \/ stuck' = TRUE
        BY <3>2 DEF Send
      <4>2. requested' \in Nat
        BY <3>1, <4>1
      <4>3. stuck' \in BOOLEAN
        BY <3>1, <4>1
      <4>4. QED
        BY <4>2, <4>3
    <3>3. CASE SendAsync
      BY <3>1, <3>3 DEF SendAsync, budgetVars
    <3>4. QED
      BY <1>2, <3>2, <3>3
  <2>2. UNCHANGED <<room, resume, reconnecting, eventReady, heartbeat, link, waited, native,
                    ignored, emitted, faults, candidates>>
    BY <1>2 DEF Send, SendAsync, clientVars, budgetVars
  <2>3. QED
    BY <1>1, <2>1, <2>2 DEF ScalarsTyped, ConnectedHasStream
<1>3. CASE StreamSend
  BY <1>1, <1>3 DEF StreamSend, clientVars, budgetVars, ScalarsTyped, ConnectedHasStream
<1>4. CASE SendTrickle \/ NativeFlush
  <2>1. native' \in {"idle", "flushing", "holding"} /\ candidates' \in Nat
    BY <1>1, <1>4 DEF SendTrickle, NativeFlush, ScalarsTyped, budgetVars
  <2>2. UNCHANGED <<room, resume, reconnecting, eventReady, heartbeat, link, waited, stuck,
                    ignored, requested, emitted, faults>>
    BY <1>4 DEF SendTrickle, NativeFlush, clientVars, budgetVars
  <2>3. QED
    BY <1>1, <2>1, <2>2 DEF ScalarsTyped, ConnectedHasStream
<1>5. CASE NoticeError \/ PingTimeout \/ Disconnect
  <2>1. UNCHANGED <<reconnecting, eventReady, native, stuck, requested, emitted, faults,
                    candidates>>
    BY <1>5 DEF NoticeError, PingTimeout, Disconnect, budgetVars
  <2>2. /\ link' \in [number : Nat, state : {"none", "open", "silent", "reset", "down"},
                      held : BOOLEAN]
        /\ link'.held = link.held \/ room' = "Ended"
    <3>1. \/ link' = link
          \/ link' = [link EXCEPT !.state = "down"]
          \/ link' = NoLink /\ room' = "Ended"
      BY <1>5 DEF NoticeError, PingTimeout, Disconnect, Close
    <3>2. link \in [number : Nat, state : {"none", "open", "silent", "reset", "down"},
                    held : BOOLEAN]
      BY <1>1 DEF ScalarsTyped
    <3>3. CASE link' = link
      BY <3>2, <3>3
    <3>4. CASE link' = [link EXCEPT !.state = "down"]
      <4>1. link' = [number |-> link.number, state |-> "down", held |-> link.held]
        BY <3>2, <3>4
      <4>2. QED
        BY <3>2, <4>1
    <3>5. CASE link' = NoLink /\ room' = "Ended"
      BY <3>5 DEF NoLink
    <3>6. QED
      BY <3>1, <3>3, <3>4, <3>5
  <2>3. /\ heartbeat' \in BOOLEAN /\ ignored' \in BOOLEAN
        /\ waited' \in {"none", "reconnect", "leave", "closed"}
    BY <1>1, <1>5 DEF NoticeError, PingTimeout, Disconnect, Close, HandleClose, ScalarsTyped
  <2>4. \/ UNCHANGED <<room, resume>>
        \/ room' = "Reconnecting" /\ resume' = "delay"
        \/ room' = "Ended" /\ resume' \in {"idle", resume}
    BY <1>5 DEF NoticeError, PingTimeout, Disconnect, Close, HandleClose
  <2>5. QED
    BY <1>1, <2>1, <2>2, <2>3, <2>4 DEF ScalarsTyped, ConnectedHasStream
<1>6. CASE \E how \in {"silent", "reset"} : LinkDies(how)
  BY <1>1, <1>6 DEF LinkDies, clientVars, ScalarsTyped, ConnectedHasStream
<1>7. CASE ServerEvent \/ \E kind \in Answers : ServerAnswer(kind)
  <2>1. /\ emitted' \in Nat
        /\ UNCHANGED <<room, resume, reconnecting, eventReady, heartbeat, link, waited, native,
                       stuck, ignored, requested, faults, candidates>>
    <3>1. emitted \in Nat
      BY <1>1 DEF ScalarsTyped
    <3>2. CASE ServerEvent
      BY <3>1, <3>2 DEF ServerEvent, ServerSends, clientVars
    <3>3. CASE \E kind \in Answers : ServerAnswer(kind)
      BY <3>1, <3>3 DEF ServerAnswer, ServerSends, clientVars
    <3>4. QED
      BY <1>7, <3>2, <3>3
  <2>2. QED
    BY <1>1, <2>1 DEF ScalarsTyped, ConnectedHasStream
<1>8. CASE Receive
  <2>1. UNCHANGED <<room, reconnecting, eventReady, heartbeat, link, native, stuck, ignored,
                    requested, emitted, faults, candidates>>
    BY <1>8 DEF Receive, clientVars, budgetVars
  <2>2. QED
    BY <1>1, <1>8, <2>1, ReceiveTypes DEF ScalarsTyped, ConnectedHasStream
<1>9. CASE Restart \/ StreamClosed
  BY <1>1, <1>9 DEF Restart, StreamClosed, StreamLocked, clientVars, budgetVars, ScalarsTyped,
                    ConnectedHasStream
<1>10. CASE Connected \/ StreamReplaced
  <2>1. link \in [number : Nat, state : {"none", "open", "silent", "reset", "down"},
                  held : BOOLEAN]
    BY <1>1 DEF ScalarsTyped
  <2>2. link' \in [number : Nat, state : {"none", "open", "silent", "reset", "down"},
                   held : BOOLEAN]
    <3>1. \/ link' = [number |-> link.number + 1, state |-> "open", held |-> FALSE]
          \/ link' = [link EXCEPT !.held = TRUE]
      BY <1>10 DEF Connected, StreamReplaced
    <3>2. link.number + 1 \in Nat
      BY <2>1
    <3>3. CASE link' = [number |-> link.number + 1, state |-> "open", held |-> FALSE]
      BY <3>2, <3>3
    <3>4. CASE link' = [link EXCEPT !.held = TRUE]
      <4>1. link' = [number |-> link.number, state |-> link.state, held |-> TRUE]
        BY <2>1, <3>4
      <4>2. QED
        BY <2>1, <4>1
    <3>5. QED
      BY <3>1, <3>3, <3>4
  <2>3. /\ UNCHANGED <<room, reconnecting, eventReady, waited, native, stuck, ignored, requested,
                       emitted, faults, candidates>>
        /\ heartbeat' = heartbeat \/ heartbeat' = ~Closed
        /\ resume \in {"connecting", "waiting"} /\ resume' \in {"waiting", "handshake"}
    BY <1>10 DEF Connected, StreamReplaced, clientVars, budgetVars
  <2>4. heartbeat' \in BOOLEAN
    BY <1>1, <2>3 DEF ScalarsTyped, Closed
  <2>5. QED
    BY <1>1, <2>2, <2>3, <2>4 DEF ScalarsTyped, ConnectedHasStream
<1>11. CASE SendSyncState \/ SyncStateSent
  BY ZenonT(30), <1>1, <1>11 DEF SendSyncState, SyncStateSent, clientVars, budgetVars, ScalarsTyped,
                     ConnectedHasStream
<1>12. CASE ResumeCommits \/ ResumeStepFails
  <2>1. UNCHANGED <<reconnecting, eventReady, waited, native, stuck, ignored, requested, emitted,
                    faults, candidates>>
    BY <1>12 DEF ResumeCommits, ResumeStepFails, clientVars, budgetVars
  <2>2. \/ /\ UNCHANGED <<heartbeat, link>> /\ link.held
           /\ room' = "Connected" /\ resume' = "idle"
        \/ room' = "Ended" /\ resume' = "idle" /\ heartbeat' = FALSE /\ link' = NoLink
    <3>1. CASE ResumeCommits
      BY <1>1, <3>1 DEF ResumeCommits, clientVars, FlagsFollow, Replaced
    <3>2. CASE ResumeStepFails
      BY <3>2 DEF ResumeStepFails, ResumeFails
    <3>3. QED
      BY <1>12, <3>1, <3>2
  <2>3. NoLink \in [number : Nat, state : {"none", "open", "silent", "reset", "down"},
                    held : BOOLEAN]
    BY DEF NoLink
  <2>4. QED
    BY <1>1, <2>1, <2>2, <2>3 DEF ScalarsTyped, ConnectedHasStream
<1>13. CASE UNCHANGED vars
  BY <1>1, <1>13 DEF vars, clientVars, budgetVars, ScalarsTyped, ConnectedHasStream
<1>14. QED
  BY <1>2, <1>3, <1>4, <1>5, <1>6, <1>7, <1>8, <1>9, <1>10, <1>11, <1>12, <1>13
     DEF Next, ResumeStep

-----------------------------------------------------------------------------
(* The other parts of the invariant.                                       *)

LEMMA FlagsStep ==
  ASSUME IInv, [Next]_vars
  PROVE  FlagsFollow'
<1>1. ScalarsTyped /\ ConnectedHasStream /\ FlagsFollow /\ SequencesTyped
  BY TypeParts DEF IInv
<1> USE DEF FlagsFollow, Replacing, Replaced, Closed, IsConnected
<1>2. CASE UNCHANGED <<room, resume, reconnecting, eventReady, link>>
  BY <1>1, <1>2
<1>3. Send \/ StreamSend \/ SendAsync \/ SendTrickle \/ NativeFlush \/ ServerEvent
        \/ (\E kind \in Answers : ServerAnswer(kind))
      => UNCHANGED <<room, resume, reconnecting, eventReady, link>>
  BY DEF Send, StreamSend, SendAsync, SendTrickle, NativeFlush, ServerEvent, ServerAnswer,
         ServerSends, clientVars
<1>4. CASE NoticeError
  <2>1. /\ UNCHANGED <<reconnecting, eventReady>>
        /\ UNCHANGED <<room, resume>>
           \/ (room = "Connected" /\ room' = "Reconnecting" /\ resume' = "delay")
    BY <1>4 DEF NoticeError, HandleClose
  <2>2. link'.state = "down" /\ link'.held = link.held
    BY <1>1, <1>4 DEF NoticeError, ScalarsTyped
  <2>3. QED
    BY <1>1, <2>1, <2>2
<1>5. CASE PingTimeout
  BY <1>1, <1>5 DEF PingTimeout, HandleClose, ConnectedHasStream
<1>6. CASE Disconnect
  <2>1. /\ room' = "Ended" /\ UNCHANGED <<reconnecting, eventReady>>
        /\ (resume' = resume \/ (resume = "delay" /\ resume' = "idle"))
    BY <1>6 DEF Disconnect, Close
  <2>2. (link' = link /\ ~link.held) \/ link'.state = "none"
    BY <1>6 DEF Disconnect, Close, NoLink
  <2>3. QED
    BY <1>1, <2>1, <2>2
<1>7. CASE \E how \in {"silent", "reset"} : LinkDies(how)
  <2>1. /\ UNCHANGED <<room, resume, reconnecting, eventReady>>
        /\ link'.held = link.held /\ link.state = "open"
    BY <1>1, <1>7 DEF LinkDies, clientVars, ScalarsTyped
  <2>2. QED
    BY <1>1, <2>1
<1>8. CASE Receive
  <2>1. UNCHANGED <<room, reconnecting, eventReady, link>>
    BY <1>8 DEF Receive, clientVars
  <2>2. (resume' = resume \/ (resume = "negotiating" /\ resume' = "media"))
    BY <1>1, <1>8, ReceiveTypes
  <2>3. QED
    BY <1>1, <2>1, <2>2
<1>9. CASE Restart
  BY <1>1, <1>9 DEF Restart, ScalarsTyped
<1>10. CASE StreamClosed
  BY <1>1, <1>10 DEF StreamClosed, StreamLocked, clientVars, ScalarsTyped
<1>11. CASE Connected
  BY <1>1, <1>11 DEF Connected, clientVars
<1>12. CASE StreamReplaced
  BY <1>1, <1>12 DEF StreamReplaced, ScalarsTyped
<1>13. CASE SendSyncState \/ SyncStateSent
  BY <1>1, <1>13 DEF SendSyncState, SyncStateSent, clientVars, ScalarsTyped
<1>14. CASE ResumeCommits \/ ResumeStepFails
  BY <1>1, <1>14 DEF ResumeCommits, ResumeStepFails, ResumeFails, NoLink, clientVars
<1>15. CASE UNCHANGED vars
  BY <1>1, <1>15 DEF vars, clientVars
<1>16. QED
  BY <1>2, <1>3, <1>4, <1>5, <1>6, <1>7, <1>8, <1>9, <1>10, <1>11, <1>12, <1>13, <1>14, <1>15
     DEF Next, ResumeStep

LEMMA RequestsStep ==
  ASSUME IInv, [Next]_vars
  PROVE  RequestsOrdered'
<1>1. TypeOK /\ RequestsOrdered
  BY DEF IInv
<1>2. CASE Send
  BY <1>1, <1>2, SendKeeps
<1>3. CASE StreamSend
  BY <1>1, <1>3, StreamSendKeeps
<1>4. CASE UNCHANGED <<wire, spawned, queue, requested>>
  BY <1>1, <1>4 DEF RequestsOrdered, Held
<1>5. CASE NativeFlush
  <2>1. /\ UNCHANGED <<wire, requested>>
        /\ UNCHANGED <<queue, spawned>> \/ FlushQueue(StreamConnected)
    BY <1>5 DEF NativeFlush, budgetVars
  <2>2. QED
    BY <1>1, <1>4, <2>1, FlushOrdered, ConnectedIsBoolean
<1>6. CASE SyncStateSent
  BY <1>1, <1>6, FlushOrdered, ConnectedIsBoolean DEF SyncStateSent, budgetVars
<1>7. SendAsync \/ SendTrickle \/ NoticeError \/ PingTimeout \/ Disconnect
        \/ (\E how \in {"silent", "reset"} : LinkDies(how)) \/ ServerEvent
        \/ (\E kind \in Answers : ServerAnswer(kind)) \/ Receive
      => UNCHANGED <<wire, spawned, queue, requested>>
  BY DEF SendAsync, SendTrickle, NoticeError, PingTimeout, Disconnect, LinkDies, ServerEvent,
         ServerAnswer, ServerSends, Receive, budgetVars
<1>8. Restart \/ StreamClosed \/ Connected \/ StreamReplaced \/ SendSyncState
        \/ ResumeCommits \/ ResumeStepFails
      => UNCHANGED <<wire, spawned, queue, requested>>
  BY DEF Restart, StreamClosed, Connected, StreamReplaced, SendSyncState, ResumeCommits,
         ResumeStepFails, ResumeFails, budgetVars
<1>9. CASE UNCHANGED vars
  BY <1>4, <1>9 DEF vars, budgetVars
<1>10. QED
  BY <1>2, <1>3, <1>4, <1>5, <1>6, <1>7, <1>8, <1>9 DEF Next, ResumeStep

LEMMA QueueStep ==
  ASSUME IInv, [Next]_vars
  PROVE  QueuedOnlyWhileDown'
<1>1. ScalarsTyped /\ ConnectedHasStream /\ FlagsFollow /\ QueuedOnlyWhileDown
  BY TypeParts DEF IInv
<1> USE DEF QueuedOnlyWhileDown, StreamConnected, IsConnected, Closed
<1>2. CASE UNCHANGED <<room, reconnecting, link, queue>>
  BY <1>1, <1>2
<1>3. StreamSend \/ SendAsync \/ SendTrickle \/ ServerEvent
        \/ (\E kind \in Answers : ServerAnswer(kind)) \/ Receive \/ SendSyncState
      => UNCHANGED <<room, reconnecting, link, queue>>
  BY DEF StreamSend, SendAsync, SendTrickle, ServerEvent, ServerAnswer, ServerSends, Receive,
         SendSyncState, clientVars
<1>4. CASE Send
  BY <1>1, <1>4 DEF Send, clientVars
<1>5. CASE NativeFlush
  BY <1>1, <1>5 DEF NativeFlush, FlushQueue, clientVars
<1>6. CASE NoticeError
  <2>1. link'.state = "down" /\ UNCHANGED queue
    BY <1>1, <1>6 DEF NoticeError, ScalarsTyped
  <2>2. QED
    BY <2>1
<1>7. CASE PingTimeout
  BY <1>1, <1>7 DEF PingTimeout, HandleClose
<1>8. CASE Disconnect
  BY <1>1, <1>8 DEF Disconnect, Close
<1>9. CASE \E how \in {"silent", "reset"} : LinkDies(how)
  <2>1. /\ UNCHANGED <<room, reconnecting, queue>>
        /\ link'.held = link.held /\ link.state = "open"
    BY <1>1, <1>9 DEF LinkDies, clientVars, ScalarsTyped
  <2>2. QED
    BY <1>1, <2>1
<1>10. CASE Restart
  BY <1>10 DEF Restart
<1>11. CASE StreamClosed
  BY <1>1, <1>11 DEF StreamClosed, clientVars, ScalarsTyped
<1>12. CASE Connected
  BY <1>1, <1>12 DEF Connected, clientVars
<1>13. CASE StreamReplaced
  BY <1>1, <1>13 DEF StreamReplaced, FlagsFollow, Replacing
<1>14. CASE SyncStateSent
  BY <1>1, <1>14 DEF SyncStateSent, FlushQueue, clientVars
<1>15. CASE ResumeCommits \/ ResumeStepFails
  BY <1>1, <1>15 DEF ResumeCommits, ResumeStepFails, ResumeFails, NoLink, clientVars
<1>16. CASE UNCHANGED vars
  BY <1>1, <1>16 DEF vars, clientVars
<1>17. QED
  BY <1>2, <1>3, <1>4, <1>5, <1>6, <1>7, <1>8, <1>9, <1>10, <1>11, <1>12, <1>13, <1>14, <1>15,
     <1>16 DEF Next, ResumeStep

LEMMA AppendBehind ==
  \A s, t \in Seq(Nat), e \in Nat : Append(s \o t, e) = s \o Append(t, e)
<1> SUFFICES ASSUME NEW s \in Seq(Nat), NEW t \in Seq(Nat), NEW e \in Nat
             PROVE  Append(s \o t, e) = s \o Append(t, e)
  BY Zenon
<1>1. /\ s \o t \in Seq(Nat) /\ Len(s \o t) = Len(s) + Len(t)
      /\ \A i \in 1 .. Len(s) + Len(t) :
           (s \o t)[i] = IF i <= Len(s) THEN s[i] ELSE t[i - Len(s)]
  BY ConcatProperties
<1>2. /\ Append(t, e) \in Seq(Nat) /\ Len(Append(t, e)) = Len(t) + 1
      /\ \A i \in 1 .. Len(t) : Append(t, e)[i] = t[i]
      /\ Append(t, e)[Len(t) + 1] = e
  OBVIOUS
<1>3. /\ s \o Append(t, e) \in Seq(Nat) /\ Len(s \o Append(t, e)) = Len(s) + Len(t) + 1
      /\ \A i \in 1 .. Len(s) + Len(t) + 1 :
           (s \o Append(t, e))[i] = IF i <= Len(s) THEN s[i] ELSE Append(t, e)[i - Len(s)]
  <2> DEFINE longer == Append(t, e)
             all == s \o longer
  <2>1. longer \in Seq(Nat) /\ Len(longer) = Len(t) + 1
    BY <1>2
  <2> HIDE DEF longer
  <2>2. /\ all \in Seq(Nat) /\ Len(all) = Len(s) + Len(longer)
        /\ \A i \in 1 .. Len(s) + Len(longer) :
             all[i] = IF i <= Len(s) THEN s[i] ELSE longer[i - Len(s)]
    BY <2>1, ConcatProperties
  <2>3. Len(s) + Len(longer) = Len(s) + Len(t) + 1
    BY <2>1, LenProperties
  <2>4. QED
    BY <2>2, <2>3 DEF longer, all
<1>4. /\ Append(s \o t, e) \in Seq(Nat) /\ Len(Append(s \o t, e)) = Len(s) + Len(t) + 1
      /\ \A i \in 1 .. Len(s) + Len(t) : Append(s \o t, e)[i] = (s \o t)[i]
      /\ Append(s \o t, e)[Len(s) + Len(t) + 1] = e
  <2> DEFINE joined == s \o t
  <2>1. joined \in Seq(Nat) /\ Len(joined) = Len(s) + Len(t)
    BY <1>1
  <2> HIDE DEF joined
  <2>2. /\ Append(joined, e) \in Seq(Nat) /\ Len(Append(joined, e)) = Len(joined) + 1
        /\ \A i \in 1 .. Len(joined) : Append(joined, e)[i] = joined[i]
        /\ Append(joined, e)[Len(joined) + 1] = e
    BY <2>1
  <2>3. QED
    BY <2>1, <2>2 DEF joined
<1>5. Len(s) \in Nat /\ Len(t) \in Nat
  BY LenProperties
<1>6. ASSUME NEW i \in 1 .. Len(s) + Len(t) + 1
      PROVE  Append(s \o t, e)[i] = (s \o Append(t, e))[i]
  <2>1. CASE i <= Len(s)
    BY <1>1, <1>3, <1>4, <1>5, <2>1
  <2>2. CASE i > Len(s) /\ i <= Len(s) + Len(t)
    <3>1. i - Len(s) \in 1 .. Len(t)
      BY <1>5, <2>2
    <3>2. QED
      BY <1>1, <1>2, <1>3, <1>4, <1>5, <2>2, <3>1
  <2>3. CASE i = Len(s) + Len(t) + 1
    BY <1>2, <1>3, <1>4, <1>5, <2>3
  <2>4. QED
    BY <1>5, <2>1, <2>2, <2>3
<1>7. QED
  BY <1>2, <1>3, <1>4, <1>6, SeqEqual

LEMMA EventsStep ==
  ASSUME IInv, [Next]_vars
  PROVE  /\ EventsAccounted'
         /\ delivered' # delivered => ~reconnecting'
<1>1. /\ SequencesTyped /\ ScalarsTyped /\ FlagsFollow /\ EventsAccounted
      /\ buffered \in Seq(Nat) /\ received \in Seq(Nat) /\ delivered \in Seq(Nat)
  BY TypeParts DEF IInv, SequencesTyped
<1>2. CASE UNCHANGED <<buffered, received, delivered, eventReady>>
  BY <1>1, <1>2 DEF EventsAccounted
<1>3. Send \/ StreamSend \/ SendAsync \/ SendTrickle \/ NativeFlush \/ NoticeError \/ PingTimeout
        \/ Disconnect \/ (\E how \in {"silent", "reset"} : LinkDies(how))
      => UNCHANGED <<buffered, received, delivered, eventReady>>
  BY DEF Send, StreamSend, SendAsync, SendTrickle, NativeFlush, NoticeError, PingTimeout,
         Disconnect, LinkDies, eventVars, clientVars
<1>4. ServerEvent \/ (\E kind \in Answers : ServerAnswer(kind)) \/ StreamClosed \/ Connected
        \/ StreamReplaced \/ SendSyncState \/ ResumeCommits \/ ResumeStepFails
      => UNCHANGED <<buffered, received, delivered, eventReady>>
  BY DEF ServerEvent, ServerAnswer, ServerSends, StreamClosed, Connected, StreamReplaced,
         SendSyncState, ResumeCommits, ResumeStepFails, ResumeFails, eventVars, clientVars
<1>5. CASE Restart
  BY <1>1, <1>5 DEF Restart, eventVars, EventsAccounted
<1>6. CASE SyncStateSent
  <2>1. /\ delivered' = delivered \o buffered /\ buffered' = <<>> /\ received' = received
        /\ reconnecting' = FALSE
    BY <1>6 DEF SyncStateSent
  <2>2. (delivered \o buffered) \o <<>> = delivered \o buffered
    <3>1. delivered \o buffered \in Seq(Nat)
      BY <1>1, ConcatProperties
    <3>2. QED
      BY <3>1, ConcatEmptySeq
  <2>3. QED
    BY <1>1, <2>1, <2>2 DEF EventsAccounted
<1>7. CASE Receive
  <2> DEFINE event == Head(inbox).event
  <2>1. UNCHANGED <<reconnecting, eventReady, link>>
    BY <1>7 DEF Receive, clientVars
  <2>2. event \in Nat
    <3>1. Head(inbox) \in Message
      BY <1>1, <1>7 DEF Receive, SequencesTyped
    <3>2. QED
      BY <3>1 DEF Message
  <2>3. Head(inbox).kind \in {"event", "reconnect", "leave", "answer"}
    <3>1. Head(inbox) \in Message
      BY <1>1, <1>7 DEF Receive, SequencesTyped
    <3>2. QED
      BY <3>1 DEF Message, Answers
  <2>4. \/ UNCHANGED <<buffered, received, delivered>>
        \/ /\ received' = Append(received, event) /\ ~eventReady
           /\ buffered' = Append(buffered, event) /\ UNCHANGED delivered
        \/ /\ received' = Append(received, event) /\ eventReady
           /\ delivered' = Append(delivered, event) /\ UNCHANGED buffered
    <3>1. ~link.held => ~eventReady
      BY <1>1, <1>7 DEF Receive, FlagsFollow, Replacing
    <3>2. \/ UNCHANGED <<buffered, received, delivered>>
          \/ /\ received' = Append(received, event)
             /\ IF link.held THEN HandleIncomingMessage(event) ELSE BufferEvent(event)
      BY <1>7, <2>3 DEF Receive, eventVars
    <3> HIDE DEF event
    <3>3. CASE UNCHANGED <<buffered, received, delivered>>
      BY <3>3
    <3>4. CASE /\ received' = Append(received, event)
               /\ IF link.held THEN HandleIncomingMessage(event) ELSE BufferEvent(event)
      <4>1. CASE eventReady
        <5>1. HandleIncomingMessage(event)
          BY <3>1, <3>4, <4>1
        <5>2. delivered' = Append(delivered, event) /\ buffered' = buffered
          BY <4>1, <5>1 DEF HandleIncomingMessage
        <5>3. QED
          BY <3>4, <4>1, <5>2
      <4>2. CASE ~eventReady
        <5>1. buffered' = Append(buffered, event) /\ delivered' = delivered
          BY <3>4, <4>2 DEF HandleIncomingMessage, BufferEvent
        <5>2. QED
          BY <3>4, <4>2, <5>1
      <4>3. QED
        BY <4>1, <4>2
    <3>5. QED
      BY <3>2, <3>3, <3>4
  <2> HIDE DEF event
  <2>5. CASE UNCHANGED <<buffered, received, delivered>>
    BY <1>2, <2>1, <2>5
  <2>6. CASE /\ received' = Append(received, event) /\ ~eventReady
             /\ buffered' = Append(buffered, event) /\ UNCHANGED delivered
    <3>1. Append(delivered \o buffered, event) = delivered \o Append(buffered, event)
      <4>1. delivered \in Seq(Nat) /\ buffered \in Seq(Nat) /\ event \in Nat
        BY <1>1, <2>2
      <4>2. QED
        BY <4>1, AppendBehind, Zenon
    <3>2. QED
      BY <1>1, <2>1, <2>6, <3>1 DEF EventsAccounted
  <2>7. CASE /\ received' = Append(received, event) /\ eventReady
             /\ delivered' = Append(delivered, event) /\ UNCHANGED buffered
    <3>1. buffered = <<>> /\ received = delivered
      BY <1>1, <2>7, ConcatEmptySeq DEF EventsAccounted
    <3>2. Append(delivered, event) \in Seq(Nat)
      BY <1>1, <2>2
    <3>3. Append(delivered, event) \o <<>> = Append(delivered, event)
      BY <3>2, ConcatEmptySeq
    <3>4. received' = delivered' \o buffered' /\ buffered' = <<>>
      BY <2>7, <3>1, <3>3
    <3>5. QED
      BY <1>1, <2>1, <2>7, <3>4 DEF EventsAccounted, FlagsFollow
  <2>8. QED
    BY <2>4, <2>5, <2>6, <2>7
<1>8. CASE UNCHANGED vars
  BY <1>2, <1>8 DEF vars, eventVars, clientVars
<1>9. QED
  BY <1>2, <1>3, <1>4, <1>5, <1>6, <1>7, <1>8 DEF Next, ResumeStep

LEMMA IInvStep ==
  ASSUME IInv, [Next]_vars
  PROVE  IInv'
<1>1. TypeOK'
  <2>1. (SequencesTyped /\ ScalarsTyped /\ ConnectedHasStream)'
    BY SequencesStep, ScalarsStep
  <2>2. (SequencesTyped /\ ScalarsTyped /\ ConnectedHasStream)' => TypeOK'
    BY DEF TypeOK, SequencesTyped, ScalarsTyped, ConnectedHasStream, Message, Spawned
  <2>3. QED
    BY <2>1, <2>2
<1>2. QED
  BY <1>1, FlagsStep, EventsStep, RequestsStep, QueueStep DEF IInv

-----------------------------------------------------------------------------
(* The theorems.                                                           *)

\* The inductive invariant: types, the flags of the client against the place of
\* the resume, the events and the requests, whatever is lost on the way.
THEOREM SignalInvariant == Spec => []IInv
<1>1. Init => IInv
  BY InitIInv
<1>2. IInv /\ [Next]_vars => IInv'
  BY IInvStep
<1>3. QED
  BY <1>1, <1>2, PTL DEF Spec

\* Every variable keeps its type, and a Connected room has the stream and no
\* resume of it (room.cpp and signal_client.cpp set them in different places).
THEOREM TypesHold == Spec => []TypeOK
<1>1. IInv => TypeOK
  BY DEF IInv
<1>2. QED
  BY <1>1, SignalInvariant, PTL

\* No request is left in the queue of a client that could send it (Send,
\* FlushQueue, SetReconnected): none waits for the next one to be noticed.
THEOREM NoRequestIsLeft == Spec => []QueuedOnlyWhileDown
<1>1. IInv => QueuedOnlyWhileDown
  BY DEF IInv
<1>2. QED
  BY <1>1, SignalInvariant, PTL

\* Requests reach the server in the order in which the room made them, none
\* twice, over any number of links, queued and flushed by either thread.
THEOREM RequestsKeepOrder == Spec => []RequestsInOrder
<1>1. IInv => RequestsInOrder
  <2>1. SUFFICES ASSUME IInv PROVE RequestsInOrder
    OBVIOUS
  <2>2. /\ wire \in Seq(Nat) /\ spawned \in Seq(Spawned) /\ queue \in Seq(Nat)
        /\ requested \in Nat /\ Ordered(wire, Held(spawned), queue, requested)
    <3>1. SequencesTyped /\ ScalarsTyped /\ RequestsOrdered
      BY <2>1, TypeParts DEF IInv
    <3>2. QED
      BY <3>1 DEF SequencesTyped, ScalarsTyped, RequestsOrdered
  <2>3. Held(spawned) \in Seq(Nat)
    BY <2>2, HeldTyped
  <2> DEFINE all == wire \o Held(spawned) \o queue
  <2>4. \A i, j \in DOMAIN all : i < j => all[i] < all[j]
    BY <2>2, <2>3, OrderedJoined
  <2>5. QED
    BY <2>4 DEF RequestsInOrder, Held
<1>2. QED
  BY <1>1, SignalInvariant, PTL

\* The room gets every event the client got, once and in order, and none between
\* Restart and the SyncState of the new stream (event_ready_, buffered_events_).
THEOREM EventsKeepOrder == Spec => EventsInOrder
<1> DEFINE Kept == /\ received' = delivered' \o buffered'
                   /\ delivered' # delivered => ~reconnecting'
<1>1. IInv /\ [Next]_vars => [Kept]_vars
  BY EventsStep DEF EventsAccounted
<1>2. QED
  BY <1>1, SignalInvariant, PTL DEF Spec, EventsInOrder

=============================================================================

------------------------ MODULE ReliableSessionLinks ------------------------
(***************************************************************************)
(* Neither peer of a ReliableSession meets a sequence the protocol         *)
(* forbids, proved for every number of links and messages, every replay    *)
(* window and every choice of faults.  LinksInv is inductive relative to   *)
(* the type invariant, SessionInv and OneLink.                             *)
(***************************************************************************)
EXTENDS ReliableSessionProofs

(***************************************************************************)
(* What holds of each link.                                                *)
(***************************************************************************)
Active(l) == cli[l] \in {"opening", "ready"}

Unused(l) ==
    /\ srv[l] = "unused" /\ cli[l] = "unused"
    /\ c2s[l] = << >> /\ s2c[l] = << >> /\ queued[l] = << >>

\* Before the server opens a link, nothing but its hello was written, with the
\* cursor the client still has if it waits for the link.
Greets(l) ==
    /\ cli[l] # "ready" /\ s2c[l] = << >> /\ queued[l] = << >>
    /\ c2s[l] # << >> =>
          /\ Head(c2s[l]).type = "hello" /\ Tail(c2s[l]) = << >>
          /\ cli[l] = "opening" => Head(c2s[l]).n = received

Phase(l) ==
    /\ l > attempts => Unused(l)
    /\ srv[l] = "hello" => Greets(l)
    /\ pendingAck[l] # Idle => cli[l] = "ready"
    /\ l = link => cli[l] = "ready"
    /\ l = current => Active(l)

\* Frame n is on the wire w.
Carries(w, n) == \E i \in 1 .. Len(w) : w[i].type = "frame" /\ w[i].n = n

\* Frame n was claimed (the last claimed is h), is in the dispatcher's queue q
\* or is on the wire w behind it.
Arrives(q, w, h, n) == n <= h \/ n \in Elems(q) \/ Carries(w, n)

\* Whatever is in front of accept_client_frame, the frame before it was claimed
\* or arrives earlier.
NoGap(q, w, h) ==
    /\ \A i \in 1 .. Len(q) :
           \/ q[i] <= h + 1
           \/ \E j \in 1 .. i - 1 : q[j] = q[i] - 1
    /\ \A i \in 1 .. Len(w) : w[i].type = "frame" =>
           \/ w[i].n <= h + 1
           \/ w[i].n - 1 \in Elems(q)
           \/ \E j \in 1 .. i - 1 : w[j].type = "frame" /\ w[j].n = w[i].n - 1

Upstream(l) ==
    srv[l] = "open" =>
        /\ NoGap(queued[l], c2s[l], lastClient)
        /\ l = link /\ up[l] =>
              Arrives(queued[l], c2s[l], lastClient, nextClient - 1)

\* The frames on the wire q end with the last one written to it, and when none
\* is left that one was applied.
Reaches(q, last, w) ==
    /\ \A i \in 1 .. Len(q) : q[i].type = "frame" => q[i].n <= w
    /\ w = last \/ Carries(q, w)

Downstream(l) ==
    /\ written[l] < nextServer
    /\ Active(l) => InOrder(s2c[l], received)
    /\ Active(l) /\ up[l] /\ srv[l] = "open" =>
          Reaches(s2c[l], received, written[l])

Violations == {"sequenceGap", "invalidAcknowledgement", "invalidHello"}

LinkInv(l) ==
    Phase(l) /\ Upstream(l) /\ Downstream(l) /\ verdict[l] \notin Violations

\* Each link is as far as its peers say, and what it carries continues what the
\* other end holds.
LinksInv == \A l \in Links : LinkInv(l)

(***************************************************************************)
(* Sequences: where the messages are after one is taken or some are added. *)
(***************************************************************************)
LEMMA TailAt ==
    ASSUME NEW S, NEW q \in Seq(S), q # << >>
    PROVE  /\ Tail(q) \in Seq(S) /\ Len(q) \in Nat /\ Len(q) >= 1
           /\ Head(q) = q[1] /\ Len(Tail(q)) = Len(q) - 1
           /\ \A i \in 1 .. Len(q) - 1 : Tail(q)[i] = q[i + 1]
OBVIOUS

\* Where the messages of a wire are after a write.
LEMMA ConcatAt ==
    ASSUME NEW S, NEW q \in Seq(S), NEW r \in Seq(S)
    PROVE  /\ q \o r \in Seq(S) /\ Len(q) \in Nat /\ Len(r) \in Nat
           /\ Len(q \o r) = Len(q) + Len(r)
           /\ \A i \in 1 .. Len(q) : (q \o r)[i] = q[i]
           /\ \A i \in 1 .. Len(r) : (q \o r)[Len(q) + i] = r[i]
           /\ \A i \in 1 .. Len(q) + Len(r) :
                  i \in 1 .. Len(q) \/ i - Len(q) \in 1 .. Len(r)
OBVIOUS

\* Where the messages of a wire are after its end was lost.
LEMMA PrefixAt ==
    ASSUME NEW S, NEW q \in Seq(S), NEW i \in 0 .. Len(q)
    PROVE  /\ SubSeq(q, 1, i) \in Seq(S) /\ Len(SubSeq(q, 1, i)) = i
           /\ \A j \in 1 .. i : j \in 1 .. Len(q) /\ SubSeq(q, 1, i)[j] = q[j]
OBVIOUS

(***************************************************************************)
(* The server's frames on a wire.                                          *)
(***************************************************************************)
\* The frames of a set of messages are numbered.
Numbered(S) == \A m \in S : m.type = "frame" => m.n \in Nat

\* Taking something other than a frame off the wire.
LEMMA OrderSkip ==
    ASSUME NEW S, Numbered(S), NEW q \in Seq(S), q # << >>,
           Head(q).type # "frame", NEW r \in Nat, NEW w \in Nat
    PROVE  /\ InOrder(q, r) => InOrder(Tail(q), r)
           /\ Reaches(q, r, w) => Reaches(Tail(q), r, w)
<1> DEFINE t == Tail(q)
<1>1. /\ Len(q) \in Nat /\ Len(q) >= 1 /\ q[1].type # "frame"
      /\ Len(t) = Len(q) - 1 /\ \A i \in 1 .. Len(q) - 1 : t[i] = q[i + 1]
      /\ \A i \in 1 .. Len(q) : q[i].type = "frame" => q[i].n \in Nat
  BY TailAt DEF Numbered
<1> HIDE DEF t
<1>2. \A i \in 1 .. Len(t) : i + 1 \in 1 .. Len(q) /\ t[i] = q[i + 1]
  BY <1>1
<1>3. \A i \in 1 .. Len(q) : q[i].type = "frame" =>
          i - 1 \in 1 .. Len(t) /\ t[i - 1] = q[i]
  BY <1>1
<1>4. ASSUME InOrder(q, r), NEW i \in 1 .. Len(t), t[i].type = "frame"
      PROVE  /\ t[i].n > r
             /\ \A j \in 1 .. i - 1 : t[j].type = "frame" => t[j].n < t[i].n
             /\ \/ t[i].n = r + 1
                \/ \E j \in 1 .. i - 1 : t[j].type = "frame" /\ t[j].n = t[i].n - 1
  <2>1. /\ i + 1 \in 1 .. Len(q) /\ t[i] = q[i + 1]
        /\ i \in Nat /\ Len(t) \in Nat
    BY <1>1, <1>2
  <2>2. /\ t[i].n > r
        /\ \A j \in 1 .. i : q[j].type = "frame" => q[j].n < t[i].n
        /\ \/ t[i].n = r + 1
           \/ \E j \in 1 .. i : q[j].type = "frame" /\ q[j].n = t[i].n - 1
    <3>1. (i + 1) - 1 = i
      BY <2>1
    <3> QED BY <1>4, <2>1, <3>1, Zenon DEF InOrder
  <2>3. \A j \in 1 .. i - 1 : t[j].type = "frame" => t[j].n < t[i].n
    <3> TAKE j \in 1 .. i - 1
    <3>1. j + 1 \in 1 .. i /\ t[j] = q[j + 1]
      BY <1>2, <2>1
    <3> QED BY <2>2, <3>1, Zenon
  <2>4. ASSUME NEW j \in 1 .. i, q[j].type = "frame", q[j].n = t[i].n - 1
        PROVE  \E k \in 1 .. i - 1 : t[k].type = "frame" /\ t[k].n = t[i].n - 1
    <3>1. j - 1 \in 1 .. i - 1 /\ t[j - 1] = q[j]
      BY <1>1, <1>3, <2>1, <2>4
    <3> QED BY <2>4, <3>1, Zenon
  <2> QED BY <2>2, <2>3, <2>4, Zenon
<1>5. ASSUME Reaches(q, r, w) PROVE Reaches(t, r, w)
  <2>1. \A i \in 1 .. Len(t) : t[i].type = "frame" => t[i].n <= w
    BY <1>2, <1>5, Zenon DEF Reaches
  <2>2. Carries(q, w) => Carries(t, w)
    BY <1>3, Zenon DEF Carries
  <2> QED BY <1>5, <2>1, <2>2, Zenon DEF Reaches
<1> QED BY <1>4, <1>5, Zenon DEF InOrder, t

\* Taking a frame off the wire: it is the next one, and the others follow it.
LEMMA OrderTake ==
    ASSUME NEW S, Numbered(S), NEW q \in Seq(S), q # << >>,
           Head(q).type = "frame", NEW r \in Nat, NEW w \in Nat, InOrder(q, r)
    PROVE  /\ Head(q).n = r + 1 /\ InOrder(Tail(q), r + 1)
           /\ Reaches(q, r, w) => Reaches(Tail(q), r + 1, w)
<1> DEFINE t == Tail(q)
<1>1. /\ Len(q) \in Nat /\ Len(q) >= 1 /\ q[1].type = "frame" /\ Head(q) = q[1]
      /\ Len(t) = Len(q) - 1 /\ \A i \in 1 .. Len(q) - 1 : t[i] = q[i + 1]
      /\ \A i \in 1 .. Len(q) : q[i].type = "frame" => q[i].n \in Nat
  BY TailAt DEF Numbered
<1> HIDE DEF t
<1>2. \A i \in 1 .. Len(t) : /\ i + 1 \in 1 .. Len(q) /\ t[i] = q[i + 1]
                             /\ i \in Nat /\ 1 .. (i + 1) - 1 = 1 .. i
                             /\ 1 \in 1 .. i
  BY <1>1
<1>3. \A i \in 1 .. Len(q) : i # 1 => i - 1 \in 1 .. Len(t) /\ t[i - 1] = q[i]
  BY <1>1
<1>4. q[1].n = r + 1
  <2>1. 1 \in 1 .. Len(q) /\ 1 .. 1 - 1 = {}
    BY <1>1
  <2> QED BY <1>1, <2>1, Zenon DEF InOrder
<1>5. ASSUME NEW i \in 1 .. Len(t), t[i].type = "frame"
      PROVE  /\ t[i].n > r + 1
             /\ \A j \in 1 .. i - 1 : t[j].type = "frame" => t[j].n < t[i].n
             /\ \/ t[i].n = r + 1 + 1
                \/ \E j \in 1 .. i - 1 : t[j].type = "frame" /\ t[j].n = t[i].n - 1
  <2>1. /\ t[i].n > r /\ t[i].n \in Nat
        /\ \A j \in 1 .. i : q[j].type = "frame" => q[j].n < t[i].n
        /\ \/ t[i].n = r + 1
           \/ \E j \in 1 .. i : q[j].type = "frame" /\ q[j].n = t[i].n - 1
    BY <1>1, <1>2, <1>5, Zenon DEF InOrder
  <2>2. t[i].n > r + 1 /\ t[i].n # r + 1
    <3>1. q[1].n < t[i].n
      BY <1>1, <1>2, <2>1, Zenon
    <3> QED BY <1>4, <2>1, <3>1
  <2>3. \A j \in 1 .. i - 1 : t[j].type = "frame" => t[j].n < t[i].n
    <3> TAKE j \in 1 .. i - 1
    <3>1. j + 1 \in 1 .. i /\ t[j] = q[j + 1]
      BY <1>1, <1>2
    <3> QED BY <2>1, <3>1, Zenon
  <2>4. ASSUME NEW j \in 1 .. i, q[j].type = "frame", q[j].n = t[i].n - 1
        PROVE  \/ t[i].n = r + 1 + 1
               \/ \E k \in 1 .. i - 1 : t[k].type = "frame" /\ t[k].n = t[i].n - 1
    <3>1. CASE j = 1
      BY <1>4, <2>1, <2>4, <3>1
    <3>2. CASE j # 1
      <4>1. j - 1 \in 1 .. i - 1 /\ t[j - 1] = q[j]
        BY <1>1, <1>2, <1>3, <3>2
      <4> QED BY <2>4, <4>1, Zenon
    <3> QED BY <3>1, <3>2, Zenon
  <2> QED BY <2>1, <2>2, <2>3, <2>4, Zenon
<1>6. ASSUME Reaches(q, r, w) PROVE Reaches(t, r + 1, w)
  <2>1. \A i \in 1 .. Len(t) : t[i].type = "frame" => t[i].n <= w
    BY <1>2, <1>6, Zenon DEF Reaches
  <2>2. w # r
    <3>1. q[1].n <= w
      BY <1>1, <1>6 DEF Reaches
    <3> QED BY <1>4, <3>1
  <2>3. PICK i \in 1 .. Len(q) : q[i].type = "frame" /\ q[i].n = w
    BY <1>6, <2>2, Zenon DEF Reaches, Carries
  <2> QED BY <1>3, <1>4, <2>1, <2>3, Zenon DEF Reaches, Carries
<1> QED BY <1>1, <1>4, <1>5, <1>6, Zenon DEF InOrder, t

\* A wire without frames.
LEMMA OrderNone ==
    ASSUME NEW q, \A i \in 1 .. Len(q) : q[i].type # "frame", NEW r, NEW w
    PROVE  InOrder(q, r) /\ (w = r => Reaches(q, r, w))
BY Zenon DEF InOrder, Reaches

\* Writing something other than a frame.
LEMMA OrderOther ==
    ASSUME NEW S, Numbered(S), NEW q \in Seq(S), NEW m \in S, m.type # "frame",
           NEW r \in Nat, NEW w \in Nat
    PROVE  /\ InOrder(q, r) => InOrder(q \o <<m>>, r)
           /\ Reaches(q, r, w) => Reaches(q \o <<m>>, r, w)
<1> DEFINE t == q \o <<m>>
<1>1. /\ Len(q) \in Nat /\ Len(t) = Len(q) + 1 /\ t[Len(q) + 1] = m
      /\ \A i \in 1 .. Len(q) : t[i] = q[i] /\ i \in 1 .. Len(t)
  OBVIOUS
<1> HIDE DEF t
<1>2. \A i \in 1 .. Len(t) : t[i].type = "frame" =>
          /\ i \in 1 .. Len(q) /\ t[i] = q[i]
          /\ \A j \in 1 .. i - 1 : j \in 1 .. Len(q) /\ t[j] = q[j]
  <2> SUFFICES ASSUME NEW i \in 1 .. Len(t), t[i].type = "frame"
               PROVE  /\ i \in 1 .. Len(q)
                      /\ \A j \in 1 .. i - 1 : j \in 1 .. Len(q)
    BY <1>1, Zenon
  <2>1. i # Len(q) + 1
    BY <1>1, Zenon
  <2> QED BY <1>1, <2>1
<1>3. ASSUME InOrder(q, r) PROVE InOrder(t, r)
  BY <1>2, <1>3, Zenon DEF InOrder
<1>4. ASSUME Reaches(q, r, w) PROVE Reaches(t, r, w)
  BY <1>1, <1>2, <1>4, Zenon DEF Reaches, Carries
<1> QED BY <1>3, <1>4, Zenon DEF t

\* Losing the end of the wire.
LEMMA OrderPrefix ==
    ASSUME NEW S, NEW q \in Seq(S), NEW i \in 0 .. Len(q), NEW r, InOrder(q, r)
    PROVE  InOrder(SubSeq(q, 1, i), r)
<1> DEFINE t == SubSeq(q, 1, i)
<1>1. Len(t) = i /\ \A j \in 1 .. i : j \in 1 .. Len(q) /\ t[j] = q[j]
  BY PrefixAt, Zenon
<1> HIDE DEF t
<1>2. \A j \in 1 .. i : \A k \in 1 .. j - 1 : k \in 1 .. i
  OBVIOUS
<1> QED BY <1>1, <1>2, Zenon DEF InOrder, t

\* Writing the frames that follow the last one written.
LEMMA OrderFrames ==
    ASSUME NEW S, Numbered(S), NEW q \in Seq(S), NEW f \in Seq(S),
           NEW r \in Nat, NEW w \in Nat, InOrder(q, r), Reaches(q, r, w),
           \A i \in 1 .. Len(f) : f[i].type = "frame" /\ f[i].n = w + i
    PROVE  InOrder(q \o f, r) /\ Reaches(q \o f, r, w + Len(f))
<1> DEFINE t == q \o f
<1>1. /\ Len(q) \in Nat /\ Len(f) \in Nat /\ Len(t) = Len(q) + Len(f)
      /\ \A i \in 1 .. Len(q) : t[i] = q[i] /\ i \in 1 .. Len(t)
      /\ \A i \in 1 .. Len(f) : t[Len(q) + i] = f[i] /\ Len(q) + i \in 1 .. Len(t)
      /\ \A i \in 1 .. Len(q) : q[i].type = "frame" => q[i].n \in Nat
  BY DEF Numbered
<1> HIDE DEF t
<1>2. /\ \A i \in 1 .. Len(q) : q[i].type = "frame" => q[i].n <= w
      /\ w = r \/ Carries(q, w)
  BY Zenon DEF Reaches
<1>3. w >= r
  <2>1. ASSUME NEW i \in 1 .. Len(q), q[i].type = "frame", q[i].n = w PROVE w > r
    BY <2>1, Zenon DEF InOrder
  <2> QED BY <1>2, <2>1 DEF Carries
<1>4. ASSUME NEW i \in 1 .. Len(t), t[i].type = "frame"
      PROVE  /\ t[i].n > r /\ t[i].n <= w + Len(f)
             /\ \A j \in 1 .. i - 1 : t[j].type = "frame" => t[j].n < t[i].n
             /\ \/ t[i].n = r + 1
                \/ \E j \in 1 .. i - 1 : t[j].type = "frame" /\ t[j].n = t[i].n - 1
  <2>1. CASE i \in 1 .. Len(q)
    <3>1. t[i] = q[i] /\ \A j \in 1 .. i - 1 : j \in 1 .. Len(q) /\ t[j] = q[j]
      BY <1>1, <2>1
    <3>2. /\ t[i].n > r
          /\ \A j \in 1 .. i - 1 : t[j].type = "frame" => t[j].n < t[i].n
          /\ \/ t[i].n = r + 1
             \/ \E j \in 1 .. i - 1 : t[j].type = "frame" /\ t[j].n = t[i].n - 1
      BY <1>4, <2>1, <3>1, Zenon DEF InOrder
    <3>3. t[i].n \in Nat /\ t[i].n <= w
      BY <1>1, <1>2, <1>4, <2>1, <3>1, Zenon
    <3> QED BY <1>1, <3>2, <3>3
  <2>2. CASE i \notin 1 .. Len(q)
    <3>1. PICK p \in 1 .. Len(f) : i = Len(q) + p
      <4>1. i - Len(q) \in 1 .. Len(f) /\ i = Len(q) + (i - Len(q))
        BY <1>1, <2>2
      <4> QED BY <4>1, Zenon
    <3>2. t[i].n = w + p
      BY <1>1, <3>1, Zenon
    <3>3. t[i].n > r /\ t[i].n <= w + Len(f)
      BY <1>1, <1>3, <3>2
    <3>4. ASSUME NEW j \in 1 .. i - 1, t[j].type = "frame" PROVE t[j].n < t[i].n
      <4>1. CASE j \in 1 .. Len(q)
        <5>1. t[j].n <= w /\ t[j].n \in Nat
          BY <1>1, <1>2, <3>4, <4>1, Zenon
        <5> QED BY <3>2, <5>1
      <4>2. CASE j \notin 1 .. Len(q)
        <5>1. j - Len(q) \in 1 .. p - 1 /\ j - Len(q) \in 1 .. Len(f)
              /\ j = Len(q) + (j - Len(q))
          BY <1>1, <3>1, <4>2
        <5>2. PICK o \in 1 .. Len(f) : o \in 1 .. p - 1 /\ j = Len(q) + o
          BY <5>1, Zenon
        <5>3. t[j].n = w + o
          BY <1>1, <5>2, Zenon
        <5> QED BY <3>2, <5>2, <5>3
      <4> QED BY <4>1, <4>2, Zenon
    <3>5. \/ t[i].n = r + 1
          \/ \E j \in 1 .. i - 1 : t[j].type = "frame" /\ t[j].n = t[i].n - 1
      <4>1. CASE p = 1 /\ w = r
        BY <3>2, <4>1
      <4>2. CASE p = 1 /\ Carries(q, w)
        <5>1. PICK j \in 1 .. Len(q) : q[j].type = "frame" /\ q[j].n = w
          BY <4>2, Zenon DEF Carries
        <5>2. j \in 1 .. i - 1 /\ t[j] = q[j] /\ w = t[i].n - 1
          BY <1>1, <3>1, <3>2, <4>2
        <5> QED BY <5>1, <5>2, Zenon
      <4>3. CASE p # 1
        <5>1. /\ p - 1 \in 1 .. Len(f) /\ Len(q) + (p - 1) \in 1 .. i - 1
              /\ w + (p - 1) = t[i].n - 1
          BY <1>1, <3>1, <3>2, <4>3
        <5>2. /\ t[Len(q) + (p - 1)].type = "frame"
              /\ t[Len(q) + (p - 1)].n = w + (p - 1)
          BY <1>1, <5>1, Zenon
        <5> QED BY <5>1, <5>2, Zenon
      <4> QED BY <1>2, <4>1, <4>2, <4>3, Zenon
    <3> QED BY <3>3, <3>4, <3>5, Zenon
  <2> QED BY <2>1, <2>2, Zenon
<1>5. w + Len(f) = r \/ Carries(t, w + Len(f))
  <2>1. CASE Len(f) = 0
    <3>1. w + Len(f) = w
      BY <2>1
    <3> QED BY <1>1, <1>2, <3>1, Zenon DEF Carries
  <2>2. CASE Len(f) # 0
    <3>1. Len(f) \in 1 .. Len(f)
      BY <1>1, <2>2
    <3> QED BY <1>1, <3>1, Zenon DEF Carries
  <2> QED BY <2>1, <2>2, Zenon
<1> QED BY <1>4, <1>5, Zenon DEF InOrder, Reaches, t

(***************************************************************************)
(* The client's frames in a dispatcher's queue and on the wire behind it.  *)
(***************************************************************************)
\* Client messages are numbered.
LEMMA ClientNumbers == \A m \in ClientMessage : m.n \in Nat
BY Zenon DEF ClientMessage

\* A claim brings no gap to what other links carry.
LEMMA GapGrows ==
    ASSUME NEW q \in Seq(Nat), NEW w \in Seq(ClientMessage),
           NEW h \in Nat, NEW g \in Nat, h <= g
    PROVE  /\ NoGap(q, w, h) => NoGap(q, w, g)
           /\ \A n \in Int : Arrives(q, w, h, n) => Arrives(q, w, g, n)
<1>1. \A n \in Int : (n <= h => n <= g) /\ (n <= h + 1 => n <= g + 1)
  OBVIOUS
<1>2. \A i \in 1 .. Len(q) : q[i] \in Int
  OBVIOUS
<1>3. \A i \in 1 .. Len(w) : w[i].n \in Int
  <2>1. \A i \in 1 .. Len(w) : w[i] \in ClientMessage
    OBVIOUS
  <2> QED BY <2>1, ClientNumbers
<1>4. ASSUME NoGap(q, w, h) PROVE NoGap(q, w, g)
  BY <1>1, <1>2, <1>3, <1>4, Zenon DEF NoGap
<1> QED BY <1>1, <1>4, Zenon DEF Arrives

\* The first frame queued leaves no gap, and once it is claimed neither do the
\* others.
LEMMA GapClaim ==
    ASSUME NEW q \in Seq(Nat), q # << >>, NEW w \in Seq(ClientMessage),
           NEW h \in Nat, NEW g \in Nat, NoGap(q, w, h)
    PROVE  /\ Head(q) <= h + 1
           /\ Head(q) <= g /\ h <= g =>
                 /\ NoGap(Tail(q), w, g)
                 /\ \A n \in Int : Arrives(q, w, h, n) => Arrives(Tail(q), w, g, n)
<1> DEFINE t == Tail(q)
<1>1. /\ t \in Seq(Nat) /\ Len(q) \in Nat /\ Len(q) >= 1
      /\ Head(q) = q[1] /\ Len(t) = Len(q) - 1
      /\ \A i \in 1 .. Len(q) - 1 : t[i] = q[i + 1]
      /\ \A i \in 1 .. Len(q) : q[i] \in Nat
  BY TailAt
<1> HIDE DEF t
<1>2. Head(q) <= h + 1
  <2>1. 1 \in 1 .. Len(q) /\ 1 .. 1 - 1 = {}
    BY <1>1
  <2> QED BY <1>1, <2>1, Zenon DEF NoGap
<1>3. ASSUME Head(q) <= g, h <= g
      PROVE  /\ NoGap(t, w, g)
             /\ \A n \in Int : Arrives(q, w, h, n) => Arrives(t, w, g, n)
  <2>1. \A n \in Int : /\ n <= h => n <= g
                       /\ n <= h + 1 => n <= g + 1
                       /\ n - 1 = q[1] => n <= g + 1
                       /\ n = q[1] => n <= g
    BY <1>1, <1>3
  <2>2. \A i \in 1 .. Len(t) : /\ i + 1 \in 1 .. Len(q) /\ t[i] = q[i + 1]
                               /\ 1 .. (i + 1) - 1 = 1 .. i /\ i \in Nat
    BY <1>1
  <2>3. \A i \in 1 .. Len(q) : /\ i # 1 => i - 1 \in 1 .. Len(t) /\ t[i - 1] = q[i]
                               /\ q[i] \in Int
    BY <1>1
  <2>4. \A n \in Int : n \in Elems(q) => n <= g \/ n \in Elems(t)
    <3> TAKE n \in Int
    <3>1. ASSUME NEW i \in 1 .. Len(q), n = q[i] PROVE n <= g \/ n \in Elems(t)
      BY <2>1, <2>3, <3>1, Zenon DEF Elems
    <3> QED BY <3>1, Zenon DEF Elems
  <2>5. ASSUME NEW i \in 1 .. Len(t)
        PROVE  t[i] <= g + 1 \/ \E j \in 1 .. i - 1 : t[j] = t[i] - 1
    <3>1. t[i] = q[i + 1] /\ t[i] \in Int /\ i \in Nat
      BY <2>2, <2>3, Zenon
    <3>2. CASE t[i] <= h + 1
      BY <2>1, <3>1, <3>2, Zenon
    <3>3. ASSUME NEW j \in 1 .. i, q[j] = t[i] - 1
          PROVE  t[i] <= g + 1 \/ \E k \in 1 .. i - 1 : t[k] = t[i] - 1
      <4>1. CASE j = 1
        BY <2>1, <3>1, <3>3, <4>1, Zenon
      <4>2. CASE j # 1
        <5>1. j - 1 \in 1 .. i - 1 /\ j \in 1 .. Len(q)
          BY <1>1, <3>1, <4>2
        <5> QED BY <2>3, <3>3, <4>2, <5>1, Zenon
      <4> QED BY <4>1, <4>2, Zenon
    <3>4. t[i] <= h + 1 \/ \E j \in 1 .. i : q[j] = t[i] - 1
      BY <2>2, Zenon DEF NoGap
    <3> QED BY <3>2, <3>3, <3>4, Zenon
  <2>6. ASSUME NEW i \in 1 .. Len(w), w[i].type = "frame"
        PROVE  \/ w[i].n <= g + 1
               \/ w[i].n - 1 \in Elems(t)
               \/ \E j \in 1 .. i - 1 : w[j].type = "frame" /\ w[j].n = w[i].n - 1
    <3>1. w[i].n \in Int /\ w[i].n - 1 \in Int
      <4>1. w[i] \in ClientMessage
        OBVIOUS
      <4> QED BY <4>1, ClientNumbers
    <3>2. w[i].n - 1 <= g => w[i].n <= g + 1
      BY <3>1
    <3> QED BY <2>1, <2>4, <2>6, <3>1, <3>2, Zenon DEF NoGap
  <2>7. \A n \in Int : Arrives(q, w, h, n) => Arrives(t, w, g, n)
    BY <2>1, <2>4, Zenon DEF Arrives
  <2> QED BY <2>5, <2>6, <2>7, Zenon DEF NoGap
<1> QED BY <1>2, <1>3, Zenon DEF t

\* Reading a frame moves it behind those already queued.
LEMMA GapRead ==
    ASSUME NEW q \in Seq(Nat), NEW w \in Seq(ClientMessage), w # << >>,
           Head(w).type = "frame", NEW h \in Nat, NoGap(q, w, h)
    PROVE  /\ NoGap(Append(q, Head(w).n), Tail(w), h)
           /\ \A n \in Int : Arrives(q, w, h, n) =>
                              Arrives(Append(q, Head(w).n), Tail(w), h, n)
<1> DEFINE t == Tail(w)
           p == Append(q, Head(w).n)
<1>1. /\ t \in Seq(ClientMessage) /\ Len(w) \in Nat /\ Len(w) >= 1
      /\ Head(w) = w[1] /\ Len(t) = Len(w) - 1
      /\ \A i \in 1 .. Len(w) - 1 : t[i] = w[i + 1]
      /\ \A i \in 1 .. Len(w) : w[i] \in ClientMessage
  BY TailAt
<1>2. \A i \in 1 .. Len(w) : w[i].n \in Nat
  BY <1>1, ClientNumbers, Zenon
<1>3. Head(w).n \in Nat
  BY <1>1, ClientNumbers
<1>4. /\ Len(q) \in Nat /\ Len(p) = Len(q) + 1 /\ p[Len(q) + 1] = w[1].n
      /\ \A i \in 1 .. Len(q) : p[i] = q[i]
  BY <1>1, <1>3
<1> HIDE DEF t, p
<1>5. \A n : n \in Elems(p) <=> n \in Elems(q) \/ n = w[1].n
  <2>1. \A i \in 1 .. Len(p) : i \in 1 .. Len(q) \/ i = Len(q) + 1
    BY <1>4
  <2>2. Len(q) + 1 \in 1 .. Len(p) /\ \A i \in 1 .. Len(q) : i \in 1 .. Len(p)
    BY <1>4
  <2> QED BY <1>4, <2>1, <2>2, Zenon DEF Elems
<1>6. ASSUME NEW i \in 1 .. Len(p)
      PROVE  p[i] <= h + 1 \/ \E j \in 1 .. i - 1 : p[j] = p[i] - 1
  <2>1. CASE i \in 1 .. Len(q)
    <3>1. p[i] = q[i] /\ \A j \in 1 .. i - 1 : j \in 1 .. Len(q) /\ p[j] = q[j]
      BY <1>4, <2>1
    <3> QED BY <2>1, <3>1, Zenon DEF NoGap
  <2>2. CASE i \notin 1 .. Len(q)
    <3>1. i = Len(q) + 1 /\ 1 .. i - 1 = 1 .. Len(q)
      BY <1>4, <2>2
    <3>2. 1 \in 1 .. Len(w) /\ 1 .. 1 - 1 = {}
      BY <1>1
    <3>3. w[1].n <= h + 1 \/ w[1].n - 1 \in Elems(q)
      BY <1>1, <3>2, Zenon DEF NoGap
    <3> QED BY <1>4, <3>1, <3>3, Zenon DEF Elems
  <2> QED BY <2>1, <2>2, Zenon
<1>7. \A i \in 1 .. Len(t) : /\ i + 1 \in 1 .. Len(w) /\ t[i] = w[i + 1]
                             /\ 1 .. (i + 1) - 1 = 1 .. i /\ i \in Nat
  BY <1>1
<1>8. \A i \in 1 .. Len(w) : i # 1 => i - 1 \in 1 .. Len(t) /\ t[i - 1] = w[i]
  BY <1>1
<1>9. ASSUME NEW i \in 1 .. Len(t), t[i].type = "frame"
      PROVE  \/ t[i].n <= h + 1
             \/ t[i].n - 1 \in Elems(p)
             \/ \E j \in 1 .. i - 1 : t[j].type = "frame" /\ t[j].n = t[i].n - 1
  <2>1. \/ t[i].n <= h + 1
        \/ t[i].n - 1 \in Elems(q)
        \/ \E j \in 1 .. i : w[j].type = "frame" /\ w[j].n = t[i].n - 1
    BY <1>7, <1>9, ZenonT(60) DEF NoGap
  <2>2. ASSUME NEW j \in 1 .. i, w[j].type = "frame", w[j].n = t[i].n - 1
        PROVE  \/ t[i].n - 1 \in Elems(p)
               \/ \E k \in 1 .. i - 1 : t[k].type = "frame" /\ t[k].n = t[i].n - 1
    <3>1. CASE j = 1
      BY <1>5, <2>2, <3>1, Zenon
    <3>2. CASE j # 1
      <4>1. j - 1 \in 1 .. i - 1 /\ j \in 1 .. Len(w)
        BY <1>1, <1>7, <3>2
      <4> QED BY <1>8, <2>2, <3>2, <4>1, Zenon
    <3> QED BY <3>1, <3>2, Zenon
  <2> QED BY <1>5, <2>1, <2>2, Zenon
<1>10. ASSUME NEW n \in Int, Arrives(q, w, h, n) PROVE Arrives(p, t, h, n)
  <2>1. ASSUME NEW i \in 1 .. Len(w), w[i].type = "frame", w[i].n = n
        PROVE  n \in Elems(p) \/ Carries(t, n)
    BY <1>5, <1>8, <2>1, Zenon DEF Carries
  <2> QED BY <1>5, <1>10, <2>1, Zenon DEF Arrives, Carries
<1> QED BY <1>6, <1>9, <1>10, Zenon DEF NoGap, t, p

\* Reading something other than a frame.
LEMMA GapSkip ==
    ASSUME NEW q \in Seq(Nat), NEW w \in Seq(ClientMessage), w # << >>,
           Head(w).type # "frame", NEW h \in Nat, NoGap(q, w, h)
    PROVE  /\ NoGap(q, Tail(w), h)
           /\ \A n \in Int : Arrives(q, w, h, n) => Arrives(q, Tail(w), h, n)
<1> DEFINE t == Tail(w)
<1>1. /\ t \in Seq(ClientMessage) /\ Len(w) \in Nat /\ Len(w) >= 1
      /\ Head(w) = w[1] /\ Len(t) = Len(w) - 1
      /\ \A i \in 1 .. Len(w) - 1 : t[i] = w[i + 1]
  BY TailAt
<1> HIDE DEF t
<1>2. \A i \in 1 .. Len(t) : /\ i + 1 \in 1 .. Len(w) /\ t[i] = w[i + 1]
                             /\ 1 .. (i + 1) - 1 = 1 .. i /\ i \in Nat
  BY <1>1
<1>3. \A i \in 1 .. Len(w) : w[i].type = "frame" =>
          i # 1 /\ i - 1 \in 1 .. Len(t) /\ t[i - 1] = w[i]
  BY <1>1
<1>4. ASSUME NEW i \in 1 .. Len(t), t[i].type = "frame"
      PROVE  \/ t[i].n <= h + 1
             \/ t[i].n - 1 \in Elems(q)
             \/ \E j \in 1 .. i - 1 : t[j].type = "frame" /\ t[j].n = t[i].n - 1
  <2>1. \/ t[i].n <= h + 1
        \/ t[i].n - 1 \in Elems(q)
        \/ \E j \in 1 .. i : w[j].type = "frame" /\ w[j].n = t[i].n - 1
    BY <1>2, <1>4, Zenon DEF NoGap
  <2>2. ASSUME NEW j \in 1 .. i, w[j].type = "frame", w[j].n = t[i].n - 1
        PROVE  \E k \in 1 .. i - 1 : t[k].type = "frame" /\ t[k].n = t[i].n - 1
    <3>1. j \in 1 .. Len(w)
      BY <1>1, <1>2
    <3>2. j # 1 /\ t[j - 1] = w[j]
      BY <1>3, <2>2, <3>1, Zenon
    <3>3. j - 1 \in 1 .. i - 1
      BY <1>2, <3>2
    <3> QED BY <2>2, <3>2, <3>3, Zenon
  <2> QED BY <2>1, <2>2, Zenon
<1>5. \A n \in Int : Arrives(q, w, h, n) => Arrives(q, t, h, n)
  BY <1>3, Zenon DEF Arrives, Carries
<1> QED BY <1>4, <1>5, Zenon DEF NoGap, t

\* Writing frames each of which follows one that arrives, or one written with
\* it.
LEMMA GapWrite ==
    ASSUME NEW q \in Seq(Nat), NEW w \in Seq(ClientMessage),
           NEW f \in Seq(ClientMessage), NEW h \in Nat, NoGap(q, w, h),
           \A i \in 1 .. Len(f) : f[i].type = "frame" =>
               \/ Arrives(q, w, h, f[i].n - 1)
               \/ \E j \in 1 .. i - 1 : f[j].type = "frame" /\ f[j].n = f[i].n - 1
    PROVE  /\ NoGap(q, w \o f, h)
           /\ \A n \in Int : Arrives(q, w, h, n) \/ Carries(f, n) =>
                              Arrives(q, w \o f, h, n)
<1> DEFINE t == w \o f
<1>1. /\ Len(w) \in Nat /\ Len(f) \in Nat /\ Len(t) = Len(w) + Len(f)
      /\ \A i \in 1 .. Len(w) : t[i] = w[i] /\ i \in 1 .. Len(t)
      /\ \A i \in 1 .. Len(f) : /\ t[Len(w) + i] = f[i]
                                /\ Len(w) + i \in 1 .. Len(t)
                                /\ f[i] \in ClientMessage
  OBVIOUS
<1> HIDE DEF t
<1>2. \A n \in Int : Arrives(q, w, h, n) \/ Carries(f, n) => Arrives(q, t, h, n)
  BY <1>1, Zenon DEF Arrives, Carries
<1>3. ASSUME NEW i \in 1 .. Len(t), t[i].type = "frame"
      PROVE  \/ t[i].n <= h + 1
             \/ t[i].n - 1 \in Elems(q)
             \/ \E j \in 1 .. i - 1 : t[j].type = "frame" /\ t[j].n = t[i].n - 1
  <2>1. CASE i \in 1 .. Len(w)
    <3>1. t[i] = w[i] /\ \A j \in 1 .. i - 1 : j \in 1 .. Len(w) /\ t[j] = w[j]
      BY <1>1, <2>1
    <3> QED BY <1>3, <2>1, <3>1, ZenonT(60) DEF NoGap
  <2>2. CASE i \notin 1 .. Len(w)
    <3>1. PICK p \in 1 .. Len(f) : i = Len(w) + p
      <4>1. i - Len(w) \in 1 .. Len(f) /\ i = Len(w) + (i - Len(w))
        BY <1>1, <2>2
      <4> QED BY <4>1, Zenon
    <3>2. t[i] = f[p] /\ f[p].n \in Nat
      BY <1>1, <3>1, ClientNumbers, Zenon
    <3>3. CASE f[p].n - 1 <= h
      BY <3>2, <3>3
    <3>4. CASE f[p].n - 1 \in Elems(q)
      BY <3>2, <3>4, Zenon
    <3>5. CASE Carries(w, f[p].n - 1)
      <4>1. PICK j \in 1 .. Len(w) : w[j].type = "frame" /\ w[j].n = f[p].n - 1
        BY <3>5, Zenon DEF Carries
      <4>2. j \in 1 .. i - 1 /\ t[j] = w[j]
        BY <1>1, <3>1
      <4> QED BY <3>2, <4>1, <4>2, Zenon
    <3>6. ASSUME NEW j \in 1 .. p - 1, f[j].type = "frame", f[j].n = f[p].n - 1
          PROVE  \E k \in 1 .. i - 1 : t[k].type = "frame" /\ t[k].n = t[i].n - 1
      <4>1. Len(w) + j \in 1 .. i - 1 /\ t[Len(w) + j] = f[j]
        BY <1>1, <3>1
      <4> QED BY <3>2, <3>6, <4>1, Zenon
    <3> QED BY <1>3, <3>2, <3>3, <3>4, <3>5, <3>6, Zenon DEF Arrives
  <2> QED BY <2>1, <2>2, Zenon
<1> QED BY <1>2, <1>3, Zenon DEF NoGap, t

\* Losing the end of the wire.
LEMMA GapPrefix ==
    ASSUME NEW q \in Seq(Nat), NEW w \in Seq(ClientMessage), NEW i \in 0 .. Len(w),
           NEW h, NoGap(q, w, h)
    PROVE  NoGap(q, SubSeq(w, 1, i), h)
<1> DEFINE t == SubSeq(w, 1, i)
<1>1. Len(t) = i /\ \A j \in 1 .. i : j \in 1 .. Len(w) /\ t[j] = w[j]
  BY PrefixAt, Zenon
<1> HIDE DEF t
<1>2. \A j \in 1 .. i : \A k \in 1 .. j - 1 : k \in 1 .. i
  OBVIOUS
<1> QED BY <1>1, <1>2, Zenon DEF NoGap, t

\* A link that has carried nothing yet.
LEMMA GapEmpty ==
    ASSUME NEW h
    PROVE  NoGap(<< >>, << >>, h)
<1>1. Len(<< >>) = 0 /\ 1 .. 0 = {}
  OBVIOUS
<1> QED BY <1>1, Zenon DEF NoGap

(***************************************************************************)
(* Steps.                                                                  *)
(***************************************************************************)
\* What LinkInv compares, with its types.
LEMMA LinkTypes ==
    ASSUME TypeOK, NEW l \in Links
    PROVE  /\ lastClient \in Nat /\ nextServer \in Nat /\ nextClient \in Nat
           /\ received \in Nat /\ attempts \in Nat /\ written[l] \in Nat
           /\ srv[l] \in {"unused", "hello", "open", "ended"}
           /\ cli[l] \in {"unused", "opening", "ready", "ended"}
           /\ l \in Nat /\ l # NoLink /\ nextClient - 1 \in Int
<1>1. /\ lastClient \in Nat /\ nextServer \in Nat /\ nextClient \in Nat
      /\ received \in Nat /\ written[l] \in Nat /\ attempts \in Links
      /\ srv[l] \in {"unused", "hello", "open", "ended"}
      /\ cli[l] \in {"unused", "opening", "ready", "ended"}
  BY Zenon DEF TypeOK, SessionTypes, ClientTypes, ServerLinkTypes
<1>2. \A k \in Links : k \in Nat /\ k # NoLink
  BY BoundsAssumption DEF Links, NoLink
<1>3. nextClient - 1 \in Int
  BY <1>1
<1> QED BY <1>1, <1>2, <1>3, Zenon

\* The entries of a link that LinkInv looks at stay as they are.
SameLink(k) ==
    /\ srv'[k] = srv[k] /\ queued'[k] = queued[k] /\ written'[k] = written[k]
    /\ verdict'[k] = verdict[k] /\ up'[k] = up[k]
    /\ c2s'[k] = c2s[k] /\ s2c'[k] = s2c[k]
    /\ cli'[k] = cli[k] /\ pendingAck'[k] = pendingAck[k]

\* A step that touches neither the link nor what it is compared with, but for
\* claims and the server sequence, which grow.
LEMMA LinkKept ==
    ASSUME TypeOK, TypeOK', NEW k \in Links, LinkInv(k), SameLink(k),
           lastClient <= lastClient', nextServer <= nextServer',
           attempts <= attempts', k = link' => k = link,
           k = current' => k = current,
           nextClient' = nextClient \/ k # link',
           received' = received \/ ~Active(k)
    PROVE  LinkInv(k)'
<1>1. /\ lastClient \in Nat /\ lastClient' \in Nat
      /\ nextServer \in Nat /\ nextServer' \in Nat
      /\ attempts \in Nat /\ attempts' \in Nat /\ k \in Nat
      /\ written[k] \in Nat /\ nextClient - 1 \in Int
      /\ queued[k] \in Seq(Nat) /\ c2s[k] \in Seq(ClientMessage)
  <2>1. lastClient' \in Nat /\ nextServer' \in Nat /\ attempts' \in Links
    BY Zenon DEF TypeOK, SessionTypes, ClientTypes
  <2>2. attempts' \in Nat
    BY <2>1, LinkTypes, Zenon
  <2> QED BY <2>1, <2>2, LinkTypes, QueueTypes, Zenon
<1>2. Active(k)' <=> Active(k)
  BY Zenon DEF Active, SameLink
<1>3. Phase(k)'
  <2>1. k > attempts' => k > attempts
    BY <1>1
  <2>2. k > attempts' => Unused(k)'
    BY <2>1, Zenon DEF LinkInv, Phase, Unused, SameLink
  <2>3. srv'[k] = "hello" => Greets(k)'
    BY Zenon DEF LinkInv, Phase, Greets, SameLink, Active
  <2> QED BY <1>2, <2>2, <2>3, Zenon DEF LinkInv, Phase, SameLink
<1>4. Upstream(k)'
  <2> SUFFICES ASSUME srv'[k] = "open" 
               PROVE  /\ NoGap(queued'[k], c2s'[k], lastClient')
                      /\ k = link' /\ up'[k] =>
                            Arrives(queued'[k], c2s'[k], lastClient', nextClient' - 1)
    BY Zenon DEF Upstream
  <2>1. /\ NoGap(queued[k], c2s[k], lastClient)
        /\ k = link /\ up[k] =>
              Arrives(queued[k], c2s[k], lastClient, nextClient - 1)
    BY Zenon DEF LinkInv, Upstream, SameLink
  <2>2. PICK h \in Nat : h = lastClient'
    BY <1>1, Zenon
  <2>3. NoGap(queued[k], c2s[k], h)
    BY <1>1, <2>1, <2>2, GapGrows, Zenon
  <2>4. k = link /\ up[k] => Arrives(queued[k], c2s[k], h, nextClient - 1)
    BY <1>1, <2>1, <2>2, GapGrows, Zenon
  <2> QED BY <2>2, <2>3, <2>4, Zenon DEF SameLink
<1>5. Downstream(k)'
  <2>1. written'[k] < nextServer'
    BY <1>1 DEF LinkInv, Downstream, SameLink
  <2> QED BY <1>2, <2>1, Zenon DEF LinkInv, Downstream, SameLink
<1> QED BY <1>3, <1>4, <1>5, Zenon DEF LinkInv, SameLink

\* Where what the server writes ends up.
LEMMA ServerWritesAt ==
    ASSUME TypeOK, NEW l \in Links, NEW msgs
    PROVE  /\ ServerWrites(l, msgs)[l] =
                 IF up[l] /\ Active(l) THEN s2c[l] \o msgs ELSE s2c[l]
           /\ \A k \in Links : k # l => ServerWrites(l, msgs)[k] = s2c[k]
BY Zenon DEF ServerWrites, Active, TypeOK, WireTypes

\* Where what the client writes ends up.
LEMMA ClientWritesAt ==
    ASSUME TypeOK, NEW l \in Links, NEW msgs
    PROVE  /\ ClientWrites(l, msgs)[l] =
                 IF up[l] /\ srv[l] # "ended" THEN c2s[l] \o msgs ELSE c2s[l]
           /\ \A k \in Links : k # l => ClientWrites(l, msgs)[k] = c2s[k]
BY Zenon DEF ClientWrites, TypeOK, WireTypes

\* The server's messages are numbered.
LEMMA ServerNumbers == Numbered(ServerMessage)
BY ServerMessageFields, Zenon DEF Numbered

\* A cursor the server has reached is not refused as invalid.
LEMMA CursorFine ==
    ASSUME NEW f, NEW next \in Nat, NEW a \in Nat, a < next
    PROVE  CursorError(f, next, a) \notin Violations
<1>1. ~(a >= next)
  OBVIOUS
<1> QED BY <1>1, Zenon DEF CursorError, Violations

\* A step of the server that leaves a link alone.
LEMMA ServerKept ==
    ASSUME TypeOK, TypeOK', NEW k \in Links, LinkInv(k), SameLink(k),
           UNCHANGED clientVars, lastClient <= lastClient',
           nextServer <= nextServer'
    PROVE  LinkInv(k)'
<1>1. /\ UNCHANGED <<attempts, link, current, nextClient, received>>
      /\ attempts \in Nat
  BY LinkTypes, Zenon DEF clientVars
<1>2. attempts <= attempts'
  BY <1>1
<1> QED BY <1>1, <1>2, LinkKept, Zenon

\* A step of the server on an open link that stays open.
LEMMA OpenStays ==
    ASSUME NEW l \in Links, LinkInv(l), srv[l] = "open", srv'[l] = "open",
           UNCHANGED <<clientVars, up>>, verdict'[l] = verdict[l],
           NoGap(queued'[l], c2s'[l], lastClient'),
           Arrives(queued[l], c2s[l], lastClient, nextClient - 1) =>
               Arrives(queued'[l], c2s'[l], lastClient', nextClient - 1),
           written'[l] < nextServer',
           Active(l) => InOrder(s2c'[l], received),
           Active(l) /\ up[l] => Reaches(s2c'[l], received, written'[l])
    PROVE  LinkInv(l)'
<1>1. UNCHANGED <<attempts, link, current, nextClient, received, cli, pendingAck>>
  BY Zenon DEF clientVars
<1>2. Active(l)' <=> Active(l)
  BY <1>1, Zenon DEF Active
<1>3. Phase(l)'
  <2>1. ~(l > attempts)
    BY Zenon DEF LinkInv, Phase, Unused
  <2> QED BY <1>1, <1>2, <2>1, Zenon DEF LinkInv, Phase
<1>4. Upstream(l)'
  BY <1>1, Zenon DEF LinkInv, Upstream
<1>5. Downstream(l)'
  BY <1>1, <1>2, Zenon DEF Downstream
<1> QED BY <1>3, <1>4, <1>5, Zenon DEF LinkInv

\* A socket that ends for a reason other than a violation.
LEMMA EndsSocketLinks ==
    ASSUME TypeOK, TypeOK', LinksInv, NEW l \in Links,
           NEW r \in Reasons \union {"lost"}, r \notin Violations,
           EndsSocket(l, r), srv[l] \in {"hello", "open"},
           UNCHANGED <<written, clientVars>>,
           lastClient <= lastClient', nextServer <= nextServer'
    PROVE  LinksInv'
<1>1. /\ srv' = [srv EXCEPT ![l] = "ended"]
      /\ verdict' = [verdict EXCEPT ![l] = r]
      /\ c2s' = [c2s EXCEPT ![l] = << >>]
      /\ queued' = [queued EXCEPT ![l] = << >>]
      /\ s2c' = ServerWrites(l, IF r = "lost" THEN << >> ELSE <<Close(r)>>)
      /\ up' = up
  BY Zenon DEF EndsSocket
<1>2. UNCHANGED <<attempts, link, current, nextClient, received, cli, pendingAck>>
  BY Zenon DEF clientVars
<1>3. ASSUME NEW k \in Links, k # l PROVE LinkInv(k)'
  <2>1. s2c'[k] = s2c[k]
    BY <1>1, <1>3, ServerWritesAt, Zenon
  <2>2. /\ srv'[k] = srv[k] /\ verdict'[k] = verdict[k]
        /\ c2s'[k] = c2s[k] /\ queued'[k] = queued[k]
    <3>1. /\ DOMAIN srv = Links /\ DOMAIN verdict = Links
          /\ DOMAIN c2s = Links /\ DOMAIN queued = Links
      BY Zenon DEF TypeOK, ServerLinkTypes, WireTypes
    <3> QED BY <1>1, <1>3, <3>1, Zenon
  <2>3. SameLink(k)
    BY <1>1, <1>2, <2>1, <2>2, Zenon DEF SameLink
  <2> QED BY <2>3, ServerKept, Zenon DEF LinksInv
<1>4. LinkInv(l)'
  <2>1. srv'[l] = "ended" /\ verdict'[l] = r
    BY <1>1, ZenonT(60) DEF TypeOK, ServerLinkTypes
  <2>2. Active(l)' <=> Active(l)
    BY <1>2, Zenon DEF Active
  <2>3. LinkInv(l)
    BY Zenon DEF LinksInv
  <2>4. Phase(l)'
    <3>1. ~(l > attempts)
      BY <2>3, Zenon DEF LinkInv, Phase, Unused
    <3> QED BY <1>2, <2>1, <2>2, <2>3, <3>1, Zenon DEF LinkInv, Phase
  <2>5. Upstream(l)'
    BY <2>1, Zenon DEF Upstream
  <2>6. written'[l] < nextServer'
    <3>1. written[l] < nextServer /\ written'[l] = written[l]
      BY <2>3, Zenon DEF LinkInv, Downstream
    <3>2. nextServer' \in Nat
      BY Zenon DEF TypeOK, SessionTypes
    <3> QED BY <3>1, <3>2, LinkTypes
  <2>7. ASSUME Active(l) PROVE InOrder(s2c'[l], received)
    <3>1. InOrder(s2c[l], received) /\ s2c[l] \in Seq(ServerMessage)
          /\ received \in Nat
      BY <2>3, <2>7, LinkTypes, QueueTypes, Zenon DEF LinkInv, Downstream
    <3>2. CASE r = "lost"
      <4>1. s2c'[l] = s2c[l] \/ s2c'[l] = s2c[l] \o << >>
        BY <1>1, <3>2, ServerWritesAt, Zenon
      <4>2. s2c[l] \o << >> = s2c[l]
        BY <3>1
      <4> QED BY <3>1, <4>1, <4>2, Zenon
    <3>3. CASE r # "lost"
      <4>1. s2c'[l] = s2c[l] \/ s2c'[l] = s2c[l] \o <<Close(r)>>
        BY <1>1, <3>3, ServerWritesAt, Zenon
      <4>2. Close(r) \in ServerMessage /\ Close(r).type # "frame"
        BY <3>3, Zenon DEF Close, ServerMessage
      <4>3. InOrder(s2c[l] \o <<Close(r)>>, received)
        BY <3>1, <4>2, ServerNumbers, OrderOther, Zenon
      <4> QED BY <3>1, <4>1, <4>3, Zenon
    <3> QED BY <3>2, <3>3, Zenon
  <2>8. Downstream(l)'
    BY <1>2, <2>1, <2>2, <2>6, <2>7, Zenon DEF Downstream
  <2> QED BY <2>1, <2>4, <2>5, <2>8, Zenon DEF LinkInv
<1> QED BY <1>3, <1>4, Zenon DEF LinksInv

\* What is on the client's wire after the server acknowledged.
LEMMA AckedLink ==
    ASSUME TypeOK, NEW l \in Links, LinkInv(l), srv[l] = "open",
           NEW n \in Nat, s2c' = ServerWrites(l, <<Ack(n)>>)
    PROVE  /\ Active(l) => InOrder(s2c'[l], received)
           /\ Active(l) /\ up[l] => Reaches(s2c'[l], received, written[l])
<1>1. /\ s2c[l] \in Seq(ServerMessage) /\ received \in Nat /\ written[l] \in Nat
      /\ Ack(n) \in ServerMessage /\ Ack(n).type # "frame"
  <2>1. Ack(n) \in ServerMessage /\ Ack(n).type # "frame"
    BY Zenon DEF Ack, ServerMessage
  <2> QED BY <2>1, LinkTypes, QueueTypes, Zenon
<1>2. s2c'[l] = IF up[l] /\ Active(l) THEN s2c[l] \o <<Ack(n)>> ELSE s2c[l]
  BY ServerWritesAt, Zenon
<1>3. /\ InOrder(s2c[l], received) => InOrder(s2c[l] \o <<Ack(n)>>, received)
      /\ Reaches(s2c[l], received, written[l]) =>
           Reaches(s2c[l] \o <<Ack(n)>>, received, written[l])
  BY <1>1, ServerNumbers, OrderOther, Zenon
<1>4. /\ Active(l) => InOrder(s2c[l], received)
      /\ Active(l) /\ up[l] => Reaches(s2c[l], received, written[l])
  BY Zenon DEF LinkInv, Downstream
<1> QED BY <1>2, <1>3, <1>4, Zenon

\* accept_client_frame finds no gap, so it claims, suppresses or meets a
\* session that is gone.
LEMMA AcceptFrameLinks ==
    ASSUME TypeOK, TypeOK', LinksInv, NEW l \in Links, AcceptFrame(l)
    PROVE  LinksInv'
<1> DEFINE s == Head(queued[l])
<1>1. /\ srv[l] = "open" /\ queued[l] # << >>
      /\ UNCHANGED <<nextServer, written, clientVars>>
  BY Zenon DEF AcceptFrame
<1>2. /\ LinkInv(l) /\ NoGap(queued[l], c2s[l], lastClient)
      /\ written[l] < nextServer
  BY <1>1, Zenon DEF LinksInv, LinkInv, Upstream, Downstream
<1>3. /\ queued[l] \in Seq(Nat) /\ c2s[l] \in Seq(ClientMessage) /\ s \in Nat
      /\ lastClient \in Nat /\ lastClient' \in Nat /\ nextClient - 1 \in Int
      /\ nextServer \in Nat
  <2>1. lastClient' \in Nat
    BY Zenon DEF TypeOK, SessionTypes
  <2> QED BY <1>1, <2>1, QueueTypes, LinkTypes, Zenon
<1>4. s <= lastClient + 1
  BY <1>1, <1>2, <1>3, GapClaim, Zenon
<1>5. nextServer <= nextServer'
  BY <1>1, <1>3
<1>6. CASE /\ s <= lastClient' /\ lastClient <= lastClient'
           /\ queued' = [queued EXCEPT ![l] = Tail(@)]
           /\ s2c' = ServerWrites(l, <<Ack(s)>>)
           /\ UNCHANGED <<srv, verdict, up, c2s>>
  <2>1. ASSUME NEW k \in Links, k # l PROVE LinkInv(k)'
    <3>1. s2c'[k] = s2c[k]
      BY <1>6, <2>1, ServerWritesAt, Zenon
    <3>2. SameLink(k)
      BY <1>1, <1>6, <2>1, <3>1, Zenon
      DEF SameLink, TypeOK, ServerLinkTypes, WireTypes, clientVars
    <3> QED BY <1>1, <1>5, <1>6, <3>2, ServerKept, Zenon DEF LinksInv
  <2>2. PICK g \in Nat : g = lastClient'
    BY <1>3, Zenon
  <2>3. /\ NoGap(Tail(queued[l]), c2s[l], g)
        /\ Arrives(queued[l], c2s[l], lastClient, nextClient - 1) =>
             Arrives(Tail(queued[l]), c2s[l], g, nextClient - 1)
    BY <1>1, <1>2, <1>3, <1>6, <2>2, GapClaim, Zenon
  <2>4. queued'[l] = Tail(queued[l])
    BY <1>6, Zenon DEF TypeOK, ServerLinkTypes
  <2>5. /\ Active(l) => InOrder(s2c'[l], received)
        /\ Active(l) /\ up[l] => Reaches(s2c'[l], received, written[l])
    BY <1>1, <1>2, <1>3, <1>6, AckedLink, Zenon
  <2>6. LinkInv(l)'
    BY <1>1, <1>2, <1>6, <2>2, <2>3, <2>4, <2>5, OpenStays, Zenon
  <2> QED BY <2>1, <2>6, Zenon DEF LinksInv
<1>7. CASE sess = "open" /\ NextToClaim(s)
  <2>1. ~ClaimedBefore(s)
    BY <1>3, <1>7 DEF NextToClaim, ClaimedBefore
  <2>2. /\ lastClient' = s /\ queued' = [queued EXCEPT ![l] = Tail(@)]
        /\ s2c' = ServerWrites(l, <<Ack(s)>>)
        /\ UNCHANGED <<srv, verdict, up, c2s>>
    BY <1>7, <2>1, Zenon DEF AcceptFrame
  <2>3. s <= lastClient' /\ lastClient <= lastClient'
    BY <1>3, <1>7, <2>2 DEF NextToClaim
  <2> QED BY <1>6, <2>2, <2>3, Zenon
<1>8. CASE sess = "open" /\ ClaimedBefore(s)
  <2>1. ~NextToClaim(s)
    BY <1>3, <1>8 DEF NextToClaim, ClaimedBefore
  <2>2. /\ lastClient' = lastClient /\ queued' = [queued EXCEPT ![l] = Tail(@)]
        /\ s2c' = ServerWrites(l, <<Ack(s)>>)
        /\ UNCHANGED <<srv, verdict, up, c2s>>
    BY <1>8, <2>1, Zenon DEF AcceptFrame
  <2>3. s <= lastClient' /\ lastClient <= lastClient'
    BY <1>3, <1>8, <2>2 DEF ClaimedBefore
  <2> QED BY <1>6, <2>2, <2>3, Zenon
<1>9. NextToClaim(s) \/ ClaimedBefore(s)
  BY <1>3, <1>4 DEF NextToClaim, ClaimedBefore
<1>10. CASE sess # "open"
  <2>1. EndsSocket(l, "sessionExpired") /\ lastClient' = lastClient
    BY <1>10, Zenon DEF AcceptFrame
  <2>2. lastClient <= lastClient'
    BY <1>3, <2>1
  <2>3. "sessionExpired" \in Reasons \union {"lost"} /\ "sessionExpired" \notin Violations
    BY Zenon DEF Reasons, Violations
  <2> QED BY <1>1, <1>5, <2>1, <2>2, <2>3, EndsSocketLinks, Zenon
<1> QED BY <1>7, <1>8, <1>9, <1>10, Zenon

\* A hello is refused only with the session or the replay window gone: it comes
\* first, and its cursor was reached.
LEMMA HelloFine ==
    ASSUME TypeOK, SessionInv, NEW l \in Links, LinkInv(l), srv[l] = "hello",
           c2s[l] # << >>
    PROVE  /\ Head(c2s[l]).n \in Nat /\ Head(c2s[l]).n < nextServer
           /\ HelloError(l) \notin Violations
<1>1. Head(c2s[l]).type = "hello"
  BY Zenon DEF LinkInv, Phase, Greets
<1>2. Head(c2s[l]).n \in Nat /\ Head(c2s[l]).n <= received
  <2>1. Head(c2s[l]).type # "frame"
    BY <1>1, Zenon
  <2> QED BY <2>1, CursorApplied, Zenon DEF SessionInv
<1>3. received < nextServer /\ received \in Nat /\ nextServer \in Nat
  BY LinkTypes, Zenon DEF SessionInv, DownInv
<1>4. Head(c2s[l]).n < nextServer
  BY <1>2, <1>3
<1>5. CursorError(front, nextServer, Head(c2s[l]).n) \notin Violations
  BY <1>2, <1>3, <1>4, CursorFine, Zenon
<1> QED BY <1>1, <1>2, <1>4, <1>5, Zenon DEF HelloError, Violations

\* open_session_link: the link continues from the cursor of its hello.
LEMMA OpenSessionLinks ==
    ASSUME TypeOK, TypeOK', SessionInv, LinksInv, NEW l \in Links,
           OpenSessionLink(l)
    PROVE  LinksInv'
<1> DEFINE cursor == Head(c2s[l]).n
           error == HelloError(l)
<1>1. /\ srv[l] = "hello" /\ c2s[l] # << >>
      /\ UNCHANGED <<lastClient, nextServer, clientVars>>
  BY Zenon DEF OpenSessionLink
<1>2. LinkInv(l) /\ Greets(l)
  BY <1>1, Zenon DEF LinksInv, LinkInv, Phase
<1>3. cursor \in Nat /\ cursor < nextServer /\ error \notin Violations
  BY <1>1, <1>2, HelloFine, Zenon
<1>4. lastClient <= lastClient' /\ nextServer <= nextServer'
  BY <1>1, LinkTypes
<1>5. CASE error # "none"
  <2>1. EndsSocket(l, error) /\ written' = written
    BY <1>5, Zenon DEF OpenSessionLink
  <2>2. error \in Reasons \union {"lost"}
    BY <1>5, HelloErrorType, Zenon
  <2> QED BY <1>1, <1>3, <1>4, <2>1, <2>2, EndsSocketLinks, Zenon
<1>6. CASE error = "none"
  <2>1. /\ written' = [written EXCEPT ![l] = cursor]
        /\ srv' = [srv EXCEPT ![l] = "open"]
        /\ c2s' = [c2s EXCEPT ![l] = Tail(@)]
        /\ s2c' = ServerWrites(l, <<Ready(lastClient)>>)
        /\ UNCHANGED <<queued, verdict, up>>
    BY <1>6, Zenon DEF OpenSessionLink
  <2>2. ASSUME NEW k \in Links, k # l PROVE LinkInv(k)'
    <3>1. s2c'[k] = s2c[k]
      BY <2>1, <2>2, ServerWritesAt, Zenon
    <3>2. srv'[k] = srv[k] /\ written'[k] = written[k] /\ c2s'[k] = c2s[k]
      BY <2>1, <2>2, ZenonT(60) DEF TypeOK, ServerLinkTypes, WireTypes
    <3>3. SameLink(k)
      BY <1>1, <2>1, <3>1, <3>2, Zenon DEF SameLink, clientVars
    <3> QED BY <1>1, <1>4, <3>3, ServerKept, Zenon DEF LinksInv
  <2>3. /\ srv'[l] = "open" /\ written'[l] = cursor /\ c2s'[l] = << >>
        /\ queued'[l] = << >> /\ s2c'[l] \in {<< >>, << >> \o <<Ready(lastClient)>>}
    <3>1. s2c'[l] \in {<< >>, << >> \o <<Ready(lastClient)>>}
      BY <1>2, <2>1, ServerWritesAt, Zenon DEF Greets
    <3>2. /\ srv'[l] = "open" /\ written'[l] = cursor
          /\ c2s'[l] = Tail(c2s[l]) /\ queued'[l] = queued[l]
      BY <2>1, ZenonT(60) DEF TypeOK, ServerLinkTypes, WireTypes
    <3> QED BY <1>1, <1>2, <3>1, <3>2, Zenon DEF Greets
  <2>4. \A i \in 1 .. Len(s2c'[l]) : s2c'[l][i].type # "frame"
    <3>1. /\ Len(<< >>) = 0
          /\ Len(<< >> \o <<Ready(lastClient)>>) = 1
          /\ (<< >> \o <<Ready(lastClient)>>)[1] = Ready(lastClient)
      OBVIOUS
    <3>2. Ready(lastClient).type # "frame"
      BY Zenon DEF Ready
    <3>3. \A i \in 1 .. 1 : i = 1
      OBVIOUS
    <3>4. \A i \in 1 .. 0 : FALSE
      OBVIOUS
    <3> QED BY <2>3, <3>1, <3>2, <3>3, <3>4, Zenon
  <2>5. UNCHANGED <<attempts, link, current, nextClient, received, cli, pendingAck>>
    BY <1>1, Zenon DEF clientVars
  <2>6. Active(l)' <=> Active(l)
    BY <2>5, Zenon DEF Active
  <2>7. Phase(l)'
    <3>1. ~(l > attempts)
      BY <1>1, <1>2, Zenon DEF LinkInv, Phase, Unused
    <3> QED BY <1>2, <2>3, <2>5, <2>6, <3>1, Zenon DEF LinkInv, Phase
  <2>8. Upstream(l)'
    <3>1. NoGap(queued'[l], c2s'[l], lastClient')
      BY <2>3, GapEmpty, Zenon
    <3>2. l # link
      BY <1>2, Zenon DEF LinkInv, Phase, Greets
    <3> QED BY <2>5, <3>1, <3>2, Zenon DEF Upstream
  <2>9. Downstream(l)'
    <3>1. written'[l] < nextServer'
      BY <1>1, <1>3, <2>3, Zenon
    <3>2. ASSUME Active(l) PROVE written'[l] = received
      BY <1>1, <1>2, <2>3, <3>2, Zenon DEF Active, Greets
    <3>3. PICK q : q = s2c'[l]
      BY Zenon
    <3>4. PICK w : w = written'[l]
      BY Zenon
    <3>5. InOrder(q, received) /\ (w = received => Reaches(q, received, w))
      BY <2>4, <3>3, OrderNone, Zenon
    <3> QED BY <2>5, <2>6, <3>1, <3>2, <3>3, <3>4, <3>5, Zenon DEF Downstream
  <2>10. LinkInv(l)'
    BY <1>2, <2>1, <2>7, <2>8, <2>9, Zenon DEF LinkInv
  <2> QED BY <2>2, <2>10, Zenon DEF LinksInv
<1> QED BY <1>5, <1>6, Zenon

\* read: a frame moves from the wire to the dispatcher's queue, an
\* acknowledgement is of frames the server has sent.
LEMMA ReadLinks ==
    ASSUME TypeOK, TypeOK', SessionInv, LinksInv, NEW l \in Links,
           ReadFrame(l) \/ ReadAck(l)
    PROVE  LinksInv'
<1>1. /\ srv[l] = "open" /\ c2s[l] # << >>
      /\ UNCHANGED <<lastClient, nextServer, written, clientVars>>
  BY Zenon DEF ReadFrame, ReadAck, sessionVars
<1>2. /\ LinkInv(l) /\ NoGap(queued[l], c2s[l], lastClient)
      /\ written[l] < nextServer
      /\ Active(l) => InOrder(s2c[l], received)
      /\ Active(l) /\ up[l] => Reaches(s2c[l], received, written[l])
  BY <1>1, Zenon DEF LinksInv, LinkInv, Upstream, Downstream
<1>3. /\ queued[l] \in Seq(Nat) /\ c2s[l] \in Seq(ClientMessage)
      /\ lastClient \in Nat /\ nextClient - 1 \in Int
  BY QueueTypes, LinkTypes, Zenon
<1>4. lastClient <= lastClient' /\ nextServer <= nextServer'
  BY <1>1, LinkTypes
<1>5. ASSUME c2s' = [c2s EXCEPT ![l] = Tail(@)], NEW x, 
             queued' = [queued EXCEPT ![l] = x],
             UNCHANGED <<srv, verdict, up, s2c>>,
             NoGap(x, Tail(c2s[l]), lastClient),
             Arrives(queued[l], c2s[l], lastClient, nextClient - 1) =>
                 Arrives(x, Tail(c2s[l]), lastClient, nextClient - 1)
      PROVE  LinksInv'
  <2>1. ASSUME NEW k \in Links, k # l PROVE LinkInv(k)'
    <3>1. SameLink(k)
      BY <1>1, <1>5, <2>1, Zenon
      DEF SameLink, TypeOK, ServerLinkTypes, WireTypes, clientVars
    <3> QED BY <1>1, <1>4, <3>1, ServerKept, Zenon DEF LinksInv
  <2>2. c2s'[l] = Tail(c2s[l]) /\ queued'[l] = x
    BY <1>5, Zenon DEF TypeOK, ServerLinkTypes, WireTypes
  <2>3. LinkInv(l)'
    BY <1>1, <1>2, <1>5, <2>2, OpenStays, Zenon
  <2> QED BY <2>1, <2>3, Zenon DEF LinksInv
<1>6. CASE ReadFrame(l)
  <2>1. /\ Head(c2s[l]).type = "frame"
        /\ queued' = [queued EXCEPT ![l] = Append(@, Head(c2s[l]).n)]
        /\ c2s' = [c2s EXCEPT ![l] = Tail(@)]
        /\ UNCHANGED <<srv, verdict, up, s2c>>
    BY <1>6, Zenon DEF ReadFrame
  <2>2. queued' = [queued EXCEPT ![l] = Append(queued[l], Head(c2s[l]).n)]
    BY <2>1, Zenon
  <2>3. /\ NoGap(Append(queued[l], Head(c2s[l]).n), Tail(c2s[l]), lastClient)
        /\ Arrives(queued[l], c2s[l], lastClient, nextClient - 1) =>
             Arrives(Append(queued[l], Head(c2s[l]).n), Tail(c2s[l]),
                     lastClient, nextClient - 1)
    BY <1>1, <1>2, <1>3, <2>1, GapRead, Zenon
  <2> QED BY <1>5, <2>1, <2>2, <2>3, Zenon
<1>7. CASE ReadAck(l)
  <2> DEFINE error == CursorError(front, nextServer, Head(c2s[l]).n)
  <2>1. Head(c2s[l]).type = "ack"
    BY <1>7, Zenon DEF ReadAck
  <2>2. CASE error = "none"
    <3>1. /\ c2s' = [c2s EXCEPT ![l] = Tail(@)]
          /\ UNCHANGED <<srv, verdict, queued, up, s2c>>
      BY <1>7, <2>2, Zenon DEF ReadAck
    <3>2. queued' = [queued EXCEPT ![l] = queued[l]]
      BY <3>1, Zenon DEF TypeOK, ServerLinkTypes
    <3>3. Head(c2s[l]).type # "frame"
      BY <2>1, Zenon
    <3>4. /\ NoGap(queued[l], Tail(c2s[l]), lastClient)
          /\ Arrives(queued[l], c2s[l], lastClient, nextClient - 1) =>
               Arrives(queued[l], Tail(c2s[l]), lastClient, nextClient - 1)
      BY <1>1, <1>2, <1>3, <3>3, GapSkip, Zenon
    <3> QED BY <1>5, <3>1, <3>2, <3>4, Zenon
  <2>3. CASE error # "none"
    <3>1. EndsSocket(l, error)
      BY <1>7, <2>3, Zenon DEF ReadAck
    <3>2. Head(c2s[l]).type # "frame"
      BY <2>1, Zenon
    <3>3. Head(c2s[l]).n \in Nat /\ Head(c2s[l]).n <= received
      BY <1>1, <3>2, CursorApplied, Zenon DEF SessionInv
    <3>4. received < nextServer /\ received \in Nat /\ nextServer \in Nat
      BY LinkTypes, Zenon DEF SessionInv, DownInv
    <3>5. Head(c2s[l]).n < nextServer
      BY <3>3, <3>4
    <3>6. error \notin Violations
      BY <3>3, <3>4, <3>5, CursorFine, Zenon
    <3>7. error \in Reasons \union {"lost"}
      BY <2>3, CursorErrorType, Zenon
    <3> QED BY <1>1, <1>4, <3>1, <3>6, <3>7, EndsSocketLinks, Zenon
  <2> QED BY <2>2, <2>3, Zenon
<1> QED BY <1>6, <1>7, Zenon

\* A step that touches no link.
LEMMA AllKept ==
    ASSUME TypeOK, TypeOK', LinksInv, UNCHANGED <<wireVars, clientVars>>,
           UNCHANGED <<srv, queued, written, verdict>>,
           UNCHANGED lastClient, nextServer <= nextServer'
    PROVE  LinksInv'
<1>1. lastClient <= lastClient'
  BY NumberTypes
<1>2. \A k \in Links : SameLink(k)
  BY Zenon DEF SameLink, wireVars, clientVars
<1> QED BY <1>1, <1>2, ServerKept, Zenon DEF LinksInv

\* enqueue_server_message only extends the server sequence.
LEMMA EnqueueGrows ==
    ASSUME TypeOK, NEW msgs \in Seq(Messages), Enqueue(msgs)
    PROVE  nextServer <= nextServer'
<1>1. Len(msgs) \in Nat /\ nextServer \in Nat
  BY NumberTypes
<1>2. nextServer' = nextServer + Len(msgs) \/ nextServer' = nextServer
  BY Zenon DEF Enqueue
<1> QED BY <1>1, <1>2

\* Handlers, deferred or not, the gateway and the client's liveness.
LEMMA ProcessLinks ==
    ASSUME TypeOK, TypeOK', LinksInv,
           \/ \E l \in Links : DispatchFrame(l) \/ DeferFrame(l)
           \/ \E n \in deferred : RunDeferred(n)
           \/ EmitEvent \/ ExpireClient \/ UNCHANGED vars
    PROVE  LinksInv'
<1>1. ASSUME NEW n \in Nat, RunsHandler(n) PROVE nextServer <= nextServer'
  <2>1. PICK replies \in {<< >>, <<Reply(n)>>} : Enqueue(replies)
    BY <1>1, Zenon DEF RunsHandler
  <2>2. Reply(n) \in Messages
    BY DEF Reply, Messages
  <2>3. << >> \in Seq(Messages) /\ <<Reply(n)>> \in Seq(Messages)
    BY <2>2, EmptySeqFacts, SingletonFacts
  <2>4. replies \in Seq(Messages)
    BY <2>1, <2>3, Zenon
  <2> QED BY <2>1, <2>4, EnqueueGrows, Zenon
<1>2. CASE nextServer' = nextServer
           /\ UNCHANGED <<wireVars, clientVars, srv, queued, written, verdict,
                          lastClient>>
  <2>1. nextServer <= nextServer'
    BY <1>2, NumberTypes
  <2> QED BY <1>2, <2>1, AllKept, Zenon
<1>3. ASSUME NEW l \in Links, DispatchFrame(l) PROVE LinksInv'
  <2>1. running[l] \in Nat
    BY NumberTypes, Zenon
  <2>2. nextServer <= nextServer'
    BY <1>1, <1>3, <2>1, Zenon DEF DispatchFrame
  <2> QED BY <1>3, <2>2, AllKept, Zenon DEF DispatchFrame
<1>4. ASSUME NEW l \in Links, DeferFrame(l) PROVE LinksInv'
  BY <1>2, <1>4, Zenon DEF DeferFrame, sessionVars
<1>5. ASSUME NEW n \in deferred, RunDeferred(n) PROVE LinksInv'
  <2>1. n \in Nat
    BY Zenon DEF TypeOK, LogTypes
  <2>2. nextServer <= nextServer'
    BY <1>1, <1>5, <2>1, Zenon DEF RunDeferred
  <2> QED BY <1>5, <2>2, AllKept, Zenon DEF RunDeferred, serverLinkVars
<1>6. CASE EmitEvent \/ ExpireClient \/ UNCHANGED vars
  BY <1>2, <1>6, Zenon DEF EmitEvent, ExpireClient, vars, sessionVars, serverLinkVars
<1> QED BY <1>3, <1>4, <1>5, <1>6, Zenon

\* The frames pumped to a link follow the last one written to it.
LEMMA FramesFollow ==
    ASSUME NEW f \in Nat, NEW log \in Seq(Messages), NEW w \in Nat,
           NEW next \in Nat, next = Len(log) + 1, w < next,
           ~(f < next /\ w + 1 < f)
    PROVE  /\ Len(FramesAfter(f, log, w)) \in Nat
           /\ w + Len(FramesAfter(f, log, w)) < next
           /\ \A i \in 1 .. Len(FramesAfter(f, log, w)) :
                  /\ FramesAfter(f, log, w)[i].type = "frame"
                  /\ FramesAfter(f, log, w)[i].n = w + i
<1> DEFINE first == Larger(f, w + 1)
           len == Larger(0, Len(log) - first + 1)
<1>1. /\ first \in Nat /\ len \in Nat /\ w + len < next
      /\ len > 0 => first = w + 1
  BY DEF Larger
<1>2. FramesAfter(f, log, w) =
        [i \in 1 .. len |-> ServerFrame(first + i - 1, log[first + i - 1])]
  BY Zenon DEF FramesAfter
<1> HIDE DEF first, len
<1>3. Len(FramesAfter(f, log, w)) = len
  BY <1>1, <1>2
<1>4. ASSUME NEW i \in 1 .. len
      PROVE  /\ FramesAfter(f, log, w)[i].type = "frame"
             /\ FramesAfter(f, log, w)[i].n = w + i
  <2>1. FramesAfter(f, log, w)[i] = ServerFrame(first + i - 1, log[first + i - 1])
    BY <1>2, <1>4, Zenon
  <2>2. first + i - 1 = w + i
    BY <1>1, <1>4
  <2>3. PICK a : a = first + i - 1
    BY Zenon
  <2>4. FramesAfter(f, log, w)[i] = ServerFrame(a, log[a]) /\ a = w + i
    BY <2>1, <2>2, <2>3, Zenon
  <2>5. ServerFrame(a, log[a]).type = "frame" /\ ServerFrame(a, log[a]).n = a
    BY Zenon DEF ServerFrame
  <2> QED BY <2>4, <2>5
<1> QED BY <1>1, <1>3, <1>4, Zenon

\* pump: a link is superseded or renews the client's liveness; then the frames
\* it has not carried are written behind the others.
LEMMA PumpLinks ==
    ASSUME TypeOK, TypeOK', SessionInv, SessionInv', LinksInv, NEW l \in Links,
           DrainGateway(l) \/ PushFrames(l) \/ LoseSocket(l)
    PROVE  LinksInv'
<1>1. LinkInv(l) /\ lastClient \in Nat /\ nextServer \in Nat
      /\ lastClient' = lastClient /\ UNCHANGED clientVars
  BY LinkTypes, Zenon DEF LinksInv, DrainGateway, PushFrames, LoseSocket, sessionVars
<1>2. lastClient <= lastClient'
  BY <1>1
<1>3. CASE DrainGateway(l)
  <2>1. nextServer' = nextServer /\ written' = written /\ srv[l] = "open"
    BY <1>3, Zenon DEF DrainGateway, sessionVars
  <2>2. nextServer <= nextServer'
    BY <1>1, <2>1
  <2>3. CASE UNCHANGED <<srv, verdict, c2s, queued, s2c, up>>
    BY <1>1, <2>1, <2>2, <2>3, AllKept, Zenon DEF wireVars
  <2>4. ASSUME NEW r \in {"superseded", "sessionExpired"}, EndsSocket(l, r)
        PROVE  LinksInv'
    <3>1. r \in Reasons \union {"lost"} /\ r \notin Violations
      BY Zenon DEF Reasons, Violations
    <3> QED BY <1>1, <1>2, <2>1, <2>2, <2>4, <3>1, EndsSocketLinks, Zenon
  <2> QED BY <1>3, <2>3, <2>4, Zenon DEF DrainGateway
<1>4. CASE LoseSocket(l)
  <2>1. /\ nextServer' = nextServer /\ written' = written
        /\ srv[l] \in {"hello", "open"} /\ EndsSocket(l, "lost")
    BY <1>4, Zenon DEF LoseSocket, sessionVars
  <2>2. nextServer <= nextServer'
    BY <1>1, <2>1
  <2>3. "lost" \in Reasons \union {"lost"} /\ "lost" \notin Violations
    BY Zenon DEF Violations
  <2> QED BY <1>1, <1>2, <2>1, <2>2, <2>3, EndsSocketLinks, Zenon
<1>5. CASE PushFrames(l)
  <2>1. Enqueue(held[l]) /\ held[l] \in Seq(Messages)
    BY <1>5, QueueTypes, Zenon DEF PushFrames
  <2>2. nextServer <= nextServer'
    BY <2>1, EnqueueGrows, Zenon
  <2>3. PICK f \in Nat, log \in Seq(Messages), next \in Nat :
            f = front' /\ log = enqueued' /\ next = nextServer'
    BY Zenon DEF TypeOK, SessionTypes
  <2>4. next = Len(log) + 1
    BY <2>3, Zenon DEF SessionInv, DownInv
  <2>5. /\ written[l] \in Nat /\ written[l] < next
        /\ received \in Nat /\ s2c[l] \in Seq(ServerMessage)
        /\ queued[l] \in Seq(Nat) /\ c2s[l] \in Seq(ClientMessage)
    <3>1. written[l] < nextServer
      BY <1>1, Zenon DEF LinkInv, Downstream
    <3>2. written[l] \in Nat
      BY LinkTypes, Zenon
    <3>3. written[l] < next
      BY <1>1, <2>2, <2>3, <3>1, <3>2
    <3> QED BY <3>2, <3>3, LinkTypes, QueueTypes, Zenon
  <2> DEFINE error == CursorError(f, next, written[l])
             frames == FramesAfter(f, log, written[l])
  <2>6. \/ /\ srv[l] = "open" /\ error = "none"
           /\ s2c' = ServerWrites(l, frames)
           /\ written' = [written EXCEPT ![l] = @ + Len(frames)]
           /\ UNCHANGED <<srv, verdict, c2s, queued, up>>
        \/ /\ srv[l] = "open" /\ error # "none"
           /\ EndsSocket(l, error) /\ written' = written
        \/ UNCHANGED <<srv, verdict, c2s, queued, up, s2c, written>>
    BY <1>5, <2>3, Zenon DEF PushFrames
  <2>7. CASE UNCHANGED <<srv, verdict, c2s, queued, up, s2c, written>>
    BY <1>1, <2>2, <2>7, AllKept, Zenon DEF wireVars
  <2>8. CASE /\ srv[l] = "open" /\ error # "none"
             /\ EndsSocket(l, error) /\ written' = written
    <3>1. error \notin Violations
      BY <2>5, CursorFine, Zenon
    <3>2. error \in Reasons \union {"lost"}
      BY <2>8, CursorErrorType, Zenon
    <3> QED BY <1>1, <1>2, <2>2, <2>8, <3>1, <3>2, EndsSocketLinks, Zenon
  <2>9. CASE /\ srv[l] = "open" /\ error = "none"
             /\ s2c' = ServerWrites(l, frames)
             /\ written' = [written EXCEPT ![l] = @ + Len(frames)]
             /\ UNCHANGED <<srv, verdict, c2s, queued, up>>
    <3>1. ~(f < next /\ written[l] + 1 < f)
      BY <2>9, Zenon DEF CursorError
    <3>2. /\ Len(frames) \in Nat /\ written[l] + Len(frames) < next
          /\ \A i \in 1 .. Len(frames) :
                frames[i].type = "frame" /\ frames[i].n = written[l] + i
      <4>1. PICK w \in Nat : w = written[l]
        BY <2>5, Zenon
      <4>2. w < next /\ ~(f < next /\ w + 1 < f)
        BY <2>5, <3>1, <4>1, Zenon
      <4>3. /\ Len(FramesAfter(f, log, w)) \in Nat
            /\ w + Len(FramesAfter(f, log, w)) < next
            /\ \A i \in 1 .. Len(FramesAfter(f, log, w)) :
                  /\ FramesAfter(f, log, w)[i].type = "frame"
                  /\ FramesAfter(f, log, w)[i].n = w + i
        BY <2>4, <4>2, FramesFollow, ZenonT(60)
      <4> QED BY <4>1, <4>3, Zenon
    <3>3. frames \in Seq(ServerMessage)
      BY <2>5, FramesAfterType, Zenon
    <3> HIDE DEF frames
    <3>4. ASSUME NEW k \in Links, k # l PROVE LinkInv(k)'
      <4>1. s2c'[k] = s2c[k]
        BY <2>9, <3>4, ServerWritesAt, Zenon
      <4>2. written'[k] = written[k]
        BY <2>9, <3>4, Zenon DEF TypeOK, ServerLinkTypes
      <4>3. SameLink(k)
        BY <1>1, <2>9, <4>1, <4>2, Zenon DEF SameLink, clientVars
      <4> QED BY <1>1, <1>2, <2>2, <4>3, ServerKept, Zenon DEF LinksInv
    <3>5. /\ written'[l] = written[l] + Len(frames)
          /\ s2c'[l] = IF up[l] /\ Active(l) THEN s2c[l] \o frames ELSE s2c[l]
      <4>1. written'[l] = written[l] + Len(frames)
        BY <2>9, Zenon DEF TypeOK, ServerLinkTypes
      <4> QED BY <2>9, <4>1, ServerWritesAt, Zenon
    <3>6. /\ Active(l) => InOrder(s2c[l], received)
          /\ Active(l) /\ up[l] => Reaches(s2c[l], received, written[l])
          /\ NoGap(queued[l], c2s[l], lastClient)
      BY <1>1, <2>9, Zenon DEF LinkInv, Downstream, Upstream
    <3>7. ASSUME Active(l), up[l]
          PROVE  /\ InOrder(s2c[l] \o frames, received)
                 /\ Reaches(s2c[l] \o frames, received, written[l] + Len(frames))
      BY <2>5, <3>2, <3>3, <3>6, <3>7, ServerNumbers, OrderFrames, Zenon
    <3>8. /\ Active(l) => InOrder(s2c'[l], received)
          /\ Active(l) /\ up[l] => Reaches(s2c'[l], received, written'[l])
      BY <3>5, <3>6, <3>7, Zenon
    <3>9. written'[l] < nextServer'
      BY <2>3, <3>2, <3>5, Zenon
    <3>10. LinkInv(l)'
      BY <1>1, <2>9, <3>6, <3>8, <3>9, OpenStays, Zenon
    <3> QED BY <3>4, <3>10, Zenon DEF LinksInv
  <2> QED BY <2>6, <2>7, <2>8, <2>9, Zenon
<1> QED BY <1>3, <1>4, <1>5, Zenon

\* A step of the client that leaves a link alone.
LEMMA ClientKept ==
    ASSUME TypeOK, TypeOK', NEW k \in Links, LinkInv(k), SameLink(k),
           UNCHANGED <<lastClient, nextServer, attempts>>,
           k = link' => k = link, k = current' => k = current,
           nextClient' = nextClient \/ k # link',
           received' = received \/ ~Active(k)
    PROVE  LinkInv(k)'
<1>1. /\ lastClient <= lastClient' /\ nextServer <= nextServer'
      /\ attempts <= attempts'
  BY LinkTypes
<1> QED BY <1>1, LinkKept, Zenon

\* Only acknowledgements are flushed, and only on a ready link.
LEMMA FlushedIsAck ==
    ASSUME TypeOK, NEW l \in Links
    PROVE  /\ \A i \in 1 .. Len(FlushedAck(l)) : FlushedAck(l)[i].type # "frame"
           /\ pendingAck[l] = Idle => FlushedAck(l) = << >>
<1>1. pendingAck[l] = Idle => FlushedAck(l) = << >>
  BY Zenon DEF FlushedAck
<1>2. pendingAck[l] # Idle => FlushedAck(l) = <<Ack(pendingAck[l])>>
  BY Zenon DEF FlushedAck
<1>3. Ack(pendingAck[l]).type = "ack"
  BY Zenon DEF Ack
<1>4. \A i \in 1 .. Len(FlushedAck(l)) : FlushedAck(l)[i].type # "frame"
  <2>1. CASE pendingAck[l] = Idle
    BY <1>1, <2>1
  <2>2. CASE pendingAck[l] # Idle
    <3>1. Len(FlushedAck(l)) = 1 /\ FlushedAck(l)[1] = Ack(pendingAck[l])
      BY <1>2, <2>2
    <3>2. \A i \in 1 .. 1 : i = 1
      OBVIOUS
    <3> QED BY <1>3, <3>1, <3>2, Zenon
  <2> QED BY <2>1, <2>2, Zenon
<1> QED BY <1>1, <1>4, Zenon

\* What the server's end of a link meets after an acknowledgement was written.
LEMMA FlushedGap ==
    ASSUME TypeOK, NEW l \in Links, LinkInv(l), srv[l] = "open",
           c2s' = c2s \/ c2s' = ClientWrites(l, FlushedAck(l))
    PROVE  /\ NoGap(queued[l], c2s'[l], lastClient)
           /\ l = link /\ up[l] =>
                Arrives(queued[l], c2s'[l], lastClient, nextClient - 1)
<1>1. /\ queued[l] \in Seq(Nat) /\ c2s[l] \in Seq(ClientMessage)
      /\ lastClient \in Nat /\ nextClient - 1 \in Int
      /\ FlushedAck(l) \in Seq(ClientMessage)
  BY QueueTypes, LinkTypes, FlushedAckType, Zenon
<1>2. /\ NoGap(queued[l], c2s[l], lastClient)
      /\ l = link /\ up[l] =>
            Arrives(queued[l], c2s[l], lastClient, nextClient - 1)
  BY Zenon DEF LinkInv, Upstream
<1>3. c2s'[l] = c2s[l] \/ c2s'[l] = c2s[l] \o FlushedAck(l)
  BY ClientWritesAt, Zenon
<1>4. PICK f \in Seq(ClientMessage) : f = FlushedAck(l)
  BY <1>1, Zenon
<1>5. \A i \in 1 .. Len(f) : f[i].type # "frame"
  BY <1>4, FlushedIsAck, Zenon
<1>6. \A i \in 1 .. Len(f) : f[i].type = "frame" =>
          \/ Arrives(queued[l], c2s[l], lastClient, f[i].n - 1)
          \/ \E j \in 1 .. i - 1 : f[j].type = "frame" /\ f[j].n = f[i].n - 1
  BY <1>5, Zenon
<1>7. /\ NoGap(queued[l], c2s[l] \o f, lastClient)
      /\ \A n \in Int : Arrives(queued[l], c2s[l], lastClient, n) \/ Carries(f, n) =>
                          Arrives(queued[l], c2s[l] \o f, lastClient, n)
  BY <1>1, <1>2, <1>6, GapWrite, Zenon
<1> QED BY <1>1, <1>2, <1>3, <1>4, <1>7, Zenon

\* dropLink: what the server still holds of the link stays in order, and a link
\* that was never opened is left with its hello.
LEMMA DropLinks ==
    ASSUME TypeOK, TypeOK', LinksInv, NEW l \in Links, Active(l), DropsLink(l),
           c2s' = c2s \/ c2s' = ClientWrites(l, FlushedAck(l)),
           UNCHANGED <<sessionVars, serverLinkVars, up, nextClient, received,
                       attempts>>
    PROVE  LinksInv'
<1>1. /\ cli' = [cli EXCEPT ![l] = "ended"]
      /\ s2c' = [s2c EXCEPT ![l] = << >>]
      /\ pendingAck' = [pendingAck EXCEPT ![l] = Idle]
      /\ current' = NoLink /\ link' = NoLink
      /\ UNCHANGED <<lastClient, nextServer, srv, queued, written, verdict, up,
                     nextClient, received, attempts>>
  BY Zenon DEF DropsLink, sessionVars, serverLinkVars
<1>2. /\ DOMAIN cli = Links /\ DOMAIN s2c = Links /\ DOMAIN pendingAck = Links
  BY Zenon DEF TypeOK, ClientTypes, WireTypes
<1>3. ASSUME NEW k \in Links, k # l PROVE LinkInv(k)'
  <2>1. c2s'[k] = c2s[k]
    <3>1. ClientWrites(l, FlushedAck(l))[k] = c2s[k]
      BY <1>3, ClientWritesAt, Zenon
    <3> QED BY <3>1, Zenon
  <2>2. SameLink(k)
    BY <1>1, <1>2, <1>3, <2>1, Zenon DEF SameLink
  <2>3. k # link' /\ k # current'
    BY <1>1, LinkTypes, Zenon
  <2> QED BY <1>1, <2>2, <2>3, ClientKept, Zenon DEF LinksInv
<1>4. LinkInv(l) /\ l # NoLink
  BY LinkTypes, Zenon DEF LinksInv
<1>5. cli'[l] = "ended" /\ s2c'[l] = << >> /\ pendingAck'[l] = Idle
  BY <1>1, <1>2, Zenon
<1>6. Phase(l)'
  <2>1. ~(l > attempts)
    BY <1>4, Zenon DEF LinkInv, Phase, Unused, Active
  <2>2. ASSUME srv[l] = "hello" PROVE Greets(l)'
    <3>1. Greets(l) /\ pendingAck[l] = Idle
      BY <1>4, <2>2, Zenon DEF LinkInv, Phase, Greets
    <3>2. c2s'[l] = c2s[l] \/ c2s'[l] = c2s[l] \o << >>
      <4>1. FlushedAck(l) = << >>
        BY <3>1, FlushedIsAck, Zenon
      <4>2. ClientWrites(l, FlushedAck(l))[l] \in {c2s[l], c2s[l] \o FlushedAck(l)}
        BY ClientWritesAt, Zenon
      <4> QED BY <4>1, <4>2, Zenon
    <3>3. c2s[l] \o << >> = c2s[l]
      BY QueueTypes
    <3>4. c2s'[l] = c2s[l] /\ queued'[l] = queued[l]
      BY <1>1, <3>2, <3>3, Zenon
    <3> QED BY <1>5, <3>1, <3>4, Zenon DEF Greets
  <2> QED BY <1>1, <1>4, <1>5, <2>1, <2>2, Zenon DEF Phase
<1>7. Upstream(l)'
  BY <1>1, <1>4, FlushedGap, Zenon DEF Upstream
<1>8. Downstream(l)'
  BY <1>1, <1>4, <1>5, Zenon DEF LinkInv, Downstream, Active
<1> QED BY <1>1, <1>3, <1>4, <1>6, <1>7, <1>8, Zenon DEF LinksInv, LinkInv

\* The frames resent start behind one the server claimed and end with the last
\* one sent.
LEMMA ResentFollow ==
    ASSUME NEW q, NEW w, NEW h \in Nat, NEW kept \in Nat, kept <= h,
           nextClient \in Nat
    PROVE  /\ \A i \in 1 .. Len(Resent(kept)) : Resent(kept)[i].type = "frame" =>
                 \/ Arrives(q, w, h, Resent(kept)[i].n - 1)
                 \/ \E j \in 1 .. i - 1 : /\ Resent(kept)[j].type = "frame"
                                          /\ Resent(kept)[j].n = Resent(kept)[i].n - 1
           /\ Arrives(q, w, h, nextClient - 1) \/ Carries(Resent(kept), nextClient - 1)
<1> DEFINE len == nextClient - 1 - kept
<1>1. \A i \in 1 .. len : /\ Resent(kept)[i].type = "frame"
                          /\ Resent(kept)[i].n = kept + i
  BY Zenon DEF Resent, ClientFrame
<1>2. len \in Int
  OBVIOUS
<1>3. CASE len > 0
  <2>1. Len(Resent(kept)) = len
    BY <1>2, <1>3 DEF Resent
  <2>2. ASSUME NEW i \in 1 .. len
        PROVE  \/ Arrives(q, w, h, Resent(kept)[i].n - 1)
               \/ \E j \in 1 .. i - 1 : /\ Resent(kept)[j].type = "frame"
                                        /\ Resent(kept)[j].n = Resent(kept)[i].n - 1
    <3>1. CASE i = 1
      <4>1. Resent(kept)[i].n - 1 <= h
        BY <1>1, <2>2, <3>1
      <4> QED BY <4>1, Zenon DEF Arrives
    <3>2. CASE i # 1
      <4>1. i - 1 \in 1 .. i - 1 /\ i - 1 \in 1 .. len
        BY <1>2, <2>2, <3>2
      <4>2. PICK j : j = i - 1
        BY Zenon
      <4>3. /\ Resent(kept)[i].n = kept + i /\ Resent(kept)[j].n = kept + j
            /\ Resent(kept)[j].type = "frame"
        BY <1>1, <2>2, <4>1, <4>2, Zenon
      <4>4. Resent(kept)[j].n = Resent(kept)[i].n - 1
        BY <2>2, <4>2, <4>3
      <4> QED BY <4>1, <4>2, <4>3, <4>4, Zenon
    <3> QED BY <3>1, <3>2, Zenon
  <2>3. Carries(Resent(kept), nextClient - 1)
    <3>1. len \in 1 .. len /\ kept + len = nextClient - 1
      BY <1>3
    <3> QED BY <1>1, <2>1, <3>1, Zenon DEF Carries
  <2> QED BY <2>1, <2>2, <2>3, Zenon
<1>4. CASE ~(len > 0)
  <2>1. 1 .. len = 1 .. 0
    BY <1>2, <1>4
  <2>2. Resent(kept) = [i \in 1 .. 0 |-> ClientFrame(kept + i)]
    BY <2>1, Zenon DEF Resent
  <2>3. Len(Resent(kept)) = 0
    BY <2>2
  <2>4. \A i \in 1 .. 0 : FALSE
    OBVIOUS
  <2>5. nextClient - 1 <= h
    BY <1>4
  <2> QED BY <2>3, <2>4, <2>5, Zenon DEF Arrives
<1> QED BY <1>3, <1>4, Zenon

\* A message other than the next frame is taken off a wire.
LEMMA SkippedLink ==
    ASSUME TypeOK, NEW l \in Links, LinkInv(l), s2c[l] # << >>,
           Head(s2c[l]).type # "frame", Active(l)
    PROVE  /\ InOrder(Tail(s2c[l]), received)
           /\ up[l] /\ srv[l] = "open" =>
                 Reaches(Tail(s2c[l]), received, written[l])
<1>1. /\ s2c[l] \in Seq(ServerMessage) /\ received \in Nat /\ written[l] \in Nat
  BY LinkTypes, QueueTypes, Zenon
<1>2. /\ InOrder(s2c[l], received) => InOrder(Tail(s2c[l]), received)
      /\ Reaches(s2c[l], received, written[l]) =>
            Reaches(Tail(s2c[l]), received, written[l])
  BY <1>1, ServerNumbers, OrderSkip, Zenon
<1> QED BY <1>2, Zenon DEF LinkInv, Downstream

\* becomeReady: the resend reaches from what the server claimed to the last
\* message sent.
LEMMA BecomeReadyLinks ==
    ASSUME TypeOK, TypeOK', SessionInv, LinksInv, NEW l \in Links, BecomeReady(l)
    PROVE  LinksInv'
<1> DEFINE kept == AckedThrough(Head(s2c[l]).n)
<1>1. /\ cli[l] = "opening" /\ s2c[l] # << >> /\ Head(s2c[l]).type = "ready"
      /\ c2s' = ClientWrites(l, Resent(kept))
      /\ cli' = [cli EXCEPT ![l] = "ready"] /\ link' = l
      /\ s2c' = [s2c EXCEPT ![l] = Tail(@)]
      /\ UNCHANGED <<lastClient, nextServer, srv, queued, written, verdict, up,
                     nextClient, received, attempts, current, pendingAck>>
  BY Zenon DEF BecomeReady, sessionVars, serverLinkVars
<1>2. DOMAIN cli = Links /\ DOMAIN s2c = Links
  BY Zenon DEF TypeOK, ClientTypes, WireTypes
<1>3. ASSUME NEW k \in Links, k # l PROVE LinkInv(k)'
  <2>1. c2s'[k] = c2s[k]
    BY <1>1, <1>3, ClientWritesAt, Zenon
  <2>2. SameLink(k)
    BY <1>1, <1>2, <1>3, <2>1, Zenon DEF SameLink
  <2> QED BY <1>1, <1>3, <2>2, ClientKept, Zenon DEF LinksInv
<1>4. /\ LinkInv(l) /\ Active(l) /\ srv[l] # "hello" /\ ~(l > attempts)
  BY <1>1, Zenon DEF LinksInv, LinkInv, Phase, Greets, Unused, Active
<1>5. cli'[l] = "ready" /\ s2c'[l] = Tail(s2c[l])
  BY <1>1, <1>2, Zenon
<1>6. Phase(l)'
  BY <1>1, <1>4, <1>5, Zenon DEF LinkInv, Phase, Active
<1>7. Upstream(l)'
  <2> SUFFICES ASSUME srv[l] = "open"
               PROVE  /\ NoGap(queued[l], c2s'[l], lastClient)
                      /\ up[l] => Arrives(queued[l], c2s'[l], lastClient,
                                          nextClient - 1)
    BY <1>1, Zenon DEF Upstream
  <2>1. /\ queued[l] \in Seq(Nat) /\ c2s[l] \in Seq(ClientMessage)
        /\ lastClient \in Nat /\ nextClient \in Nat /\ nextClient - 1 \in Int
    BY QueueTypes, LinkTypes, Zenon
  <2>2. kept \in Nat /\ kept <= lastClient
    <3>1. Head(s2c[l]) \in ServerMessage /\ DownOK(Head(s2c[l]))
      BY <1>1, QueueTypes, HeadsOK, Zenon DEF SessionInv
    <3>2. Head(s2c[l]).n \in Nat /\ Head(s2c[l]).n <= lastClient
      BY <1>1, <3>1, ServerMessageFields, Zenon DEF DownOK
    <3>3. acked \in Nat /\ acked <= lastClient /\ lastClient < nextClient
      BY NumberTypes, Zenon DEF SessionInv, UpInv
    <3> QED BY <2>1, <3>2, <3>3 DEF AckedThrough, Larger, Smaller
  <2> HIDE DEF kept
  <2>3. Resent(kept) \in Seq(ClientMessage)
    BY <2>1, <2>2, ResentType, Zenon
  <2>4. PICK f \in Seq(ClientMessage) : f = Resent(kept)
    BY <2>3, Zenon
  <2>5. /\ \A i \in 1 .. Len(f) : f[i].type = "frame" =>
              \/ Arrives(queued[l], c2s[l], lastClient, f[i].n - 1)
              \/ \E j \in 1 .. i - 1 : f[j].type = "frame" /\ f[j].n = f[i].n - 1
        /\ \/ Arrives(queued[l], c2s[l], lastClient, nextClient - 1)
           \/ Carries(f, nextClient - 1)
    BY <2>1, <2>2, <2>4, ResentFollow, ZenonT(60)
  <2>6. NoGap(queued[l], c2s[l], lastClient)
    BY <1>4, Zenon DEF LinkInv, Upstream
  <2>7. /\ NoGap(queued[l], c2s[l] \o f, lastClient)
        /\ \A n \in Int : Arrives(queued[l], c2s[l], lastClient, n) \/ Carries(f, n)
                            => Arrives(queued[l], c2s[l] \o f, lastClient, n)
    BY <2>1, <2>5, <2>6, GapWrite, Zenon
  <2>8. c2s'[l] = IF up[l] THEN c2s[l] \o f ELSE c2s[l]
    BY <1>1, <2>4, ClientWritesAt, Zenon
  <2> QED BY <2>1, <2>5, <2>6, <2>7, <2>8, Zenon
<1>8. Downstream(l)'
  <2>1. Head(s2c[l]).type # "frame"
    BY <1>1, Zenon
  <2>2. /\ InOrder(Tail(s2c[l]), received)
        /\ up[l] /\ srv[l] = "open" =>
              Reaches(Tail(s2c[l]), received, written[l])
    BY <1>1, <1>4, <2>1, SkippedLink, Zenon
  <2> QED BY <1>1, <1>4, <1>5, <2>2, Zenon DEF LinkInv, Downstream
<1> QED BY <1>1, <1>3, <1>4, <1>6, <1>7, <1>8, Zenon DEF LinksInv, LinkInv

\* The channel is ready and takes an acknowledgement or a frame: the next one.
LEMMA ReceiveLinks ==
    ASSUME TypeOK, TypeOK', OneLink, LinksInv, NEW l \in Links,
           ReceiveAck(l) \/ Receive(l)
    PROVE  LinksInv'
<1>1. /\ cli[l] = "ready" /\ s2c[l] # << >>
      /\ UNCHANGED <<lastClient, nextServer, srv, queued, written, verdict, up,
                     nextClient, attempts>>
  BY Zenon DEF ReceiveAck, Receive, sessionVars, serverLinkVars
<1>2. /\ LinkInv(l) /\ Active(l) /\ srv[l] # "hello" /\ ~(l > attempts)
  BY <1>1, Zenon DEF LinksInv, LinkInv, Phase, Greets, Unused, Active
<1>3. /\ s2c[l] \in Seq(ServerMessage) /\ received \in Nat /\ written[l] \in Nat
      /\ InOrder(s2c[l], received)
      /\ up[l] /\ srv[l] = "open" => Reaches(s2c[l], received, written[l])
  BY <1>2, LinkTypes, QueueTypes, Zenon DEF LinkInv, Downstream
<1>4. ASSUME s2c' = [s2c EXCEPT ![l] = Tail(@)], UNCHANGED <<cli, current, link, c2s>>,
             \A k \in Links : k # l => pendingAck'[k] = pendingAck[k],
             received' = received \/ \A k \in Links : k # l => ~Active(k),
             InOrder(Tail(s2c[l]), received'),
             up[l] /\ srv[l] = "open" => Reaches(Tail(s2c[l]), received', written[l])
      PROVE  LinksInv'
  <2>1. DOMAIN s2c = Links
    BY Zenon DEF TypeOK, WireTypes
  <2>2. ASSUME NEW k \in Links, k # l PROVE LinkInv(k)'
    <3>1. SameLink(k)
      BY <1>1, <1>4, <2>1, <2>2, Zenon DEF SameLink
    <3> QED BY <1>1, <1>4, <2>2, <3>1, ClientKept, Zenon DEF LinksInv
  <2>3. s2c'[l] = Tail(s2c[l])
    BY <1>4, <2>1, Zenon
  <2>4. Phase(l)'
    BY <1>1, <1>2, <1>4, Zenon DEF LinkInv, Phase, Active
  <2>5. Upstream(l)'
    BY <1>1, <1>2, <1>4, Zenon DEF LinkInv, Upstream
  <2>6. Downstream(l)'
    BY <1>1, <1>2, <1>4, <2>3, Zenon DEF LinkInv, Downstream, Active
  <2> QED BY <1>1, <1>2, <2>2, <2>4, <2>5, <2>6, Zenon DEF LinksInv, LinkInv
<1>5. CASE ReceiveAck(l)
  <2>1. Head(s2c[l]).type # "frame"
    BY <1>5, Zenon DEF ReceiveAck
  <2>2. /\ InOrder(Tail(s2c[l]), received)
        /\ up[l] /\ srv[l] = "open" =>
              Reaches(Tail(s2c[l]), received, written[l])
    BY <1>1, <1>2, <2>1, SkippedLink, Zenon
  <2>3. /\ s2c' = [s2c EXCEPT ![l] = Tail(@)]
        /\ UNCHANGED <<cli, current, link, c2s, received, pendingAck>>
    BY <1>5, Zenon DEF ReceiveAck
  <2> QED BY <1>4, <2>2, <2>3, Zenon
<1>6. CASE Receive(l)
  <2>1. Head(s2c[l]).type = "frame"
    BY <1>6, Zenon DEF Receive
  <2>2. /\ Head(s2c[l]).n = received + 1 /\ InOrder(Tail(s2c[l]), received + 1)
        /\ Reaches(s2c[l], received, written[l]) =>
              Reaches(Tail(s2c[l]), received + 1, written[l])
    BY <1>1, <1>3, <2>1, ServerNumbers, OrderTake, Zenon
  <2>3. ~(received + 1 <= received) /\ ~(received + 1 > received + 1)
    BY <1>3
  <2>4. /\ received' = received + 1
        /\ pendingAck' = [pendingAck EXCEPT ![l] = Head(s2c[l]).n]
        /\ s2c' = [s2c EXCEPT ![l] = Tail(@)]
        /\ UNCHANGED <<cli, current, link, c2s>>
    BY <1>6, <2>2, <2>3, Zenon DEF Receive
  <2>5. \A k \in Links : k # l => pendingAck'[k] = pendingAck[k]
    BY <2>4, Zenon DEF TypeOK, ClientTypes
  <2>6. \A k \in Links : k # l => ~Active(k)
    BY <1>2, Zenon DEF OneLink, Active
  <2> QED BY <1>3, <1>4, <2>2, <2>4, <2>5, <2>6, Zenon
<1> QED BY <1>5, <1>6, Zenon

\* The other steps of the client's half of a link.
LEMMA FlushLinks ==
    ASSUME TypeOK, TypeOK', LinksInv, NEW l \in Links,
           FlushAck(l) \/ ServerClosedLink(l) \/ LoseLink(l)
    PROVE  LinksInv'
<1>1. CASE FlushAck(l)
  <2>1. /\ cli[l] = "ready" /\ c2s' = ClientWrites(l, FlushedAck(l))
        /\ pendingAck' = [pendingAck EXCEPT ![l] = Idle]
        /\ UNCHANGED <<lastClient, nextServer, srv, queued, written, verdict, up,
                       nextClient, received, attempts, cli, s2c, current, link>>
    BY <1>1, Zenon DEF FlushAck, sessionVars, serverLinkVars
  <2>2. DOMAIN pendingAck = Links
    BY Zenon DEF TypeOK, ClientTypes
  <2>3. ASSUME NEW k \in Links, k # l PROVE LinkInv(k)'
    <3>1. c2s'[k] = c2s[k]
      BY <2>1, <2>3, ClientWritesAt, Zenon
    <3>2. SameLink(k)
      BY <2>1, <2>2, <2>3, <3>1, Zenon DEF SameLink
    <3> QED BY <2>1, <3>2, ClientKept, Zenon DEF LinksInv
  <2>4. /\ LinkInv(l) /\ srv[l] # "hello" /\ ~(l > attempts)
    BY <2>1, Zenon DEF LinksInv, LinkInv, Phase, Greets, Unused
  <2>5. Phase(l)'
    BY <2>1, <2>4, Zenon DEF LinkInv, Phase, Active
  <2>6. Upstream(l)'
    BY <2>1, <2>4, FlushedGap, Zenon DEF Upstream
  <2>7. Downstream(l)'
    BY <2>1, <2>4, Zenon DEF LinkInv, Downstream, Active
  <2> QED BY <2>1, <2>3, <2>4, <2>5, <2>6, <2>7, Zenon DEF LinksInv, LinkInv
<1>2. CASE ServerClosedLink(l)
  BY <1>2, DropLinks, Zenon DEF ServerClosedLink, Active
<1>3. CASE LoseLink(l)
  BY <1>3, DropLinks, Zenon DEF LoseLink, Active
<1> QED BY <1>1, <1>2, <1>3, Zenon

\* What may be left of a single message.
LEMMA OnePrefix ==
    ASSUME NEW S, NEW q \in Seq(S), Len(q) = 1, NEW i \in 0 .. Len(q)
    PROVE  SubSeq(q, 1, i) = << >> \/ SubSeq(q, 1, i) = q
<1>1. i = 0 \/ i = 1
  OBVIOUS
<1>2. SubSeq(q, 1, 0) = << >>
  BY SMTT(30)
<1>3. SubSeq(q, 1, 1) = q
  BY SMTT(30)
<1> QED BY <1>1, <1>2, <1>3, Zenon

\* The network fails: each end keeps a prefix of what was on its way.
LEMMA BreakLinks ==
    ASSUME TypeOK, TypeOK', LinksInv, NEW l \in Links, Break(l)
    PROVE  LinksInv'
<1>1. PICK i \in 0 .. Len(c2s[l]), j \in 0 .. Len(s2c[l]) :
          /\ c2s' = [c2s EXCEPT ![l] = SubSeq(@, 1, i)]
          /\ s2c' = [s2c EXCEPT ![l] = SubSeq(@, 1, j)]
  BY Zenon DEF Break
<1>2. /\ up' = [up EXCEPT ![l] = FALSE]
      /\ UNCHANGED <<lastClient, nextServer, srv, queued, written, verdict,
                     nextClient, received, attempts, cli, current, link,
                     pendingAck>>
  BY Zenon DEF Break, sessionVars, serverLinkVars, clientVars
<1>3. DOMAIN c2s = Links /\ DOMAIN s2c = Links /\ DOMAIN up = Links
  BY Zenon DEF TypeOK, WireTypes
<1>4. ASSUME NEW k \in Links, k # l PROVE LinkInv(k)'
  <2>1. SameLink(k)
    BY <1>1, <1>2, <1>3, <1>4, Zenon DEF SameLink
  <2> QED BY <1>2, <2>1, ClientKept, Zenon DEF LinksInv
<1>5. srv[l] \in {"hello", "open"} \/ cli[l] \in {"opening", "ready"}
  BY Zenon DEF Break
<1>6. ~(l > attempts) /\ LinkInv(l)
  <2>1. LinkInv(l)
    BY Zenon DEF LinksInv
  <2>2. srv[l] # "unused" \/ cli[l] # "unused"
    BY <1>5, Zenon
  <2> QED BY <2>1, <2>2, Zenon DEF LinkInv, Phase, Unused
<1>7. /\ c2s'[l] = SubSeq(c2s[l], 1, i) /\ s2c'[l] = SubSeq(s2c[l], 1, j)
      /\ up'[l] = FALSE
  BY <1>1, <1>2, <1>3, Zenon
<1>8. Phase(l)'
  <2>1. ASSUME srv[l] = "hello" PROVE Greets(l)'
    <3>1. Greets(l) /\ c2s[l] \in Seq(ClientMessage)
          /\ s2c[l] = << >>
      BY <1>6, <2>1, QueueTypes, Zenon DEF LinkInv, Phase, Greets
    <3>2. SubSeq(s2c[l], 1, j) = << >>
      BY <1>1, <3>1
    <3>3. SubSeq(c2s[l], 1, i) = << >> \/ SubSeq(c2s[l], 1, i) = c2s[l]
      <4>1. CASE c2s[l] = << >>
        BY <1>1, <3>1, <4>1
      <4>2. CASE c2s[l] # << >>
        <5>1. Tail(c2s[l]) = << >>
          BY <3>1, <4>2, Zenon DEF Greets
        <5>2. Len(<< >>) = 0
          OBVIOUS
        <5>3. /\ Len(c2s[l]) \in Nat /\ Len(Tail(c2s[l])) = 0
              /\ Len(Tail(c2s[l])) = Len(c2s[l]) - 1
          BY <3>1, <4>2, <5>1, <5>2, TailAt, Zenon
        <5>4. Len(c2s[l]) = 1
          BY <5>3
        <5> QED BY <1>1, <3>1, <5>4, OnePrefix, Zenon
      <4> QED BY <4>1, <4>2, Zenon
    <3> QED BY <1>2, <1>7, <3>1, <3>2, <3>3, Zenon DEF Greets
  <2>2. Active(l)' <=> Active(l)
    BY <1>2, Zenon DEF Active
  <2> QED BY <1>2, <1>6, <2>1, <2>2, Zenon DEF LinkInv, Phase
<1>9. Upstream(l)'
  <2>1. ASSUME srv[l] = "open" PROVE NoGap(queued[l], SubSeq(c2s[l], 1, i), lastClient)
    <3>1. /\ NoGap(queued[l], c2s[l], lastClient) /\ queued[l] \in Seq(Nat)
          /\ c2s[l] \in Seq(ClientMessage)
      BY <1>6, <2>1, QueueTypes, Zenon DEF LinkInv, Upstream
    <3> QED BY <1>1, <3>1, GapPrefix, Zenon
  <2> QED BY <1>2, <1>7, <2>1, Zenon DEF Upstream
<1>10. Downstream(l)'
  <2>1. ASSUME Active(l) PROVE InOrder(SubSeq(s2c[l], 1, j), received)
    <3>1. InOrder(s2c[l], received) /\ s2c[l] \in Seq(ServerMessage)
      BY <1>6, <2>1, QueueTypes, Zenon DEF LinkInv, Downstream
    <3> QED BY <1>1, <3>1, OrderPrefix, Zenon
  <2> QED BY <1>2, <1>6, <1>7, <2>1, Zenon DEF LinkInv, Downstream, Active
<1> QED BY <1>2, <1>4, <1>6, <1>8, <1>9, <1>10, Zenon DEF LinksInv, LinkInv

\* The process ends: no socket of it is left.
LEMMA RestartLinks ==
    ASSUME TypeOK, TypeOK', LinksInv, Restart
    PROVE  LinksInv'
<1> SUFFICES ASSUME NEW k \in Links PROVE LinkInv(k)'
  BY Zenon DEF LinksInv
<1>1. /\ srv'[k] = IF srv[k] \in {"hello", "open"} THEN "ended" ELSE srv[k]
      /\ verdict'[k] = IF srv[k] \in {"hello", "open"} THEN "lost" ELSE verdict[k]
      /\ queued'[k] = << >>
      /\ c2s'[k] = IF srv[k] \in {"hello", "open"} THEN << >> ELSE c2s[k]
  BY Zenon DEF Restart
<1>2. UNCHANGED <<lastClient, nextServer, written, up, s2c, nextClient, received,
                  attempts, cli, current, link, pendingAck>>
  BY Zenon DEF Restart, clientVars
<1>3. LinkInv(k) /\ (Active(k)' <=> Active(k))
  BY <1>2, Zenon DEF LinksInv, Active
<1>4. srv'[k] # "hello" /\ srv'[k] # "open" /\ verdict'[k] \notin Violations
  BY <1>1, <1>3, Zenon DEF LinkInv, Violations
<1>5. Phase(k)'
  <2>1. k > attempts => Unused(k)'
    BY <1>1, <1>2, <1>3, Zenon DEF LinkInv, Phase, Unused
  <2> QED BY <1>2, <1>3, <1>4, <2>1, Zenon DEF LinkInv, Phase
<1>6. Upstream(k)' /\ Downstream(k)'
  BY <1>2, <1>3, <1>4, Zenon DEF LinkInv, Upstream, Downstream
<1> QED BY <1>4, <1>5, <1>6, Zenon DEF LinkInv

\* send: the message follows the last one on the ready link.
LEMMA SendLinks ==
    ASSUME TypeOK, TypeOK', LinksInv, Send
    PROVE  LinksInv'
<1>1. /\ nextClient' = nextClient + 1
      /\ c2s' = IF link # NoLink
                THEN ClientWrites(link, <<ClientFrame(nextClient)>>) ELSE c2s
      /\ UNCHANGED <<lastClient, nextServer, srv, queued, written, verdict, up,
                     s2c, received, attempts, cli, current, link, pendingAck>>
  BY Zenon DEF Send, sessionVars, serverLinkVars
<1>2. link \in Links \union {NoLink}
  BY Zenon DEF TypeOK, ClientTypes
<1>3. ASSUME NEW k \in Links, k # link PROVE LinkInv(k)'
  <2>1. c2s'[k] = c2s[k]
    BY <1>1, <1>2, <1>3, ClientWritesAt, Zenon
  <2>2. SameLink(k)
    BY <1>1, <2>1, Zenon DEF SameLink
  <2> QED BY <1>1, <1>3, <2>2, ClientKept, Zenon DEF LinksInv
<1>4. ASSUME NEW l \in Links, l = link PROVE LinkInv(l)'
  <2>1. /\ LinkInv(l) /\ cli[l] = "ready" /\ srv[l] # "hello" /\ ~(l > attempts)
    BY <1>4, Zenon DEF LinksInv, LinkInv, Phase, Greets, Unused
  <2>2. Phase(l)'
    BY <1>1, <2>1, Zenon DEF LinkInv, Phase, Active
  <2>3. Downstream(l)'
    BY <1>1, <2>1, Zenon DEF LinkInv, Downstream, Active
  <2>4. Upstream(l)'
    <3> SUFFICES ASSUME srv[l] = "open"
                 PROVE  /\ NoGap(queued[l], c2s'[l], lastClient)
                        /\ up[l] => Arrives(queued[l], c2s'[l], lastClient,
                                            nextClient' - 1)
      BY <1>1, <1>4, Zenon DEF Upstream
    <3>1. /\ queued[l] \in Seq(Nat) /\ c2s[l] \in Seq(ClientMessage)
          /\ lastClient \in Nat /\ nextClient \in Nat
      BY QueueTypes, LinkTypes, Zenon
    <3>2. nextClient' - 1 = nextClient /\ nextClient \in Int
      BY <1>1, <3>1
    <3>3. ClientFrame(nextClient) \in ClientMessage
      BY <3>1, Zenon DEF ClientFrame, ClientMessage
    <3>4. PICK f \in Seq(ClientMessage) : f = <<ClientFrame(nextClient)>>
      BY <3>3, SingletonFacts, Zenon
    <3>5. /\ Len(f) = 1 /\ f[1] = ClientFrame(nextClient)
          /\ 1 \in 1 .. 1 /\ \A i \in 1 .. 1 : i = 1
      BY <3>4
    <3>6. f[1].type = "frame" /\ f[1].n = nextClient
      <4>1. /\ ClientFrame(nextClient).type = "frame"
            /\ ClientFrame(nextClient).n = nextClient
        BY Zenon DEF ClientFrame
      <4> QED BY <3>5, <4>1
    <3>7. Carries(f, nextClient)
      BY <3>5, <3>6, Zenon DEF Carries
    <3>8. NoGap(queued[l], c2s[l], lastClient)
      BY <2>1, Zenon DEF LinkInv, Upstream
    <3>9. c2s'[l] = IF up[l] THEN c2s[l] \o f ELSE c2s[l]
      <4>1. c2s' = ClientWrites(l, f)
        BY <1>1, <1>4, <3>4, LinkTypes, Zenon
      <4> QED BY <4>1, ClientWritesAt, Zenon
    <3>10. CASE up[l]
      <4>1. Arrives(queued[l], c2s[l], lastClient, nextClient - 1)
        BY <1>4, <2>1, <3>10, Zenon DEF LinkInv, Upstream
      <4>2. \A i \in 1 .. Len(f) : f[i].type = "frame" =>
                \/ Arrives(queued[l], c2s[l], lastClient, f[i].n - 1)
                \/ \E j \in 1 .. i - 1 : f[j].type = "frame" /\ f[j].n = f[i].n - 1
        BY <3>5, <3>6, <4>1, Zenon
      <4>3. /\ NoGap(queued[l], c2s[l] \o f, lastClient)
            /\ \A n \in Int :
                  Arrives(queued[l], c2s[l], lastClient, n) \/ Carries(f, n) =>
                     Arrives(queued[l], c2s[l] \o f, lastClient, n)
        BY <3>1, <3>8, <4>2, GapWrite, Zenon
      <4> QED BY <3>2, <3>7, <3>9, <3>10, <4>3, Zenon
    <3>11. CASE ~up[l]
      BY <3>8, <3>9, <3>11, Zenon
    <3> QED BY <3>10, <3>11, Zenon
  <2> QED BY <1>1, <2>1, <2>2, <2>3, <2>4, Zenon DEF LinkInv
<1> QED BY <1>3, <1>4, Zenon DEF LinksInv

\* resume: the next link starts with a hello of the receive cursor.
LEMMA ResumeLinks ==
    ASSUME TypeOK, TypeOK', LinksInv, Resume
    PROVE  LinksInv'
<1>1. PICK l : l = attempts + 1
  BY Zenon
<1>2. /\ attempts' = l /\ current' = l
      /\ cli' = [cli EXCEPT ![l] = "opening"]
      /\ srv' = [srv EXCEPT ![l] = "hello"]
      /\ c2s' = [c2s EXCEPT ![l] = <<Hello(received)>>]
      /\ UNCHANGED <<lastClient, nextServer, queued, written, verdict, up,
                     s2c, received, nextClient, link, pendingAck>>
  BY <1>1, Zenon DEF Resume, sessionVars
<1>3. /\ l \in Links /\ attempts \in Nat /\ l > attempts /\ ~(l > attempts')
      /\ attempts <= attempts'
  <2>1. attempts \in Links /\ attempts < MaxLinks
    BY Zenon DEF Resume, TypeOK, ClientTypes
  <2> QED BY <1>1, <1>2, <2>1, BoundsAssumption DEF Links
<1>4. DOMAIN c2s = Links /\ DOMAIN cli = Links /\ DOMAIN srv = Links
  BY Zenon DEF TypeOK, WireTypes, ClientTypes, ServerLinkTypes
<1>5. ASSUME NEW k \in Links, k # l PROVE LinkInv(k)'
  <2>1. SameLink(k)
    BY <1>2, <1>4, <1>5, Zenon DEF SameLink
  <2>2. lastClient <= lastClient' /\ nextServer <= nextServer'
    BY <1>2, LinkTypes
  <2> QED BY <1>2, <1>3, <1>5, <2>1, <2>2, LinkKept, Zenon DEF LinksInv
<1>6. LinkInv(l) /\ Unused(l)
  BY <1>3, Zenon DEF LinksInv, LinkInv, Phase
<1>7. cli'[l] = "opening" /\ srv'[l] = "hello" /\ c2s'[l] = <<Hello(received)>>
  BY <1>2, <1>3, <1>4, Zenon
<1>8. Phase(l)'
  <2>1. /\ Head(<<Hello(received)>>) = Hello(received)
        /\ Tail(<<Hello(received)>>) = << >>
    OBVIOUS
  <2>2. Hello(received).type = "hello" /\ Hello(received).n = received
    BY Zenon DEF Hello
  <2>3. Greets(l)'
    BY <1>2, <1>6, <1>7, <2>1, <2>2, Zenon DEF Greets, Unused
  <2>4. pendingAck[l] = Idle /\ l # link
    BY <1>6, Zenon DEF LinkInv, Phase, Unused
  <2> QED BY <1>2, <1>3, <1>7, <2>3, <2>4, Zenon DEF Phase, Active
<1>9. Upstream(l)'
  BY <1>7, Zenon DEF Upstream
<1>10. Downstream(l)'
  <2>1. s2c'[l] = << >>
    BY <1>2, <1>6, Zenon DEF Unused
  <2>2. \A i \in 1 .. Len(<< >>) : << >>[i].type # "frame"
    OBVIOUS
  <2>3. InOrder(<< >>, received)
    BY <2>2, OrderNone, Zenon
  <2> QED BY <1>2, <1>6, <1>7, <2>1, <2>3, Zenon DEF LinkInv, Downstream
<1> QED BY <1>2, <1>5, <1>6, <1>8, <1>9, <1>10, Zenon DEF LinksInv, LinkInv

\* close ends the current link, if there is one.
LEMMA CloseLinks ==
    ASSUME TypeOK, TypeOK', LinksInv, CloseChannel
    PROVE  LinksInv'
<1>1. UNCHANGED <<sessionVars, serverLinkVars, up, nextClient, received, attempts>>
  BY Zenon DEF CloseChannel
<1>2. CASE current # NoLink
  <2>1. PICK l \in Links : l = current
    BY <1>2, Zenon DEF TypeOK, ClientTypes
  <2>2. DropsLink(l) /\ c2s' = ClientWrites(l, FlushedAck(l))
    BY <1>2, <2>1, Zenon DEF CloseChannel
  <2>3. Active(l)
    BY <2>1, Zenon DEF LinksInv, LinkInv, Phase
  <2> QED BY <1>1, <2>2, <2>3, DropLinks, Zenon
<1>3. CASE current = NoLink
  <2>1. UNCHANGED <<cli, s2c, pendingAck, current, link, c2s>>
    BY <1>3, Zenon DEF CloseChannel
  <2>2. \A k \in Links : SameLink(k)
    BY <1>1, <2>1, Zenon DEF SameLink, serverLinkVars
  <2> QED BY <1>1, <2>1, <2>2, ClientKept, Zenon DEF LinksInv, sessionVars
<1> QED BY <1>2, <1>3, Zenon

\* A new channel has one link, with its hello on the way.
LEMMA InitLinks == Init => LinksInv
<1> SUFFICES ASSUME Init, NEW l \in Links PROVE LinkInv(l)
  BY Zenon DEF LinksInv
<1>1. /\ srv[l] = (IF l = 1 THEN "hello" ELSE "unused")
      /\ cli[l] = (IF l = 1 THEN "opening" ELSE "unused")
      /\ c2s[l] = (IF l = 1 THEN <<Hello(0)>> ELSE << >>)
      /\ s2c[l] = << >> /\ queued[l] = << >> /\ pendingAck[l] = Idle
      /\ written[l] = 0 /\ verdict[l] = "none" /\ received = 0 /\ nextServer = 1
      /\ attempts = 1 /\ current = 1 /\ link = NoLink
  BY Zenon DEF Init
<1>2. l # NoLink /\ (l > 1 => l # 1)
  BY BoundsAssumption DEF Links, NoLink
<1>3. Phase(l)
  <2>1. Head(<<Hello(0)>>) = Hello(0) /\ Tail(<<Hello(0)>>) = << >>
    OBVIOUS
  <2>2. Hello(0).type = "hello" /\ Hello(0).n = 0
    BY Zenon DEF Hello
  <2>3. l > attempts => Unused(l)
    BY <1>1, <1>2, Zenon DEF Unused
  <2>4. srv[l] = "hello" => Greets(l)
    <3>1. srv[l] = "hello" => l = 1
      BY <1>1, Zenon
    <3>2. l = 1 => Greets(l)
      BY <1>1, <2>1, <2>2, Zenon DEF Greets
    <3> QED BY <3>1, <3>2, Zenon
  <2> QED BY <1>1, <1>2, <2>3, <2>4, Zenon DEF Phase, Active
<1>4. Upstream(l)
  BY <1>1, Zenon DEF Upstream
<1>5. Downstream(l)
  <2>1. \A i \in 1 .. Len(<< >>) : << >>[i].type # "frame"
    OBVIOUS
  <2>2. InOrder(<< >>, received)
    BY <2>1, OrderNone, Zenon
  <2>3. written[l] < nextServer
    BY <1>1
  <2> QED BY <1>1, <2>2, <2>3, Zenon DEF Downstream
<1> QED BY <1>1, <1>3, <1>4, <1>5, Zenon DEF LinkInv, Violations

(***************************************************************************)
(* The invariant and what it implies.                                      *)
(***************************************************************************)
\* On every link of every execution, what is on its way continues what the
\* other end holds: open_link, accept_client_frame, pump, becomeReady and
\* receive keep it so across breaks, resumes and restarts.
THEOREM LinksInvariant == Spec => []LinksInv
<1>1. TypeOK /\ TypeOK' /\ SessionInv /\ SessionInv' /\ OneLink /\ LinksInv
        /\ [Next]_vars => LinksInv'
  <2> SUFFICES ASSUME TypeOK, TypeOK', SessionInv, SessionInv', OneLink,
                      LinksInv, [Next]_vars
               PROVE  LinksInv'
    BY Zenon
  <2>1. ASSUME NEW l \in Links, ServerStep(l) PROVE LinksInv'
    BY <2>1, OpenSessionLinks, ReadLinks, AcceptFrameLinks, ProcessLinks, PumpLinks,
       Zenon DEF ServerStep
  <2>2. ASSUME NEW l \in Links, ClientStep(l) PROVE LinksInv'
    BY <2>2, BecomeReadyLinks, ReceiveLinks, FlushLinks, Zenon DEF ClientStep
  <2>3. ASSUME NEW l \in Links, Break(l) PROVE LinksInv'
    BY <2>3, BreakLinks, Zenon
  <2>4. CASE \/ \E n \in deferred : RunDeferred(n)
             \/ EmitEvent \/ ExpireClient \/ UNCHANGED vars
    BY <2>4, ProcessLinks, Zenon
  <2>5. CASE Restart \/ Send \/ Resume \/ CloseChannel
    BY <2>5, RestartLinks, SendLinks, ResumeLinks, CloseLinks, Zenon
  <2> QED BY <2>1, <2>2, <2>3, <2>4, <2>5, Zenon DEF Next
<1> QED BY <1>1, InitLinks, TypeCorrect, SessionInvariant, OneLinkInvariant, PTL
        DEF Spec

\* Neither peer meets a sequence the protocol forbids: no socket ends for a
\* sequence gap, an acknowledgement ahead of the server sequence or a message
\* in front of its hello, and the frames waiting for the client are the next
\* ones it needs.
THEOREM NoViolation == Spec => []NoProtocolViolation
<1>1. LinksInv => NoProtocolViolation
  BY Zenon DEF LinksInv, LinkInv, Downstream, Active, Violations, NoProtocolViolation
<1> QED BY <1>1, LinksInvariant, PTL
=============================================================================

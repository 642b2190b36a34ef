--------------------------- MODULE ResponseProofs ---------------------------
(***************************************************************************)
(* Proofs about the response to a request. For any frames of the upstream, *)
(* any capacity of the channel and any departure of the client: what a     *)
(* client gets is what the upstream sent, in order, and it can tell a      *)
(* whole response from one that was cut off. For any threads that capture  *)
(* or look up the signatures of its tool calls: they are given to their    *)
(* own conversation and model only, and found while they are stored.       *)
(***************************************************************************)
EXTENDS StreamDriver, OpaqueStore, SequenceTheorems, TLAPS

\* All that is on its way to the client, in the order in which it gets it.
Line == Delivered \o (outbox \o buffered)

\* The line leads to a client that may still read.
InFlight == client # "gone" /\ ~(mode = "aggregate" /\ stage = "done")

\* The driver has left the loop, or will when its frames are sent.
AtEnd == stage = "ended" \/ (stage = "send" /\ then.stage = "ended")
Past ==
  \/ stage \in {"finalize", "trace", "done"}
  \/ stage = "send" /\ then.stage = "finalize"
InLoop ==
  \/ stage \in {"full", "top", "enter", "select"}
  \/ stage = "send" /\ then.stage = "top"

\* Who sends, and how far a response has come.
Control ==
  /\ stage = "send" <=> outbox # <<>>
  /\ stage = "send" => Streaming /\ then.stage \in {"top", "ended", "finalize"}
  /\ InLoop => status = "success"
  /\ AtEnd => status # "client_disconnect"
  /\ stage = "full" =>
       /\ mode # "passthrough" /\ taken = <<>> /\ buffered = <<>>
       /\ inbox = <<>> /\ ~open /\ produced = 0
  /\ mode = "aggregate" =>
       /\ channel = <<>> /\ (stage # "done" => received = <<>>)
       /\ client = "reading" \/ (client = "gone" /\ stage = "dropped")
  /\ stage = "dropped" => mode = "aggregate" /\ client = "gone"
  /\ Streaming /\ buffered # <<>> => mode = "passthrough" /\ ~committed

\* Until a passthrough commits, the frame that makes it do so is at hand.
CommitIsAtHand ==
  mode = "passthrough" /\ ~committed =>
    \/ status = "client_disconnect" /\ stage \in {"finalize", "trace", "done"}
    \/ /\ stage \in {"top", "enter", "select"} /\ idleLeft = IdleTimeout
       /\ inbox # <<>>
       /\ \/ inbox[1].kind = "data"
          \/ inbox[1].kind = "start" /\ Len(inbox) >= 2 /\ inbox[2].kind = "data"

\* What is still to be read comes after all that was taken.
InboxIsAhead ==
  /\ \A i \in 1..Len(inbox) : inbox[i].number = produced - Len(inbox) + i
  /\ \A k \in 1..Len(taken) : taken[k] \in 1..produced - Len(inbox)
  /\ produced >= Len(inbox)
  /\ Ascending(taken)
  /\ open => produced <= MaxFrames

\* The line carries all that was taken, and its ends tell how the response ended.
LineIsWhole ==
  /\ Ordered(Line) /\ Shown(Line) = Range(taken)
  /\ ErrorsLast(Line)
  /\ Ends(Line) => terminalSeen
  /\ status = "success" => ~Has(Line, "error")
  /\ mode = "passthrough" /\ terminalSeen => Has(Line, "stop") \/ Has(Line, "done")
  /\ finishSent => Has(Line, "stop")
  /\ (AtEnd \/ Past) /\ status = "success" => terminalSeen
  /\ Past /\ mode = "translate" /\ status = "success" => Closed(Line)
  /\ Past /\ Streaming /\ status = "stream_error" => Has(Line, "error")

\* Afterwards nothing is delivered any more.
Settled ==
  /\ Follows(Delivered, taken) /\ ErrorsLast(Delivered)
  /\ Ends(Delivered) => terminalSeen
  /\ client = "gone" => channel = <<>>
  /\ client # "gone" => SuccessIsComplete /\ TruncationIsVisible

IInv ==
  /\ TypeOK /\ Control /\ CommitIsAtHand /\ InboxIsAhead
  /\ IF InFlight THEN LineIsWhole ELSE Settled

-----------------------------------------------------------------------------
(* Frames in a row. *)

Frames == Seq(ClientFrame)

LEMMA FrameType == \A x \in ClientFrame : x.number \in Nat /\ x.number \in 0..MaxFrames + 1
BY ConstantsAssumption DEF ClientFrame

LEMMA AtDomain ==
  ASSUME NEW s \in Frames
  PROVE  /\ Len(s) \in Nat /\ DOMAIN s = 1..Len(s)
         /\ \A i \in 1..Len(s) : s[i] \in ClientFrame /\ s[i].number \in Nat
<1>1. Len(s) \in Nat /\ DOMAIN s = 1..Len(s)
  BY LenProperties DEF Frames
<1>2. \A i \in 1..Len(s) : s[i] \in ClientFrame
  BY ElementOfSeq DEF Frames
<1> QED BY <1>1, <1>2, FrameType

LEMMA AppendAt ==
  ASSUME NEW s \in Frames, NEW x \in ClientFrame
  PROVE  /\ Append(s, x) \in Frames /\ Len(Append(s, x)) = Len(s) + 1
         /\ Append(s, x)[Len(s) + 1] = x
         /\ \A i \in 1..Len(s) : Append(s, x)[i] = s[i]
BY AppendProperties DEF Frames

LEMMA ConcatAt ==
  ASSUME NEW s \in Frames, NEW t \in Frames
  PROVE  /\ s \o t \in Frames /\ Len(s \o t) = Len(s) + Len(t)
         /\ \A i \in 1..Len(s) : (s \o t)[i] = s[i]
         /\ \A i \in 1..Len(t) : (s \o t)[Len(s) + i] = t[i]
<1>1. /\ s \o t \in Frames /\ Len(s \o t) = Len(s) + Len(t)
      /\ \A i \in 1..Len(s) + Len(t) : (s \o t)[i] = IF i <= Len(s) THEN s[i] ELSE t[i - Len(s)]
  BY ConcatProperties DEF Frames
<1>2. Len(s) \in Nat /\ Len(t) \in Nat
  BY AtDomain
<1>3. ASSUME NEW i \in 1..Len(s) PROVE (s \o t)[i] = s[i]
  <2>1. i \in 1..Len(s) + Len(t) /\ i <= Len(s)
    BY <1>2
  <2> QED BY <1>1, <2>1
<1>4. ASSUME NEW i \in 1..Len(t) PROVE (s \o t)[Len(s) + i] = t[i]
  <2>1. Len(s) + i \in 1..Len(s) + Len(t) /\ ~(Len(s) + i <= Len(s)) /\ (Len(s) + i) - Len(s) = i
    BY <1>2
  <2> QED BY <1>1, <2>1
<1> QED BY <1>1, <1>3, <1>4

\* What may follow an error.
Epilogue == {"error", "failed", "done"}

\* Two rows as one.
LEMMA TwoRows ==
  ASSUME NEW s \in Frames, NEW f \in Frames
  PROVE  /\ Ordered(s) /\ Ordered(f) /\ (\A n \in Shown(s), m \in Shown(f) : n < m) => Ordered(s \o f)
         /\ Shown(s \o f) = Shown(s) \cup Shown(f)
         /\ ErrorsLast(s) /\ ErrorsLast(f)
            /\ (~Has(s, "error") \/ \A i \in 1..Len(f) : f[i].kind \in Epilogue) => ErrorsLast(s \o f)
         /\ \A k : Has(s \o f, k) <=> Has(s, k) \/ Has(f, k)
         /\ Ends(s \o f) => Ends(s) \/ Ends(f)
<1> DEFINE p == s \o f
           l == Len(s)
           n == Len(f)
<1>1. /\ p \in Frames /\ Len(p) = l + n /\ l \in Nat /\ n \in Nat
      /\ \A i \in 1..l : p[i] = s[i]
      /\ \A i \in 1..n : p[l + i] = f[i]
      /\ DOMAIN s = 1..l /\ DOMAIN f = 1..n
      /\ \A i \in 1..l : s[i].number \in Nat
      /\ \A i \in 1..n : f[i].number \in Nat
  BY ConcatAt, AtDomain
<1>2. DOMAIN p = 1..l + n
  BY <1>1, AtDomain
<1> HIDE DEF p, l, n
<1>3. ASSUME NEW i \in 1..l + n
      PROVE  (i \in 1..l /\ p[i] = s[i]) \/ (i - l \in 1..n /\ i > l /\ p[i] = f[i - l])
  <2>1. CASE i <= l
    BY <1>1, <2>1
  <2>2. CASE i > l
    <3>1. i - l \in 1..n /\ l + (i - l) = i
      BY <1>1, <2>2
    <3> QED BY <1>1, <2>2, <3>1
  <2> QED BY <1>1, <2>1, <2>2
<1>4. /\ \A i \in 1..l : i \in 1..l + n
      /\ \A i \in 1..n : l + i \in 1..l + n
  BY <1>1
<1>5. ASSUME Ordered(s), Ordered(f), \A a \in Shown(s), b \in Shown(f) : a < b
      PROVE  Ordered(p)
  <2>1. SUFFICES ASSUME NEW i \in 1..l + n, NEW j \in 1..l + n, i < j, p[j].number # 0
                 PROVE  p[i].number < p[j].number
    BY <1>2 DEF Ordered
  <2>2. CASE j \in 1..l /\ p[j] = s[j]
    <3>1. i \in 1..l /\ p[i] = s[i]
      BY <1>1, <2>1, <2>2
    <3> QED BY <1>1, <1>5, <2>1, <2>2, <3>1 DEF Ordered
  <2>3. CASE j - l \in 1..n /\ j > l /\ p[j] = f[j - l]
    <3>1. f[j - l].number \in Shown(f) /\ f[j - l].number \in Nat \ {0}
      BY <1>1, <2>1, <2>3 DEF Shown
    <3>2. CASE i \in 1..l /\ p[i] = s[i]
      <4>1. s[i].number \in Nat /\ (s[i].number # 0 => s[i].number \in Shown(s))
        BY <1>1, <3>2 DEF Shown
      <4> QED BY <1>5, <2>3, <3>1, <3>2, <4>1
    <3>3. CASE i - l \in 1..n /\ i > l /\ p[i] = f[i - l]
      <4>1. i - l < j - l
        BY <1>1, <2>1
      <4>2. f[i - l].number < f[j - l].number
        BY <1>1, <1>5, <2>3, <3>1, <3>3, <4>1 DEF Ordered
      <4> QED BY <2>3, <3>3, <4>2
    <3> QED BY <1>3, <3>2, <3>3
  <2> QED BY <1>3, <2>2, <2>3
<1>6. Shown(p) = Shown(s) \cup Shown(f)
  <2>1. ASSUME NEW m \in Shown(p) PROVE m \in Shown(s) \cup Shown(f)
    <3>1. PICK i \in 1..l + n : p[i].number = m /\ m # 0
      BY <1>2, <2>1 DEF Shown
    <3> QED BY <1>1, <1>3, <3>1 DEF Shown
  <2>2. ASSUME NEW m \in Shown(s) PROVE m \in Shown(p)
    <3>1. PICK i \in 1..l : s[i].number = m /\ m # 0
      BY <1>1, <2>2 DEF Shown
    <3> QED BY <1>1, <1>2, <1>4, <3>1 DEF Shown
  <2>3. ASSUME NEW m \in Shown(f) PROVE m \in Shown(p)
    <3>1. PICK i \in 1..n : f[i].number = m /\ m # 0
      BY <1>1, <2>3 DEF Shown
    <3> QED BY <1>1, <1>2, <1>4, <3>1 DEF Shown
  <2> QED BY <2>1, <2>2, <2>3
<1>7. ASSUME NEW k PROVE Has(p, k) <=> Has(s, k) \/ Has(f, k)
  <2>1. ASSUME Has(p, k) PROVE Has(s, k) \/ Has(f, k)
    <3>1. PICK i \in 1..l + n : p[i].kind = k
      BY <1>2, <2>1 DEF Has
    <3> QED BY <1>1, <1>3, <3>1 DEF Has
  <2>2. ASSUME Has(s, k) PROVE Has(p, k)
    <3>1. PICK i \in 1..l : s[i].kind = k
      BY <1>1, <2>2 DEF Has
    <3> QED BY <1>1, <1>2, <1>4, <3>1 DEF Has
  <2>3. ASSUME Has(f, k) PROVE Has(p, k)
    <3>1. PICK i \in 1..n : f[i].kind = k
      BY <1>1, <2>3 DEF Has
    <3> QED BY <1>1, <1>2, <1>4, <3>1 DEF Has
  <2> QED BY <2>1, <2>2, <2>3
<1>8. ASSUME ErrorsLast(s), ErrorsLast(f), ~Has(s, "error") \/ \A i \in 1..n : f[i].kind \in Epilogue
      PROVE  ErrorsLast(p)
  <2>1. SUFFICES ASSUME NEW i \in 1..l + n, NEW j \in 1..l + n, i < j, p[i].kind = "error"
                 PROVE  p[j].kind \in Epilogue
    BY <1>2 DEF ErrorsLast, Epilogue
  <2>2. CASE i \in 1..l /\ p[i] = s[i]
    <3>1. Has(s, "error")
      BY <1>1, <2>1, <2>2 DEF Has
    <3>2. CASE j \in 1..l /\ p[j] = s[j]
      BY <1>1, <1>8, <2>1, <2>2, <3>2 DEF ErrorsLast, Epilogue
    <3>3. CASE j - l \in 1..n /\ j > l /\ p[j] = f[j - l]
      BY <1>8, <3>1, <3>3
    <3> QED BY <1>3, <3>2, <3>3
  <2>3. CASE i - l \in 1..n /\ i > l /\ p[i] = f[i - l]
    <3>1. j - l \in 1..n /\ p[j] = f[j - l] /\ i - l < j - l
      BY <1>1, <1>3, <2>1, <2>3
    <3>2. f[i - l].kind = "error" /\ i - l \in DOMAIN f /\ j - l \in DOMAIN f
      BY <1>1, <2>1, <2>3, <3>1
    <3>3. \A a, b \in DOMAIN f : a < b /\ f[a].kind = "error" => f[b].kind \in Epilogue
      BY <1>8 DEF ErrorsLast, Epilogue
    <3>4. f[j - l].kind \in Epilogue
      BY ONLY <3>1, <3>2, <3>3
    <3> QED BY ONLY <3>1, <3>4
  <2> QED BY <1>3, <2>2, <2>3
<1>9. ASSUME Ends(p) PROVE Ends(s) \/ Ends(f)
  <2>1. PICK i \in 1..l + n : /\ p[i].kind \in {"stop", "done"}
                             /\ \A j \in 1..l + n : j < i => p[j].kind # "error"
    BY <1>2, <1>9 DEF Ends
  <2>2. CASE i \in 1..l /\ p[i] = s[i]
    BY <1>1, <1>4, <2>1, <2>2 DEF Ends
  <2>3. CASE i - l \in 1..n /\ i > l /\ p[i] = f[i - l]
    <3>1. ASSUME NEW j \in 1..n, j < i - l PROVE f[j].kind # "error"
      <4>1. l + j \in 1..l + n /\ l + j < i /\ p[l + j] = f[j]
        BY <1>1, <1>4, <3>1
      <4> QED BY <2>1, <4>1
    <3> QED BY <1>1, <2>1, <2>3, <3>1 DEF Ends
  <2> QED BY <1>3, <2>2, <2>3
<1> QED BY <1>5, <1>6, <1>7, <1>8, <1>9 DEF p, n

\* What holds of a row of frames holds of its beginning.
LEMMA Beginning ==
  ASSUME NEW s \in Frames, NEW t \in Frames
  PROVE  /\ Ordered(s \o t) => Ordered(s)
         /\ ErrorsLast(s \o t) => ErrorsLast(s)
         /\ Ends(s) => Ends(s \o t)
         /\ \A k : Has(s, k) => Has(s \o t, k)
         /\ Shown(s) \subseteq Shown(s \o t)
         /\ Ordered(s \o t) =>
              \A n \in Shown(s \o t), m \in Shown(s) : n < m => n \in Shown(s)
<1> DEFINE p == s \o t
           l == Len(s)
<1>1. /\ p \in Frames /\ l \in Nat /\ Len(p) \in Nat /\ l <= Len(p)
      /\ \A i \in 1..l : p[i] = s[i] /\ s[i].number \in Nat
      /\ DOMAIN s = 1..l /\ DOMAIN p = 1..Len(p)
      /\ \A i \in 1..Len(p) : p[i].number \in Nat
  <2>1. /\ l \in Nat /\ Len(t) \in Nat /\ Len(p) = l + Len(t) /\ p \in Frames
        /\ \A i \in 1..l : p[i] = s[i]
    BY AtDomain, ConcatAt
  <2>2. DOMAIN s = 1..l /\ \A i \in 1..l : s[i].number \in Nat
    BY AtDomain
  <2>3. DOMAIN p = 1..Len(p) /\ \A i \in 1..Len(p) : p[i].number \in Nat
    BY <2>1, AtDomain
  <2> HIDE DEF p, l
  <2>4. Len(p) \in Nat /\ l <= Len(p)
    BY <2>1
  <2> QED BY <2>1, <2>2, <2>3, <2>4
<1> HIDE DEF p, l
<1>2. 1..l \subseteq 1..Len(p)
  BY <1>1
<1>3. Ordered(p) => Ordered(s)
  BY <1>1, <1>2 DEF Ordered
<1>4. ErrorsLast(p) => ErrorsLast(s)
  BY <1>1, <1>2 DEF ErrorsLast
<1>8. ASSUME Ends(s) PROVE Ends(p)
  <2>1. PICK i \in 1..l : /\ s[i].kind \in {"stop", "done"}
                         /\ \A j \in 1..l : j < i => s[j].kind # "error"
    BY <1>1, <1>8 DEF Ends
  <2>2. \A j \in 1..Len(p) : j < i => j \in 1..l
    BY <1>1
  <2> QED BY <1>1, <1>2, <2>1, <2>2 DEF Ends
<1>5. \A k : Has(s, k) => Has(p, k)
  BY <1>1, <1>2 DEF Has
<1>6. Shown(s) \subseteq Shown(p)
  BY <1>1, <1>2 DEF Shown
<1>7. ASSUME Ordered(p), NEW n \in Shown(p), NEW m \in Shown(s), n < m
      PROVE  n \in Shown(s)
  <2>1. PICK i \in 1..Len(p) : p[i].number = n /\ n # 0
    BY <1>1 DEF Shown
  <2>2. PICK j \in 1..l : s[j].number = m /\ m # 0
    BY <1>1 DEF Shown
  <2>3. p[j].number = m /\ j \in 1..Len(p) /\ n \in Nat /\ m \in Nat
    BY <1>1, <1>2, <2>1, <2>2
  <2>4. ~(j < i)
    BY <1>1, <1>7, <2>1, <2>3 DEF Ordered
  <2>5. i \in 1..l
    BY <1>1, <2>1, <2>2, <2>4
  <2>6. s[i].number = n
    BY <1>1, <2>1, <2>5
  <2> QED BY <1>1, <2>1, <2>5, <2>6 DEF Shown
<1> QED BY <1>3, <1>4, <1>5, <1>6, <1>7, <1>8 DEF p

\* A comment may be left out.
LEMMA WithoutComment ==
  ASSUME NEW s \in Frames, NEW p \in Frames, NEW k \in 1..Len(s), s[k] = Comment,
         Len(p) = Len(s) - 1,
         \A i \in 1..Len(p) : p[i] = s[IF i < k THEN i ELSE i + 1]
  PROVE  /\ Ordered(s) => Ordered(p)
         /\ ErrorsLast(s) => ErrorsLast(p)
         /\ Ends(p) => Ends(s)
         /\ Shown(p) = Shown(s)
         /\ \A kind : kind # "keepalive" => (Has(p, kind) <=> Has(s, kind))
<1> DEFINE f(i) == IF i < k THEN i ELSE i + 1
           g(j) == IF j < k THEN j ELSE j - 1
<1>1. /\ Len(s) \in Nat /\ Len(p) \in Nat /\ DOMAIN s = 1..Len(s) /\ DOMAIN p = 1..Len(p)
      /\ s[k].number = 0 /\ s[k].kind = "keepalive"
  BY AtDomain DEF Comment
<1>2. \A i \in 1..Len(p) : f(i) \in 1..Len(s) /\ p[i] = s[f(i)]
  BY <1>1
<1>3. \A i, j \in 1..Len(p) : i < j => f(i) < f(j)
  BY <1>1
<1>4. \A j \in 1..Len(s) : j # k => g(j) \in 1..Len(p) /\ p[g(j)] = s[j]
  <2>1. SUFFICES ASSUME NEW j \in 1..Len(s), j # k
                 PROVE  g(j) \in 1..Len(p) /\ p[g(j)] = s[j]
    OBVIOUS
  <2>2. g(j) \in 1..Len(p) /\ f(g(j)) = j
    BY <1>1, <2>1
  <2> QED BY <1>2, <2>2
<1>9. \A i \in 1..Len(p), j \in 1..Len(s) : j # k /\ j < f(i) => g(j) < i
  BY <1>1
<1> HIDE DEF f, g
<1>10. ASSUME Ends(p) PROVE Ends(s)
  <2>1. PICK i \in 1..Len(p) : /\ p[i].kind \in {"stop", "done"}
                              /\ \A j \in 1..Len(p) : j < i => p[j].kind # "error"
    BY <1>1, <1>10 DEF Ends
  <2>2. f(i) \in 1..Len(s) /\ s[f(i)].kind \in {"stop", "done"}
    BY <1>2, <2>1
  <2>3. ASSUME NEW j \in 1..Len(s), j < f(i) PROVE s[j].kind # "error"
    <3>1. CASE j = k
      BY <1>1, <3>1
    <3>2. CASE j # k
      BY <1>4, <1>9, <2>1, <2>3, <3>2
    <3> QED BY <3>1, <3>2
  <2> QED BY <1>1, <2>2, <2>3 DEF Ends
<1>5. Ordered(s) => Ordered(p)
  BY <1>1, <1>2, <1>3 DEF Ordered
<1>6. ErrorsLast(s) => ErrorsLast(p)
  BY <1>1, <1>2, <1>3 DEF ErrorsLast
<1>7. Shown(p) = Shown(s)
  <2>1. Shown(p) \subseteq Shown(s)
    BY <1>1, <1>2 DEF Shown
  <2>2. ASSUME NEW n \in Shown(s) PROVE n \in Shown(p)
    <3>1. PICK j \in 1..Len(s) : s[j].number = n /\ n # 0
      BY <1>1, <2>2 DEF Shown
    <3>2. j # k
      BY <1>1, <3>1
    <3> QED BY <1>1, <1>4, <3>1, <3>2 DEF Shown
  <2> QED BY <2>1, <2>2
<1>8. ASSUME NEW kind, kind # "keepalive" PROVE Has(p, kind) <=> Has(s, kind)
  <2>1. Has(p, kind) => Has(s, kind)
    BY <1>1, <1>2 DEF Has
  <2>2. ASSUME Has(s, kind) PROVE Has(p, kind)
    <3>1. PICK j \in 1..Len(s) : s[j].kind = kind
      BY <1>1, <2>2 DEF Has
    <3>2. j # k
      BY <1>1, <1>8, <3>1
    <3> QED BY <1>1, <1>4, <3>1, <3>2 DEF Has
  <2> QED BY <2>1, <2>2
<1> QED BY <1>5, <1>6, <1>7, <1>8, <1>10

-----------------------------------------------------------------------------
(* The line: what was received, the channel, the driver's outbox and its buffer. *)

Row(r, c, o, b) == (r \o c) \o (o \o b)

LEMMA RowType ==
  ASSUME NEW r \in Frames, NEW c \in Frames, NEW o \in Frames, NEW b \in Frames
  PROVE  r \o c \in Frames /\ o \o b \in Frames /\ Row(r, c, o, b) \in Frames
BY ConcatAt DEF Row

LEMMA RowEmpty == <<>> \in Frames /\ \A s \in Frames : s \o <<>> = s /\ <<>> \o s = s
BY EmptySeq, ConcatEmptySeq DEF Frames

\* A single frame, as a row.
LEMMA RowOfOne ==
  ASSUME NEW x \in ClientFrame
  PROVE  <<x>> \in Frames /\ \A s \in Frames : s \o <<x>> = Append(s, x)
<1>1. <<x>> \in Seq(ClientFrame)
  OBVIOUS
<1>2. ASSUME NEW s \in Frames PROVE s \o <<x>> = Append(s, x)
  BY <1>1, AppendIsConcat DEF Frames
<1> QED BY <1>1, <1>2 DEF Frames

\* What a row of one frame tells.
LEMMA OneTells ==
  ASSUME NEW x \in ClientFrame
  PROVE  /\ Ordered(<<x>>) /\ ErrorsLast(<<x>>) /\ Shown(<<x>>) = {x.number} \ {0}
         /\ \A k : Has(<<x>>, k) <=> x.kind = k
         /\ Ends(<<x>>) => x.kind \in {"stop", "done"}
<1> DEFINE f == <<x>>
<1>1. DOMAIN f = 1..1 /\ f[1] = x
  OBVIOUS
<1> HIDE DEF f
<1>2. Ordered(f) /\ ErrorsLast(f)
  BY <1>1 DEF Ordered, ErrorsLast
<1>3. Shown(f) = {x.number} \ {0}
  BY <1>1 DEF Shown
<1>4. (\A k : Has(f, k) <=> x.kind = k) /\ (Ends(f) => x.kind \in {"stop", "done"})
  BY <1>1 DEF Has, Ends
<1> QED BY <1>2, <1>3, <1>4 DEF f

\* A row is its first frame and the rest.
LEMMA RowStarts ==
  ASSUME NEW s \in Frames, s # <<>>
  PROVE  Head(s) \in ClientFrame /\ Tail(s) \in Frames /\ s = <<Head(s)>> \o Tail(s)
<1>1. Head(s) \in ClientFrame /\ Tail(s) \in Frames
  BY HeadTailProperties DEF Frames
<1>2. Len(s) \in Nat \ {0} /\ s \in Seq(ClientFrame)
  BY EmptySeq DEF Frames
<1>3. 1 \in 1..Len(s) /\ Len(s) \in 1..Len(s)
  BY <1>2
<1>4. SubSeq(s, 1, Len(s)) = <<s[1]>> \o SubSeq(s, 1 + 1, Len(s))
  BY <1>2, <1>3, SubSeqRecursiveFirst
<1>5. SubSeq(s, 1, Len(s)) = s /\ Tail(s) = SubSeq(s, 2, Len(s)) /\ Head(s) = s[1]
  BY <1>2, SubSeqFull, TailIsSubSeq
<1> QED BY <1>1, <1>4, <1>5

LEMMA RowTail ==
  ASSUME NEW s \in Frames, s # <<>>
  PROVE  Tail(s) \in Frames /\ (Len(s) = 1 <=> Tail(s) = <<>>)
<1>1. Tail(s) \in Frames /\ Len(Tail(s)) = Len(s) - 1
  BY HeadTailProperties DEF Frames
<1>2. Len(s) \in Nat \ {0} /\ (Len(Tail(s)) = 0 <=> Tail(s) = <<>>)
  BY <1>1, EmptySeq DEF Frames
<1> QED BY <1>1, <1>2

\* A frame that goes from the outbox into the channel stays in the row.
LEMMA RowSends ==
  ASSUME NEW r \in Frames, NEW c \in Frames, NEW o \in Frames, NEW b \in Frames, o # <<>>
  PROVE  /\ Head(o) \in ClientFrame /\ Tail(o) \in Frames
         /\ Row(r, Append(c, Head(o)), Tail(o), b) = Row(r, c, o, b)
<1> DEFINE x == Head(o)
           q == Tail(o)
<1>1. x \in ClientFrame /\ q \in Frames /\ o = <<x>> \o q
  BY RowStarts
<1> HIDE DEF x, q
<1>2. <<x>> \in Frames /\ Append(c, x) = c \o <<x>>
  BY <1>1, RowOfOne
<1>3. (r \o (c \o <<x>>)) = (r \o c) \o <<x>>
  BY <1>2, ConcatAssociative DEF Frames
<1>4. /\ r \o c \in Frames /\ q \o b \in Frames
  BY <1>1, ConcatAt
<1>5. ((r \o c) \o <<x>>) \o (q \o b) = (r \o c) \o (<<x>> \o (q \o b))
  <2> DEFINE u == r \o c
             v == q \o b
  <2>1. u \in Seq(ClientFrame) /\ v \in Seq(ClientFrame) /\ <<x>> \in Seq(ClientFrame)
    BY <1>2, <1>4 DEF Frames
  <2> HIDE DEF u, v
  <2>2. (u \o <<x>>) \o v = u \o (<<x>> \o v)
    BY <2>1, ConcatAssociative
  <2> QED BY <2>2 DEF u, v
<1>6. <<x>> \o (q \o b) = (<<x>> \o q) \o b
  BY <1>1, <1>2, ConcatAssociative DEF Frames
<1>7. Row(r, Append(c, x), q, b) = Row(r, c, o, b)
  BY <1>1, <1>2, <1>3, <1>5, <1>6 DEF Row
<1> QED BY <1>1, <1>7 DEF x, q

\* What is kept back goes to the outbox as it is.
LEMMA RowCommits ==
  ASSUME NEW r \in Frames, NEW c \in Frames, NEW b \in Frames
  PROVE  Row(r, c, b, <<>>) = Row(r, c, <<>>, b)
BY RowEmpty DEF Row

\* New frames are the last ones, in the buffer or in the outbox.
LEMMA RowKeeps ==
  ASSUME NEW r \in Frames, NEW c \in Frames, NEW b \in Frames, NEW f \in Frames
  PROVE  Row(r, c, <<>>, b \o f) = Row(r, c, <<>>, b) \o f
<1>1. b \o f \in Frames /\ r \o c \in Frames
  BY ConcatAt
<1>2. (r \o c) \o (b \o f) = ((r \o c) \o b) \o f
  <2> DEFINE u == r \o c
  <2>1. u \in Seq(ClientFrame) /\ b \in Seq(ClientFrame) /\ f \in Seq(ClientFrame)
    BY <1>1 DEF Frames
  <2> HIDE DEF u
  <2>2. u \o (b \o f) = (u \o b) \o f
    BY ONLY <2>1, ConcatAssociative
  <2> QED BY <2>2 DEF u
<1> DEFINE h == b \o f
<1>3. (r \o c) \o (<<>> \o h) = (r \o c) \o h
  <2> HIDE DEF h
  <2>1. h \in Frames
    BY <1>1 DEF h
  <2> QED BY <2>1, RowEmpty
<1>4. (r \o c) \o (<<>> \o b) = (r \o c) \o b
  BY RowEmpty
<1> HIDE DEF h
<1>5. Row(r, c, <<>>, h) = (r \o c) \o h /\ Row(r, c, <<>>, b) = (r \o c) \o b
  BY ONLY <1>3, <1>4 DEF Row
<1>6. (r \o c) \o h = ((r \o c) \o b) \o f
  BY <1>2 DEF h
<1> QED BY <1>5, <1>6 DEF h

\* The client reads a frame, and forgets a comment.
LEMMA RowIsRead ==
  ASSUME NEW r \in Frames, NEW c \in Frames, NEW o \in Frames, NEW b \in Frames, c # <<>>
  PROVE  /\ Head(c) \in ClientFrame /\ Tail(c) \in Frames
         /\ Append(r, Head(c)) \in Frames
         /\ Append(r, Head(c)) \o Tail(c) = r \o c
<1> DEFINE x == Head(c)
           q == Tail(c)
<1>1. x \in ClientFrame /\ q \in Frames /\ c = <<x>> \o q
  BY RowStarts
<1> HIDE DEF x, q
<1>2. <<x>> \in Frames /\ Append(r, x) = r \o <<x>> /\ Append(r, x) \in Frames
  BY <1>1, RowOfOne, AppendAt
<1>3. (r \o <<x>>) \o q = r \o (<<x>> \o q)
  BY <1>1, <1>2, ConcatAssociative DEF Frames
<1>4. Append(r, x) \o q = r \o c
  BY <1>1, <1>2, <1>3
<1> QED BY <1>1, <1>2, <1>4 DEF x, q

\* Where the comment was that the client forgets.
LEMMA RowForgets ==
  ASSUME NEW r \in Frames, NEW c \in Frames, NEW t \in Frames, c # <<>>, Head(c) = Comment
  PROVE  LET s == (r \o c) \o t
             p == (r \o Tail(c)) \o t
         IN  /\ Len(r) + 1 \in 1..Len(s) /\ s[Len(r) + 1] = Comment
             /\ Len(p) = Len(s) - 1
             /\ \A i \in 1..Len(p) : p[i] = s[IF i < Len(r) + 1 THEN i ELSE i + 1]
<1> DEFINE q == Tail(c)
           s == (r \o c) \o t
           p == (r \o q) \o t
<1>1. /\ q \in Frames /\ Len(q) = Len(c) - 1 /\ \A i \in 1..Len(q) : q[i] = c[i + 1]
      /\ Len(c) \in Nat \ {0} /\ c[1] = Comment
  BY HeadTailProperties, EmptySeq DEF Frames
<1>2. Len(r) \in Nat /\ Len(q) \in Nat /\ Len(t) \in Nat /\ r \o c \in Frames /\ r \o q \in Frames
  BY <1>1, AtDomain, ConcatAt
<1>3. /\ Len(r \o c) = Len(r) + Len(c) /\ Len(r \o q) = Len(r) + Len(q)
      /\ \A i \in 1..Len(r) : (r \o c)[i] = r[i] /\ (r \o q)[i] = r[i]
      /\ \A i \in 1..Len(c) : (r \o c)[Len(r) + i] = c[i]
      /\ \A i \in 1..Len(q) : (r \o q)[Len(r) + i] = q[i]
  BY <1>1, ConcatAt
<1>4. /\ Len(s) = Len(r) + Len(c) + Len(t) /\ Len(p) = Len(r) + Len(q) + Len(t)
      /\ \A i \in 1..Len(r) + Len(c) : s[i] = (r \o c)[i]
      /\ \A i \in 1..Len(r) + Len(q) : p[i] = (r \o q)[i]
      /\ \A i \in 1..Len(t) : s[Len(r) + Len(c) + i] = t[i] /\ p[Len(r) + Len(q) + i] = t[i]
  BY <1>2, <1>3, ConcatAt
<1> HIDE DEF q, s, p
<1>5. Len(p) = Len(s) - 1 /\ Len(r) + 1 \in 1..Len(s)
  BY <1>1, <1>2, <1>4
<1>6. s[Len(r) + 1] = Comment
  BY <1>1, <1>2, <1>3, <1>4
<1>7. ASSUME NEW i \in 1..Len(p)
      PROVE  p[i] = s[IF i < Len(r) + 1 THEN i ELSE i + 1]
  <2>1. CASE i <= Len(r)
    <3>1. i \in 1..Len(r) /\ i \in 1..Len(r) + Len(c) /\ i \in 1..Len(r) + Len(q) /\ i < Len(r) + 1
      BY <1>1, <1>2, <1>4, <2>1
    <3> QED BY <1>3, <1>4, <3>1
  <2>2. CASE Len(r) < i /\ i <= Len(r) + Len(q)
    <3> DEFINE k == i - Len(r)
    <3>1. /\ k \in 1..Len(q) /\ k + 1 \in 1..Len(c) /\ i = Len(r) + k /\ i + 1 = Len(r) + (k + 1)
          /\ i \in 1..Len(r) + Len(q) /\ i + 1 \in 1..Len(r) + Len(c) /\ ~(i < Len(r) + 1)
      BY <1>1, <1>2, <1>4, <2>2
    <3> HIDE DEF k
    <3>2. p[i] = q[k] /\ s[i + 1] = c[k + 1]
      <4>1. p[i] = (r \o q)[i] /\ s[i + 1] = (r \o c)[i + 1]
        BY <1>4, <3>1
      <4>2. (r \o q)[Len(r) + k] = q[k] /\ (r \o c)[Len(r) + (k + 1)] = c[k + 1]
        BY <1>3, <3>1
      <4>3. (r \o q)[i] = (r \o q)[Len(r) + k] /\ (r \o c)[i + 1] = (r \o c)[Len(r) + (k + 1)]
        BY <3>1
      <4> QED BY <4>1, <4>2, <4>3
    <3>3. q[k] = c[k + 1]
      BY <1>1, <3>1
    <3>4. (IF i < Len(r) + 1 THEN i ELSE i + 1) = i + 1
      BY <3>1
    <3> QED BY <3>2, <3>3, <3>4
  <2>3. CASE Len(r) + Len(q) < i
    <3> DEFINE k == i - (Len(r) + Len(q))
    <3>1. /\ k \in 1..Len(t) /\ i = Len(r) + Len(q) + k /\ i + 1 = Len(r) + Len(c) + k
          /\ ~(i < Len(r) + 1)
      BY <1>1, <1>2, <1>4, <2>3
    <3> HIDE DEF k
    <3> QED BY <1>4, <3>1
  <2> QED BY <1>2, <2>1, <2>2, <2>3
<1> QED BY <1>5, <1>6, <1>7 DEF q, s, p

-----------------------------------------------------------------------------
(* Steps of the driver. *)

\* The two halves of the type invariant.
RowTypes ==
  /\ inbox \in Seq(UpstreamFrame) /\ taken \in Seq(Nat)
  /\ buffered \in Frames /\ outbox \in Frames /\ channel \in Frames /\ received \in Frames
  /\ Len(channel) <= Capacity

PlainTypes ==
  /\ mode \in Modes /\ stage \in Stage
  /\ open \in BOOLEAN /\ produced \in 0..MaxFrames + 1
  /\ silence \in 0..IdleTimeout
  /\ idleLeft \in 0..IdleTimeout /\ keepaliveLeft \in 0..Keepalive
  /\ then \in [stage : Stage, cancel : BOOLEAN]
  /\ client \in {"reading", "flagged", "notified", "gone"} /\ woken \in BOOLEAN
  /\ status \in {"success", "stream_error", "client_disconnect"}
  /\ blame \in BOOLEAN /\ terminalSeen \in BOOLEAN /\ committed \in BOOLEAN
  /\ verdict \in {"none", "success", "neutral", "failure"} /\ live \in BOOLEAN

EncoderTypes == format \in Formats /\ finishSent \in BOOLEAN

LEMMA TypeHalves == TypeOK <=> RowTypes /\ PlainTypes /\ EncoderTypes
BY DEF TypeOK, RowTypes, PlainTypes, EncoderTypes, Frames

LEMMA FrameKinds ==
  /\ Stop \in ClientFrame /\ Done \in ClientFrame /\ Error \in ClientFrame /\ Failed \in ClientFrame
  /\ Comment \in ClientFrame
  /\ Stop.kind = "stop" /\ Done.kind = "done" /\ Error.kind = "error" /\ Failed.kind = "failed"
  /\ Comment.kind = "keepalive"
  /\ Stop.number = 0 /\ Done.number = 0 /\ Error.number = 0 /\ Failed.number = 0
  /\ Comment.number = 0
<1>1. 0 \in 0..MaxFrames + 1
  BY ConstantsAssumption
<1> QED BY <1>1 DEF Stop, Done, Error, Failed, Comment, ClientFrame

\* An error is told first, and by nothing that belongs to a response.
LEMMA ErrorIsTold ==
  /\ ErrorFrames \in Frames /\ ErrorFrames # <<>> /\ Shown(ErrorFrames) = {} /\ Ordered(ErrorFrames)
  /\ ErrorsLast(ErrorFrames) /\ Has(ErrorFrames, "error") /\ ~Ends(ErrorFrames)
  /\ \A i \in 1..Len(ErrorFrames) : ErrorFrames[i].kind \in Epilogue
<1>1. PICK n \in 1..3 :
        /\ Len(ErrorFrames) = n /\ ErrorFrames \in [1..n -> ClientFrame]
        /\ ErrorFrames[1] = Error /\ \A i \in 2..n : ErrorFrames[i] \in {Done, Failed}
  <2>1. CASE ErrorFrames = <<Error>>
    <3>1. /\ Len(<<Error>>) = 1 /\ <<Error>> \in [1..1 -> ClientFrame] /\ <<Error>>[1] = Error
          /\ \A i \in 2..1 : <<Error>>[i] \in {Done, Failed}
      BY FrameKinds
    <3> QED BY <2>1, <3>1
  <2>2. CASE ErrorFrames = <<Error, Done>>
    <3>1. /\ Len(<<Error, Done>>) = 2 /\ <<Error, Done>> \in [1..2 -> ClientFrame]
          /\ <<Error, Done>>[1] = Error /\ \A i \in 2..2 : <<Error, Done>>[i] \in {Done, Failed}
      BY FrameKinds
    <3> QED BY <2>2, <3>1
  <2>3. CASE ErrorFrames = <<Error, Failed, Done>>
    <3>1. /\ Len(<<Error, Failed, Done>>) = 3 /\ <<Error, Failed, Done>> \in [1..3 -> ClientFrame]
          /\ <<Error, Failed, Done>>[1] = Error
          /\ \A i \in 2..3 : <<Error, Failed, Done>>[i] \in {Done, Failed}
      BY FrameKinds
    <3> QED BY <2>3, <3>1
  <2> QED BY <2>1, <2>2, <2>3 DEF ErrorFrames
<1> DEFINE f == ErrorFrames
<1>2. /\ f \in Frames /\ DOMAIN f = 1..n /\ Len(f) = n /\ f[1] = Error
      /\ \A i \in 1..n : i = 1 \/ i \in 2..n
      /\ 1 \in 1..n
  BY <1>1, SeqDef DEF Frames
<1> HIDE DEF f
<1>3. \A i \in 1..n : f[i].number = 0 /\ f[i].kind \in Epilogue
  BY <1>1, <1>2, FrameKinds DEF f, Epilogue
<1>4. f # <<>>
  BY <1>2
<1>5. Shown(f) = {} /\ Ordered(f) /\ ErrorsLast(f)
  BY <1>2, <1>3 DEF Shown, Ordered, ErrorsLast, Epilogue
<1>6. Has(f, "error")
  BY <1>2, FrameKinds DEF Has
<1>7. ~Ends(f)
  <2>1. SUFFICES ASSUME NEW i \in 1..n, f[i].kind \in {"stop", "done"},
                        \A j \in 1..n : j < i => f[j].kind # "error"
                 PROVE  FALSE
    BY <1>2 DEF Ends
  <2>2. f[1].kind = "error" /\ i # 1
    BY <1>2, <2>1, FrameKinds
  <2> QED BY <1>2, <2>1, <2>2
<1> QED BY <1>2, <1>3, <1>4, <1>5, <1>6, <1>7 DEF f

\* The end of a whole response adds what its format still lacks.
LEMMA EndIsTold ==
  ASSUME format \in Formats, finishSent \in BOOLEAN
  PROVE  /\ EndFrames \in Frames /\ Shown(EndFrames) = {} /\ Ordered(EndFrames)
         /\ ErrorsLast(EndFrames) /\ ~Has(EndFrames, "error")
         /\ ~finishSent => Has(EndFrames, "stop")
         /\ format = "openai" => Has(EndFrames, "done")
<1> DEFINE a == IF finishSent THEN <<>> ELSE <<Stop>>
           b == IF format = "openai" THEN <<Done>> ELSE <<>>
<1>1. /\ Ordered(<<>>) /\ Shown(<<>>) = {} /\ ErrorsLast(<<>>) /\ \A k : ~Has(<<>>, k)
  BY DEF Ordered, Shown, ErrorsLast, Has
<1>2. /\ a \in Frames /\ Ordered(a) /\ Shown(a) = {} /\ ErrorsLast(a) /\ ~Has(a, "error")
      /\ ~finishSent => Has(a, "stop")
  <2>1. CASE finishSent
    BY <1>1, <2>1, RowEmpty
  <2>2. CASE ~finishSent
    <3>1. a = <<Stop>>
      BY <2>2
    <3> QED BY <3>1, OneTells, RowOfOne, FrameKinds
  <2> QED BY <2>1, <2>2
<1>3. /\ b \in Frames /\ Ordered(b) /\ Shown(b) = {} /\ ErrorsLast(b) /\ ~Has(b, "error")
      /\ format = "openai" => Has(b, "done")
  <2>1. CASE format # "openai"
    BY <1>1, <2>1, RowEmpty
  <2>2. CASE format = "openai"
    <3>1. b = <<Done>>
      BY <2>2
    <3> QED BY <3>1, OneTells, RowOfOne, FrameKinds
  <2> QED BY <2>1, <2>2
<1>4. EndFrames = a \o b
  BY DEF EndFrames
<1> HIDE DEF a, b
<1>5. a \o b \in Frames
  BY <1>2, <1>3, ConcatAt
<1> QED BY <1>2, <1>3, <1>4, <1>5, TwoRows

\* What the client is to get of a frame is one frame with its number, and an end if the
\* upstream's response ends.
LEMMA ForwardIsOne ==
  ASSUME NEW frame \in UpstreamFrame
  PROVE  LET x == [kind |-> Told(frame), number |-> frame.number]
         IN  /\ Forward(frame) = IF Dropped(frame) THEN <<>> ELSE <<x>>
             /\ x \in ClientFrame /\ x.number = frame.number /\ x.number # 0
             /\ x.kind # "error" /\ x.kind # "keepalive"
             /\ x.kind \in {"stop", "done"} => frame.kind \in {"finish", "done"}
             /\ frame.kind = "finish" /\ mode # "aggregate" => x.kind = "stop"
             /\ frame.kind = "done" => x.kind = "done"
             /\ Numbers(<<x>>) = <<frame.number>>
<1> DEFINE x == [kind |-> Told(frame), number |-> frame.number]
<1>1. Forward(frame) = IF Dropped(frame) THEN <<>> ELSE <<x>>
  BY DEF Forward
<1>2. frame.number \in 1..MaxFrames + 1
  BY DEF UpstreamFrame
<1>3. frame.number \in 0..MaxFrames + 1 /\ frame.number # 0
  BY <1>2, ConstantsAssumption
<1>4. /\ Told(frame) \in {"frame", "stop", "done"}
      /\ Told(frame) \in {"stop", "done"} => frame.kind \in {"finish", "done"}
      /\ frame.kind = "finish" /\ mode # "aggregate" => Told(frame) = "stop"
      /\ frame.kind = "done" => Told(frame) = "done"
  BY DEF Told
<1>5. x \in ClientFrame /\ x.number = frame.number /\ x.kind = Told(frame)
  BY <1>3, <1>4 DEF ClientFrame
<1> HIDE DEF x
<1>6. Numbers(<<x>>) = <<frame.number>>
  BY <1>5 DEF Numbers
<1> QED BY <1>1, <1>3, <1>4, <1>5, <1>6 DEF x

\* Where the driver is when it has frames to send, and how it goes on.
LEMMA AfterSendThen ==
  ASSUME NEW frames, NEW next \in {"top", "ended", "finalize"}, NEW cancel,
         SendThen(frames, next, cancel), outbox = <<>>
  PROVE  /\ outbox' = frames
         /\ stage' \in {next, "send"} /\ (stage' = "send" <=> frames # <<>>)
         /\ stage' = "send" => then'.stage = next
         /\ InLoop' <=> next = "top"
         /\ AtEnd' <=> next = "ended"
         /\ Past' <=> next = "finalize"
<1>1. CASE frames = <<>>
  BY <1>1 DEF SendThen, sending, InLoop, AtEnd, Past
<1>2. CASE frames # <<>>
  BY <1>2 DEF SendThen, InLoop, AtEnd, Past
<1> QED BY <1>1, <1>2

LEMMA AfterSendFrame ==
  ASSUME stage = "send", then.stage \in {"top", "ended", "finalize"}, then' = then,
         stage' \in {"send", then.stage}
  PROVE  /\ InLoop' <=> InLoop
         /\ AtEnd' <=> AtEnd
         /\ Past' <=> Past
BY DEF InLoop, AtEnd, Past

\* The driver takes the oldest frame that it has not read, which is newer than all
\* that were taken.
LEMMA TakesTheNext ==
  ASSUME TypeOK, InboxIsAhead, NEW kinds, Take(kinds)
  PROVE  LET frame == Head(inbox)
         IN  /\ frame \in UpstreamFrame /\ frame = inbox[1] /\ frame.kind \in kinds
             /\ inbox' \in Seq(UpstreamFrame) /\ taken' \in Seq(Nat)
             /\ Len(inbox') = Len(inbox) - 1
             /\ \A i \in 1..Len(inbox') : inbox'[i] = inbox[i + 1]
             /\ IF frame.kind \in Event /\ ~Dropped(frame)
                  THEN /\ Range(taken') = Range(taken) \cup {frame.number}
                       /\ \A n \in Range(taken) : n < frame.number
                  ELSE taken' = taken
             /\ InboxIsAhead'
<1> DEFINE frame == Head(inbox)
<1>1. /\ inbox \in Seq(UpstreamFrame) /\ inbox # <<>> /\ taken \in Seq(Nat)
      /\ inbox' = Tail(inbox) /\ produced' = produced /\ open' = open
      /\ frame.kind \in kinds
      /\ taken' = IF frame.kind \in Event THEN taken \o Numbers(Forward(frame)) ELSE taken
  BY DEF Take, TypeOK
<1>2. /\ frame \in UpstreamFrame /\ frame = inbox[1]
      /\ inbox' \in Seq(UpstreamFrame) /\ Len(inbox') = Len(inbox) - 1
      /\ \A i \in 1..Len(inbox') : inbox'[i] = inbox[i + 1]
      /\ Len(inbox) \in Nat \ {0}
  BY <1>1, HeadTailProperties, EmptySeq
<1>3. /\ produced \in Nat /\ Len(taken) \in Nat /\ DOMAIN taken = 1..Len(taken)
      /\ \A k \in 1..Len(taken) : taken[k] \in Nat
  BY <1>1, LenProperties, ElementOfSeq, ConstantsAssumption DEF TypeOK
<1>4. /\ \A i \in 1..Len(inbox) : inbox[i].number = produced - Len(inbox) + i
      /\ \A k \in 1..Len(taken) : taken[k] \in 1..produced - Len(inbox)
      /\ produced >= Len(inbox) /\ Ascending(taken) /\ (open => produced <= MaxFrames)
  BY DEF InboxIsAhead
<1> HIDE DEF frame
<1>5. frame.number = produced - Len(inbox) + 1 /\ frame.number \in Nat
  <2>1. 1 \in 1..Len(inbox)
    BY <1>2
  <2> QED BY <1>2, <1>3, <1>4, <2>1
<1>6. \A i \in 1..Len(inbox') : inbox'[i].number = produced' - Len(inbox') + i
  <2>1. SUFFICES ASSUME NEW i \in 1..Len(inbox')
                 PROVE  inbox'[i].number = produced' - Len(inbox') + i
    OBVIOUS
  <2>2. i + 1 \in 1..Len(inbox) /\ inbox'[i] = inbox[i + 1]
    BY <1>2
  <2>3. inbox[i + 1].number = produced - Len(inbox) + (i + 1)
    BY <1>4, <2>2
  <2> QED BY <1>1, <1>2, <1>3, <2>2, <2>3
<1>7. CASE frame.kind \in Event /\ ~Dropped(frame)
  <2>1. taken' = Append(taken, frame.number)
    <3>1. Numbers(Forward(frame)) = <<frame.number>>
      BY <1>2, <1>7, ForwardIsOne
    <3> QED BY <1>1, <1>5, <1>7, <3>1, AppendIsConcat
  <2>2. /\ taken' \in Seq(Nat) /\ Len(taken') = Len(taken) + 1
        /\ taken'[Len(taken) + 1] = frame.number
        /\ \A k \in 1..Len(taken) : taken'[k] = taken[k]
    <3> DEFINE n == frame.number
    <3>1. taken \in Seq(Nat) /\ n \in Nat /\ taken' = Append(taken, n)
      BY <1>1, <1>5, <2>1
    <3> HIDE DEF n
    <3>2. /\ taken' \in Seq(Nat) /\ Len(taken') = Len(taken) + 1
          /\ taken'[Len(taken) + 1] = n
          /\ \A k \in 1..Len(taken) : taken'[k] = taken[k]
      BY <3>1, AppendProperties
    <3> QED BY <3>2 DEF n
  <2>3. DOMAIN taken' = 1..Len(taken) + 1
    BY <2>2, LenProperties
  <2>4. \A k \in 1..Len(taken) : taken[k] < frame.number
    BY <1>2, <1>3, <1>4, <1>5
  <2>5. Range(taken') = Range(taken) \cup {frame.number}
    <3>1. \A k \in 1..Len(taken) + 1 : k \in 1..Len(taken) \/ k = Len(taken) + 1
      BY <1>3
    <3>2. 1..Len(taken) \subseteq 1..Len(taken) + 1 /\ Len(taken) + 1 \in 1..Len(taken) + 1
      BY <1>3
    <3> QED BY <1>3, <2>2, <2>3, <3>1, <3>2 DEF Range
  <2>6. \A n \in Range(taken) : n < frame.number
    BY <1>3, <2>4 DEF Range
  <2>7. \A k \in 1..Len(taken') : taken'[k] \in 1..produced' - Len(inbox')
    <3>1. SUFFICES ASSUME NEW k \in 1..Len(taken) + 1
                   PROVE  taken'[k] \in 1..produced - (Len(inbox) - 1)
      BY <1>1, <1>2, <2>2
    <3>2. CASE k \in 1..Len(taken)
      <4>1. taken'[k] = taken[k] /\ taken[k] \in 1..produced - Len(inbox)
        BY <1>4, <2>2, <3>2
      <4> QED BY <1>2, <1>3, <4>1
    <3>3. CASE k = Len(taken) + 1
      <4>1. taken'[k] = produced - Len(inbox) + 1
        BY <1>5, <2>2, <3>3
      <4> QED BY <1>2, <1>3, <1>4, <4>1
    <3> QED BY <1>3, <3>1, <3>2, <3>3
  <2>8. Ascending(taken')
    <3>1. SUFFICES ASSUME NEW i \in 1..Len(taken) + 1, NEW j \in 1..Len(taken) + 1, i < j
                   PROVE  taken'[i] < taken'[j]
      BY <2>3 DEF Ascending
    <3>2. i \in 1..Len(taken) /\ (j \in 1..Len(taken) \/ j = Len(taken) + 1)
      BY <1>3, <3>1
    <3>3. CASE j \in 1..Len(taken)
      <4>1. taken[i] < taken[j]
        BY <1>3, <1>4, <3>1, <3>2, <3>3 DEF Ascending
      <4> QED BY <2>2, <3>2, <3>3, <4>1
    <3>4. CASE j = Len(taken) + 1
      BY <2>2, <2>4, <3>2, <3>4
    <3> QED BY <3>2, <3>3, <3>4
  <2>9. InboxIsAhead'
    <3>1. produced' >= Len(inbox') /\ (open' => produced' <= MaxFrames)
      BY <1>1, <1>2, <1>3, <1>4
    <3> QED BY <1>6, <2>7, <2>8, <3>1 DEF InboxIsAhead
  <2> QED BY <1>1, <1>2, <1>7, <2>2, <2>5, <2>6, <2>9 DEF frame
<1>8. CASE ~(frame.kind \in Event /\ ~Dropped(frame))
  <2>1. taken' = taken
    <3>1. CASE frame.kind \notin Event
      BY <1>1, <3>1
    <3>2. CASE frame.kind \in Event /\ Dropped(frame)
      <4>1. Numbers(Forward(frame)) = <<>>
        BY <3>2 DEF Forward, Numbers
      <4> QED BY <1>1, <3>2, <4>1, ConcatEmptySeq
    <3> QED BY <1>8, <3>1, <3>2
  <2>2. \A k \in 1..Len(taken') : taken'[k] \in 1..produced' - Len(inbox')
    <3>1. SUFFICES ASSUME NEW k \in 1..Len(taken)
                   PROVE  taken[k] \in 1..produced - (Len(inbox) - 1)
      BY <1>1, <1>2, <2>1
    <3>2. taken[k] \in 1..produced - Len(inbox)
      BY <1>4
    <3> QED BY <1>2, <1>3, <3>2
  <2>3. InboxIsAhead'
    <3>1. produced' >= Len(inbox') /\ (open' => produced' <= MaxFrames)
      BY <1>1, <1>2, <1>3, <1>4
    <3> QED BY <1>4, <1>6, <2>1, <2>2, <3>1 DEF InboxIsAhead
  <2> QED BY <1>1, <1>2, <1>8, <2>1, <2>3 DEF frame
<1> QED BY <1>7, <1>8

-----------------------------------------------------------------------------
(* The steps, one part of the invariant after the other. *)

\* Who touches what is still to be read and what was.
LEMMA WhoReads ==
  ASSUME [Next]_vars
  PROVE  \/ \E kind \in UpstreamKind : Produce(kind)
         \/ Complete
         \/ \E kinds : Take(kinds)
         \/ inbox' = inbox /\ open' = open /\ produced' = produced /\ taken' = taken
<1>1. CASE \E kind \in UpstreamKind : Produce(kind)
  BY <1>1
<1>2. CASE Read \/ Leave \/ DropHandler \/ Guard \/ Tick
  BY <1>2 DEF Read, Leave, DropHandler, Guard, NotifyWaiters, DropReceiver, Tick, source, kept
<1>3. CASE Translate \/ PassThrough \/ Collect \/ BadPayload \/ Broken \/ EndOfStream
  BY <1>3 DEF Translate, PassThrough, Collect, BadPayload, Broken, EndOfStream
<1>4. CASE Check \/ Enter \/ Await \/ Woken \/ SendKeepalive \/ Expire
  BY <1>4 DEF Check, Enter, Await, Woken, SendKeepalive, Expire, source, kept
<1>5. CASE SendFrame \/ Ended \/ Finalize \/ Finish
  BY <1>5 DEF SendFrame, Ended, Finalize, Finish, source, kept
<1>6. CASE UNCHANGED vars
  BY <1>6 DEF vars, source, kept
<1> QED BY <1>1, <1>2, <1>3, <1>4, <1>5, <1>6 DEF Next, Driver, Receive

LEMMA InboxStep ==
  ASSUME TypeOK, Control, InboxIsAhead, [Next]_vars
  PROVE  InboxIsAhead' /\ inbox' \in Seq(UpstreamFrame) /\ taken' \in Seq(Nat)
<1>0. /\ inbox \in Seq(UpstreamFrame) /\ taken \in Seq(Nat) /\ produced \in Nat
      /\ Len(inbox) \in Nat /\ Len(taken) \in Nat /\ MaxFrames \in Nat \ {0, 1}
  BY LenProperties, ConstantsAssumption DEF TypeOK
<1>1. ASSUME NEW kind \in UpstreamKind, Produce(kind)
      PROVE  InboxIsAhead' /\ inbox' \in Seq(UpstreamFrame) /\ taken' \in Seq(Nat)
  <2> DEFINE frame == [kind |-> kind, number |-> produced + 1, late |-> silence = IdleTimeout]
  <2>1. /\ open /\ produced <= MaxFrames /\ taken' = taken
        /\ inbox' = Append(inbox, frame) /\ produced' = produced + 1
        /\ (kind \notin Closing => produced < MaxFrames) /\ open' = (kind \notin Closing)
    BY <1>1 DEF Produce, InboxIsAhead, kept
  <2>2. frame \in UpstreamFrame /\ frame.number = produced + 1
    <3>1. produced + 1 \in 1..MaxFrames + 1
      BY <1>0, <2>1
    <3> QED BY <3>1 DEF UpstreamFrame
  <2> HIDE DEF frame
  <2>3. /\ inbox' \in Seq(UpstreamFrame) /\ Len(inbox') = Len(inbox) + 1
        /\ inbox'[Len(inbox) + 1] = frame /\ \A i \in 1..Len(inbox) : inbox'[i] = inbox[i]
    BY <1>0, <2>1, <2>2, AppendProperties
  <2>4. \A i \in 1..Len(inbox') : inbox'[i].number = produced' - Len(inbox') + i
    <3>1. SUFFICES ASSUME NEW i \in 1..Len(inbox) + 1
                   PROVE  inbox'[i].number = (produced + 1) - (Len(inbox) + 1) + i
      BY <2>1, <2>3
    <3>2. CASE i \in 1..Len(inbox)
      <4>1. inbox'[i].number = produced - Len(inbox) + i
        BY <2>3, <3>2 DEF InboxIsAhead
      <4> QED BY <1>0, <4>1
    <3>3. CASE i = Len(inbox) + 1
      BY <1>0, <2>2, <2>3, <3>3
    <3> QED BY <1>0, <3>1, <3>2, <3>3
  <2>5. \A k \in 1..Len(taken') : taken'[k] \in 1..produced' - Len(inbox')
    <3>1. produced' - Len(inbox') = produced - Len(inbox)
      BY <1>0, <2>1, <2>3
    <3> QED BY <2>1, <3>1 DEF InboxIsAhead
  <2>6. produced' >= Len(inbox') /\ (open' => produced' <= MaxFrames)
    <3>1. produced >= Len(inbox)
      BY DEF InboxIsAhead
    <3>2. open' => produced < MaxFrames
      BY <2>1
    <3> QED BY <1>0, <2>1, <2>3, <3>1, <3>2
  <2>7. Ascending(taken')
    BY <2>1 DEF InboxIsAhead
  <2> QED BY <1>0, <2>1, <2>3, <2>4, <2>5, <2>6, <2>7 DEF InboxIsAhead
<1>2. ASSUME Complete
      PROVE  InboxIsAhead' /\ inbox' \in Seq(UpstreamFrame) /\ taken' \in Seq(Nat)
  <2>1. /\ inbox = <<>> /\ inbox' = <<>> /\ open' = open /\ ~open
        /\ produced' = 1 /\ taken' = <<1>>
    BY <1>2 DEF Complete, Control
  <2>2. Len(inbox') = 0 /\ Len(taken') = 1 /\ taken'[1] = 1 /\ DOMAIN taken' = 1..1
        /\ taken' \in Seq(Nat)
    BY <2>1
  <2>3. Ascending(taken')
    BY <2>2 DEF Ascending
  <2> QED BY <1>0, <2>1, <2>2, <2>3 DEF InboxIsAhead
<1>3. CASE \E kinds : Take(kinds)
  BY <1>3, TakesTheNext
<1>4. CASE inbox' = inbox /\ open' = open /\ produced' = produced /\ taken' = taken
  BY <1>0, <1>4 DEF InboxIsAhead
<1> QED BY <1>1, <1>2, <1>3, <1>4, WhoReads

\* The format is the request's; what has ended does not begin again.
LEMMA EncoderStep ==
  ASSUME TypeOK, Control, [Next]_vars
  PROVE  EncoderTypes' /\ format' = format /\ (terminalSeen => terminalSeen')
<1>0. EncoderTypes
  BY TypeHalves
<1>1. encoder' = encoder => EncoderTypes' /\ format' = format
  BY <1>0 DEF encoder, EncoderTypes
<1>2. CASE (\E kind \in UpstreamKind : Produce(kind)) \/ Read \/ Leave \/ Guard \/ Tick
  <2>1. encoder' = encoder /\ result' = result
    BY <1>2 DEF Produce, Read, Leave, Guard, NotifyWaiters, DropReceiver, Tick
  <2>2. terminalSeen' = terminalSeen
    BY <2>1 DEF result
  <2> QED BY <1>1, <2>1, <2>2
<1>3. CASE DropHandler \/ Check \/ Enter \/ Await \/ Woken \/ SendKeepalive \/ Expire
  <2>1. encoder' = encoder
    BY <1>3 DEF DropHandler, Check, Enter, Await, Woken, SendKeepalive, Expire
  <2>2. terminalSeen' = terminalSeen
    BY <1>3 DEF DropHandler, Check, Cancel, Enter, Await, Woken, SendKeepalive, Expire, result
  <2> QED BY <1>1, <2>1, <2>2
<1>4. CASE Translate \/ PassThrough \/ Collect \/ BadPayload \/ Broken \/ EndOfStream
  <2>1. PICK kinds : Take(kinds)
    BY <1>4 DEF Translate, PassThrough, Collect, BadPayload, Broken, EndOfStream
  <2>2. format' = format /\ (terminalSeen => terminalSeen')
    BY <2>1 DEF Take
  <2>3. finishSent' \in BOOLEAN
    BY <2>1 DEF Take
  <2> QED BY <1>0, <2>2, <2>3 DEF EncoderTypes
<1>5. CASE Complete
  <2>1. format' = format /\ finishSent' \in BOOLEAN /\ terminalSeen'
    BY <1>5 DEF Complete
  <2> QED BY <1>0, <2>1 DEF EncoderTypes
<1>6. CASE SendFrame \/ Ended \/ Finalize \/ Finish
  BY <1>1, <1>6 DEF SendFrame, Ended, Finalize, Finish, result
<1>7. CASE UNCHANGED vars
  BY <1>1, <1>7 DEF vars, result
<1> QED BY <1>2, <1>3, <1>4, <1>5, <1>6, <1>7 DEF Next, Driver, Receive

LEMMA PlainTypesStep ==
  ASSUME TypeOK, Control, InboxIsAhead, [Next]_vars
  PROVE  PlainTypes'
<1> USE DEF PlainTypes
<1>0. /\ PlainTypes /\ MaxFrames \in Nat \ {0, 1} /\ IdleTimeout \in Nat \ {0}
      /\ Keepalive \in Nat \ {0}
  BY TypeHalves, ConstantsAssumption
<1>s. ASSUME NEW frames, NEW next \in Stage, NEW cancel \in BOOLEAN, SendThen(frames, next, cancel)
      PROVE  stage' \in Stage /\ then' \in [stage : Stage, cancel : BOOLEAN]
  BY <1>0, <1>s DEF SendThen, sending, Stage
<1>1. ASSUME NEW kind \in UpstreamKind, Produce(kind) PROVE PlainTypes'
  <2>1. produced' \in 0..MaxFrames + 1
    BY <1>0, <1>1 DEF Produce, InboxIsAhead
  <2>2. silence' \in 0..IdleTimeout
    BY <1>0, <1>1 DEF Produce
  <2>3. open' \in BOOLEAN
    BY <1>1 DEF Produce
  <2>4. /\ mode' = mode /\ stage' = stage /\ then' = then /\ client' = client /\ woken' = woken
        /\ idleLeft' = idleLeft /\ keepaliveLeft' = keepaliveLeft
        /\ status' = status /\ blame' = blame /\ terminalSeen' = terminalSeen
        /\ committed' = committed /\ verdict' = verdict /\ live' = live
    BY <1>1 DEF Produce, timers, sending, peer, result, ending
  <2> QED BY <1>0, <2>1, <2>2, <2>3, <2>4
<1>2. CASE Read
  BY <1>0, <1>2 DEF Read, source, timers, sending, peer, result, ending
<1>3. CASE Leave \/ Guard
  <2>1. /\ client' \in {"flagged", "notified", "gone"} /\ woken' \in {woken, stage = "select"}
        /\ mode' = mode /\ stage' = stage /\ then' = then
    BY <1>3 DEF Leave, Guard, NotifyWaiters, DropReceiver, sending
  <2>2. UNCHANGED <<open, produced, silence, idleLeft, keepaliveLeft>>
    BY <1>3 DEF Leave, Guard, NotifyWaiters, DropReceiver, source, timers
  <2>3. UNCHANGED <<status, blame, terminalSeen, committed, verdict, live>>
    BY <1>3 DEF Leave, Guard, NotifyWaiters, DropReceiver, result, ending
  <2>4. woken' \in BOOLEAN
    BY <1>0, <2>1
  <2> QED BY <1>0, <2>1, <2>2, <2>3, <2>4
<1>4. CASE DropHandler
  BY <1>0, <1>4 DEF DropHandler, source, timers, sending, result, Stage
<1>5. CASE Tick
  <2>1. /\ idleLeft' \in 0..IdleTimeout /\ keepaliveLeft' \in 0..Keepalive
        /\ silence' \in 0..IdleTimeout
    BY <1>0, <1>5 DEF Tick, Less
  <2> QED BY <1>0, <1>5, <2>1 DEF Tick, sending, peer, result, ending
<1>6. CASE Check \/ Woken
  BY <1>0, <1>6 DEF Check, Woken, Cancel, source, timers, sending, peer, ending, result, Stage
<1>7. CASE Enter
  <2>1. stage' \in Stage /\ woken' \in BOOLEAN /\ client' = client /\ then' = then
    BY <1>7 DEF Enter, sending, Stage
  <2> QED BY <1>0, <1>7, <2>1 DEF Enter, source, timers, ending, result
<1>8. CASE Await
  <2>1. idleLeft' \in 0..IdleTimeout
    BY <1>0, <1>8 DEF Await
  <2> QED BY <1>0, <1>8, <2>1 DEF Await, source, sending, peer, ending, result, Stage
<1>9. CASE SendKeepalive
  <2>1. keepaliveLeft' \in 0..Keepalive /\ stage' \in Stage /\ then' \in [stage : Stage, cancel : BOOLEAN]
    <3>1. SendThen(<<Comment>>, "top", TRUE) /\ "top" \in Stage /\ keepaliveLeft' = Keepalive
      BY <1>9 DEF SendKeepalive, Stage
    <3>2. stage' \in Stage /\ then' \in [stage : Stage, cancel : BOOLEAN]
      BY <1>s, <3>1
    <3>3. Keepalive \in 0..Keepalive
      BY <1>0
    <3> QED BY <3>1, <3>2, <3>3
  <2> QED BY <1>0, <1>9, <2>1 DEF SendKeepalive, source, peer, ending, result
<1>10. CASE Expire
  BY <1>0, <1>10 DEF Expire, Fail, source, timers, sending, peer, ending, Stage
<1>t. ASSUME NEW kinds, Take(kinds)
      PROVE  /\ idleLeft' \in 0..IdleTimeout /\ terminalSeen' \in BOOLEAN
             /\ mode' = mode /\ open' = open /\ produced' = produced /\ silence' = silence
             /\ keepaliveLeft' = keepaliveLeft /\ client' = client /\ woken' = woken
             /\ verdict' = verdict /\ live' = live
  <2>1. idleLeft' \in {idleLeft, IdleTimeout}
    BY <1>t DEF Take
  <2>2. idleLeft' \in 0..IdleTimeout
    BY <1>0, <2>1
  <2>3. terminalSeen' \in BOOLEAN
    BY <1>t DEF Take
  <2> QED BY <1>t, <2>2, <2>3 DEF Take, peer, ending
<1>11. CASE Translate
  <2>1. Take(Event) /\ SendThen(Forward(Head(inbox)), "top", TRUE) /\ "top" \in Stage
    BY <1>11 DEF Translate, Stage
  <2>2. committed' \in BOOLEAN /\ status' = status /\ blame' = blame
    BY <1>11 DEF Translate
  <2> QED BY <1>0, <1>s, <1>t, <2>1, <2>2
<1>12. CASE PassThrough
  <2>1. Take(Event) /\ (\E frames : SendThen(frames, "top", TRUE)) /\ "top" \in Stage
    BY <1>12 DEF PassThrough, Stage
  <2>2. committed' \in BOOLEAN /\ status' = status /\ blame' = blame
    BY <1>12 DEF PassThrough
  <2> QED BY <1>0, <1>s, <1>t, <2>1, <2>2
<1>13. CASE Collect
  <2>1. Take(Event)
    BY <1>13 DEF Collect
  <2>2. stage' = "top" /\ then' = then /\ status' = status /\ blame' = blame
        /\ committed' = committed
    BY <1>13 DEF Collect, sending
  <2> QED BY <1>0, <1>t, <2>1, <2>2 DEF Stage
<1>14. CASE BadPayload
  <2>1. Take({"error", "garbage"}) /\ (\E frames : SendThen(frames, "ended", FALSE)) /\ "ended" \in Stage
    BY <1>14 DEF BadPayload, Stage
  <2>2. blame' \in BOOLEAN /\ status' = "stream_error" /\ committed' = committed
    BY <1>14 DEF BadPayload, Fail
  <2> QED BY <1>0, <1>s, <1>t, <2>1, <2>2
<1>15. CASE Broken
  <2>1. Take({"cut", "reset"})
    BY <1>15 DEF Broken
  <2>2. blame' \in BOOLEAN /\ status' = "stream_error" /\ committed' = committed /\ stage' = "ended"
        /\ then' = then
    BY <1>15 DEF Broken, Fail, sending
  <2> QED BY <1>0, <1>t, <2>1, <2>2 DEF Stage
<1>16. CASE EndOfStream
  <2>1. Take({"eof"})
    BY <1>16 DEF EndOfStream
  <2>2. blame' \in BOOLEAN /\ status' \in {status, "stream_error"} /\ committed' = committed
        /\ stage' = "ended" /\ then' = then
    BY <1>0, <1>16 DEF EndOfStream, Fail, sending
  <2> QED BY <1>0, <1>t, <2>1, <2>2 DEF Stage
<1>17. CASE Complete
  <2>1. (stage' = "ended" /\ then' = then) \/ \E frames : SendThen(frames, "ended", TRUE)
    BY <1>17 DEF Complete, sending
  <2>2. stage' \in Stage /\ then' \in [stage : Stage, cancel : BOOLEAN]
    BY <1>0, <1>s, <2>1 DEF Stage
  <2>3. produced' \in 0..MaxFrames + 1 /\ committed' = TRUE
    BY <1>0, <1>17 DEF Complete
  <2> QED BY <1>0, <1>17, <2>2, <2>3 DEF Complete, timers, peer, ending
<1>18. CASE SendFrame
  <2>1. stage' \in {"finalize", "send", then.stage} /\ then' = then /\ status' \in {status, "client_disconnect"}
        /\ blame' = blame /\ terminalSeen' = terminalSeen /\ committed' = committed
    BY <1>18 DEF SendFrame, result
  <2>2. stage' \in Stage
    BY <1>0, <2>1 DEF Stage
  <2> QED BY <1>0, <1>18, <2>1, <2>2 DEF SendFrame, source, timers, peer, ending
<1>19. CASE Ended
  <2>1. SendThen(LastFrames, "finalize", status = "success") /\ "finalize" \in Stage
        /\ (status = "success") \in BOOLEAN /\ committed' \in BOOLEAN
    BY <1>19 DEF Ended, Stage
  <2>2. stage' \in Stage /\ then' \in [stage : Stage, cancel : BOOLEAN]
    BY <1>s, <2>1
  <2> QED BY <1>0, <1>19, <2>1, <2>2 DEF Ended, source, timers, peer, ending
<1>20. CASE Finalize
  BY <1>0, <1>20 DEF Finalize, source, timers, sending, peer, result, Stage
<1>21. CASE Finish
  <2>1. /\ stage' \in Stage /\ mode' = mode /\ verdict' = verdict /\ woken' = woken
        /\ client' = client /\ then' = then
    BY <1>21 DEF Finish, sending, peer, Stage
  <2>2. /\ status' = status /\ blame' = blame /\ terminalSeen' = terminalSeen
        /\ committed' = committed /\ live' = FALSE
    BY <1>21 DEF Finish, result
  <2>3. /\ open' = open /\ produced' = produced /\ silence' = silence
        /\ idleLeft' = idleLeft /\ keepaliveLeft' = keepaliveLeft
    BY <1>21 DEF Finish, source, timers
  <2> QED BY <1>0, <2>1, <2>2, <2>3
<1>22. CASE UNCHANGED vars
  BY <1>0, <1>22 DEF vars, source, timers, sending, peer, result, ending
<1> QED BY <1>1, <1>2, <1>3, <1>4, <1>5, <1>6, <1>7, <1>8, <1>9, <1>10, <1>11, <1>12, <1>13,
           <1>14, <1>15, <1>16, <1>17, <1>18, <1>19, <1>20, <1>21, <1>22
        DEF Next, Driver, Receive

LEMMA ControlStep ==
  ASSUME TypeOK, Control, InboxIsAhead, [Next]_vars
  PROVE  Control'
<1> USE DEF Streaming, Gone
<1>0. /\ stage \in Stage /\ client \in {"reading", "flagged", "notified", "gone"}
      /\ outbox \in Frames /\ channel \in Frames /\ buffered \in Frames
      /\ mode \in {"translate", "passthrough", "aggregate"} /\ committed \in BOOLEAN
  BY TypeHalves, ConstantsAssumption DEF RowTypes, PlainTypes
<1>o. stage # "send" => outbox = <<>>
  BY DEF Control
<1>1. CASE \E kind \in UpstreamKind : Produce(kind)
  BY <1>1 DEF Produce, Control, InLoop, AtEnd, kept, sending, wire, peer, result
<1>2. CASE Read
  BY <1>0, <1>2 DEF Read, Control, InLoop, AtEnd, source, kept, sending, peer, result
<1>3. CASE Leave \/ NotifyWaiters
  BY <1>3 DEF Leave, NotifyWaiters, Control, InLoop, AtEnd, source, kept, sending, wire, result
<1>4. CASE DropReceiver
  BY <1>4 DEF DropReceiver, Control, InLoop, AtEnd, source, kept, sending, result
<1>5. CASE DropHandler
  BY <1>5 DEF DropHandler, Control, InLoop, AtEnd, source, kept, sending, wire, result
<1>6. CASE Tick
  BY <1>6 DEF Tick, Control, InLoop, AtEnd, kept, sending, wire, peer, result
<1>7. CASE Check \/ Woken
  BY <1>7 DEF Check, Woken, Cancel, Control, InLoop, AtEnd, source, kept, sending, wire, peer, result
<1>8. CASE Enter
  BY <1>8 DEF Enter, Control, InLoop, AtEnd, source, kept, sending, wire, result
<1>9. CASE Await
  BY <1>9 DEF Await, Control, InLoop, AtEnd, source, kept, sending, wire, peer, result
<1>11. CASE Expire
  BY <1>11 DEF Expire, Fail, Control, InLoop, AtEnd, source, kept, sending, wire, peer
<1>t. ASSUME NEW kinds, Take(kinds)
      PROVE  /\ stage = "select" /\ mode' = mode /\ channel' = channel /\ received' = received
             /\ client' = client /\ outbox = <<>>
  BY <1>o, <1>t DEF Take, wire, peer
<1>a. ASSUME NEW frames, NEW next \in {"top", "ended", "finalize"}, NEW cancel,
             SendThen(frames, next, cancel), outbox = <<>>, frames # <<>> => Streaming,
             mode' = mode, channel' = channel, received' = received, client' = client,
             stage \notin {"dropped", "done"},
             next = "top" => status' = "success", next = "ended" => status' # "client_disconnect",
             Streaming /\ buffered' # <<>> => mode = "passthrough" /\ ~committed'
      PROVE  Control'
  <2>1. /\ outbox' = frames
        /\ stage' \in {next, "send"} /\ (stage' = "send" <=> frames # <<>>)
        /\ stage' = "send" => then'.stage = next
        /\ InLoop' <=> next = "top"
        /\ AtEnd' <=> next = "ended"
    BY <1>a, AfterSendThen
  <2> QED BY <1>a, <2>1 DEF Control
<1>10. CASE SendKeepalive
  <2>1. /\ SendThen(<<Comment>>, "top", TRUE) /\ stage = "select" /\ Streaming
        /\ mode' = mode /\ channel' = channel /\ received' = received /\ client' = client
        /\ status' = status /\ buffered' = buffered /\ committed' = committed /\ outbox = <<>>
    BY <1>o, <1>10 DEF SendKeepalive, KeepaliveDue, kept, wire, peer, result
  <2>2. InLoop /\ (buffered # <<>> => mode = "passthrough" /\ ~committed)
    BY <2>1 DEF Control, InLoop
  <2>3. status = "success"
    BY <2>2 DEF Control
  <2> QED BY <1>a, <2>1, <2>2, <2>3
<1>12. CASE Translate
  <2>1. /\ Take(Event) /\ SendThen(Forward(Head(inbox)), "top", TRUE)
        /\ mode = "translate" /\ buffered' = buffered /\ status' = status
    BY <1>12 DEF Translate
  <2>2. InLoop /\ status = "success" /\ buffered = <<>>
    BY <1>t, <2>1 DEF Control, InLoop
  <2> QED BY <1>a, <1>t, <2>1, <2>2
<1>13. CASE PassThrough
  <2>1. /\ Take(Event) /\ mode = "passthrough" /\ status' = status
    BY <1>13 DEF PassThrough
  <2>2. InLoop /\ status = "success"
    BY <1>t, <2>1 DEF Control, InLoop
  <2>3. CASE committed'
    <3>1. SendThen(buffered \o Forward(Head(inbox)), "top", TRUE) /\ buffered' = <<>>
      BY <1>13, <2>3 DEF PassThrough
    <3> QED BY <1>a, <1>t, <2>1, <2>2, <3>1
  <2>4. CASE ~committed'
    <3>1. SendThen(<<>>, "top", TRUE)
      BY <1>13, <2>4 DEF PassThrough
    <3> QED BY <1>a, <1>t, <2>1, <2>2, <2>4, <3>1
  <2> QED BY <2>3, <2>4
<1>14. CASE Collect
  BY <1>t, <1>14 DEF Collect, Control, InLoop, AtEnd, sending
<1>15. CASE BadPayload
  <2>1. /\ Take({"error", "garbage"}) /\ buffered' = buffered /\ status' = "stream_error"
        /\ committed' = committed
        /\ SendThen(IF mode = "translate" THEN ErrorFrames ELSE <<>>, "ended", FALSE)
    BY <1>15 DEF BadPayload, Fail
  <2>2. Streaming /\ buffered # <<>> => mode = "passthrough" /\ ~committed
    BY DEF Control
  <2> QED BY <1>a, <1>t, <2>1, <2>2
<1>16. CASE Broken
  <2>1. Take({"cut", "reset"})
    BY <1>16 DEF Broken
  <2> QED BY <1>t, <1>16, <2>1 DEF Broken, Fail, Control, InLoop, AtEnd, sending
<1>17. CASE EndOfStream
  <2>1. Take({"eof"}) /\ status' \in {status, "stream_error"} /\ committed' = committed
    BY <1>17 DEF EndOfStream, Fail
  <2> QED BY <1>t, <1>17, <2>1 DEF EndOfStream, Control, InLoop, AtEnd, sending
<1>18. CASE Complete
  <2>1. /\ stage = "full" /\ mode' = mode /\ channel' = channel /\ received' = received
        /\ client' = client /\ status' = status /\ outbox = <<>>
    BY <1>o, <1>18 DEF Complete, wire, peer
  <2>2. InLoop /\ status = "success" /\ mode # "passthrough" /\ (Streaming => buffered = <<>>)
    BY <2>1 DEF Control, InLoop
  <2>3. CASE Streaming
    <3>1. (\E frames : SendThen(frames, "ended", TRUE)) /\ buffered' = buffered
      BY <1>18, <2>3 DEF Complete
    <3> QED BY <1>a, <2>1, <2>2, <2>3, <3>1
  <2>4. CASE ~Streaming
    <3>1. stage' = "ended" /\ outbox' = outbox
      BY <1>18, <2>4 DEF Complete, sending
    <3> QED BY <2>1, <2>2, <2>4, <3>1 DEF Control, InLoop, AtEnd
  <2> QED BY <2>3, <2>4
<1>19. CASE SendFrame
  <2>1. /\ stage = "send" /\ mode' = mode /\ received' = received /\ client' = client
        /\ buffered' = buffered /\ committed' = committed /\ then' = then
        /\ Streaming /\ then.stage \in {"top", "ended", "finalize"} /\ outbox # <<>>
    BY <1>19 DEF SendFrame, Control, kept, peer, result
  <2>2. Streaming /\ buffered' # <<>> => mode = "passthrough" /\ ~committed'
    BY <2>1 DEF Control
  <2>3. Len(outbox) = 1 <=> Tail(outbox) = <<>>
    BY <1>0, <2>1, RowTail
  <2>4. CASE client = "gone" /\ then.cancel
    <3>1. stage' = "finalize" /\ outbox' = <<>>
      BY <1>19, <2>4 DEF SendFrame
    <3> QED BY <2>1, <2>2, <3>1 DEF Control, InLoop, AtEnd
  <2>5. CASE ~(client = "gone" /\ then.cancel)
    <3>1. /\ stage' = (IF Len(outbox) = 1 THEN then.stage ELSE "send")
          /\ outbox' = Tail(outbox) /\ status' = status
      BY <1>19, <2>5 DEF SendFrame, result
    <3>2. (InLoop' <=> InLoop) /\ (AtEnd' <=> AtEnd)
      BY <2>1, <3>1, AfterSendFrame
    <3>3. (stage' = "send" <=> outbox' # <<>>) /\ stage' \notin {"full", "dropped"}
      BY <2>1, <2>3, <3>1
    <3> QED BY <2>1, <2>2, <3>1, <3>2, <3>3 DEF Control
  <2> QED BY <2>4, <2>5
<1>20. CASE Finalize
  <2>1. /\ stage = "finalize" /\ stage' = "trace" /\ mode' = mode
        /\ UNCHANGED <<source, kept, sending, wire, peer, result>>
    BY <1>20 DEF Finalize
  <2> QED BY <2>1 DEF Control, InLoop, AtEnd, source, kept, sending, wire, peer, result
<1>21. CASE Finish
  BY <1>21 DEF Finish, Control, InLoop, AtEnd, source, kept, sending, peer, result
<1>23. CASE Ended
  <2>1. /\ stage = "ended" /\ mode' = mode /\ channel' = channel /\ received' = received
        /\ client' = client /\ status' = status /\ outbox = <<>> /\ buffered' = buffered
        /\ (\E cancel : SendThen(LastFrames, "finalize", cancel))
        /\ (mode = "passthrough" => committed' = committed)
    BY <1>0, <1>o, <1>23 DEF Ended, wire, peer, kept
  <2>2. Streaming /\ buffered # <<>> => mode = "passthrough" /\ ~committed
    BY DEF Control
  <2>3. mode = "aggregate" => LastFrames = <<>>
    <3>1. ASSUME mode = "aggregate" PROVE mode # "translate" /\ mode # "passthrough"
      BY <3>1
    <3> QED BY <3>1, Zenon DEF LastFrames
  <2>4. PICK cancel : SendThen(LastFrames, "finalize", cancel)
    BY <2>1
  <2> QED BY <1>a, <2>1, <2>2, <2>3, <2>4
<1>22. CASE UNCHANGED vars
  BY <1>22 DEF vars, Control, InLoop, AtEnd, source, kept, sending, wire, peer, result
<1> QED
  BY <1>1, <1>2, <1>3, <1>4, <1>5, <1>6, <1>7, <1>8, <1>9, <1>10, <1>11,
     <1>12, <1>13, <1>14, <1>15, <1>16, <1>17, <1>18, <1>19, <1>20, <1>21, <1>22, <1>23
  DEF Next, Driver, Receive, Guard

LEMMA CommitStep ==
  ASSUME TypeOK, Control, CommitIsAtHand, InboxIsAhead, [Next]_vars
  PROVE  CommitIsAtHand'
<1> USE DEF Streaming, Gone
<1>0. /\ committed \in BOOLEAN /\ inbox \in Seq(UpstreamFrame) /\ Len(inbox) \in Nat
      /\ (inbox # <<>> => Len(inbox) >= 1) /\ IdleTimeout \in Nat \ {0}
      /\ mode \in {"translate", "passthrough", "aggregate"}
  BY ConstantsAssumption, EmptySeq, LenProperties DEF TypeOK
<1>t. ASSUME NEW kinds, Take(kinds)
      PROVE  /\ stage = "select" /\ mode' = mode /\ Head(inbox) = inbox[1] /\ inbox[1].kind \in kinds
             /\ Len(inbox') = Len(inbox) - 1 /\ \A i \in 1..Len(inbox') : inbox'[i] = inbox[i + 1]
             /\ inbox' \in Seq(UpstreamFrame) /\ (Len(inbox') = 0 <=> inbox' = <<>>)
             /\ Streaming /\ inbox[1].kind \notin {"reset", "eof"} => idleLeft' = IdleTimeout
             /\ mode = "passthrough" /\ ~committed => inbox[1].kind \in {"data", "start"}
  <2>1. /\ Head(inbox) = inbox[1] /\ inbox[1].kind \in kinds
        /\ Len(inbox') = Len(inbox) - 1 /\ \A i \in 1..Len(inbox') : inbox'[i] = inbox[i + 1]
        /\ inbox' \in Seq(UpstreamFrame)
    BY <1>t, TakesTheNext
  <2>2. stage = "select" /\ mode' = mode
    BY <1>t DEF Take
  <2>3. Streaming /\ inbox[1].kind \notin {"reset", "eof"} => idleLeft' = IdleTimeout
    BY <1>t, <2>1 DEF Take
  <2>4. mode = "passthrough" /\ ~committed => inbox[1].kind \in {"data", "start"}
    BY <2>2 DEF CommitIsAtHand
  <2> QED BY <2>1, <2>2, <2>3, <2>4, EmptySeq
<1>1. ASSUME NEW kind \in UpstreamKind, Produce(kind) PROVE CommitIsAtHand'
  <2> DEFINE frame == [kind |-> kind, number |-> produced + 1, late |-> silence = IdleTimeout]
  <2>1. /\ inbox' = Append(inbox, frame) /\ idleLeft' = idleLeft /\ stage' = stage /\ mode' = mode
        /\ committed' = committed /\ status' = status
    BY <1>1 DEF Produce, result, timers
  <2>2. frame \in UpstreamFrame
    <3>1. produced + 1 \in 1..MaxFrames + 1
      <4>1. open /\ produced <= MaxFrames
        BY <1>1 DEF Produce, InboxIsAhead
      <4>2. produced \in Nat /\ MaxFrames \in Nat
        BY ConstantsAssumption DEF TypeOK
      <4> QED BY ONLY <4>1, <4>2
    <3> QED BY <1>1, <3>1 DEF UpstreamFrame
  <2> HIDE DEF frame
  <2>3. /\ Len(inbox') = Len(inbox) + 1 /\ \A i \in 1..Len(inbox) : inbox'[i] = inbox[i]
        /\ inbox' # <<>>
    BY <1>0, <2>1, <2>2, AppendProperties
  <2>4. inbox # <<>> => 1 \in 1..Len(inbox)
    BY <1>0
  <2>5. Len(inbox) >= 2 => 2 \in 1..Len(inbox)
    BY <1>0
  <2> QED BY <1>0, <2>1, <2>3, <2>4, <2>5 DEF CommitIsAtHand
<1>2. CASE Read \/ Leave \/ NotifyWaiters \/ DropReceiver
  BY <1>2 DEF Read, Leave, NotifyWaiters, DropReceiver, CommitIsAtHand, source, timers, result
<1>3. CASE DropHandler
  BY <1>3 DEF DropHandler, CommitIsAtHand
<1>4. CASE Tick
  BY <1>4 DEF Tick, Waiting, Control, CommitIsAtHand, result
<1>5. CASE Check \/ Woken
  BY <1>5 DEF Check, Woken, Cancel, CommitIsAtHand, source, timers, result
<1>6. CASE Enter
  BY <1>6 DEF Enter, CommitIsAtHand, source, timers, result
<1>7. CASE Await
  BY <1>7 DEF Await, CommitIsAtHand
<1>8. CASE SendKeepalive
  <2>1. KeepaliveDue /\ committed' = committed /\ mode' = mode
    BY <1>8 DEF SendKeepalive, result
  <2> QED BY <2>1 DEF KeepaliveDue, CommitIsAtHand
<1>9. CASE Expire
  BY <1>0, <1>9 DEF Expire, Fail, CommitIsAtHand
<1>10. CASE Translate
  BY <1>t, <1>10 DEF Translate, CommitIsAtHand
<1>11. CASE PassThrough
  <2>1. SUFFICES ASSUME ~committed' PROVE CommitIsAtHand'
    BY DEF CommitIsAtHand
  <2>2. Take(Event) /\ mode = "passthrough" /\ SendThen(<<>>, "top", TRUE)
        /\ ~committed /\ Head(inbox).kind \notin {"data", "finish"}
    BY <1>0, <1>11, <2>1 DEF PassThrough
  <2>3. stage = "select" /\ inbox[1].kind = "start" /\ Len(inbox) >= 2 /\ inbox[2].kind = "data"
    BY <1>t, <2>2 DEF CommitIsAtHand
  <2>4. stage' = "top"
    BY <2>2 DEF SendThen
  <2>5. 1 \in 1..Len(inbox') /\ inbox' # <<>>
    BY <1>0, <1>t, <2>2, <2>3
  <2>6. inbox'[1] = inbox[2]
    BY <1>t, <2>2, <2>5
  <2>7. idleLeft' = IdleTimeout
    BY <1>t, <2>2, <2>3
  <2> QED BY <2>3, <2>4, <2>5, <2>6, <2>7 DEF CommitIsAtHand
<1>12. CASE Collect
  BY <1>t, <1>12 DEF Collect, CommitIsAtHand
<1>13. CASE BadPayload
  BY <1>t, <1>13 DEF BadPayload, Fail, CommitIsAtHand
<1>14. CASE Broken
  BY <1>t, <1>14 DEF Broken, Fail, CommitIsAtHand
<1>15. CASE EndOfStream
  <2>1. Take({"eof"}) /\ committed' = committed
    BY <1>15 DEF EndOfStream, Fail
  <2> QED BY <1>t, <2>1 DEF CommitIsAtHand
<1>16. CASE Complete
  BY <1>16 DEF Complete, CommitIsAtHand
<1>17. CASE SendFrame
  <2>1. stage = "send" /\ mode' = mode /\ committed' = committed
    BY <1>17 DEF SendFrame, result
  <2> QED BY <2>1 DEF CommitIsAtHand
<1>18. CASE Ended
  <2>1. stage = "ended" /\ mode' = mode /\ (mode = "passthrough" => committed' = committed)
    BY <1>0, <1>18 DEF Ended
  <2> QED BY <2>1 DEF CommitIsAtHand
<1>19. CASE Finalize
  <2>1. stage = "finalize" /\ stage' = "trace" /\ mode' = mode /\ committed' = committed /\ status' = status
    BY <1>19 DEF Finalize, result
  <2> QED BY <2>1 DEF CommitIsAtHand
<1>20. CASE Finish
  <2>1. stage = "trace" /\ stage' = "done" /\ mode' = mode /\ committed' = committed /\ status' = status
    BY <1>20 DEF Finish, result
  <2> QED BY <2>1 DEF CommitIsAtHand
<1>21. CASE UNCHANGED vars
  BY <1>21 DEF vars, CommitIsAtHand, source, timers, result
<1> QED
  BY <1>1, <1>2, <1>3, <1>4, <1>5, <1>6, <1>7, <1>8, <1>9, <1>10, <1>11,
     <1>12, <1>13, <1>14, <1>15, <1>16, <1>17, <1>18, <1>19, <1>20, <1>21
  DEF Next, Driver, Receive, Guard

-----------------------------------------------------------------------------
(* What a step does to the line. *)

\* Nothing is added; what is kept back may move to the outbox.
Keeps ==
  /\ received' = received /\ channel' = channel
  /\ \/ outbox' = outbox /\ buffered' = buffered
     \/ outbox = <<>> /\ outbox' = buffered /\ buffered' = <<>>

\* Frames are added at its end.
Grows(f) ==
  /\ received' = received /\ channel' = channel /\ outbox = <<>>
  /\ \/ outbox' = buffered \o f /\ buffered' = <<>>
     \/ outbox' = <<>> /\ buffered' = buffered \o f

RowsTyped == buffered \in Frames /\ outbox \in Frames /\ channel \in Frames /\ received \in Frames

\* Without a new frame the response goes on, breaks off or ends after its last frame.
Calm ==
  /\ mode' = mode /\ format' = format /\ taken' = taken
  /\ finishSent' = finishSent /\ (terminalSeen => terminalSeen')
  /\ mode = "passthrough" => terminalSeen' = terminalSeen
  /\ \/ status' = "client_disconnect"
     \/ status' = "stream_error" /\ ~Past'
     \/ status' = status /\ (Past' => Past) /\ (AtEnd' => AtEnd \/ terminalSeen)

\* New frames are newer than what was taken, or not the upstream's; an error comes with
\* an error's status, an end with the upstream's, and the last frames tell how the
\* response ended.
Fits(f) ==
  /\ mode' = mode /\ format' = format
  /\ Ordered(f) /\ ErrorsLast(f)
  /\ Range(taken') = Range(taken) \cup Shown(f)
  /\ \A n \in Range(taken), m \in Shown(f) : n < m
  /\ status = "success" \/ \A i \in 1..Len(f) : f[i].kind \in Epilogue
  /\ status' = "success" => status = "success" /\ ~Has(f, "error")
  /\ terminalSeen => terminalSeen'
  /\ Ends(f) => terminalSeen' \/ ((AtEnd \/ Past) /\ status = "success")
  /\ mode = "passthrough" /\ terminalSeen' /\ ~terminalSeen => Has(f, "stop") \/ Has(f, "done")
  /\ finishSent' => finishSent \/ Has(f, "stop")
  /\ (AtEnd' \/ Past') /\ status' = "success" => terminalSeen' \/ AtEnd \/ Past
  /\ Past' /\ mode = "translate" /\ status' = "success" =>
       (finishSent \/ Has(f, "stop")) /\ (format = "openai" => Has(f, "done"))
  /\ Past' /\ Streaming /\ status' = "stream_error" => Has(f, "error")

LEMMA KeepsLine ==
  ASSUME RowsTyped, Keeps
  PROVE  RowsTyped' /\ Line' = Line
<1>1. RowsTyped'
  BY RowEmpty DEF RowsTyped, Keeps
<1>2. Line = Row(received, channel, outbox, buffered)
  BY DEF Line, Delivered, Row
<1>3. Line' = Row(received, channel, outbox', buffered')
  BY DEF Line, Delivered, Row, Keeps
<1>4. CASE outbox' = outbox /\ buffered' = buffered
  BY <1>1, <1>2, <1>3, <1>4
<1>5. CASE outbox = <<>> /\ outbox' = buffered /\ buffered' = <<>>
  BY <1>1, <1>2, <1>3, <1>5, RowCommits DEF RowsTyped
<1> QED BY <1>1, <1>4, <1>5 DEF Keeps

LEMMA GrowsLine ==
  ASSUME RowsTyped, NEW f \in Frames, Grows(f)
  PROVE  RowsTyped' /\ Line \in Frames /\ Line' = Line \o f
<1> DEFINE a == buffered \o f
<1>0. buffered \in Frames /\ received \in Frames /\ channel \in Frames
  BY DEF RowsTyped
<1>1. a \in Frames
  BY <1>0, ConcatAt
<1>2. /\ Line = Row(received, channel, <<>>, buffered) /\ outbox = <<>>
  BY DEF Line, Delivered, Row, Grows
<1>3. Line' = Row(received, channel, outbox', buffered')
  BY DEF Line, Delivered, Row, Grows
<1>4. Row(received, channel, <<>>, a) = Line \o f
  <2>1. Row(received, channel, <<>>, a) = Row(received, channel, <<>>, buffered) \o f
    <3> HIDE DEF a
    <3> DEFINE Keeping(r, c, b, g) == Row(r, c, <<>>, b \o g) = Row(r, c, <<>>, b) \o g
    <3>1. \A r, c, b, g \in Frames : Keeping(r, c, b, g)
      BY ONLY RowKeeps
    <3> HIDE DEF Keeping
    <3>2. received \in Frames /\ channel \in Frames /\ buffered \in Frames /\ f \in Frames
      BY <1>0
    <3>3. Keeping(received, channel, buffered, f)
      BY ONLY <3>1, <3>2
    <3>4. Row(received, channel, <<>>, buffered \o f) = Row(received, channel, <<>>, buffered) \o f
      BY ONLY <3>3 DEF Keeping
    <3>5. a = buffered \o f
      BY DEF a
    <3> QED BY ONLY <3>4, <3>5
  <2> HIDE DEF a
  <2> QED BY <1>2, <2>1
<1> HIDE DEF a
<1>5. \/ outbox' = a /\ buffered' = <<>>
      \/ outbox' = <<>> /\ buffered' = a
  BY DEF Grows, a
<1>6. Row(received, channel, outbox', buffered') = Row(received, channel, <<>>, a)
  BY <1>1, <1>5, RowCommits DEF RowsTyped
<1>7. RowsTyped'
  BY <1>1, <1>5, RowEmpty DEF RowsTyped, Grows
<1>8. Line \in Frames
  BY <1>2, RowEmpty, RowType DEF RowsTyped
<1> QED BY <1>3, <1>4, <1>6, <1>7, <1>8

LEMMA CalmLine ==
  ASSUME RowsTyped, Keeps, Calm
  PROVE  RowsTyped' /\ (LineIsWhole => LineIsWhole')
<1>1. RowsTyped' /\ Line' = Line
  BY KeepsLine
<1>2. Ordered(Line)' <=> Ordered(Line)
  BY <1>1 DEF Ordered
<1>3. Shown(Line)' = Shown(Line) /\ Range(taken)' = Range(taken)
  BY <1>1 DEF Shown, Range, Calm
<1>4. ErrorsLast(Line)' <=> ErrorsLast(Line)
  BY <1>1 DEF ErrorsLast
<1>5. /\ \A k : Has(Line', k) <=> Has(Line, k)
      /\ Ends(Line') <=> Ends(Line)
      /\ Calm => (Closed(Line)' <=> Closed(Line))
  BY <1>1 DEF Closed, Calm
<1> HIDE DEF Line
<1> QED BY <1>1, <1>2, <1>3, <1>4, <1>5 DEF LineIsWhole, Calm, Streaming

LEMMA FitLine ==
  ASSUME RowsTyped, NEW f \in Frames, Grows(f), Fits(f)
  PROVE  RowsTyped' /\ (LineIsWhole => LineIsWhole')
<1> SUFFICES ASSUME LineIsWhole PROVE RowsTyped' /\ LineIsWhole'
  BY GrowsLine
<1> DEFINE l == Line
           p == Line'
<1>1. RowsTyped' /\ l \in Frames /\ p = l \o f
  BY GrowsLine
<1>2. /\ Ordered(l) /\ Shown(l) = Range(taken) /\ ErrorsLast(l)
      /\ Ends(l) => terminalSeen
      /\ status = "success" => ~Has(l, "error")
      /\ mode = "passthrough" /\ terminalSeen => Has(l, "stop") \/ Has(l, "done")
      /\ finishSent => Has(l, "stop")
      /\ (AtEnd \/ Past) /\ status = "success" => terminalSeen
  BY DEF LineIsWhole
<1> HIDE DEF l, p
<1>3. /\ Ordered(l) /\ Ordered(f) /\ (\A n \in Shown(l), m \in Shown(f) : n < m) => Ordered(p)
      /\ Shown(p) = Shown(l) \cup Shown(f)
      /\ ErrorsLast(l) /\ ErrorsLast(f)
         /\ (~Has(l, "error") \/ \A i \in 1..Len(f) : f[i].kind \in Epilogue) => ErrorsLast(p)
      /\ \A k : Has(p, k) <=> Has(l, k) \/ Has(f, k)
      /\ Ends(p) => Ends(l) \/ Ends(f)
  BY <1>1, TwoRows
<1>4. Ordered(p) /\ Shown(p) = Range(taken')
  BY <1>2, <1>3 DEF Fits
<1>5. ErrorsLast(p) /\ (status' = "success" => ~Has(p, "error"))
  BY <1>2, <1>3 DEF Fits
<1>6. Ends(p) => terminalSeen'
  BY <1>2, <1>3 DEF Fits
<1>7. /\ mode' = "passthrough" /\ terminalSeen' => Has(p, "stop") \/ Has(p, "done")
      /\ finishSent' => Has(p, "stop")
      /\ (AtEnd' \/ Past') /\ status' = "success" => terminalSeen'
  BY <1>2, <1>3 DEF Fits
<1>8. Past' /\ mode' = "translate" /\ status' = "success" =>
        Has(p, "stop") /\ (format' = "openai" => Has(p, "done"))
  BY <1>2, <1>3 DEF Fits
<1>9. Past' /\ Streaming' /\ status' = "stream_error" => Has(p, "error")
  BY <1>3 DEF Fits, Streaming
<1> QED BY <1>1, <1>4, <1>5, <1>6, <1>7, <1>8, <1>9 DEF LineIsWhole, Closed, p

\* The steps that leave the line to the client as it is.
LEMMA CalmSteps ==
  ASSUME TypeOK, Control, CommitIsAtHand, InboxIsAhead,
         \/ \E kind \in UpstreamKind : Produce(kind)
         \/ Leave \/ NotifyWaiters \/ DropHandler \/ Tick
         \/ Check \/ Enter \/ Await \/ Woken \/ Expire \/ Finalize
         \/ Finish /\ Streaming
         \/ Broken \/ EndOfStream \/ UNCHANGED vars
  PROVE  Keeps /\ Calm
<1>0. /\ terminalSeen \in BOOLEAN /\ finishSent \in BOOLEAN
      /\ status \in {"success", "stream_error", "client_disconnect"}
  BY TypeHalves DEF PlainTypes, EncoderTypes
<1>1. CASE \E kind \in UpstreamKind : Produce(kind)
  BY <1>1 DEF Produce, Keeps, Calm, AtEnd, Past, encoder, kept, sending, wire, result
<1>2. CASE Leave \/ NotifyWaiters
  BY <1>2 DEF Leave, NotifyWaiters, Keeps, Calm, AtEnd, Past, encoder, kept, sending, wire, result
<1>3. CASE DropHandler
  BY <1>3 DEF DropHandler, Keeps, Calm, AtEnd, Past, encoder, kept, sending, wire, result
<1>4. CASE Tick
  BY <1>4 DEF Tick, Keeps, Calm, AtEnd, Past, encoder, kept, sending, wire, result
<1>5. CASE Check \/ Woken
  BY <1>5 DEF Check, Woken, Cancel, Keeps, Calm, AtEnd, Past, encoder, kept, sending, wire, result
<1>6. CASE Enter
  BY <1>6 DEF Enter, Keeps, Calm, AtEnd, Past, encoder, kept, sending, wire, result
<1>7. CASE Await
  BY <1>7 DEF Await, Keeps, Calm, AtEnd, Past, encoder, kept, sending, wire, result
<1>8. CASE Expire
  BY <1>8 DEF Expire, Fail, Keeps, Calm, AtEnd, Past, encoder, kept, sending, wire
<1>9. CASE Finalize
  <2>1. /\ stage = "finalize" /\ stage' = "trace" /\ mode' = mode
        /\ UNCHANGED <<encoder, kept, sending, wire, result>>
    BY <1>9 DEF Finalize
  <2> QED BY <2>1 DEF Keeps, Calm, AtEnd, Past, encoder, kept, sending, wire, result
<1>10. CASE Finish /\ Streaming
  <2>1. /\ stage = "trace" /\ stage' = "done" /\ mode' = mode /\ received' = received
        /\ UNCHANGED <<encoder, kept, sending, channel, result>>
    BY <1>10 DEF Finish
  <2> QED BY <2>1 DEF Keeps, Calm, AtEnd, Past, encoder, kept, sending, result
<1>11. CASE Broken
  <2>1. Take({"cut", "reset"}) /\ Head(inbox).kind \in {"cut", "reset"}
    BY <1>11 DEF Broken, Take
  <2>2. taken' = taken /\ terminalSeen' = terminalSeen /\ mode' = mode /\ format' = format
        /\ finishSent' = finishSent /\ UNCHANGED wire
    BY <1>0, <2>1 DEF Take, Event
  <2> QED BY <1>11, <2>2 DEF Broken, Fail, Keeps, Calm, AtEnd, Past, encoder, sending, wire
<1>12. CASE EndOfStream
  <2>1. Take({"eof"}) /\ Head(inbox).kind = "eof"
    BY <1>12 DEF EndOfStream, Take
  <2>2. taken' = taken /\ terminalSeen' = terminalSeen /\ mode' = mode /\ format' = format
        /\ finishSent' = finishSent /\ UNCHANGED wire
    BY <1>0, <2>1 DEF Take, Event
  <2>3. \/ terminalSeen /\ status' = status
        \/ status' = "stream_error"
    BY <1>12 DEF EndOfStream, Fail
  <2> QED BY <1>12, <2>2, <2>3 DEF EndOfStream, Keeps, Calm, AtEnd, Past, encoder, sending, wire
<1>13. CASE UNCHANGED vars
  BY <1>13 DEF vars, Keeps, Calm, AtEnd, Past, encoder, kept, sending, wire, result
<1> QED
  BY <1>1, <1>2, <1>3, <1>4, <1>5, <1>6, <1>7, <1>8, <1>9, <1>10, <1>11, <1>12, <1>13

\* An event of the upstream is passed on, or kept back, as one frame.
LEMMA EventStep ==
  ASSUME TypeOK, Control, InboxIsAhead, Translate \/ PassThrough \/ Collect
  PROVE  (Keeps /\ Calm) \/ \E f \in Frames : Grows(f) /\ Fits(f)
<1>0. /\ terminalSeen \in BOOLEAN /\ committed \in BOOLEAN /\ inbox \in Seq(UpstreamFrame)
      /\ buffered \in Frames /\ mode \in {"translate", "passthrough", "aggregate"}
      /\ finishSent \in BOOLEAN
  BY TypeHalves, ConstantsAssumption DEF PlainTypes, RowTypes, EncoderTypes
<1> DEFINE frame == Head(inbox)
           x == [kind |-> Told(frame), number |-> frame.number]
           f == <<x>>
<1>1. Take(Event) /\ stage = "select" /\ mode' = mode /\ format' = format /\ UNCHANGED wire
  BY DEF Translate, PassThrough, Collect, Take
<1>2. /\ frame \in UpstreamFrame /\ frame.kind \in Event
      /\ IF ~Dropped(frame)
           THEN /\ Range(taken') = Range(taken) \cup {frame.number}
                /\ \A n \in Range(taken) : n < frame.number
           ELSE taken' = taken
  BY <1>1, TakesTheNext
<1>3. /\ outbox = <<>> /\ status = "success" /\ (buffered # <<>> /\ mode # "aggregate" => ~committed)
  BY <1>1 DEF Control, InLoop, Streaming
<1>4. /\ terminalSeen' = (terminalSeen \/ frame.kind \in {"finish", "done"})
      /\ finishSent' = (finishSent \/ (frame.kind = "finish" /\ mode = "translate" /\ ~Dropped(frame)))
  BY <1>1 DEF Take
<1>5. /\ Forward(frame) = IF Dropped(frame) THEN <<>> ELSE f
      /\ x \in ClientFrame /\ x.number = frame.number /\ x.number # 0
      /\ x.kind # "error"
      /\ x.kind \in {"stop", "done"} => frame.kind \in {"finish", "done"}
      /\ frame.kind = "finish" /\ mode # "aggregate" => x.kind = "stop"
      /\ frame.kind = "done" => x.kind = "done"
  BY <1>2, ForwardIsOne
<1> HIDE DEF x
<1>f. /\ f \in Frames /\ Ordered(f) /\ ErrorsLast(f) /\ Shown(f) = {frame.number}
      /\ \A k : Has(f, k) <=> x.kind = k
      /\ Ends(f) => x.kind \in {"stop", "done"}
  BY <1>5, OneTells, RowOfOne
<1> HIDE DEF f
<1>6. Dropped(frame) => buffered \o Forward(frame) = buffered
  BY <1>0, <1>5, RowEmpty
<1>7. /\ stage' \in {"send", "top"} /\ (stage' = "send" => then'.stage = "top") /\ status' = status
      /\ received' = received /\ channel' = channel
      /\ \/ outbox' = buffered \o Forward(frame) /\ buffered' = <<>>
         \/ outbox' = <<>> /\ buffered' = buffered \o Forward(frame)
  <2>1. CASE Translate
    <3>1. SendThen(Forward(frame), "top", TRUE) /\ buffered' = buffered /\ status' = status
          /\ mode = "translate"
      BY <2>1 DEF Translate
    <3>2. buffered = <<>>
      BY <3>1 DEF Control, Streaming
    <3>3. <<>> \o Forward(frame) = Forward(frame)
      BY <1>5, <1>f, RowEmpty
    <3>4. outbox' = Forward(frame) /\ stage' \in {"top", "send"} /\ (stage' = "send" => then'.stage = "top")
      BY <1>3, <3>1, AfterSendThen
    <3> QED BY <1>1, <3>1, <3>2, <3>3, <3>4 DEF wire
  <2>2. CASE PassThrough
    <3> DEFINE frames == buffered \o Forward(frame)
    <3>1. \/ SendThen(frames, "top", TRUE) /\ buffered' = <<>>
          \/ SendThen(<<>>, "top", TRUE) /\ buffered' = frames
      BY <2>2 DEF PassThrough
    <3>2. status' = status
      BY <2>2 DEF PassThrough
    <3> HIDE DEF frames
    <3>3. CASE SendThen(frames, "top", TRUE) /\ buffered' = <<>>
      <4>1. outbox' = frames /\ stage' \in {"top", "send"} /\ (stage' = "send" => then'.stage = "top")
        BY <1>3, <3>3, AfterSendThen
      <4> QED BY <1>1, <3>2, <3>3, <4>1 DEF wire, frames
    <3>4. CASE SendThen(<<>>, "top", TRUE) /\ buffered' = frames
      <4>1. outbox' = <<>> /\ stage' = "top"
        BY <1>3, <3>4 DEF SendThen, sending
      <4> QED BY <1>1, <3>2, <3>4, <4>1 DEF wire, frames
    <3> QED BY <3>1, <3>3, <3>4
  <2>3. CASE Collect
    <3>1. /\ buffered' = buffered \o Forward(frame) /\ stage' = "top" /\ outbox' = outbox
          /\ status' = status
      BY <2>3 DEF Collect, sending
    <3> QED BY <1>1, <1>3, <3>1 DEF wire
  <2> QED BY <2>1, <2>2, <2>3
<1>8. ~AtEnd' /\ ~Past'
  BY <1>7 DEF AtEnd, Past
<1>9. CASE Dropped(frame)
  <2>1. mode = "passthrough" => terminalSeen' = terminalSeen
    BY <1>0, <1>4, <1>9 DEF Dropped
  <2>2. finishSent' = finishSent /\ (terminalSeen => terminalSeen')
    BY <1>0, <1>4, <1>9
  <2> QED BY <1>1, <1>2, <1>3, <1>6, <1>7, <1>8, <1>9, <2>1, <2>2 DEF Keeps, Calm
<1>10. CASE ~Dropped(frame)
  <2>1. Grows(f)
    BY <1>3, <1>5, <1>7, <1>10 DEF Grows
  <2>2. /\ Range(taken') = Range(taken) \cup Shown(f)
        /\ \A n \in Range(taken), m \in Shown(f) : n < m
    BY <1>2, <1>10, <1>f
  <2>3. /\ Ends(f) => terminalSeen'
        /\ mode = "passthrough" /\ terminalSeen' /\ ~terminalSeen => Has(f, "stop") \/ Has(f, "done")
        /\ finishSent' => finishSent \/ Has(f, "stop")
        /\ ~Has(f, "error") /\ (terminalSeen => terminalSeen')
    BY <1>4, <1>5, <1>f
  <2>4. Fits(f)
    BY <1>1, <1>3, <1>7, <1>8, <1>f, <2>2, <2>3 DEF Fits
  <2> QED BY <1>f, <2>1, <2>4
<1> QED BY <1>9, <1>10

\* Frames of the driver's own go out at once: nothing is kept back then.
LEMMA OwnFrames ==
  ASSUME RowsTyped, Control, outbox = <<>>, NEW f \in Frames,
         NEW next \in {"top", "ended", "finalize"}, NEW cancel, SendThen(f, next, cancel),
         buffered = <<>>, buffered' = buffered, received' = received, channel' = channel
  PROVE  /\ Grows(f)
         /\ AtEnd' <=> next = "ended"
         /\ Past' <=> next = "finalize"
<1>1. f = buffered \o f
  BY RowEmpty
<1>2. outbox' = f /\ (AtEnd' <=> next = "ended") /\ (Past' <=> next = "finalize")
  BY AfterSendThen
<1> QED BY <1>1, <1>2 DEF Grows

LEMMA OwnSteps ==
  ASSUME TypeOK, Control, CommitIsAtHand, InboxIsAhead,
         SendKeepalive \/ BadPayload \/ Complete \/ Ended
  PROVE  (Keeps /\ Calm) \/ \E f \in Frames : Grows(f) /\ Fits(f)
<1>0. /\ RowsTyped /\ terminalSeen \in BOOLEAN /\ committed \in BOOLEAN /\ finishSent \in BOOLEAN
      /\ mode \in {"translate", "passthrough", "aggregate"} /\ format \in Formats
      /\ status \in {"success", "stream_error", "client_disconnect"}
  BY TypeHalves, ConstantsAssumption DEF PlainTypes, RowTypes, EncoderTypes, RowsTyped
<1>1. CASE SendKeepalive
  <2>1. /\ stage = "select" /\ Streaming /\ (mode = "passthrough" => committed)
        /\ SendThen(<<Comment>>, "top", TRUE)
        /\ mode' = mode /\ taken' = taken /\ buffered' = buffered /\ received' = received
        /\ channel' = channel /\ status' = status /\ terminalSeen' = terminalSeen
        /\ format' = format /\ finishSent' = finishSent
    BY <1>1 DEF SendKeepalive, KeepaliveDue, encoder, kept, wire, result
  <2>2. outbox = <<>> /\ buffered = <<>> /\ status = "success"
    BY <2>1 DEF Control, InLoop
  <2>3. PICK f \in Frames : /\ f = <<Comment>> /\ Ordered(f) /\ ErrorsLast(f) /\ Shown(f) = {}
                            /\ ~Has(f, "error") /\ ~Ends(f)
    BY OneTells, RowOfOne, FrameKinds
  <2>4. Grows(f) /\ ~AtEnd' /\ ~Past'
    BY <1>0, <2>1, <2>2, <2>3, OwnFrames
  <2>5. Fits(f)
    BY <2>1, <2>2, <2>3, <2>4 DEF Fits
  <2> QED BY <2>4, <2>5
<1>2. CASE BadPayload
  <2>1. /\ Take({"error", "garbage"}) /\ status' = "stream_error" /\ buffered' = buffered
        /\ SendThen(IF mode = "translate" THEN ErrorFrames ELSE <<>>, "ended", FALSE)
    BY <1>2 DEF BadPayload, Fail
  <2>2. Head(inbox).kind \in {"error", "garbage"} /\ stage = "select"
    BY <2>1 DEF Take
  <2>3. /\ taken' = taken /\ terminalSeen' = terminalSeen /\ mode' = mode
        /\ format' = format /\ finishSent' = finishSent
        /\ received' = received /\ channel' = channel
    BY <1>0, <2>1, <2>2 DEF Take, Event, wire
  <2>4. outbox = <<>> /\ status = "success" /\ (mode = "translate" => buffered = <<>>)
    BY <2>2 DEF Control, InLoop, Streaming
  <2>5. CASE mode = "translate"
    <3>1. SendThen(ErrorFrames, "ended", FALSE)
      BY <2>1, <2>5
    <3>2. Grows(ErrorFrames) /\ AtEnd' /\ ~Past'
      BY <1>0, <2>1, <2>3, <2>4, <2>5, <3>1, OwnFrames, ErrorIsTold
    <3>3. Fits(ErrorFrames)
      BY <2>1, <2>3, <2>4, <2>5, <3>2, ErrorIsTold DEF Fits
    <3> QED BY <3>2, <3>3, ErrorIsTold
  <2>6. CASE mode # "translate"
    <3>1. SendThen(<<>>, "ended", FALSE)
      BY <2>1, <2>6
    <3>2. stage' = "ended" /\ outbox' = outbox
      BY <3>1 DEF SendThen, sending
    <3> QED BY <2>1, <2>3, <3>2 DEF Keeps, Calm, Past
  <2> QED BY <2>5, <2>6
<1>3. CASE Complete
  <2> DEFINE x == [kind |-> "frame", number |-> 1]
             e == IF finishSent' THEN <<Stop>> ELSE <<>>
             f == <<x>> \o e
  <2>1. /\ stage = "full" /\ mode' = mode /\ format' = format /\ taken' = <<1>>
        /\ received' = received /\ channel' = channel /\ status' = status /\ terminalSeen'
        /\ finishSent' \in BOOLEAN
    BY <1>3 DEF Complete, wire
  <2>2. /\ outbox = <<>> /\ status = "success" /\ mode # "passthrough" /\ taken = <<>>
        /\ buffered = <<>>
    BY <2>1 DEF Control, InLoop
  <2>3. x \in ClientFrame /\ x.kind = "frame" /\ x.number = 1
    BY ConstantsAssumption DEF ClientFrame
  <2>4. Range(taken) = {} /\ Range(taken') = {1}
    BY <2>1, <2>2 DEF Range
  <2>5. /\ Streaming => SendThen(f, "ended", TRUE) /\ buffered' = buffered
        /\ ~Streaming => stage' = "ended" /\ outbox' = outbox /\ buffered' = f
    BY <1>3 DEF Complete, sending
  <2> HIDE DEF x
  <2>6. /\ <<x>> \in Frames /\ Ordered(<<x>>) /\ ErrorsLast(<<x>>) /\ Shown(<<x>>) = {1}
        /\ ~Has(<<x>>, "error")
    BY <2>3, OneTells, RowOfOne
  <2>7. /\ e \in Frames /\ Ordered(e) /\ ErrorsLast(e) /\ Shown(e) = {} /\ ~Has(e, "error")
        /\ finishSent' => Has(e, "stop")
    <3>1. CASE finishSent'
      <4>1. e = <<Stop>>
        BY <3>1
      <4> QED BY <4>1, OneTells, RowOfOne, FrameKinds
    <3>2. CASE ~finishSent'
      <4>1. e = <<>>
        BY <3>2
      <4>2. Ordered(<<>>) /\ Shown(<<>>) = {} /\ ErrorsLast(<<>>) /\ ~Has(<<>>, "error")
        BY DEF Ordered, Shown, ErrorsLast, Has
      <4> QED BY <3>2, <4>1, <4>2, RowEmpty
    <3> QED BY <2>1, <3>1, <3>2
  <2> HIDE DEF e
  <2>8. /\ f \in Frames /\ Ordered(f) /\ ErrorsLast(f) /\ Shown(f) = {1} /\ ~Has(f, "error")
        /\ finishSent' => Has(f, "stop")
    <3>1. f \in Frames
      BY <2>6, <2>7, ConcatAt
    <3> QED BY <2>6, <2>7, <3>1, TwoRows
  <2> HIDE DEF f
  <2>9. Grows(f) /\ ~Past'
    <3>1. CASE Streaming
      BY <1>0, <2>1, <2>2, <2>5, <2>8, <3>1, OwnFrames
    <3>2. CASE ~Streaming
      <4>1. f = buffered \o f
        BY <2>2, <2>8, RowEmpty
      <4> QED BY <2>1, <2>2, <2>5, <3>2, <4>1 DEF Grows, Past
    <3> QED BY <3>1, <3>2
  <2>10. Fits(f)
    BY <2>1, <2>2, <2>4, <2>8, <2>9 DEF Fits
  <2> QED BY <2>8, <2>9, <2>10
<1>4. CASE Ended
  <2>1. /\ stage = "ended" /\ mode' = mode /\ taken' = taken /\ buffered' = buffered
        /\ format' = format /\ finishSent' = finishSent
        /\ received' = received /\ channel' = channel /\ status' = status
        /\ terminalSeen' = terminalSeen
        /\ \E cancel : SendThen(LastFrames, "finalize", cancel)
    BY <1>4 DEF Ended, encoder, kept, wire
  <2>2. PICK cancel : SendThen(LastFrames, "finalize", cancel)
    BY <2>1
  <2>3. /\ outbox = <<>> /\ AtEnd /\ status # "client_disconnect"
        /\ (mode = "translate" \/ (mode = "passthrough" /\ committed) => buffered = <<>>)
    BY <2>1 DEF Control, AtEnd, Streaming
  <2>4. CASE mode = "translate" /\ status = "success"
    <3>1. LastFrames = EndFrames
      BY <2>4 DEF LastFrames
    <3>2. Grows(EndFrames) /\ ~AtEnd' /\ Past'
      BY <1>0, <2>1, <2>2, <2>3, <2>4, <3>1, OwnFrames, EndIsTold
    <3>3. Fits(EndFrames)
      BY <1>0, <2>1, <2>3, <2>4, <3>2, EndIsTold DEF Fits
    <3> QED BY <1>0, <3>2, <3>3, EndIsTold
  <2>5. CASE status # "success" /\ (mode = "translate" \/ (mode = "passthrough" /\ committed))
    <3>1. LastFrames = ErrorFrames
      BY <2>5 DEF LastFrames
    <3>2. Grows(ErrorFrames) /\ ~AtEnd' /\ Past'
      BY <1>0, <2>1, <2>2, <2>3, <2>5, <3>1, OwnFrames, ErrorIsTold
    <3>3. Fits(ErrorFrames)
      BY <2>1, <2>5, <3>2, ErrorIsTold DEF Fits
    <3> QED BY <3>2, <3>3, ErrorIsTold
  <2>6. CASE /\ ~(mode = "translate" /\ status = "success")
             /\ ~(status # "success" /\ (mode = "translate" \/ (mode = "passthrough" /\ committed)))
    <3>1. LastFrames = <<>>
      BY <2>6, Zenon DEF LastFrames
    <3>2. stage' = "finalize" /\ outbox' = outbox
      BY <2>2, <3>1 DEF SendThen, sending
    <3>3. mode # "translate" /\ (mode = "passthrough" => status = "success")
      BY <1>0, <2>1, <2>6 DEF CommitIsAtHand
    <3>4. PICK f \in Frames : /\ f = <<>> /\ Ordered(f) /\ ErrorsLast(f) /\ Shown(f) = {}
                              /\ ~Has(f, "error") /\ ~Ends(f) /\ Len(f) = 0
      <4>1. /\ Ordered(<<>>) /\ Shown(<<>>) = {} /\ ErrorsLast(<<>>) /\ ~Has(<<>>, "error")
            /\ ~Ends(<<>>) /\ Len(<<>>) = 0
        BY DEF Ordered, Shown, ErrorsLast, Has, Ends
      <4> QED BY <4>1, RowEmpty
    <3>5. buffered = buffered \o f
      BY <1>0, <3>4, RowEmpty DEF RowsTyped
    <3>6. Grows(f)
      BY <2>1, <2>3, <3>2, <3>5 DEF Grows
    <3>7. \A i \in 1..Len(f) : f[i].kind \in Epilogue
      BY <3>4
    <3>8. Fits(f)
      BY <1>0, <2>1, <2>3, <3>3, <3>4, <3>7 DEF Fits, Streaming
    <3> QED BY <3>6, <3>8
  <2> QED BY <2>4, <2>5, <2>6
<1> QED BY <1>1, <1>2, <1>3, <1>4

\* A frame that is sent stays on the line, unless the client is gone.
LEMMA SendStep ==
  ASSUME TypeOK, Control, SendFrame
  PROVE  /\ RowsTyped' /\ Len(channel') <= Capacity
         /\ client # "gone" /\ LineIsWhole => LineIsWhole'
<1>0. RowsTyped /\ Len(channel) <= Capacity /\ Len(channel) \in Nat /\ Capacity \in Nat
  BY TypeHalves, AtDomain, ConstantsAssumption DEF RowTypes, RowsTyped
<1>1. /\ stage = "send" /\ mode' = mode /\ taken' = taken /\ buffered' = buffered
      /\ received' = received /\ then' = then /\ format' = format /\ finishSent' = finishSent
      /\ outbox # <<>> /\ then.stage \in {"top", "ended", "finalize"}
  BY DEF SendFrame, Control, encoder, kept
<1>2. Head(outbox) \in ClientFrame /\ Tail(outbox) \in Frames
  BY <1>0, <1>1, RowStarts DEF RowsTyped
<1>3. CASE client = "gone"
  <2>1. outbox' \in {<<>>, Tail(outbox)} /\ channel' = channel
    BY <1>3 DEF SendFrame
  <2> QED BY <1>0, <1>1, <1>2, <1>3, <2>1, RowEmpty DEF RowsTyped
<1>4. CASE client # "gone"
  <2>1. /\ Len(channel) < Capacity /\ channel' = Append(channel, Head(outbox))
        /\ outbox' = Tail(outbox) /\ stage' \in {"send", then.stage}
        /\ status' = status /\ terminalSeen' = terminalSeen
    BY <1>4 DEF SendFrame, result
  <2>2. channel' \in Frames /\ Len(channel') = Len(channel) + 1
    BY <1>0, <1>2, <2>1, AppendAt DEF RowsTyped
  <2>3. RowsTyped' /\ Len(channel') <= Capacity
    BY <1>0, <1>1, <1>2, <2>1, <2>2 DEF RowsTyped
  <2>4. (AtEnd' <=> AtEnd) /\ (Past' <=> Past)
    BY <1>1, <2>1, AfterSendFrame
  <2>5. Line' = Line
    <3>1. Line = Row(received, channel, outbox, buffered)
      BY DEF Line, Delivered, Row
    <3>2. Line' = Row(received, Append(channel, Head(outbox)), Tail(outbox), buffered)
      BY <1>1, <2>1 DEF Line, Delivered, Row
    <3> QED BY <1>0, <1>1, <3>1, <3>2, RowSends DEF RowsTyped
  <2>6. /\ Ordered(Line)' <=> Ordered(Line)
        /\ ErrorsLast(Line)' <=> ErrorsLast(Line)
        /\ Shown(Line)' = Shown(Line) /\ Range(taken)' = Range(taken)
        /\ \A k : Has(Line', k) <=> Has(Line, k)
        /\ (Ends(Line)' <=> Ends(Line)) /\ (Closed(Line)' <=> Closed(Line))
    BY <1>1, <2>5 DEF Ordered, ErrorsLast, Shown, Range, Ends, Closed
  <2> HIDE DEF Line
  <2> QED BY <1>1, <2>1, <2>3, <2>4, <2>6 DEF LineIsWhole, Streaming
<1> QED BY <1>3, <1>4

\* What the client reads is still on the line; a comment leaves it.
LEMMA ReadStep ==
  ASSUME TypeOK, Read
  PROVE  /\ RowsTyped' /\ Len(channel') <= Capacity
         /\ LineIsWhole => LineIsWhole'
<1>0. RowsTyped /\ Len(channel) <= Capacity /\ Capacity \in Nat
  BY TypeHalves, ConstantsAssumption DEF RowTypes, RowsTyped
<1>1. /\ channel # <<>> /\ channel' = Tail(channel) /\ mode' = mode /\ stage' = stage
      /\ taken' = taken /\ buffered' = buffered /\ outbox' = outbox /\ then' = then
      /\ status' = status /\ terminalSeen' = terminalSeen
      /\ format' = format /\ finishSent' = finishSent
      /\ received' = IF Head(channel) = Comment THEN received ELSE Append(received, Head(channel))
  BY DEF Read, encoder, kept, sending, result
<1>2. /\ Tail(channel) \in Frames /\ Len(Tail(channel)) = Len(channel) - 1 /\ Len(channel) \in Nat
      /\ Append(received, Head(channel)) \in Frames
      /\ Append(received, Head(channel)) \o Tail(channel) = received \o channel
  <2>1. Len(Tail(channel)) = Len(channel) - 1 /\ Len(channel) \in Nat
    BY <1>0, <1>1, HeadTailProperties, AtDomain DEF RowsTyped, Frames
  <2> QED BY <1>0, <1>1, <2>1, RowIsRead DEF RowsTyped
<1>3. RowsTyped' /\ Len(channel') <= Capacity
  BY <1>0, <1>1, <1>2 DEF RowsTyped
<1>4. /\ Ordered(Line) => Ordered(Line')
      /\ ErrorsLast(Line) => ErrorsLast(Line')
      /\ Ends(Line') => Ends(Line)
      /\ Shown(Line') = Shown(Line)
      /\ \A k : k # "keepalive" => (Has(Line', k) <=> Has(Line, k))
  <2> DEFINE t == outbox \o buffered
             s == (received \o channel) \o t
             p == (received \o Tail(channel)) \o t
  <2>1. Line = s /\ Line' = (received' \o Tail(channel)) \o t
    BY <1>1 DEF Line, Delivered
  <2>2. CASE Head(channel) = Comment
    <3>1. Line' = p
      BY <1>1, <2>1, <2>2
    <3>2. t \in Frames
      BY <1>0, ConcatAt DEF RowsTyped
    <3>3. s \in Frames /\ p \in Frames
      <4> HIDE DEF t
      <4>1. received \o channel \in Frames /\ received \o Tail(channel) \in Frames
        BY <1>0, <1>2, ConcatAt DEF RowsTyped
      <4> QED BY <3>2, <4>1, ConcatAt
    <3> HIDE DEF t
    <3>4. /\ Len(received) + 1 \in 1..Len(s) /\ s[Len(received) + 1] = Comment
          /\ Len(p) = Len(s) - 1
          /\ \A i \in 1..Len(p) : p[i] = s[IF i < Len(received) + 1 THEN i ELSE i + 1]
      BY <1>0, <1>1, <2>2, <3>2, RowForgets DEF RowsTyped
    <3> HIDE DEF s, p
    <3>5. /\ Ordered(s) => Ordered(p)
          /\ ErrorsLast(s) => ErrorsLast(p)
          /\ Ends(p) => Ends(s)
          /\ Shown(p) = Shown(s)
          /\ \A kind : kind # "keepalive" => (Has(p, kind) <=> Has(s, kind))
      BY <3>3, <3>4, WithoutComment
    <3> QED BY <2>1, <3>1, <3>5
  <2>3. CASE Head(channel) # Comment
    <3>1. received' \o Tail(channel) = received \o channel
      BY <1>1, <1>2, <2>3
    <3>2. Line' = Line
      BY <2>1, <3>1
    <3> QED BY <3>2
  <2> QED BY <2>2, <2>3
<1>5. (AtEnd' <=> AtEnd) /\ (Past' <=> Past) /\ Range(taken') = Range(taken)
  BY <1>1 DEF AtEnd, Past
<1>6. Ordered(Line)' = Ordered(Line') /\ ErrorsLast(Line)' = ErrorsLast(Line') /\ Shown(Line)' = Shown(Line')
      /\ Ends(Line)' = Ends(Line')
  BY DEF Ordered, ErrorsLast, Shown, Ends
<1>7. Closed(Line)' <=> Closed(Line)
  BY <1>1, <1>4 DEF Closed, Has
<1> HIDE DEF Line
<1> QED BY <1>1, <1>3, <1>4, <1>5, <1>6, <1>7 DEF LineIsWhole, Streaming

-----------------------------------------------------------------------------
(* The invariant. *)

LEMMA RowTypesStep ==
  ASSUME TypeOK, Control, CommitIsAtHand, InboxIsAhead, [Next]_vars
  PROVE  RowTypes'
<1>0. RowsTyped /\ Len(channel) <= Capacity /\ Capacity \in Nat \ {0}
  BY TypeHalves, ConstantsAssumption DEF RowTypes, RowsTyped
<1>1. SUFFICES RowsTyped' /\ Len(channel') <= Capacity
  BY InboxStep DEF RowTypes, RowsTyped
<1>2. ASSUME Keeps PROVE RowsTyped' /\ Len(channel') <= Capacity
  <2>1. channel' = channel
    BY <1>2 DEF Keeps
  <2> QED BY <1>0, <1>2, <2>1, KeepsLine
<1>3. ASSUME NEW f \in Frames, Grows(f) PROVE RowsTyped' /\ Len(channel') <= Capacity
  <2>1. channel' = channel
    BY <1>3 DEF Grows
  <2> QED BY <1>0, <1>3, <2>1, GrowsLine
<1>4. CASE \/ \E kind \in UpstreamKind : Produce(kind)
           \/ Leave \/ NotifyWaiters \/ DropHandler \/ Tick
           \/ Check \/ Enter \/ Await \/ Woken \/ Expire \/ Finalize
           \/ Finish /\ Streaming
           \/ Broken \/ EndOfStream \/ UNCHANGED vars
  BY <1>2, <1>4, CalmSteps
<1>5. CASE Translate \/ PassThrough \/ Collect
  BY <1>2, <1>3, <1>5, EventStep
<1>6. CASE SendKeepalive \/ BadPayload \/ Complete \/ Ended
  BY <1>2, <1>3, <1>6, OwnSteps
<1>8. CASE SendFrame
  BY <1>8, SendStep
<1>9. CASE Read
  BY <1>9, ReadStep
<1>10. CASE DropReceiver
  <2>1. channel' = <<>> /\ received' = received /\ outbox' = outbox /\ buffered' = buffered
    BY <1>10 DEF DropReceiver, kept, sending
  <2>2. Len(channel') = 0
    BY <2>1
  <2> QED BY <1>0, <2>1, <2>2, RowEmpty DEF RowsTyped
<1>11. CASE Finish /\ ~Streaming
  <2>1. received' = Answer /\ channel' = channel /\ outbox' = outbox /\ buffered' = buffered
    BY <1>11 DEF Finish, kept, sending
  <2>2. Answer = Append(buffered, Stop) \/ Answer = <<Error>>
    BY DEF Answer
  <2>3. Append(buffered, Stop) \in Frames /\ <<Error>> \in Frames
    BY <1>0, AppendAt, RowOfOne, FrameKinds DEF RowsTyped
  <2> QED BY <1>0, <2>1, <2>2, <2>3 DEF RowsTyped
<1> QED
  BY <1>4, <1>5, <1>6, <1>8, <1>9, <1>10, <1>11 DEF Next, Driver, Receive, Guard

LEMMA TypeStep ==
  ASSUME TypeOK, Control, CommitIsAtHand, InboxIsAhead, [Next]_vars
  PROVE  TypeOK'
<1>1. RowTypes' /\ PlainTypes' /\ EncoderTypes'
  BY RowTypesStep, PlainTypesStep, EncoderStep
<1> QED BY <1>1 DEF TypeOK, RowTypes, PlainTypes, EncoderTypes, Frames

\* As long as the line leads somewhere, it stays whole.
LEMMA FlightStep ==
  ASSUME TypeOK, Control, CommitIsAtHand, InboxIsAhead, [Next]_vars, InFlight, LineIsWhole, InFlight'
  PROVE  LineIsWhole'
<1>0. RowsTyped
  BY TypeHalves DEF RowTypes, RowsTyped
<1>1. CASE \/ \E kind \in UpstreamKind : Produce(kind)
           \/ Leave \/ NotifyWaiters \/ DropHandler \/ Tick
           \/ Check \/ Enter \/ Await \/ Woken \/ Expire \/ Finalize
           \/ Finish /\ Streaming
           \/ Broken \/ EndOfStream \/ UNCHANGED vars
  BY <1>0, <1>1, CalmSteps, CalmLine
<1>2. CASE Translate \/ PassThrough \/ Collect
  BY <1>0, <1>2, EventStep, CalmLine, FitLine
<1>3. CASE SendKeepalive \/ BadPayload \/ Complete \/ Ended
  BY <1>0, <1>3, OwnSteps, CalmLine, FitLine
<1>5. CASE SendFrame
  BY <1>5, SendStep DEF InFlight
<1>6. CASE Read
  BY <1>6, ReadStep
<1>7. CASE DropReceiver \/ (Finish /\ ~Streaming)
  BY <1>7 DEF DropReceiver, Finish, Streaming, InFlight
<1> QED
  BY <1>1, <1>2, <1>3, <1>5, <1>6, <1>7 DEF Next, Driver, Receive, Guard

\* What is taken later is newer.
LEMMA TakenGrows ==
  ASSUME TypeOK, Control, InboxIsAhead, [Next]_vars
  PROVE  /\ Range(taken) \subseteq Range(taken')
         /\ \A n \in Range(taken'), m \in Range(taken) : n \notin Range(taken) => m < n
<1>1. CASE taken' = taken
  BY <1>1
<1>2. CASE Complete
  <2>1. taken = <<>>
    BY <1>2 DEF Complete, Control
  <2>2. Range(taken) = {}
    BY <2>1 DEF Range
  <2> QED BY <2>2
<1>3. ASSUME NEW kinds, Take(kinds)
      PROVE  /\ Range(taken) \subseteq Range(taken')
             /\ \A n \in Range(taken'), m \in Range(taken) : n \notin Range(taken) => m < n
  <2> DEFINE k == Head(inbox).number
  <2>1. \/ taken' = taken
        \/ Range(taken') = Range(taken) \cup {k} /\ \A n \in Range(taken) : n < k
    BY <1>3, TakesTheNext
  <2> HIDE DEF k
  <2>2. CASE taken' = taken
    BY <2>2
  <2>3. CASE Range(taken') = Range(taken) \cup {k} /\ \A n \in Range(taken) : n < k
    BY <2>3
  <2> QED BY <2>1, <2>2, <2>3
<1>4. CASE \E kind \in UpstreamKind : Produce(kind)
  BY <1>1, <1>4 DEF Produce, kept
<1> QED BY <1>1, <1>2, <1>3, <1>4, WhoReads

\* Who changes what was delivered or cuts the line.
LEMMA WhoSettles ==
  ASSUME TypeOK, Control, [Next]_vars
  PROVE  /\ mode' = mode
         /\ \/ DropReceiver \/ DropHandler \/ (Finish /\ ~Streaming)
            \/ /\ client' = "gone" <=> client = "gone"
               /\ mode = "aggregate" /\ stage' = "done" => stage = "done"
               /\ Read \/ SendFrame \/ (received' = received /\ channel' = channel)
<1>o. stage # "send" => outbox = <<>>
  BY DEF Control
<1>1. CASE (\E kind \in UpstreamKind : Produce(kind)) \/ Leave \/ NotifyWaiters \/ Tick
  BY <1>1 DEF Produce, Leave, NotifyWaiters, Tick, wire, peer
<1>2. CASE Check \/ Enter \/ Await \/ Woken \/ Expire
  BY <1>2 DEF Check, Enter, Await, Woken, Expire, Cancel, wire, peer
<1>3. CASE Translate \/ PassThrough \/ Collect \/ BadPayload \/ Broken \/ EndOfStream
  <2>1. \E kinds : Take(kinds)
    BY <1>3 DEF Translate, PassThrough, Collect, BadPayload, Broken, EndOfStream
  <2>2. mode' = mode /\ client' = client /\ received' = received /\ channel' = channel
    BY <2>1 DEF Take, wire, peer
  <2>3. stage' # "done"
    BY <1>3 DEF Translate, PassThrough, Collect, BadPayload, Broken, EndOfStream, SendThen
  <2> QED BY <2>2, <2>3
<1>4. CASE SendKeepalive \/ Complete \/ Ended
  <2>1. mode' = mode /\ client' = client /\ received' = received /\ channel' = channel
    BY <1>4 DEF SendKeepalive, Complete, Ended, wire, peer
  <2>2. stage' # "done"
    BY <1>4 DEF SendKeepalive, Complete, Ended, SendThen
  <2> QED BY <2>1, <2>2
<1>5. CASE SendFrame
  BY <1>5 DEF SendFrame, Control, Streaming, peer
<1>6. CASE Read
  BY <1>6 DEF Read, peer
<1>7. CASE Finalize
  <2>1. stage' = "trace" /\ mode' = mode /\ UNCHANGED <<wire, peer>>
    BY <1>7 DEF Finalize
  <2> QED BY <2>1 DEF wire, peer
<1>8. CASE Finish
  BY <1>8 DEF Finish, Streaming, peer
<1>9. CASE DropReceiver \/ DropHandler
  BY <1>9 DEF DropReceiver, DropHandler
<1>10. CASE UNCHANGED vars
  BY <1>10 DEF vars, wire, peer
<1> QED
  BY <1>1, <1>2, <1>3, <1>4, <1>5, <1>6, <1>7, <1>8, <1>9, <1>10
  DEF Next, Driver, Receive, Guard

\* The beginning of a whole line is in order.
LEMMA WholeBegins ==
  ASSUME RowsTyped, LineIsWhole, NEW s \in Frames, NEW t \in Frames, Line = s \o t
  PROVE  Follows(s, taken) /\ ErrorsLast(s) /\ (Ends(s) => terminalSeen)
<1>1. /\ Ordered(s \o t) /\ ErrorsLast(s \o t) /\ Shown(s \o t) = Range(taken)
      /\ Ends(s \o t) => terminalSeen
  BY DEF LineIsWhole
<1> QED BY <1>1, Beginning DEF Follows

LEMMA SettleStep ==
  ASSUME TypeOK, Control, CommitIsAtHand, InboxIsAhead, [Next]_vars,
         InFlight, LineIsWhole, ~InFlight'
  PROVE  Settled'
<1>0. RowsTyped /\ outbox \o buffered \in Frames /\ channel \o (outbox \o buffered) \in Frames
  <2>1. RowsTyped
    BY TypeHalves DEF RowTypes, RowsTyped
  <2>2. outbox \o buffered \in Frames
    BY <2>1, ConcatAt DEF RowsTyped
  <2> QED BY <2>1, <2>2, ConcatAt DEF RowsTyped
<1>1. DropReceiver \/ DropHandler \/ (Finish /\ ~Streaming)
  BY WhoSettles DEF InFlight
<1>2. Line = received \o (channel \o (outbox \o buffered))
  <2> DEFINE t == outbox \o buffered
  <2>1. t \in Seq(ClientFrame) /\ received \in Seq(ClientFrame) /\ channel \in Seq(ClientFrame)
    BY <1>0 DEF RowsTyped, Frames
  <2>2. Line = (received \o channel) \o t
    BY DEF Line, Delivered
  <2> HIDE DEF t
  <2>3. (received \o channel) \o t = received \o (channel \o t)
    BY <2>1, ConcatAssociative
  <2> QED BY <2>2, <2>3 DEF t
<1>3. Follows(received, taken) /\ ErrorsLast(received) /\ (Ends(received) => terminalSeen)
  BY <1>0, <1>2, WholeBegins DEF RowsTyped
<1>e. terminalSeen => terminalSeen'
  BY EncoderStep
<1>4. CASE DropReceiver \/ DropHandler
  <2>1. client' = "gone" /\ channel' = <<>> /\ received' = received /\ taken' = taken
    BY <1>4 DEF DropReceiver, DropHandler, Control, Streaming, kept, wire
  <2>2. Delivered' = received
    BY <1>0, <2>1, RowEmpty DEF Delivered, RowsTyped
  <2>3. Follows(Delivered', taken') /\ ErrorsLast(Delivered') /\ (Ends(Delivered') => terminalSeen')
    BY <1>3, <1>e, <2>1, <2>2
  <2>4. Settled' <=> /\ Follows(Delivered', taken') /\ ErrorsLast(Delivered')
                     /\ Ends(Delivered') => terminalSeen'
                     /\ client' = "gone" => channel' = <<>>
                     /\ client' # "gone" => SuccessIsComplete' /\ TruncationIsVisible'
    BY DEF Settled, Follows, ErrorsLast, Ends, Ordered, Shown, Range
  <2> QED BY <2>1, <2>3, <2>4
<1>5. CASE Finish /\ ~Streaming
  <2>1. /\ stage = "trace" /\ stage' = "done" /\ mode = "aggregate" /\ received' = Answer
        /\ channel' = channel /\ taken' = taken /\ client' = client /\ status' = status
    BY <1>5 DEF Finish, Streaming, kept, peer, result
  <2>2. outbox = <<>> /\ channel = <<>> /\ received = <<>> /\ client = "reading"
    BY <2>1 DEF Control
  <2>3. Line = buffered /\ buffered \in Frames
    BY <1>0, <2>2, RowEmpty DEF Line, Delivered, RowsTyped
  <2>4. /\ Ordered(buffered) /\ Shown(buffered) = Range(taken) /\ ErrorsLast(buffered)
        /\ status = "success" => ~Has(buffered, "error") /\ terminalSeen
    BY <2>1, <2>3 DEF LineIsWhole, Past
  <2>5. CASE status = "success"
    <3> DEFINE p == buffered \o <<Stop>>
    <3>1. Answer = p
      BY <2>3, <2>5, RowOfOne, FrameKinds DEF Answer
    <3>2. /\ p \in Frames /\ Ordered(p) /\ Shown(p) = Range(taken) /\ ErrorsLast(p)
          /\ Has(p, "stop") /\ ~Has(p, "error")
      <4>1. /\ <<Stop>> \in Frames /\ Ordered(<<Stop>>) /\ ErrorsLast(<<Stop>>) /\ Shown(<<Stop>>) = {}
            /\ Has(<<Stop>>, "stop") /\ ~Has(<<Stop>>, "error")
        BY OneTells, RowOfOne, FrameKinds
      <4> DEFINE f == <<Stop>>
      <4> HIDE DEF f
      <4>2. /\ f \in Frames /\ Ordered(f) /\ ErrorsLast(f) /\ Shown(f) = {}
            /\ Has(f, "stop") /\ ~Has(f, "error")
        BY <4>1 DEF f
      <4>3. buffered \o f \in Frames
        <5>1. buffered \in Frames /\ f \in Frames
          BY <2>3, <4>2
        <5> QED BY ONLY <5>1, ConcatAt
      <4>4. /\ Ordered(buffered \o f) /\ Shown(buffered \o f) = Range(taken) /\ ErrorsLast(buffered \o f)
            /\ Has(buffered \o f, "stop") /\ ~Has(buffered \o f, "error")
        <5>1. buffered \in Frames /\ f \in Frames
          BY <2>3, <4>2
        <5>2. /\ Ordered(buffered) /\ Shown(buffered) = Range(taken) /\ ErrorsLast(buffered)
              /\ ~Has(buffered, "error") /\ Ordered(f) /\ ErrorsLast(f) /\ Shown(f) = {}
              /\ Has(f, "stop") /\ ~Has(f, "error")
          BY <2>4, <2>5, <4>2
        <5>3. Ordered(buffered \o f) /\ ErrorsLast(buffered \o f)
          BY ONLY <5>1, <5>2, TwoRows
        <5>4. Shown(buffered \o f) = Shown(buffered) \cup Shown(f)
          BY ONLY <5>1, TwoRows
        <5>5. \A k : Has(buffered \o f, k) <=> Has(buffered, k) \/ Has(f, k)
          BY ONLY <5>1, TwoRows
        <5> QED BY ONLY <5>2, <5>3, <5>4, <5>5
      <4> QED BY <4>3, <4>4 DEF f
    <3> HIDE DEF p
    <3>3. Delivered' = p
      BY <2>1, <2>2, <3>1, <3>2, RowEmpty DEF Delivered
    <3>4. Ordered(Delivered)' /\ Shown(Delivered)' = Range(taken)' /\ ErrorsLast(Delivered)'
          /\ Has(Delivered, "stop")' /\ ~Has(Delivered, "error")'
      BY <2>1, <3>2, <3>3 DEF Ordered, Shown, ErrorsLast, Has, Range
    <3>5. Follows(Delivered, taken)' /\ Closed(Delivered)' /\ terminalSeen'
      <4>1. Follows(Delivered, taken)'
        BY <3>4 DEF Follows
      <4>2. mode' = "aggregate"
        BY <1>5, <2>1 DEF Finish
      <4>3. Closed(Delivered)'
        BY <3>4, <4>2 DEF Closed
      <4>4. terminalSeen'
        BY <1>e, <2>4, <2>5
      <4> QED BY <4>1, <4>3, <4>4
    <3> QED BY <2>1, <2>2, <2>5, <3>4, <3>5 DEF Settled, SuccessIsComplete, TruncationIsVisible
  <2>6. CASE status # "success"
    <3> DEFINE p == <<Error>>
    <3>1. Answer = p
      BY <2>6 DEF Answer
    <3>2. /\ p \in Frames /\ Ordered(p) /\ Shown(p) = {} /\ ErrorsLast(p) /\ Has(p, "error")
          /\ ~Ends(p)
      BY OneTells, RowOfOne, FrameKinds
    <3> HIDE DEF p
    <3>3. Delivered' = p
      BY <2>1, <2>2, <3>1, <3>2, RowEmpty DEF Delivered
    <3>4. Ordered(Delivered)' /\ Shown(Delivered)' = {} /\ ErrorsLast(Delivered)'
          /\ Has(Delivered, "error")' /\ ~Ends(Delivered)'
      BY <3>2, <3>3 DEF Ordered, Shown, ErrorsLast, Has, Ends
    <3>5. Follows(Delivered, taken)'
      BY <3>4 DEF Follows
    <3> QED BY <2>1, <2>2, <2>6, <3>4, <3>5 DEF Settled, SuccessIsComplete, TruncationIsVisible
  <2> QED BY <2>5, <2>6
<1> QED BY <1>1, <1>4, <1>5

\* Nothing changes what was delivered to a client that is gone or was answered.
LEMMA SettledStep ==
  ASSUME TypeOK, Control, CommitIsAtHand, InboxIsAhead, [Next]_vars, ~InFlight, Settled
  PROVE  ~InFlight' /\ Settled'
<1>0. /\ client \in {"reading", "flagged", "notified", "gone"} /\ RowsTyped
      /\ \A n \in Range(taken) : n \in Nat
  BY TypeHalves, ElementOfSeq, LenProperties DEF PlainTypes, RowTypes, RowsTyped, Range
<1>1. CASE client = "gone"
  <2>1. /\ mode' = mode
        /\ \/ client' = "gone" /\ (Read \/ SendFrame \/ (received' = received /\ channel' = channel))
           \/ DropReceiver \/ DropHandler \/ (Finish /\ ~Streaming)
    BY <1>1, WhoSettles
  <2>2. client' = "gone" /\ received' = received /\ channel' = channel
    <3>1. ~Read /\ ~DropReceiver /\ ~DropHandler /\ ~(Finish /\ ~Streaming)
      BY <1>1 DEF Read, DropReceiver, DropHandler, Finish, Streaming, Control
    <3>2. SendFrame => received' = received /\ channel' = channel
      BY <1>1 DEF SendFrame
    <3> QED BY <2>1, <3>1, <3>2
  <2>3. Delivered' = Delivered
    BY <2>2 DEF Delivered
  <2>4. /\ Follows(Delivered, taken) /\ ErrorsLast(Delivered) /\ channel = <<>>
        /\ Ends(Delivered) => terminalSeen
    BY <1>1 DEF Settled
  <2>e. Ends(Delivered)' => terminalSeen'
    BY <2>3, <2>4, EncoderStep DEF Ends
  <2>5. /\ Range(taken) \subseteq Range(taken')
        /\ \A n \in Range(taken'), m \in Range(taken) : n \notin Range(taken) => m < n
    BY TakenGrows
  <2>6. Range(taken') \subseteq Nat
    <3>1. taken' \in Seq(Nat)
      BY InboxStep
    <3> QED BY <3>1, ElementOfSeq, LenProperties DEF Range
  <2>7. Ordered(Delivered') /\ ErrorsLast(Delivered') /\ Shown(Delivered') = Shown(Delivered)
    BY <2>3, <2>4 DEF Follows
  <2>8. \A n \in Range(taken'), m \in Shown(Delivered) : n < m => n \in Shown(Delivered)
    <3>1. SUFFICES ASSUME NEW n \in Range(taken'), NEW m \in Shown(Delivered), n < m
                   PROVE  n \in Shown(Delivered)
      OBVIOUS
    <3>2. m \in Range(taken) /\ n \in Nat /\ m \in Nat
      BY <1>0, <2>4, <2>6 DEF Follows
    <3>3. n \in Range(taken)
      BY <2>5, <3>1, <3>2
    <3> QED BY <2>4, <3>1, <3>3 DEF Follows
  <2>9. Follows(Delivered', taken')
    BY <2>4, <2>5, <2>7, <2>8 DEF Follows
  <2>10. Follows(Delivered, taken)' /\ ErrorsLast(Delivered)'
    BY <2>7, <2>9 DEF Follows, ErrorsLast, Ordered, Shown, Range
  <2> QED BY <2>2, <2>4, <2>10, <2>e DEF Settled, InFlight
<1>2. CASE client # "gone"
  <2>1. mode = "aggregate" /\ stage = "done" /\ client = "reading" /\ channel = <<>>
    BY <1>2 DEF InFlight, Control
  <2>2. /\ mode' = mode /\ format' = format /\ stage' = stage /\ client' = client /\ status' = status
        /\ received' = received /\ channel' = channel /\ taken' = taken
        /\ terminalSeen' = terminalSeen
    <3>1. (\E kind \in UpstreamKind : Produce(kind)) \/ UNCHANGED vars
      BY <2>1 DEF Next, Read, Leave, DropHandler, Guard, NotifyWaiters, DropReceiver, Tick, Waiting,
                  Driver, Receive, Check, Enter, Await, Woken, SendKeepalive, Expire, Translate,
                  PassThrough, Collect, BadPayload, Broken, EndOfStream, Take, Complete, SendFrame,
                  Ended, Finalize, Finish, Streaming
    <3> QED BY <3>1 DEF Produce, vars, encoder, kept, wire, peer, result
  <2>3. Delivered' = Delivered
    BY <2>2 DEF Delivered
  <2>4. /\ Ordered(Delivered)' <=> Ordered(Delivered)
        /\ ErrorsLast(Delivered)' <=> ErrorsLast(Delivered)
        /\ Shown(Delivered)' = Shown(Delivered) /\ Range(taken)' = Range(taken)
        /\ Has(Delivered, "stop")' <=> Has(Delivered, "stop")
        /\ Has(Delivered, "error")' <=> Has(Delivered, "error")
        /\ Ends(Delivered)' <=> Ends(Delivered)
        /\ Closed(Delivered)' <=> Closed(Delivered)
    BY <2>2, <2>3 DEF Ordered, ErrorsLast, Shown, Range, Has, Ends, Closed
  <2> HIDE DEF Delivered
  <2>5. Follows(Delivered, taken)' <=> Follows(Delivered, taken)
    BY <2>4 DEF Follows
  <2>6. (SuccessIsComplete' <=> SuccessIsComplete) /\ (TruncationIsVisible' <=> TruncationIsVisible)
    BY <2>2, <2>4 DEF SuccessIsComplete, TruncationIsVisible, Finished
  <2> QED BY <1>2, <2>1, <2>2, <2>4, <2>5, <2>6 DEF Settled, InFlight
<1> QED BY <1>1, <1>2

LEMMA Step == IInv /\ [Next]_vars => IInv'
<1> SUFFICES ASSUME IInv, [Next]_vars PROVE IInv'
  OBVIOUS
<1>1. TypeOK /\ Control /\ CommitIsAtHand /\ InboxIsAhead
  BY DEF IInv
<1>2. TypeOK' /\ Control' /\ CommitIsAtHand' /\ InboxIsAhead'
  BY <1>1, TypeStep, ControlStep, CommitStep, InboxStep
<1>3. CASE InFlight
  <2>1. LineIsWhole
    BY <1>3 DEF IInv
  <2> QED BY <1>1, <1>2, <1>3, <2>1, FlightStep, SettleStep DEF IInv
<1>4. CASE ~InFlight
  <2>1. Settled
    BY <1>4 DEF IInv
  <2> QED BY <1>1, <1>2, <1>4, <2>1, SettledStep DEF IInv
<1> QED BY <1>3, <1>4

LEMMA Start == Init => IInv
<1> SUFFICES ASSUME Init PROVE IInv
  OBVIOUS
<1>0. /\ MaxFrames \in Nat \ {0, 1} /\ IdleTimeout \in Nat \ {0} /\ Keepalive \in Nat
      /\ Capacity \in Nat \ {0}
  BY ConstantsAssumption
<1>1. /\ mode \in Modes /\ silence = 0 /\ idleLeft = IdleTimeout /\ keepaliveLeft = 0
      /\ taken = <<>> /\ buffered = <<>> /\ outbox = <<>>
      /\ then = [stage |-> "top", cancel |-> TRUE]
      /\ channel = <<>> /\ received = <<>> /\ client = "reading" /\ woken = FALSE
      /\ status = "success" /\ blame = FALSE /\ terminalSeen = FALSE /\ committed = FALSE
      /\ verdict = "none" /\ live = TRUE /\ format \in Formats /\ finishSent = FALSE
  BY DEF Init
<1>2. /\ inbox \in Seq(UpstreamFrame) /\ produced = Len(inbox) /\ Len(inbox) \in 0..2
      /\ \A i \in 1..Len(inbox) : inbox[i].number = i
      /\ \/ /\ stage = "full" /\ mode # "passthrough" /\ inbox = <<>> /\ open = FALSE
            /\ produced = 0
         \/ /\ stage = "top" /\ open = TRUE /\ inbox # <<>>
            /\ \/ inbox[1].kind = "data"
               \/ inbox[1].kind = "start" /\ Len(inbox) >= 2 /\ inbox[2].kind = "data"
  <2>1. CASE stage = "full" /\ mode # "passthrough" /\ inbox = <<>> /\ open = FALSE /\ produced = 0
    BY <2>1
  <2>2. ASSUME stage = "top", open = TRUE, produced = Len(inbox),
               NEW kinds \in {<<"data">>, <<"start", "data">>},
               inbox = [i \in DOMAIN kinds |-> [kind |-> kinds[i], number |-> i, late |-> FALSE]]
        PROVE  /\ inbox \in Seq(UpstreamFrame) /\ Len(inbox) \in 0..2
               /\ \A i \in 1..Len(inbox) : inbox[i].number = i
               /\ inbox # <<>>
               /\ \/ inbox[1].kind = "data"
                  \/ inbox[1].kind = "start" /\ Len(inbox) >= 2 /\ inbox[2].kind = "data"
    <3>1. \/ kinds = <<"data">> \/ kinds = <<"start", "data">>
      BY <2>2
    <3>2. PICK n \in 1..2 :
            /\ DOMAIN kinds = 1..n /\ \A i \in 1..n : kinds[i] \in UpstreamKind
            /\ \/ n = 1 /\ kinds[1] = "data"
               \/ n = 2 /\ kinds[1] = "start" /\ kinds[2] = "data"
      <4>1. CASE kinds = <<"data">>
        <5>1. DOMAIN kinds = 1..1 /\ kinds[1] = "data" /\ 1 \in 1..2
          BY <4>1
        <5> QED BY <5>1 DEF UpstreamKind, Event
      <4>2. CASE kinds = <<"start", "data">>
        <5>1. DOMAIN kinds = 1..2 /\ kinds[1] = "start" /\ kinds[2] = "data" /\ 2 \in 1..2
          BY <4>2
        <5> QED BY <5>1 DEF UpstreamKind, Event
      <4> QED BY <3>1, <4>1, <4>2
    <3> DEFINE frame(i) == [kind |-> kinds[i], number |-> i, late |-> FALSE]
    <3>3. \A i \in 1..n : frame(i) \in UpstreamFrame
      <4>1. \A i \in 1..n : i \in 1..MaxFrames + 1
        BY <1>0
      <4> QED BY <3>2, <4>1 DEF UpstreamFrame
    <3>4. \A i \in 1..n : frame(i).kind = kinds[i] /\ frame(i).number = i
      OBVIOUS
    <3>5. inbox = [i \in DOMAIN kinds |-> frame(i)]
      BY <2>2
    <3> HIDE DEF frame
    <3>6. DOMAIN inbox = 1..n /\ \A i \in 1..n : inbox[i] = frame(i)
      BY <3>2, <3>5
    <3>7. inbox \in [1..n -> UpstreamFrame]
      BY <3>2, <3>3, <3>5
    <3>8. inbox \in Seq(UpstreamFrame) /\ Len(inbox) = n
      BY <3>6, <3>7, SeqDef, LenProperties
    <3>9. inbox # <<>>
      BY <3>8
    <3>10. 1 \in 1..n /\ (n = 2 => 2 \in 1..n)
      OBVIOUS
    <3> QED BY <3>2, <3>4, <3>6, <3>8, <3>9, <3>10
  <2> QED BY <2>1, <2>2 DEF Init
<1>3. Len(inbox) \in Nat /\ Len(inbox) <= MaxFrames /\ (Len(inbox) = 0 <=> inbox = <<>>)
  BY <1>0, <1>2, EmptySeq
<1>4. TypeOK
  <2>1. /\ produced \in 0..MaxFrames + 1 /\ silence \in 0..IdleTimeout
        /\ idleLeft \in 0..IdleTimeout /\ keepaliveLeft \in 0..Keepalive
    BY <1>0, <1>1, <1>2, <1>3
  <2>2. Len(channel) <= Capacity
    BY <1>0, <1>1
  <2>3. then \in [stage : Stage, cancel : BOOLEAN] /\ stage \in Stage
    BY <1>1, <1>2 DEF Stage
  <2>4. inbox \in Seq(UpstreamFrame) /\ open \in BOOLEAN
    BY <1>2
  <2>5. /\ taken \in Seq(Nat) /\ buffered \in Seq(ClientFrame) /\ outbox \in Seq(ClientFrame)
        /\ channel \in Seq(ClientFrame) /\ received \in Seq(ClientFrame)
    BY <1>1, EmptySeq
  <2>6. /\ client \in {"reading", "flagged", "notified", "gone"} /\ woken \in BOOLEAN
        /\ status \in {"success", "stream_error", "client_disconnect"}
        /\ blame \in BOOLEAN /\ terminalSeen \in BOOLEAN /\ committed \in BOOLEAN
        /\ verdict \in {"none", "success", "neutral", "failure"} /\ live \in BOOLEAN
        /\ mode \in Modes /\ format \in Formats /\ finishSent \in BOOLEAN
    BY <1>1
  <2> QED BY <2>1, <2>2, <2>3, <2>4, <2>5, <2>6 DEF TypeOK
<1>5. Control
  BY <1>1, <1>2 DEF Control, InLoop, AtEnd, Streaming
<1>6. CommitIsAtHand
  BY <1>1, <1>2 DEF CommitIsAtHand
<1>7. InboxIsAhead
  <2>1. Len(taken) = 0 /\ DOMAIN taken = 1..0
    BY <1>1
  <2>2. Ascending(taken)
    BY <2>1 DEF Ascending
  <2>3. \A i \in 1..Len(inbox) : inbox[i].number = produced - Len(inbox) + i
    BY <1>2, <1>3
  <2> QED BY <1>2, <1>3, <2>1, <2>2, <2>3 DEF InboxIsAhead
<1>8. InFlight /\ ~AtEnd /\ ~Past
  BY <1>1, <1>2 DEF InFlight, AtEnd, Past
<1>9. LineIsWhole
  <2>1. Line = <<>>
    BY <1>1 DEF Line, Delivered
  <2>2. Ordered(<<>>) /\ Shown(<<>>) = {} /\ ErrorsLast(<<>>) /\ ~Has(<<>>, "error") /\ ~Ends(<<>>)
    BY DEF Ordered, Shown, ErrorsLast, Has, Ends
  <2>3. Range(taken) = {}
    BY <1>1 DEF Range
  <2> HIDE DEF Line
  <2> QED BY <1>1, <1>8, <2>1, <2>2, <2>3 DEF LineIsWhole
<1> QED BY <1>4, <1>5, <1>6, <1>7, <1>8, <1>9 DEF IInv

LEMMA Truth == IInv => ClientSeesTheTruth
<1> SUFFICES ASSUME IInv PROVE ClientSeesTheTruth
  OBVIOUS
<1>1. /\ TypeOK /\ Control /\ CommitIsAtHand /\ InboxIsAhead /\ RowsTyped
      /\ mode \in Modes /\ status \in {"success", "stream_error", "client_disconnect"}
  BY TypeHalves DEF IInv, RowTypes, PlainTypes, RowsTyped
<1>2. Ascending(taken)
  BY <1>1 DEF InboxIsAhead
<1>3. CASE InFlight
  <2>1. LineIsWhole
    BY <1>3 DEF IInv
  <2>2. Delivered \in Frames /\ outbox \o buffered \in Frames
    BY <1>1, ConcatAt DEF RowsTyped, Delivered
  <2>3. Line = Delivered \o (outbox \o buffered)
    BY DEF Line
  <2> HIDE DEF Line, Delivered
  <2>4. Follows(Delivered, taken) /\ ErrorsLast(Delivered) /\ (Ends(Delivered) => terminalSeen)
    BY <1>1, <2>1, <2>2, <2>3, WholeBegins
  <2>5. ASSUME Finished, status # "client_disconnect"
        PROVE  Line = Delivered /\ Past /\ Streaming
    <3>1. stage = "done" /\ Streaming /\ outbox = <<>>
      BY <1>1, <1>3, <2>5 DEF Finished, InFlight, Control, Streaming
    <3>2. buffered = <<>>
      BY <1>1, <2>5, <3>1 DEF Control, CommitIsAtHand
    <3> QED BY <2>2, <2>3, <3>1, <3>2, RowEmpty DEF Past
  <2>6. SuccessIsComplete
    <3>1. SUFFICES ASSUME Finished, status = "success"
                   PROVE  Shown(Delivered) = Range(taken) /\ Closed(Delivered) /\ ~Has(Delivered, "error")
      BY DEF SuccessIsComplete
    <3>2. Line = Delivered /\ Past /\ Streaming
      BY <2>5, <3>1
    <3>3. Closed(Line)
      BY <1>1, <2>1, <3>1, <3>2, ConstantsAssumption DEF LineIsWhole, Closed, Streaming
    <3> QED BY <2>1, <3>1, <3>2, <3>3 DEF LineIsWhole
  <2>7. TruncationIsVisible
    BY <2>1, <2>4, <2>5 DEF TruncationIsVisible, LineIsWhole
  <2> QED BY <1>1, <1>2, <2>4, <2>6, <2>7 DEF ClientSeesTheTruth, InOrder
<1>4. CASE ~InFlight
  <2>1. Settled
    BY <1>4 DEF IInv
  <2>2. client = "gone" => ~Finished
    BY DEF Finished
  <2> QED BY <1>1, <1>2, <2>1, <2>2
          DEF Settled, ClientSeesTheTruth, InOrder, SuccessIsComplete, TruncationIsVisible
<1> QED BY <1>3, <1>4

-----------------------------------------------------------------------------
\* Whatever the upstream sends and whenever the client leaves: what the client has got is
\* the upstream's response in order without a gap; it has the regular end, by the rules of
\* its format, of a response that is logged as a success, with every frame; it is told of
\* an error in one that broke off, and gets no stop and no [DONE] before the error unless
\* the upstream had ended the response (drive_stream, drive_stream_passthrough, drive_aggregate, finalize_log).
THEOREM ClientAlwaysSeesTheTruth == Spec => []ClientSeesTheTruth
BY Start, Step, Truth, PTL DEF Spec

-----------------------------------------------------------------------------
(***************************************************************************)
(* The store of the signatures of tool calls.                              *)
(***************************************************************************)

StoreFields == {"at", "talk", "sig", "had", "found", "answer"}
StoreStages ==
  {"idle", "touch", "send", "expired", "fetch", "restore", "touched", "answered"}

\* Who is about to hand its signature to the worker, and which signatures have
\* still to reach SQLite.
Sending(r) == r.at \in {"touch", "send"}
Waits(s) ==
  \/ \E t \in Threads : Sending(thread[t]) /\ thread[t].sig = s
  \/ \E i \in 1..Len(jobs) : jobs[i].sig = s

\* What is stored under a key is what was captured with it.
Known(s) == s \in 1..Len(captured)
Kept(e, key) ==
  /\ Known(e.sig) /\ captured[e.sig].key = key
  /\ captured[e.sig].name = e.name /\ captured[e.sig].session = e.session
FitsTalk(e, talk) == e.name = talk.name /\ SessionFits(e.session, talk.session)

\* The order has one slot per key.
Distinct(q) == \A i, j \in 1..Len(q) : q[i] = q[j] => i = j
Slotted(key) == \E i \in 1..Len(order) : order[i] = key

PlaceInv ==
  /\ clock \in 0..MaxTime /\ writes \in 0..(PruneEvery - 1)
  /\ captured \in Seq(Talks) /\ Len(captured) <= MaxCaptures
  /\ DOMAIN thread = Threads
  /\ \A t \in Threads : DOMAIN thread[t] = StoreFields /\ thread[t].at \in StoreStages

\* RAM holds what was captured, and an entry has a slot or somebody about to give
\* it one.
CacheInv ==
  /\ order \in Seq(Keys) /\ Len(order) <= MaxRam /\ Distinct(order)
  /\ DOMAIN cache \subseteq Keys /\ \A key \in DOMAIN cache : Kept(cache[key], key)
  /\ \A key \in DOMAIN cache :
       \/ Slotted(key)
       \/ \E t \in Threads : thread[t].at \in {"touch", "touched"} /\ thread[t].talk.key = key

\* So does SQLite, where each signature is written once.
RowInv ==
  /\ DOMAIN rows \subseteq Keys
  /\ \A key \in DOMAIN rows :
       Kept(rows[key], key) /\ rows[key].till \in Nat /\ ~Waits(rows[key].sig)

\* Every signature is on its way to SQLite at one place at most.
JobInv ==
  /\ \E S : jobs \in Seq(S)
  /\ Len(jobs) <= MaxJobs
  /\ \A i \in 1..Len(jobs) : jobs[i].key \in Keys /\ Kept(jobs[i], jobs[i].key)
  /\ \A i, j \in 1..Len(jobs) : jobs[i].sig = jobs[j].sig => i = j
  /\ \A t, u \in Threads :
       Sending(thread[t]) /\ Sending(thread[u]) /\ thread[t].sig = thread[u].sig => t = u
  /\ \A t \in Threads, i \in 1..Len(jobs) : Sending(thread[t]) => thread[t].sig # jobs[i].sig

\* What a capture or a lookup has found out so far.
StoreThreadOk(r) ==
  /\ Sending(r) => r.talk \in Talks /\ Known(r.sig) /\ captured[r.sig] = r.talk
  /\ r.at = "restore" =>
       /\ r.talk.key \in Keys /\ r.answer = "compatible"
       /\ \A e \in r.found : Kept(e, r.talk.key) /\ FitsTalk(e, r.talk)
  /\ r.at = "touched" => r.talk.key \in Keys /\ r.answer = "compatible"
  /\ r.at \in {"touched", "answered"} /\ r.answer = "compatible" =>
       Known(r.sig) /\ captured[r.sig].key = r.talk.key /\ FitsTalk(captured[r.sig], r.talk)
  /\ r.at = "answered" /\ r.answer \in {"missing", "incompatible"} =>
       ~(LiveRow(r.talk.key) /\ rows[r.talk.key] \in r.had)
  /\ \A e \in r.had : Known(e.sig) /\ ~Waits(e.sig)
StoreThreadInv == \A t \in Threads : StoreThreadOk(thread[t])

StoreInv == PlaceInv /\ CacheInv /\ RowInv /\ JobInv /\ StoreThreadInv

\* Without its slot the queue keeps the slots of the others.
LEMMA OthersKept ==
  ASSUME NEW key \in Keys, order \in Seq(Keys), Distinct(order)
  PROVE  /\ Others(key) \in Seq(Keys) /\ Len(Others(key)) <= Len(order) /\ Distinct(Others(key))
         /\ \A i \in 1..Len(Others(key)) : Others(key)[i] # key
         /\ \A i \in 1..Len(order) :
              order[i] # key => \E j \in 1..Len(Others(key)) : Others(key)[j] = order[i]
<1>0. Len(order) \in Nat
  BY LenProperties
<1>1. CASE Slots(key) = {}
  BY <1>0, <1>1 DEF Others, Slots
<1>2. CASE Slots(key) # {}
  <2> DEFINE n == CHOOSE i \in Slots(key) : TRUE
             front == SubSeq(order, 1, n - 1)
             back == SubSeq(order, n + 1, Len(order))
  <2>1. n \in 1..Len(order) /\ order[n] = key
    BY <1>2 DEF Slots
  <2>2. Others(key) = front \o back
    BY <1>2 DEF Others, RemoveAt
  <2> HIDE DEF n
  <2>3. front \in Seq(Keys) /\ Len(front) = n - 1 /\ \A i \in 1..n - 1 : front[i] = order[i]
    BY <1>0, <2>1, SubSeqProperties
  <2>4. /\ back \in Seq(Keys) /\ Len(back) = Len(order) - n
        /\ \A i \in 1..Len(order) - n : back[i] = order[n + i]
    BY <1>0, <2>1, SubSeqProperties
  <2> HIDE DEF front, back
  <2>5. /\ front \o back \in Seq(Keys)
        /\ Len(front \o back) = Len(front) + Len(back)
        /\ \A i \in 1..Len(front) + Len(back) :
             (front \o back)[i] = IF i <= Len(front) THEN front[i] ELSE back[i - Len(front)]
    BY <2>3, <2>4, ConcatProperties
  <2>6. Len(front \o back) = Len(order) - 1
    BY <1>0, <2>1, <2>3, <2>4, <2>5
  <2>7. ASSUME NEW i \in 1..Len(order) - 1
        PROVE  (front \o back)[i] = order[IF i < n THEN i ELSE i + 1]
    <3>1. CASE i < n
      <4>1. i \in 1..n - 1 /\ i \in 1..Len(front) + Len(back) /\ i <= Len(front)
        BY <1>0, <2>1, <2>3, <2>4, <3>1
      <4> QED BY <2>3, <2>5, <3>1, <4>1
    <3>2. CASE ~(i < n)
      <4>1. /\ i \in 1..Len(front) + Len(back) /\ ~(i <= Len(front))
            /\ i - Len(front) \in 1..Len(order) - n /\ n + (i - Len(front)) = i + 1
        BY <1>0, <2>1, <2>3, <2>4, <3>2
      <4> QED BY <2>4, <2>5, <3>2, <4>1
    <3> QED BY <3>1, <3>2
  <2> DEFINE q == front \o back
  <2> HIDE DEF q
  <2>8. q \in Seq(Keys) /\ Len(q) = Len(order) - 1 /\ Others(key) = q
        /\ \A i \in 1..Len(order) - 1 : q[i] = order[IF i < n THEN i ELSE i + 1]
    BY <2>2, <2>5, <2>6, <2>7 DEF q
  <2>9. Distinct(q)
    <3> SUFFICES ASSUME NEW i \in 1..Len(q), NEW j \in 1..Len(q), q[i] = q[j] PROVE i = j
      BY DEF Distinct
    <3> DEFINE a == IF i < n THEN i ELSE i + 1
               b == IF j < n THEN j ELSE j + 1
    <3>1. a \in 1..Len(order) /\ b \in 1..Len(order) /\ (a = b => i = j)
      BY <1>0, <2>1, <2>8
    <3>2. order[a] = order[b]
      BY <2>8
    <3> HIDE DEF a, b
    <3> QED BY <3>1, <3>2 DEF Distinct
  <2>10. ASSUME NEW i \in 1..Len(q) PROVE q[i] # key
    <3> DEFINE a == IF i < n THEN i ELSE i + 1
    <3>1. a \in 1..Len(order) /\ a # n /\ q[i] = order[a]
      BY <1>0, <2>1, <2>8
    <3> HIDE DEF a
    <3> QED BY <2>1, <3>1 DEF Distinct
  <2>11. ASSUME NEW i \in 1..Len(order), order[i] # key PROVE \E j \in 1..Len(q) : q[j] = order[i]
    <3>1. CASE i < n
      <4>1. i \in 1..Len(q) /\ q[i] = order[i]
        BY <1>0, <2>1, <2>8, <3>1
      <4> QED BY <4>1
    <3>2. CASE ~(i < n)
      <4>1. i # n
        BY <2>1, <2>11
      <4>2. i - 1 \in 1..Len(q) /\ q[i - 1] = order[i]
        BY <1>0, <2>1, <2>8, <3>2, <4>1
      <4> QED BY <4>2
    <3> QED BY <3>1, <3>2
  <2> QED BY <1>0, <2>8, <2>9, <2>10, <2>11
<1> QED BY <1>1, <1>2

\* The key moves to the back of the queue.
LEMMA MovedToBack ==
  ASSUME NEW key \in Keys, order \in Seq(Keys), Distinct(order)
  PROVE  /\ Moved(key) \in Seq(Keys) /\ Len(Moved(key)) \in Nat \ {0} /\ Distinct(Moved(key))
         /\ Len(Moved(key)) <= Len(order) + 1 /\ Moved(key)[Len(Moved(key))] = key
         /\ \A i \in 1..Len(order) : \E j \in 1..Len(Moved(key)) : Moved(key)[j] = order[i]
<1> DEFINE o == Others(key)
           q == Append(o, key)
<1>1. /\ o \in Seq(Keys) /\ Len(o) <= Len(order) /\ Distinct(o)
      /\ \A i \in 1..Len(o) : o[i] # key
      /\ \A i \in 1..Len(order) : order[i] # key => \E j \in 1..Len(o) : o[j] = order[i]
  BY OthersKept
<1>2. Moved(key) = q
  BY DEF Moved
<1> HIDE DEF o
<1>3. Len(o) \in Nat /\ Len(order) \in Nat
  BY <1>1, LenProperties
<1>4. /\ q \in Seq(Keys) /\ Len(q) = Len(o) + 1 /\ q[Len(o) + 1] = key
      /\ \A i \in 1..Len(o) : q[i] = o[i]
  BY <1>1, <1>3, AppendProperties
<1> HIDE DEF q
<1>5. Distinct(q)
  BY <1>1, <1>3, <1>4 DEF Distinct
<1>6. ASSUME NEW i \in 1..Len(order) PROVE \E j \in 1..Len(q) : q[j] = order[i]
  <2>1. CASE order[i] = key
    BY <1>3, <1>4, <2>1
  <2>2. CASE order[i] # key
    <3>1. PICK j \in 1..Len(o) : o[j] = order[i]
      BY <1>1, <2>2
    <3> QED BY <1>3, <1>4, <3>1
  <2> QED BY <2>1, <2>2
<1> QED BY <1>1, <1>2, <1>3, <1>4, <1>5, <1>6

\* A touch keeps the queue's bound and gives the key a slot; what leaves the queue
\* leaves the cache.
LEMMA TouchQueues ==
  ASSUME NEW key \in Keys, order \in Seq(Keys), Distinct(order), TouchOrder(key)
  PROVE  /\ order' \in Seq(Keys) /\ Len(order') <= MaxRam /\ Distinct(order')
         /\ Slotted(key)'
         /\ DOMAIN cache' \subseteq DOMAIN cache /\ \A k \in DOMAIN cache' : cache'[k] = cache[k]
         /\ \A k \in DOMAIN cache' : Slotted(k) => Slotted(k)'
<1> DEFINE q == Moved(key)
           n == Surplus(q)
           rest == SubSeq(q, n + 1, Len(q))
<1>1. /\ q \in Seq(Keys) /\ Len(q) \in Nat \ {0} /\ Distinct(q) /\ q[Len(q)] = key
      /\ \A i \in 1..Len(order) : \E j \in 1..Len(q) : q[j] = order[i]
  BY MovedToBack
<1>2. order' = rest /\ cache' = Drop(cache, {q[i] : i \in 1..n})
  BY DEF TouchOrder
<1>3. n = IF Len(q) > MaxRam THEN Len(q) - MaxRam ELSE 0
  BY DEF Surplus
<1> HIDE DEF q, n
<1>4. n \in Nat /\ n < Len(q) /\ Len(q) - n <= MaxRam
  BY <1>1, <1>3, StoreBounds
<1>5. /\ rest \in Seq(Keys) /\ Len(rest) = Len(q) - n
      /\ \A i \in 1..Len(q) - n : rest[i] = q[n + i]
  <2>1. /\ rest \in Seq(Keys)
        /\ Len(rest) = IF n + 1 <= Len(q) THEN Len(q) - (n + 1) + 1 ELSE 0
        /\ \A i \in 1..Len(q) - (n + 1) + 1 : rest[i] = q[(n + 1) + i - 1]
    BY <1>1, <1>4, SubSeqProperties
  <2> HIDE DEF rest
  <2>2. Len(rest) = Len(q) - n
    BY <1>1, <1>4, <2>1
  <2>3. ASSUME NEW i \in 1..Len(q) - n PROVE rest[i] = q[n + i]
    <3>1. i \in 1..Len(q) - (n + 1) + 1 /\ (n + 1) + i - 1 = n + i
      BY <1>1, <1>4
    <3> QED BY <2>1, <3>1
  <2> QED BY <2>1, <2>2, <2>3
<1> HIDE DEF rest
<1>6. Distinct(rest)
  <2> SUFFICES ASSUME NEW i \in 1..Len(rest), NEW j \in 1..Len(rest), rest[i] = rest[j]
               PROVE  i = j
    BY DEF Distinct
  <2>1. n + i \in 1..Len(q) /\ n + j \in 1..Len(q) /\ q[n + i] = q[n + j]
    BY <1>1, <1>4, <1>5
  <2>2. n + i = n + j
    BY <1>1, <2>1 DEF Distinct
  <2> QED BY <1>4, <2>2
<1>7. Slotted(key)'
  <2>1. Len(q) - n \in 1..Len(rest) /\ rest[Len(q) - n] = key
    BY <1>1, <1>4, <1>5
  <2> QED BY <1>2, <2>1 DEF Slotted
<1>8. ASSUME NEW k \in DOMAIN cache', Slotted(k) PROVE Slotted(k)'
  <2>1. k \notin {q[i] : i \in 1..n}
    BY <1>2 DEF Drop
  <2>2. PICK j \in 1..Len(q) : q[j] = k
    BY <1>1, <1>8 DEF Slotted
  <2>3. j \notin 1..n
    BY <2>1, <2>2
  <2>4. j - n \in 1..Len(q) - n /\ n + (j - n) = j
    BY <1>1, <1>4, <2>2, <2>3
  <2>5. j - n \in 1..Len(rest) /\ rest[j - n] = k
    BY <1>5, <2>2, <2>4
  <2> QED BY <1>2, <2>5 DEF Slotted
<1>9. DOMAIN cache' \subseteq DOMAIN cache /\ \A k \in DOMAIN cache' : cache'[k] = cache[k]
  BY <1>2 DEF Drop
<1> QED BY <1>1, <1>2, <1>4, <1>5, <1>6, <1>7, <1>8, <1>9

\* Pruning takes rows away and changes none.
LEMMA PrunedKeeps ==
  ASSUME NEW f, NEW g \in Pruned(f)
  PROVE  DOMAIN g \subseteq DOMAIN f /\ \A k \in DOMAIN g : g[k] = f[k]
<1> DEFINE fresh == Drop(f, {k \in DOMAIN f : f[k].till < clock})
<1>1. g = fresh \/ \E gone : g = Drop(fresh, gone)
  BY DEF Pruned
<1>2. DOMAIN fresh \subseteq DOMAIN f /\ \A k \in DOMAIN fresh : fresh[k] = f[k]
  BY DEF Drop
<1> HIDE DEF fresh
<1> QED BY <1>1, <1>2 DEF Drop

-----------------------------------------------------------------------------
\* The steps of a lookup.
Looks(t) ==
  \/ \E talk \in Asks : LookupRam(t, talk)
  \/ RemoveExpired(t) \/ LookupSqlite(t) \/ LookupFails(t)
  \/ RestoreRow(t) \/ RestoreTouch(t) \/ DecryptFails(t) \/ Hydrated(t)

\* Every step is a thread's, the worker's, the clock's or a restart.
LEMMA StoreSteps ==
  ASSUME [StoreNext]_storeVars
  PROVE  \/ \E t \in Threads, talk \in Talks : CaptureInsert(t, talk)
         \/ \E t \in Threads : CaptureTouch(t) \/ CaptureSend(t) \/ Looks(t)
         \/ PersistOpaqueState \/ PersistFails \/ StoreTick \/ StoreRestart
         \/ UNCHANGED storeVars
BY Zenon DEF StoreNext, Looks

\* A thread's step moves that thread only.
LEMMA OneThreadMoves ==
  ASSUME DOMAIN thread = Threads, NEW t \in Threads, NEW rec, StoreAt(t, rec)
  PROVE  /\ DOMAIN thread' = Threads /\ thread'[t] = rec
         /\ \A u \in Threads : u # t => thread'[u] = thread[u]
BY DEF StoreAt

\* What RAM makes of a lookup: an expired entry, an answer, or nothing.
LEMMA RamAnswers ==
  ASSUME NEW t, NEW talk, LookupRam(t, talk)
  PROVE  LET key == talk.key
             lookup == [Resting EXCEPT !.talk = talk,
                          !.had = IF LiveRow(key) THEN {rows[key]} ELSE {}]
             answer == Identity(cache[key], talk)
         IN \/ StoreAt(t, [lookup EXCEPT !.at = "expired"])
            \/ /\ key \in DOMAIN cache
               /\ StoreAt(t, [lookup EXCEPT !.at = "answered", !.answer = answer,
                                !.sig = IF answer = "compatible" THEN cache[key].sig ELSE Nil])
            \/ StoreAt(t, [lookup EXCEPT !.at = "fetch"])
BY Zenon DEF LookupRam

\* A lookup sends nothing and leaves the jobs and the rows alone.
Quietly(t) ==
  /\ UNCHANGED <<clock, jobs, rows, writes, captured>>
  /\ DOMAIN thread' = Threads /\ \A u \in Threads : u # t => thread'[u] = thread[u]
  /\ DOMAIN thread'[t] = StoreFields /\ thread'[t].at \in StoreStages
  /\ ~Sending(thread'[t])

\* A thread that goes anywhere but into a capture moves alone.
LEMMA QuietMove ==
  ASSUME PlaceInv, NEW t \in Threads, NEW rec, StoreAt(t, rec),
         UNCHANGED <<clock, jobs, rows, writes, captured>>,
         DOMAIN rec = StoreFields, rec.at \in StoreStages \ {"touch", "send"}
  PROVE  Quietly(t)
BY OneThreadMoves DEF PlaceInv, Quietly, Sending

\* So does every step of a lookup.
LEMMA LookupMoves ==
  ASSUME PlaceInv, NEW t \in Threads, Looks(t)
  PROVE  Quietly(t)
<1>0. DOMAIN thread[t] = StoreFields
  BY DEF PlaceInv
<1>1. ASSUME NEW talk \in Asks, LookupRam(t, talk) PROVE Quietly(t)
  <2> DEFINE lookup == [Resting EXCEPT !.talk = talk,
                          !.had = IF LiveRow(talk.key) THEN {rows[talk.key]} ELSE {}]
             answer == Identity(cache[talk.key], talk)
             known == [lookup EXCEPT !.at = "answered", !.answer = answer,
                         !.sig = IF answer = "compatible" THEN cache[talk.key].sig ELSE Nil]
  <2>1. DOMAIN lookup = StoreFields
    BY DEF Resting, StoreFields
  <2>2. UNCHANGED <<clock, jobs, rows, writes, captured>>
    BY <1>1 DEF LookupRam
  <2>3. \/ StoreAt(t, [lookup EXCEPT !.at = "expired"]) \/ StoreAt(t, known)
        \/ StoreAt(t, [lookup EXCEPT !.at = "fetch"])
    BY <1>1, RamAnswers
  <2> HIDE DEF lookup, answer
  <2>4. /\ DOMAIN [lookup EXCEPT !.at = "expired"] = StoreFields
        /\ [lookup EXCEPT !.at = "expired"].at = "expired"
    BY <2>1 DEF StoreFields
  <2>5. /\ DOMAIN [lookup EXCEPT !.at = "fetch"] = StoreFields
        /\ [lookup EXCEPT !.at = "fetch"].at = "fetch"
    BY <2>1 DEF StoreFields
  <2>6. DOMAIN known = StoreFields /\ known.at = "answered"
    BY <2>1 DEF StoreFields
  <2> QED BY <2>2, <2>3, <2>4, <2>5, <2>6, QuietMove DEF StoreStages
<1>2. CASE RemoveExpired(t)
  <2> DEFINE rec == [thread[t] EXCEPT !.at = "fetch"]
  <2>1. UNCHANGED <<clock, jobs, rows, writes, captured>> /\ StoreAt(t, rec)
    BY <1>2 DEF RemoveExpired
  <2>2. DOMAIN rec = StoreFields /\ rec.at = "fetch"
    BY <1>0 DEF StoreFields
  <2> QED BY <2>1, <2>2, QuietMove DEF StoreStages
<1>3. CASE LookupSqlite(t)
  <2> DEFINE talk == thread[t].talk
             answer == Resolved(talk, FetchRows(talk))
             rec == [thread[t] EXCEPT !.at = IF answer = "compatible" THEN "restore" ELSE "answered",
                       !.answer = answer,
                       !.found = IF answer = "compatible" THEN {rows[talk.key]} ELSE {}]
  <2>1. UNCHANGED <<clock, jobs, rows, writes, captured>> /\ StoreAt(t, rec)
    BY <1>3 DEF LookupSqlite
  <2> HIDE DEF answer
  <2>2. DOMAIN rec = StoreFields /\ rec.at \in {"restore", "answered"}
    BY <1>0 DEF StoreFields
  <2> QED BY <2>1, <2>2, QuietMove DEF StoreStages
<1>4. CASE LookupFails(t)
  <2> DEFINE rec == [thread[t] EXCEPT !.at = "answered", !.answer = "missing", !.had = {}]
  <2>1. UNCHANGED <<clock, jobs, rows, writes, captured>> /\ StoreAt(t, rec)
    BY <1>4 DEF LookupFails
  <2>2. DOMAIN rec = StoreFields /\ rec.at = "answered"
    BY <1>0 DEF StoreFields
  <2> QED BY <2>1, <2>2, QuietMove DEF StoreStages
<1>5. CASE RestoreRow(t)
  <2>1. PICK s : UNCHANGED <<clock, jobs, rows, writes, captured>>
             /\ StoreAt(t, [thread[t] EXCEPT !.at = "touched", !.sig = s])
    BY <1>5 DEF RestoreRow
  <2> DEFINE rec == [thread[t] EXCEPT !.at = "touched", !.sig = s]
  <2>2. DOMAIN rec = StoreFields /\ rec.at = "touched"
    BY <1>0 DEF StoreFields
  <2> QED BY <2>1, <2>2, QuietMove DEF StoreStages
<1>6. CASE RestoreTouch(t)
  <2> DEFINE rec == [thread[t] EXCEPT !.at = "answered", !.found = {}]
  <2>1. UNCHANGED <<clock, jobs, rows, writes, captured>> /\ StoreAt(t, rec)
    BY <1>6 DEF RestoreTouch
  <2>2. DOMAIN rec = StoreFields /\ rec.at = "answered"
    BY <1>0 DEF StoreFields
  <2> QED BY <2>1, <2>2, QuietMove DEF StoreStages
<1>7. CASE DecryptFails(t)
  <2> DEFINE rec == [thread[t] EXCEPT !.at = "answered", !.answer = "unavailable", !.found = {}]
  <2>1. UNCHANGED <<clock, jobs, rows, writes, captured>> /\ StoreAt(t, rec)
    BY <1>7 DEF DecryptFails
  <2>2. DOMAIN rec = StoreFields /\ rec.at = "answered"
    BY <1>0 DEF StoreFields
  <2> QED BY <2>1, <2>2, QuietMove DEF StoreStages
<1>8. CASE Hydrated(t)
  <2>1. UNCHANGED <<clock, jobs, rows, writes, captured>> /\ StoreAt(t, Resting)
    BY <1>8 DEF Hydrated
  <2>2. DOMAIN Resting = StoreFields /\ Resting.at = "idle"
    BY DEF Resting, StoreFields
  <2> QED BY <2>1, <2>2, QuietMove DEF StoreStages
<1> QED BY <1>1, <1>2, <1>3, <1>4, <1>5, <1>6, <1>7, <1>8 DEF Looks

\* The history only grows.
LEMMA HistoryGrows ==
  ASSUME PlaceInv, [StoreNext]_storeVars
  PROVE  /\ captured' \in Seq(Talks) /\ Len(captured') <= MaxCaptures
         /\ \A s : Known(s) => Known(s)' /\ captured'[s] = captured[s]
<1>0. captured \in Seq(Talks) /\ Len(captured) \in Nat /\ Len(captured) <= MaxCaptures
  BY LenProperties DEF PlaceInv
<1>1. CASE UNCHANGED captured
  BY <1>0, <1>1 DEF Known
<1>2. ASSUME NEW t \in Threads, NEW talk \in Talks, CaptureInsert(t, talk)
      PROVE  /\ captured' \in Seq(Talks) /\ Len(captured') <= MaxCaptures
             /\ \A s : Known(s) => Known(s)' /\ captured'[s] = captured[s]
  <2>1. captured' = Append(captured, talk) /\ Len(captured) < MaxCaptures
    BY <1>2 DEF CaptureInsert
  <2>2. /\ captured' \in Seq(Talks) /\ Len(captured') = Len(captured) + 1
        /\ \A i \in 1..Len(captured) : captured'[i] = captured[i]
    BY <1>0, <2>1, AppendProperties
  <2> QED BY <1>0, <2>1, <2>2, StoreBounds DEF Known
<1>3. ASSUME NEW t \in Threads, CaptureTouch(t) \/ CaptureSend(t) \/ Looks(t)
      PROVE  UNCHANGED captured
  <2>1. CASE CaptureTouch(t)
    BY <2>1 DEF CaptureTouch
  <2>2. CASE CaptureSend(t)
    BY <2>2 DEF CaptureSend
  <2> QED BY <1>3, <2>1, <2>2, LookupMoves DEF Quietly
<1>4. CASE PersistOpaqueState \/ PersistFails \/ StoreTick \/ StoreRestart
  <2>1. UNCHANGED captured
    BY <1>4 DEF PersistOpaqueState, PersistFails, StoreTick, StoreRestart
  <2> QED BY <1>1, <2>1
<1>5. CASE UNCHANGED storeVars
  BY <1>1, <1>5 DEF storeVars
<1> QED BY <1>1, <1>2, <1>3, <1>4, <1>5, StoreSteps

\* The three steps of a capture.
LEMMA CaptureSteps ==
  ASSUME PlaceInv, NEW t \in Threads
  PROVE  /\ \A talk \in Talks : CaptureInsert(t, talk) =>
              /\ ~Known(Len(captured) + 1) /\ captured' = Append(captured, talk)
              /\ DOMAIN thread'[t] = StoreFields
              /\ thread'[t].at = "touch" /\ thread'[t].talk = talk
              /\ thread'[t].sig = Len(captured) + 1 /\ thread'[t].had = {}
              /\ UNCHANGED <<clock, order, jobs, rows, writes>>
         /\ CaptureTouch(t) =>
              /\ thread[t].at = "touch" /\ DOMAIN thread'[t] = StoreFields
              /\ thread'[t].at = "send" /\ thread'[t].talk = thread[t].talk
              /\ thread'[t].sig = thread[t].sig /\ thread'[t].had = thread[t].had
              /\ UNCHANGED <<clock, jobs, rows, writes, captured>>
         /\ CaptureSend(t) =>
              /\ thread[t].at = "send" /\ thread'[t] = Resting
              /\ UNCHANGED <<clock, cache, order, rows, writes, captured>>
         /\ (\E talk \in Talks : CaptureInsert(t, talk)) \/ CaptureTouch(t) \/ CaptureSend(t) =>
              DOMAIN thread' = Threads /\ \A u \in Threads : u # t => thread'[u] = thread[u]
<1>0. DOMAIN thread = Threads /\ DOMAIN thread[t] = StoreFields /\ Len(captured) \in Nat
  BY LenProperties DEF PlaceInv
<1>1. ASSUME NEW talk \in Talks, CaptureInsert(t, talk)
      PROVE  /\ ~Known(Len(captured) + 1) /\ captured' = Append(captured, talk)
             /\ DOMAIN thread'[t] = StoreFields
             /\ thread'[t].at = "touch" /\ thread'[t].talk = talk
             /\ thread'[t].sig = Len(captured) + 1 /\ thread'[t].had = {}
             /\ UNCHANGED <<clock, order, jobs, rows, writes>>
             /\ DOMAIN thread' = Threads /\ \A u \in Threads : u # t => thread'[u] = thread[u]
  <2> DEFINE sig == Len(captured) + 1
             rec == [Resting EXCEPT !.at = "touch", !.talk = talk, !.sig = sig]
  <2>1. /\ StoreAt(t, rec) /\ captured' = Append(captured, talk)
        /\ UNCHANGED <<clock, order, jobs, rows, writes>>
    BY <1>1 DEF CaptureInsert
  <2>2. /\ DOMAIN rec = StoreFields /\ rec.at = "touch" /\ rec.talk = talk
        /\ rec.sig = sig /\ rec.had = {}
    BY DEF Resting, StoreFields
  <2> HIDE DEF rec
  <2>3. DOMAIN thread' = Threads /\ thread'[t] = rec /\ \A u \in Threads : u # t => thread'[u] = thread[u]
    BY <1>0, <2>1, OneThreadMoves
  <2>4. ~Known(sig)
    BY <1>0 DEF Known
  <2> QED BY <2>1, <2>2, <2>3, <2>4
<1>2. ASSUME CaptureTouch(t)
      PROVE  /\ thread[t].at = "touch" /\ DOMAIN thread'[t] = StoreFields
             /\ thread'[t].at = "send" /\ thread'[t].talk = thread[t].talk
             /\ thread'[t].sig = thread[t].sig /\ thread'[t].had = thread[t].had
             /\ UNCHANGED <<clock, jobs, rows, writes, captured>>
             /\ DOMAIN thread' = Threads /\ \A u \in Threads : u # t => thread'[u] = thread[u]
  <2> DEFINE rec == [thread[t] EXCEPT !.at = "send"]
  <2>1. /\ StoreAt(t, rec) /\ thread[t].at = "touch"
        /\ UNCHANGED <<clock, jobs, rows, writes, captured>>
    BY <1>2 DEF CaptureTouch
  <2>2. /\ DOMAIN rec = StoreFields /\ rec.at = "send" /\ rec.talk = thread[t].talk
        /\ rec.sig = thread[t].sig /\ rec.had = thread[t].had
    BY <1>0 DEF StoreFields
  <2> HIDE DEF rec
  <2>3. DOMAIN thread' = Threads /\ thread'[t] = rec /\ \A u \in Threads : u # t => thread'[u] = thread[u]
    BY <1>0, <2>1, OneThreadMoves
  <2> QED BY <2>1, <2>2, <2>3
<1>3. ASSUME CaptureSend(t)
      PROVE  /\ thread[t].at = "send" /\ thread'[t] = Resting
             /\ UNCHANGED <<clock, cache, order, rows, writes, captured>>
             /\ DOMAIN thread' = Threads /\ \A u \in Threads : u # t => thread'[u] = thread[u]
  <2>1. /\ StoreAt(t, Resting) /\ thread[t].at = "send"
        /\ UNCHANGED <<clock, cache, order, rows, writes, captured>>
    BY <1>3 DEF CaptureSend
  <2> QED BY <1>0, <2>1, OneThreadMoves
<1> QED BY <1>1, <1>2, <1>3

\* A signature that is known comes to wait for the worker at no later time.
LEMMA WaitsShrink ==
  ASSUME PlaceInv, JobInv, [StoreNext]_storeVars, NEW s, Known(s), Waits(s)'
  PROVE  Waits(s)
<1>0. PICK S : jobs \in Seq(S)
  BY DEF JobInv
<1>a. Len(jobs) \in Nat
  BY <1>0, LenProperties
<1>1. CASE UNCHANGED <<thread, jobs>>
  BY <1>1 DEF Waits, Sending
<1>2. ASSUME NEW t \in Threads, NEW talk \in Talks, CaptureInsert(t, talk) PROVE Waits(s)
  <2>1. /\ ~Known(Len(captured) + 1) /\ thread'[t].sig = Len(captured) + 1 /\ jobs' = jobs
        /\ \A u \in Threads : u # t => thread'[u] = thread[u]
    BY <1>2, CaptureSteps
  <2> QED BY <2>1 DEF Waits, Sending
<1>3. ASSUME NEW t \in Threads, CaptureTouch(t) PROVE Waits(s)
  <2>1. /\ Sending(thread[t]) /\ thread'[t].sig = thread[t].sig /\ jobs' = jobs
        /\ \A u \in Threads : u # t => thread'[u] = thread[u]
    BY <1>3, CaptureSteps DEF Sending
  <2> QED BY <2>1 DEF Waits, Sending
<1>4. ASSUME NEW t \in Threads, CaptureSend(t) PROVE Waits(s)
  <2>1. /\ Sending(thread[t]) /\ thread'[t] = Resting
        /\ \A u \in Threads : u # t => thread'[u] = thread[u]
    BY <1>4, CaptureSteps DEF Sending
  <2>2. \A u \in Threads : Sending(thread'[u]) => u # t /\ thread'[u] = thread[u]
    BY <2>1 DEF Sending, Resting
  <2>3. jobs' = jobs \/ jobs' = Append(jobs, DurabilityWrite(t))
    BY <1>4 DEF CaptureSend
  <2>4. \/ \E u \in Threads : Sending(thread'[u]) /\ thread'[u].sig = s
        \/ \E i \in 1..Len(jobs') : jobs'[i].sig = s
    BY DEF Waits
  <2>5. CASE \E u \in Threads : Sending(thread'[u]) /\ thread'[u].sig = s
    BY <2>2, <2>5 DEF Waits
  <2>6. CASE \E i \in 1..Len(jobs') : jobs'[i].sig = s
    <3>1. CASE jobs' = jobs
      BY <2>6, <3>1 DEF Waits
    <3>2. CASE jobs' = Append(jobs, DurabilityWrite(t))
      <4>1. /\ Len(jobs') = Len(jobs) + 1 /\ jobs'[Len(jobs) + 1] = DurabilityWrite(t)
            /\ \A i \in 1..Len(jobs) : jobs'[i] = jobs[i]
        <5>1. jobs \in Seq(S \cup {DurabilityWrite(t)})
          BY <1>0, SeqMonotonic
        <5> QED BY <3>2, <5>1, AppendProperties
      <4>2. DurabilityWrite(t).sig = thread[t].sig
        BY DEF DurabilityWrite
      <4>3. PICK i \in 1..Len(jobs') : jobs'[i].sig = s
        BY <2>6
      <4>4. CASE i \in 1..Len(jobs)
        BY <4>1, <4>3, <4>4 DEF Waits
      <4>5. CASE i = Len(jobs) + 1
        BY <2>1, <4>1, <4>2, <4>3, <4>5 DEF Waits
      <4> QED BY <1>a, <4>1, <4>4, <4>5
    <3> QED BY <2>3, <3>1, <3>2
  <2> QED BY <2>4, <2>5, <2>6
<1>5. ASSUME NEW t \in Threads, Looks(t) PROVE Waits(s)
  <2>1. Quietly(t)
    BY <1>5, LookupMoves
  <2>2. jobs' = jobs /\ \A u \in Threads : Sending(thread'[u]) => thread'[u] = thread[u]
    BY <2>1 DEF Quietly
  <2> QED BY <2>2 DEF Waits, Sending
<1>6. CASE PersistOpaqueState \/ PersistFails
  <2>1. jobs # << >> /\ jobs' = Tail(jobs) /\ thread' = thread
    BY <1>6 DEF PersistOpaqueState, PersistFails
  <2>2. Len(jobs') = Len(jobs) - 1 /\ \A i \in 1..Len(jobs') : jobs'[i] = jobs[i + 1]
    BY <1>0, <2>1, HeadTailProperties
  <2>3. CASE \E u \in Threads : Sending(thread'[u]) /\ thread'[u].sig = s
    BY <2>1, <2>3 DEF Waits
  <2>4. ASSUME NEW i \in 1..Len(jobs'), jobs'[i].sig = s PROVE Waits(s)
    <3>1. i + 1 \in 1..Len(jobs) /\ jobs[i + 1].sig = s
      BY <1>a, <2>2, <2>4
    <3> QED BY <3>1 DEF Waits
  <2> QED BY <2>3, <2>4 DEF Waits
<1>7. CASE StoreTick \/ UNCHANGED storeVars
  BY <1>1, <1>7 DEF StoreTick, storeVars
<1>8. CASE StoreRestart
  <2>1. jobs' = << >> /\ \A u \in Threads : ~Sending(thread'[u])
    BY <1>8 DEF StoreRestart, Resting, Sending
  <2> QED BY <2>1 DEF Waits
<1> QED BY <1>2, <1>3, <1>4, <1>5, <1>6, <1>7, <1>8, StoreSteps

-----------------------------------------------------------------------------
\* What is kept stays kept.
LEMMA KeptStays ==
  ASSUME PlaceInv, [StoreNext]_storeVars, NEW e, NEW key, Kept(e, key)
  PROVE  Kept(e, key)'
BY HistoryGrows DEF Kept

\* A new entry has its thread until it has its slot.
LEMMA EntryComes ==
  ASSUME PlaceInv, CacheInv, [StoreNext]_storeVars, NEW t \in Threads, NEW key \in Keys, NEW e,
         Kept(e, key)', cache' = With(cache, key, e), order' = order,
         thread[t].at \notin {"touch", "touched"},
         thread'[t].at \in {"touch", "touched"}, thread'[t].talk.key = key,
         \A u \in Threads : u # t => thread'[u] = thread[u]
  PROVE  CacheInv'
<1>1. DOMAIN cache' = DOMAIN cache \cup {key}
      /\ cache'[key] = e /\ \A k \in DOMAIN cache : k # key => cache'[k] = cache[k]
  BY DEF With
<1>2. ASSUME NEW k \in DOMAIN cache' PROVE Kept(cache[k], k)'
  <2>1. CASE k = key
    BY <1>1, <2>1 DEF Kept
  <2>2. CASE k # key
    <3>1. cache'[k] = cache[k] /\ Kept(cache[k], k)
      BY <1>1, <2>2 DEF CacheInv
    <3>2. PICK c : c = cache[k] /\ c = cache'[k]
      BY <3>1
    <3>3. Kept(c, k)'
      BY <3>1, <3>2, KeptStays
    <3> QED BY <3>2, <3>3 DEF Kept
  <2> QED BY <2>1, <2>2
<1>3. ASSUME NEW k \in DOMAIN cache'
      PROVE  \/ Slotted(k)'
             \/ \E u \in Threads : thread'[u].at \in {"touch", "touched"} /\ thread'[u].talk.key = k
  <2>1. CASE k = key
    BY <2>1
  <2>2. CASE k # key
    <3>1. k \in DOMAIN cache
      BY <1>1, <2>2
    <3> QED BY <3>1 DEF CacheInv, Slotted
  <2> QED BY <2>1, <2>2
<1> QED BY <1>1, <1>2, <1>3 DEF CacheInv

\* Entries may go at any time, as long as whoever is about to queue one does.
LEMMA EntriesGo ==
  ASSUME PlaceInv, CacheInv, [StoreNext]_storeVars, NEW t \in Threads,
         DOMAIN cache' \subseteq DOMAIN cache, \A k \in DOMAIN cache' : cache'[k] = cache[k],
         order' \in Seq(Keys), Len(order') <= MaxRam, Distinct(order'),
         \A k \in DOMAIN cache' : Slotted(k) => Slotted(k)',
         NEW key, thread[t].at \in {"touch", "touched"} => thread[t].talk.key = key /\ Slotted(key)',
         \A u \in Threads : u # t => thread'[u] = thread[u]
  PROVE  CacheInv'
<1>2. ASSUME NEW k \in DOMAIN cache' PROVE Kept(cache[k], k)'
  <2>1. cache'[k] = cache[k] /\ Kept(cache[k], k)
    BY DEF CacheInv
  <2>2. PICK c : c = cache[k] /\ c = cache'[k]
    BY <2>1
  <2>3. Kept(c, k)'
    BY <2>1, <2>2, KeptStays
  <2> QED BY <2>2, <2>3 DEF Kept
<1>3. ASSUME NEW k \in DOMAIN cache'
      PROVE  \/ Slotted(k)'
             \/ \E u \in Threads : thread'[u].at \in {"touch", "touched"} /\ thread'[u].talk.key = k
  <2>1. k \in DOMAIN cache
    OBVIOUS
  <2>2. CASE Slotted(k)
    BY <2>2
  <2>3. ASSUME NEW u \in Threads, thread[u].at \in {"touch", "touched"}, thread[u].talk.key = k
        PROVE  Slotted(k)' \/ (thread'[u].at \in {"touch", "touched"} /\ thread'[u].talk.key = k)
    <3>1. CASE u = t
      BY <2>3, <3>1
    <3>2. CASE u # t
      BY <2>3, <3>2
    <3> QED BY <3>1, <3>2
  <2> QED BY <2>1, <2>2, <2>3 DEF CacheInv
<1>4. DOMAIN cache' \subseteq Keys
  BY DEF CacheInv
<1>5. Distinct(order)'
  BY DEF Distinct
<1> QED BY <1>2, <1>3, <1>4, <1>5 DEF CacheInv

\* Every step keeps the cache and its queue in order.
LEMMA CacheStep ==
  ASSUME StoreInv, [StoreNext]_storeVars
  PROVE  CacheInv'
<1>0. PlaceInv /\ CacheInv /\ \A t \in Threads : StoreThreadOk(thread[t])
  BY DEF StoreInv, StoreThreadInv
<1>o. order \in Seq(Keys) /\ Len(order) <= MaxRam /\ Distinct(order)
  BY <1>0 DEF CacheInv
<1>1. ASSUME NEW t \in Threads, NEW talk \in Talks, CaptureInsert(t, talk) PROVE CacheInv'
  <2> DEFINE sig == Len(captured) + 1
             e == CachedState(sig, talk.name, talk.session)
  <2>1. /\ thread'[t].at = "touch" /\ thread'[t].talk = talk /\ order' = order
        /\ captured' = Append(captured, talk)
        /\ \A u \in Threads : u # t => thread'[u] = thread[u]
    BY <1>0, <1>1, CaptureSteps
  <2>2. cache' = With(cache, talk.key, e) /\ thread[t].at = "idle"
    BY <1>1 DEF CaptureInsert
  <2>3. talk.key \in Keys
    BY DEF Keys
  <2>4. sig \in 1..Len(captured') /\ captured'[sig] = talk
    <3>1. captured \in Seq(Talks) /\ Len(captured) \in Nat
      BY <1>0, LenProperties DEF PlaceInv
    <3> QED BY <2>1, <3>1, AppendProperties
  <2>5. e.sig = sig /\ e.name = talk.name /\ e.session = talk.session
    BY DEF CachedState
  <2> HIDE DEF e, sig
  <2>6. PICK c : c = e
    OBVIOUS
  <2>7. Kept(c, talk.key)'
    BY <2>4, <2>5, <2>6 DEF Kept, Known
  <2> QED BY <1>0, <2>1, <2>2, <2>3, <2>6, <2>7, EntryComes
<1>2. ASSUME NEW t \in Threads, CaptureTouch(t) PROVE CacheInv'
  <2>1. \A u \in Threads : u # t => thread'[u] = thread[u]
    BY <1>0, <1>2, CaptureSteps
  <2>2. thread[t].at = "touch" /\ TouchOrder(thread[t].talk.key)
    BY <1>2 DEF CaptureTouch
  <2>3. PICK key \in Keys : key = thread[t].talk.key
    BY <1>0, <2>2 DEF StoreThreadOk, Sending, Keys
  <2>4. /\ order' \in Seq(Keys) /\ Len(order') <= MaxRam /\ Distinct(order')
        /\ Slotted(key)'
        /\ DOMAIN cache' \subseteq DOMAIN cache /\ \A k \in DOMAIN cache' : cache'[k] = cache[k]
        /\ \A k \in DOMAIN cache' : Slotted(k) => Slotted(k)'
    BY <1>o, <2>2, <2>3, TouchQueues
  <2>5. thread[t].talk.key = key
    BY <2>3
  <2> QED BY <1>0, <2>1, <2>4, <2>5, EntriesGo
<1>3. ASSUME NEW t \in Threads, RestoreTouch(t) PROVE CacheInv'
  <2>1. \A u \in Threads : u # t => thread'[u] = thread[u]
    BY <1>0, <1>3, LookupMoves DEF Looks, Quietly
  <2>2. thread[t].at = "touched" /\ TouchOrder(thread[t].talk.key)
    BY <1>3 DEF RestoreTouch
  <2>3. PICK key \in Keys : key = thread[t].talk.key
    BY <1>0, <2>2 DEF StoreThreadOk
  <2>4. /\ order' \in Seq(Keys) /\ Len(order') <= MaxRam /\ Distinct(order')
        /\ Slotted(key)'
        /\ DOMAIN cache' \subseteq DOMAIN cache /\ \A k \in DOMAIN cache' : cache'[k] = cache[k]
        /\ \A k \in DOMAIN cache' : Slotted(k) => Slotted(k)'
    BY <1>o, <2>2, <2>3, TouchQueues
  <2> QED BY <1>0, <2>1, <2>3, <2>4, EntriesGo
<1>4. ASSUME NEW t \in Threads, RestoreRow(t) PROVE CacheInv'
  <2>1. /\ order' = order /\ \A u \in Threads : u # t => thread'[u] = thread[u]
    BY <1>0, <1>4, LookupMoves DEF Looks, Quietly, RestoreRow
  <2>2. PICK e \in thread[t].found :
          /\ thread[t].at = "restore"
          /\ cache' = With(cache, thread[t].talk.key, CachedState(e.sig, e.name, e.session))
          /\ StoreAt(t, [thread[t] EXCEPT !.at = "touched", !.sig = e.sig])
    BY <1>4 DEF RestoreRow
  <2>3. PICK key \in Keys : key = thread[t].talk.key /\ Kept(e, key)
    BY <1>0, <2>2 DEF StoreThreadOk
  <2>4. PICK c : c = CachedState(e.sig, e.name, e.session)
    OBVIOUS
  <2>5. Kept(c, key)
    BY <2>3, <2>4 DEF Kept, CachedState
  <2>6. Kept(c, key)'
    BY <1>0, <2>5, KeptStays
  <2>7. thread'[t].at = "touched" /\ thread'[t].talk = thread[t].talk
    <3> DEFINE rec == [thread[t] EXCEPT !.at = "touched", !.sig = e.sig]
    <3>1. DOMAIN thread = Threads /\ DOMAIN thread[t] = StoreFields
      BY <1>0 DEF PlaceInv
    <3>2. rec.at = "touched" /\ rec.talk = thread[t].talk
      BY <3>1 DEF StoreFields
    <3> HIDE DEF rec
    <3>3. thread'[t] = rec
      BY <2>2, <3>1, OneThreadMoves DEF rec
    <3> QED BY <3>2, <3>3
  <2> QED BY <1>0, <2>1, <2>2, <2>3, <2>4, <2>6, <2>7, EntryComes
<1>5. ASSUME NEW t \in Threads, CaptureSend(t) \/ (Looks(t) /\ ~RestoreTouch(t) /\ ~RestoreRow(t))
      PROVE  CacheInv'
  <2>1. \A u \in Threads : u # t => thread'[u] = thread[u]
    BY <1>0, <1>5, CaptureSteps, LookupMoves DEF Quietly
  <2>2. order' = order /\ thread[t].at \notin {"touch", "touched"}
    BY <1>5 DEF CaptureSend, Looks, LookupRam, RemoveExpired, LookupSqlite, LookupFails,
                DecryptFails, Hydrated
  <2>3. cache' = cache \/ cache' = Drop(cache, {thread[t].talk.key})
    BY <1>5 DEF CaptureSend, Looks, LookupRam, RemoveExpired, LookupSqlite, LookupFails,
                DecryptFails, Hydrated
  <2>4. DOMAIN cache' \subseteq DOMAIN cache /\ \A k \in DOMAIN cache' : cache'[k] = cache[k]
    BY <2>3 DEF Drop
  <2>5. \A k : Slotted(k) => Slotted(k)'
    BY <2>2 DEF Slotted
  <2>6. PICK key : key = Nil
    OBVIOUS
  <2> QED BY <1>0, <1>o, <2>1, <2>2, <2>4, <2>5, EntriesGo
<1>6. CASE UNCHANGED <<cache, order, thread>>
  <2>1. ASSUME NEW k \in DOMAIN cache' PROVE Kept(cache[k], k)'
    <3>1. PICK c : c = cache[k] /\ c = cache'[k]
      BY <1>6
    <3>2. Kept(c, k)'
      BY <1>0, <1>6, <3>1, KeptStays DEF CacheInv
    <3> QED BY <3>1, <3>2 DEF Kept
  <2> QED BY <1>0, <1>6, <2>1 DEF CacheInv, Slotted, Distinct
<1>7. CASE PersistOpaqueState \/ PersistFails \/ StoreTick \/ UNCHANGED storeVars
  <2>1. UNCHANGED <<cache, order, thread>>
    BY <1>7 DEF PersistOpaqueState, PersistFails, StoreTick, storeVars
  <2> QED BY <1>6, <2>1
<1>8. CASE StoreRestart
  <2>1. cache' = << >> /\ order' = << >>
    BY <1>8 DEF StoreRestart
  <2>2. order' \in Seq(Keys) /\ Len(order') = 0 /\ DOMAIN cache' = {}
    BY <2>1
  <2> QED BY <2>2, StoreBounds DEF CacheInv, Distinct
<1> QED BY <1>1, <1>2, <1>3, <1>4, <1>5, <1>7, <1>8, StoreSteps

-----------------------------------------------------------------------------
\* A row was there before, or the worker has just written the first job.
LEMMA RowsCome ==
  ASSUME PlaceInv, [StoreNext]_storeVars, NEW key \in DOMAIN rows'
  PROVE  \/ key \in DOMAIN rows /\ rows'[key] = rows[key]
         \/ /\ jobs # << >> /\ key = Head(jobs).key
            /\ rows'[key].sig = Head(jobs).sig /\ rows'[key].name = Head(jobs).name
            /\ rows'[key].session = Head(jobs).session /\ rows'[key].till \in Nat
            /\ jobs' = Tail(jobs) /\ thread' = thread /\ captured' = captured
<1>1. CASE UNCHANGED rows
  BY <1>1
<1>2. CASE PersistOpaqueState
  <2> DEFINE job == Head(jobs)
             new == [sig |-> job.sig, name |-> job.name, session |-> job.session,
                     made |-> clock, till |-> clock + RowTtl]
             next == With(rows, job.key, new)
  <2>1. /\ jobs # << >> /\ jobs' = Tail(jobs) /\ thread' = thread /\ captured' = captured
        /\ rows' \in Pruned(next) \/ rows' = next
    BY <1>2 DEF PersistOpaqueState, Upserted
  <2>2. \A k \in DOMAIN next : \/ k = job.key /\ next[k] = new
                               \/ k \in DOMAIN rows /\ next[k] = rows[k]
    BY DEF With
  <2>3. new.till \in Nat
    BY StoreBounds DEF PlaceInv
  <2>4. new.sig = job.sig /\ new.name = job.name /\ new.session = job.session
    OBVIOUS
  <2> HIDE DEF new, next
  <2>5. key \in DOMAIN next /\ rows'[key] = next[key]
    BY <2>1, PrunedKeeps
  <2>6. CASE key = job.key /\ next[key] = new
    BY <2>1, <2>3, <2>4, <2>5, <2>6
  <2>7. CASE key \in DOMAIN rows /\ next[key] = rows[key]
    BY <2>5, <2>7
  <2> QED BY <2>2, <2>5, <2>6, <2>7
<1>3. CASE PersistFails
  <2>1. rows' \in Pruned(rows) \/ rows' = rows
    BY <1>3 DEF PersistFails
  <2> QED BY <2>1, PrunedKeeps
<1>4. ASSUME NEW t \in Threads, CaptureTouch(t) \/ CaptureSend(t) \/ Looks(t) PROVE UNCHANGED rows
  BY <1>4, CaptureSteps, LookupMoves DEF Quietly
<1>5. ASSUME NEW t \in Threads, NEW talk \in Talks, CaptureInsert(t, talk) PROVE UNCHANGED rows
  BY <1>5, CaptureSteps
<1>6. CASE StoreTick \/ StoreRestart \/ UNCHANGED storeVars
  BY <1>1, <1>6 DEF StoreTick, StoreRestart, storeVars
<1> QED BY <1>1, <1>2, <1>3, <1>4, <1>5, <1>6, StoreSteps

\* The first job waits for the worker no longer when it is written.
LEMMA FirstJob ==
  ASSUME JobInv, jobs # << >>, NEW s, s = Head(jobs).sig
  PROVE  /\ Head(jobs).key \in Keys /\ Kept(Head(jobs), Head(jobs).key) /\ Waits(s)
         /\ jobs' = Tail(jobs) /\ thread' = thread => ~Waits(s)'
<1>0. PICK S : jobs \in Seq(S)
  BY DEF JobInv
<1>1. Len(jobs) \in Nat /\ 1 \in 1..Len(jobs) /\ Head(jobs) = jobs[1]
  BY <1>0, EmptySeq, LenProperties
<1>2. Head(jobs).key \in Keys /\ Kept(Head(jobs), Head(jobs).key) /\ Waits(s)
  BY <1>1 DEF JobInv, Waits
<1>3. ASSUME jobs' = Tail(jobs), thread' = thread PROVE ~Waits(s)'
  <2>1. Len(jobs') = Len(jobs) - 1 /\ \A i \in 1..Len(jobs') : jobs'[i] = jobs[i + 1]
    BY <1>0, <1>1, <1>3, HeadTailProperties
  <2>2. ASSUME NEW i \in 1..Len(jobs'), jobs'[i].sig = s PROVE FALSE
    <3>1. i + 1 \in 1..Len(jobs) /\ i + 1 # 1 /\ jobs[i + 1].sig = jobs[1].sig
      BY <1>1, <1>3, <2>1, <2>2
    <3> QED BY <1>1, <3>1 DEF JobInv
  <2>3. ASSUME NEW t \in Threads, Sending(thread'[t]), thread'[t].sig = s PROVE FALSE
    <3>1. Sending(thread[t]) /\ thread[t].sig = jobs[1].sig
      BY <1>1, <1>3, <2>3
    <3> QED BY <1>1, <3>1 DEF JobInv
  <2> QED BY <2>2, <2>3 DEF Waits
<1> QED BY <1>2, <1>3

\* Every step keeps the rows in order: a signature that is written waits no longer.
LEMMA RowStep ==
  ASSUME StoreInv, [StoreNext]_storeVars
  PROVE  RowInv'
<1>0. PlaceInv /\ RowInv /\ JobInv
  BY DEF StoreInv
<1>1. ASSUME NEW key \in DOMAIN rows'
      PROVE  key \in Keys /\ Kept(rows[key], key)' /\ rows'[key].till \in Nat /\ ~Waits(rows[key].sig)'
  <2>1. CASE key \in DOMAIN rows /\ rows'[key] = rows[key]
    <3>1. PICK e : e = rows[key] /\ e = rows'[key]
      BY <2>1
    <3>2. key \in Keys /\ Kept(e, key) /\ e.till \in Nat /\ ~Waits(e.sig)
      BY <1>0, <2>1, <3>1 DEF RowInv
    <3>3. PICK s : s = e.sig
      OBVIOUS
    <3>4. ~Waits(s)' /\ Kept(e, key)'
      BY <1>0, <3>2, <3>3, WaitsShrink, KeptStays DEF Kept
    <3>5. s = rows'[key].sig
      BY <3>1, <3>3
    <3>6. ~Waits(rows[key].sig)'
      BY <3>4, <3>5 DEF Waits
    <3> QED BY <3>1, <3>2, <3>4, <3>6 DEF Kept
  <2>2. CASE /\ jobs # << >> /\ key = Head(jobs).key
             /\ rows'[key].sig = Head(jobs).sig /\ rows'[key].name = Head(jobs).name
             /\ rows'[key].session = Head(jobs).session /\ rows'[key].till \in Nat
             /\ jobs' = Tail(jobs) /\ thread' = thread /\ captured' = captured
    <3>1. PICK s : s = Head(jobs).sig
      OBVIOUS
    <3>2. key \in Keys /\ Kept(Head(jobs), key) /\ ~Waits(s)'
      BY <1>0, <2>2, <3>1, FirstJob
    <3>3. Kept(rows[key], key)'
      BY <2>2, <3>2 DEF Kept, Known
    <3>4. ~Waits(rows[key].sig)'
      BY <2>2, <3>1, <3>2 DEF Waits
    <3> QED BY <2>2, <3>2, <3>3, <3>4
  <2> QED BY <1>0, <2>1, <2>2, RowsCome
<1> QED BY <1>1 DEF RowInv

\* Whoever sends a signature knows it.
LEMMA SendersKnow ==
  ASSUME StoreInv, NEW t \in Threads, Sending(thread[t])
  PROVE  /\ Known(thread[t].sig) /\ thread[t].talk.key \in Keys
         /\ DurabilityWrite(t).sig = thread[t].sig
         /\ DurabilityWrite(t).key = thread[t].talk.key
         /\ Kept(DurabilityWrite(t), thread[t].talk.key)
<1>1. Known(thread[t].sig) /\ thread[t].talk \in Talks /\ captured[thread[t].sig] = thread[t].talk
  BY DEF StoreInv, StoreThreadInv, StoreThreadOk
<1> QED BY <1>1 DEF DurabilityWrite, Kept, Keys

\* Every step keeps the signatures that are on their way at one place each.
LEMMA JobStep ==
  ASSUME StoreInv, [StoreNext]_storeVars
  PROVE  JobInv'
<1>0. PlaceInv /\ JobInv
  BY DEF StoreInv
<1>a. PICK S : jobs \in Seq(S)
  BY <1>0 DEF JobInv
<1>b. Len(jobs) \in Nat
  BY <1>a, LenProperties
<1>c. \A e, key : Kept(e, key) => Kept(e, key)'
  BY <1>0, KeptStays
<1>d. \A i \in 1..Len(jobs) : Known(jobs[i].sig)
  BY <1>0 DEF JobInv, Kept
<1>1. ASSUME jobs' = jobs,
             \A u \in Threads : Sending(thread'[u]) =>
                                  Sending(thread[u]) /\ thread'[u].sig = thread[u].sig
      PROVE  JobInv'
  <2>1. ASSUME NEW i \in 1..Len(jobs') PROVE jobs'[i].key \in Keys /\ Kept(jobs[i], jobs[i].key)'
    <3>1. PICK e : e = jobs[i] /\ e = jobs'[i]
      BY <1>1
    <3>2. e.key \in Keys /\ Kept(e, e.key)'
      BY <1>0, <1>1, <1>c, <3>1 DEF JobInv
    <3> QED BY <3>1, <3>2 DEF Kept
  <2> QED BY <1>0, <1>1, <2>1 DEF JobInv, Sending
<1>2. ASSUME NEW t \in Threads, NEW talk \in Talks, CaptureInsert(t, talk) PROVE JobInv'
  <2>1. /\ ~Known(Len(captured) + 1) /\ thread'[t].sig = Len(captured) + 1 /\ jobs' = jobs
        /\ \A u \in Threads : u # t => thread'[u] = thread[u]
    BY <1>0, <1>2, CaptureSteps
  <2>2. \A u \in Threads : u # t /\ Sending(thread'[u]) => Known(thread'[u].sig)
    BY <2>1, SendersKnow
  <2>3. ASSUME NEW i \in 1..Len(jobs') PROVE jobs'[i].key \in Keys /\ Kept(jobs[i], jobs[i].key)'
    <3>1. PICK e : e = jobs[i] /\ e = jobs'[i]
      BY <2>1
    <3>2. e.key \in Keys /\ Kept(e, e.key)'
      BY <1>0, <2>1, <1>c, <3>1 DEF JobInv
    <3> QED BY <3>1, <3>2 DEF Kept
  <2>4. ASSUME NEW u \in Threads, NEW v \in Threads, Sending(thread'[u]), Sending(thread'[v]),
               thread'[u].sig = thread'[v].sig
        PROVE  u = v
    <3>1. CASE u = t \/ v = t
      BY <2>1, <2>2, <2>4, <3>1
    <3>2. CASE u # t /\ v # t
      <4>1. thread'[u] = thread[u] /\ thread'[v] = thread[v]
        BY <2>1, <3>2
      <4> QED BY <1>0, <2>4, <4>1 DEF JobInv
    <3> QED BY <3>1, <3>2
  <2>5. ASSUME NEW u \in Threads, NEW i \in 1..Len(jobs'), Sending(thread'[u])
        PROVE  thread'[u].sig # jobs'[i].sig
    <3>1. CASE u = t
      BY <1>d, <2>1, <3>1
    <3>2. CASE u # t
      <4>1. thread'[u] = thread[u]
        BY <2>1, <3>2
      <4> QED BY <1>0, <2>1, <2>5, <4>1 DEF JobInv
    <3> QED BY <3>1, <3>2
  <2>6. /\ \E T : jobs' \in Seq(T) /\ Len(jobs') <= MaxJobs
        /\ \A i, j \in 1..Len(jobs') : jobs'[i].sig = jobs'[j].sig => i = j
    BY <1>0, <2>1 DEF JobInv
  <2> QED BY <2>3, <2>4, <2>5, <2>6 DEF JobInv, Sending
<1>3. ASSUME NEW t \in Threads, CaptureSend(t) PROVE JobInv'
  <2> DEFINE job == DurabilityWrite(t)
  <2>1. /\ thread[t].at = "send" /\ thread'[t] = Resting /\ captured' = captured
        /\ \A u \in Threads : u # t => thread'[u] = thread[u]
    BY <1>0, <1>3, CaptureSteps
  <2>2. \A u \in Threads : Sending(thread'[u]) => u # t /\ Sending(thread[u]) /\ thread'[u] = thread[u]
    BY <2>1 DEF Sending, Resting
  <2>3. CASE jobs' = jobs
    BY <1>1, <2>2, <2>3
  <2>4. CASE jobs' # jobs
    <3>1. jobs' = Append(jobs, job) /\ Len(jobs) < MaxJobs
      BY <1>3, <2>4 DEF CaptureSend
    <3>2. /\ Known(thread[t].sig) /\ thread[t].talk.key \in Keys
          /\ job.sig = thread[t].sig /\ job.key = thread[t].talk.key
          /\ Kept(job, job.key)
      BY <2>1, SendersKnow DEF Sending
    <3>3. jobs \in Seq(S \cup {job})
      BY <1>a, SeqMonotonic
    <3>4. PICK e : e = job
      OBVIOUS
    <3> HIDE DEF job
    <3>5. /\ jobs' \in Seq(S \cup {job}) /\ Len(jobs') = Len(jobs) + 1
          /\ jobs'[Len(jobs) + 1] = e
          /\ \A i \in 1..Len(jobs) : jobs'[i] = jobs[i]
      BY <3>1, <3>3, <3>4, AppendProperties
    <3>6. \A i \in 1..Len(jobs') : i \in 1..Len(jobs) \/ i = Len(jobs) + 1
      BY <1>b, <3>5
    <3>7. Kept(e, e.key)' /\ e.key \in Keys /\ e.sig = thread[t].sig
      BY <1>c, <3>2, <3>4
    <3>8. ASSUME NEW i \in 1..Len(jobs') PROVE jobs'[i].key \in Keys /\ Kept(jobs[i], jobs[i].key)'
      <4>1. CASE i \in 1..Len(jobs)
        <5>1. PICK c : c = jobs[i] /\ c = jobs'[i]
          BY <3>5, <4>1
        <5>2. c.key \in Keys /\ Kept(c, c.key)'
          BY <1>0, <1>c, <4>1, <5>1 DEF JobInv
        <5> QED BY <5>1, <5>2 DEF Kept
      <4>2. CASE i = Len(jobs) + 1
        <5>1. e = jobs'[i]
          BY <3>5, <4>2
        <5> QED BY <3>7, <5>1 DEF Kept
      <4> QED BY <3>6, <4>1, <4>2
    <3>9. ASSUME NEW i \in 1..Len(jobs), jobs[i].sig = e.sig PROVE FALSE
      BY <1>0, <2>1, <3>7, <3>9 DEF JobInv, Sending
    <3>10. ASSUME NEW i \in 1..Len(jobs'), NEW j \in 1..Len(jobs'), jobs'[i].sig = jobs'[j].sig
           PROVE  i = j
      <4>1. CASE i \in 1..Len(jobs) /\ j \in 1..Len(jobs)
        BY <1>0, <3>5, <3>10, <4>1 DEF JobInv
      <4>2. CASE i = Len(jobs) + 1 /\ j \in 1..Len(jobs)
        BY <3>5, <3>9, <3>10, <4>2
      <4>3. CASE i \in 1..Len(jobs) /\ j = Len(jobs) + 1
        BY <3>5, <3>9, <3>10, <4>3
      <4> QED BY <3>6, <4>1, <4>2, <4>3
    <3>11. ASSUME NEW u \in Threads, NEW i \in 1..Len(jobs'), Sending(thread'[u])
           PROVE  thread'[u].sig # jobs'[i].sig
      <4>1. u # t /\ Sending(thread[u]) /\ thread'[u].sig = thread[u].sig
        BY <2>2, <3>11
      <4>2. CASE i \in 1..Len(jobs)
        BY <1>0, <3>5, <4>1, <4>2 DEF JobInv
      <4>3. CASE i = Len(jobs) + 1
        <5>1. Sending(thread[t])
          BY <2>1 DEF Sending
        <5> QED BY <1>0, <3>5, <3>7, <4>1, <4>3, <5>1 DEF JobInv
      <4> QED BY <3>6, <4>2, <4>3
    <3>12. \A u, v \in Threads :
             Sending(thread'[u]) /\ Sending(thread'[v]) /\ thread'[u].sig = thread'[v].sig => u = v
      BY <1>0, <2>2 DEF JobInv
    <3>13. \E T : jobs' \in Seq(T)
      BY <3>5
    <3>14. Len(jobs') <= MaxJobs
      BY <1>b, <3>1, <3>5, StoreBounds
    <3> QED BY <3>8, <3>10, <3>11, <3>12, <3>13, <3>14 DEF JobInv, Sending
  <2> QED BY <2>3, <2>4
<1>4. CASE PersistOpaqueState \/ PersistFails
  <2>1. jobs # << >> /\ jobs' = Tail(jobs) /\ thread' = thread
    BY <1>4 DEF PersistOpaqueState, PersistFails
  <2>2. jobs' \in Seq(S) /\ Len(jobs') = Len(jobs) - 1
        /\ \A i \in 1..Len(jobs') : jobs'[i] = jobs[i + 1]
    BY <1>a, <2>1, HeadTailProperties
  <2>3. \A i \in 1..Len(jobs') : i + 1 \in 1..Len(jobs) /\ i \in Int
    BY <1>b, <2>2
  <2>4. ASSUME NEW i \in 1..Len(jobs') PROVE jobs'[i].key \in Keys /\ Kept(jobs[i], jobs[i].key)'
    <3>1. PICK c : c = jobs[i + 1] /\ c = jobs'[i]
      BY <2>2
    <3>2. c.key \in Keys /\ Kept(c, c.key)'
      BY <1>0, <1>c, <2>3, <3>1 DEF JobInv
    <3> QED BY <3>1, <3>2 DEF Kept
  <2>5. ASSUME NEW i \in 1..Len(jobs'), NEW j \in 1..Len(jobs'), jobs'[i].sig = jobs'[j].sig
        PROVE  i = j
    <3>1. i + 1 = j + 1
      BY <1>0, <2>2, <2>3, <2>5 DEF JobInv
    <3> QED BY <2>3, <3>1
  <2>6. \A u \in Threads, i \in 1..Len(jobs') : Sending(thread'[u]) => thread'[u].sig # jobs'[i].sig
    BY <1>0, <2>1, <2>2, <2>3 DEF JobInv
  <2>7. \A u, v \in Threads :
          Sending(thread'[u]) /\ Sending(thread'[v]) /\ thread'[u].sig = thread'[v].sig => u = v
    BY <1>0, <2>1 DEF JobInv
  <2>8. Len(jobs') <= MaxJobs
    BY <1>0, <1>b, <2>2, StoreBounds DEF JobInv
  <2>9. \E T : jobs' \in Seq(T)
    BY <2>2
  <2> QED BY <2>4, <2>5, <2>6, <2>7, <2>8, <2>9 DEF JobInv, Sending
<1>5. ASSUME NEW t \in Threads, CaptureTouch(t) PROVE JobInv'
  <2>1. /\ Sending(thread[t]) /\ thread'[t].sig = thread[t].sig /\ jobs' = jobs
        /\ \A u \in Threads : u # t => thread'[u] = thread[u]
    BY <1>0, <1>5, CaptureSteps DEF Sending
  <2> QED BY <1>1, <2>1
<1>6. ASSUME NEW t \in Threads, Looks(t) PROVE JobInv'
  <2>1. Quietly(t)
    BY <1>0, <1>6, LookupMoves
  <2> QED BY <1>1, <2>1 DEF Quietly
<1>7. CASE StoreTick \/ UNCHANGED storeVars
  BY <1>1, <1>7 DEF StoreTick, storeVars
<1>8. CASE StoreRestart
  <2>1. jobs' = << >> /\ \A u \in Threads : ~Sending(thread'[u])
    BY <1>8 DEF StoreRestart, Resting, Sending
  <2>2. jobs' \in Seq({}) /\ Len(jobs') = 0
    BY <2>1
  <2>3. 1..Len(jobs') = {} /\ Len(jobs') <= MaxJobs /\ \E T : jobs' \in Seq(T)
    BY <2>2, StoreBounds
  <2> QED BY <2>1, <2>3 DEF JobInv, Sending
<1> QED BY <1>2, <1>3, <1>4, <1>5, <1>6, <1>7, <1>8, StoreSteps

-----------------------------------------------------------------------------
\* A thread at rest claims nothing.
LEMMA RestingIsOk ==
  DOMAIN Resting = StoreFields /\ Resting.at = "idle" /\ Resting.had = {} /\ ~Sending(Resting)
BY DEF Resting, StoreFields, Sending

\* Every step keeps the simple types, and time does not go back.
LEMMA PlaceStep ==
  ASSUME PlaceInv, [StoreNext]_storeVars
  PROVE  PlaceInv' /\ clock \in Nat /\ clock' \in Nat /\ clock <= clock'
<1>0. /\ clock \in 0..MaxTime /\ writes \in 0..(PruneEvery - 1) /\ DOMAIN thread = Threads
      /\ \A t \in Threads : DOMAIN thread[t] = StoreFields /\ thread[t].at \in StoreStages
      /\ PruneEvery \in Nat \ {0} /\ MaxTime \in Nat
  BY StoreBounds DEF PlaceInv
<1> DEFINE Times == clock' \in 0..MaxTime /\ clock <= clock' /\ writes' \in 0..(PruneEvery - 1)
           Here == /\ DOMAIN thread' = Threads
                   /\ \A t \in Threads : DOMAIN thread'[t] = StoreFields /\ thread'[t].at \in StoreStages
<1>1. captured' \in Seq(Talks) /\ Len(captured') <= MaxCaptures
  BY HistoryGrows
<1>2. ASSUME NEW t \in Threads, NEW talk \in Talks, CaptureInsert(t, talk) PROVE Times /\ Here
  BY <1>0, <1>2, CaptureSteps DEF StoreStages
<1>3. ASSUME NEW t \in Threads, CaptureTouch(t) PROVE Times /\ Here
  BY <1>0, <1>3, CaptureSteps DEF StoreStages
<1>4. ASSUME NEW t \in Threads, CaptureSend(t) PROVE Times /\ Here
  BY <1>0, <1>4, CaptureSteps, RestingIsOk DEF StoreStages
<1>5. ASSUME NEW t \in Threads, Looks(t) PROVE Times /\ Here
  BY <1>0, <1>5, LookupMoves DEF Quietly
<1>6. ASSUME PersistOpaqueState \/ PersistFails PROVE Times /\ Here
  <2>1. UNCHANGED <<clock, thread>> /\ writes' = (writes + 1) % PruneEvery
    BY <1>6 DEF PersistOpaqueState, PersistFails
  <2>2. writes' \in 0..(PruneEvery - 1)
    BY <1>0, <2>1
  <2>3. clock' \in 0..MaxTime /\ clock <= clock'
    BY <1>0, <2>1
  <2>4. Here
    BY <1>0, <2>1
  <2> QED BY <2>2, <2>3, <2>4
<1>7. ASSUME StoreTick PROVE Times /\ Here
  <2>1. clock < MaxTime /\ clock' = clock + 1 /\ UNCHANGED <<writes, thread>>
    BY <1>7 DEF StoreTick
  <2>2. Times
    BY <1>0, <2>1
  <2>3. Here
    BY <1>0, <2>1
  <2> QED BY <2>2, <2>3
<1>8. ASSUME StoreRestart PROVE Times /\ Here
  <2>1. UNCHANGED clock /\ writes' = 0 /\ thread' = [t \in Threads |-> Resting]
    BY <1>8 DEF StoreRestart
  <2>2. Times
    BY <1>0, <2>1
  <2>3. Here
    BY <2>1, RestingIsOk DEF StoreStages
  <2> QED BY <2>2, <2>3
<1>9. ASSUME UNCHANGED storeVars PROVE Times /\ Here
  <2>1. UNCHANGED <<clock, writes, thread>>
    BY <1>9 DEF storeVars
  <2>2. Times
    BY <1>0, <2>1
  <2>3. Here
    BY <1>0, <2>1
  <2> QED BY <2>2, <2>3
<1> HIDE DEF Times, Here
<1>10. Times /\ Here
  BY <1>2, <1>3, <1>4, <1>5, <1>6, <1>7, <1>8, <1>9, StoreSteps
<1>11. PlaceInv'
  BY <1>1, <1>10 DEF PlaceInv, Times, Here
<1> QED BY <1>0, <1>10, <1>11 DEF Times

\* What a thread has found out stays true while others go on.
LEMMA FindingsStay ==
  ASSUME StoreInv, [StoreNext]_storeVars, NEW r, StoreThreadOk(r)
  PROVE  StoreThreadOk(r)'
<1>0. PlaceInv /\ RowInv /\ JobInv
  BY DEF StoreInv
<1>1. \A s : Known(s) => Known(s)' /\ captured'[s] = captured[s]
  BY <1>0, HistoryGrows
<1>2. \A e, key : Kept(e, key) => Kept(e, key)'
  BY <1>0, KeptStays
<1>3. \A s : Known(s) /\ ~Waits(s) => ~Waits(s)'
  BY <1>0, WaitsShrink
<1>4. ASSUME NEW key, LiveRow(key)', rows'[key] \in r.had PROVE LiveRow(key) /\ rows[key] \in r.had
  <2>1. key \in DOMAIN rows' /\ rows'[key].till >= clock'
    BY <1>4 DEF LiveRow
  <2>2. CASE key \in DOMAIN rows /\ rows'[key] = rows[key]
    <3>1. rows[key].till \in Nat /\ clock \in Nat /\ clock' \in Nat /\ clock <= clock'
      BY <1>0, <2>2, PlaceStep DEF RowInv
    <3>2. rows[key].till >= clock
      BY <2>1, <2>2, <3>1
    <3> QED BY <1>4, <2>2, <3>2 DEF LiveRow
  <2>3. CASE jobs # << >> /\ rows'[key].sig = Head(jobs).sig
    <3>1. PICK s : s = Head(jobs).sig
      OBVIOUS
    <3>2. Waits(s)
      BY <1>0, <2>3, <3>1, FirstJob
    <3>3. \A e \in r.had : ~Waits(e.sig)
      BY DEF StoreThreadOk
    <3> QED BY <1>4, <2>3, <3>1, <3>2, <3>3
  <2> QED BY <1>0, <2>1, <2>2, <2>3, RowsCome
<1>5. Sending(r) => r.talk \in Talks /\ Known(r.sig)' /\ captured'[r.sig] = r.talk
  BY <1>1 DEF StoreThreadOk
<1>6. r.at = "restore" =>
        /\ r.talk.key \in Keys /\ r.answer = "compatible"
        /\ \A e \in r.found : Kept(e, r.talk.key)' /\ FitsTalk(e, r.talk)
  BY <1>2 DEF StoreThreadOk
<1>7. r.at \in {"touched", "answered"} /\ r.answer = "compatible" =>
        Known(r.sig)' /\ captured'[r.sig].key = r.talk.key /\ FitsTalk(captured'[r.sig], r.talk)
  BY <1>1 DEF StoreThreadOk
<1>8. r.at = "answered" /\ r.answer \in {"missing", "incompatible"} =>
        ~(LiveRow(r.talk.key)' /\ rows'[r.talk.key] \in r.had)
  BY <1>4 DEF StoreThreadOk
<1>9. \A e \in r.had : Known(e.sig)' /\ ~Waits(e.sig)'
  BY <1>1, <1>3 DEF StoreThreadOk
<1>10. r.at = "touched" => r.talk.key \in Keys /\ r.answer = "compatible"
  BY DEF StoreThreadOk
<1> QED BY <1>5, <1>6, <1>7, <1>8, <1>9, <1>10 DEF StoreThreadOk, FitsTalk

\* After its own step a capture knows what it sends.
LEMMA CaptureKnows ==
  ASSUME StoreInv, [StoreNext]_storeVars, NEW t \in Threads, NEW r, r = thread'[t],
         (\E talk \in Talks : CaptureInsert(t, talk)) \/ CaptureTouch(t) \/ CaptureSend(t)
  PROVE  StoreThreadOk(r)'
<1>0. PlaceInv /\ StoreThreadOk(thread[t])
  BY DEF StoreInv, StoreThreadInv
<1>1. ASSUME NEW talk \in Talks, CaptureInsert(t, talk) PROVE StoreThreadOk(r)'
  <2>1. /\ r.at = "touch" /\ r.talk = talk /\ r.sig = Len(captured) + 1 /\ r.had = {}
        /\ captured' = Append(captured, talk)
    BY <1>0, <1>1, CaptureSteps
  <2>2. Known(r.sig)' /\ captured'[r.sig] = talk
    <3>1. captured \in Seq(Talks) /\ Len(captured) \in Nat
      BY <1>0, LenProperties DEF PlaceInv
    <3> QED BY <2>1, <3>1, AppendProperties DEF Known
  <2> QED BY <2>1, <2>2 DEF StoreThreadOk, Sending
<1>2. CASE CaptureTouch(t)
  <2>1. PICK q : q = thread[t]
    OBVIOUS
  <2>2. StoreThreadOk(q)'
    BY <1>0, <2>1, FindingsStay
  <2>3. /\ q.at = "touch" /\ r.at = "send" /\ r.talk = q.talk /\ r.sig = q.sig /\ r.had = q.had
    BY <1>0, <1>2, <2>1, CaptureSteps
  <2> QED BY <2>2, <2>3 DEF StoreThreadOk, Sending
<1>3. CASE CaptureSend(t)
  <2>1. r = Resting
    BY <1>0, <1>3, CaptureSteps
  <2> QED BY <2>1, RestingIsOk DEF StoreThreadOk
<1> QED BY <1>1, <1>2, <1>3

\* How an entry compares with what is looked up.
LEMMA IdentityAnswers ==
  ASSUME NEW e, NEW talk
  PROVE  /\ Identity(e, talk) \notin {"missing", "incompatible"}
         /\ Identity(e, talk) = "compatible" => FitsTalk(e, talk)
BY DEF Identity, NameFits, FitsTalk

\* After its own step a lookup knows what it claims.
LEMMA LookupKnows ==
  ASSUME StoreInv, [StoreNext]_storeVars, NEW t \in Threads, NEW r, r = thread'[t], Looks(t)
  PROVE  StoreThreadOk(r)'
<1>0. PlaceInv /\ CacheInv /\ RowInv /\ StoreThreadOk(thread[t]) /\ Quietly(t)
  BY LookupMoves DEF StoreInv, StoreThreadInv
<1>1. PICK q : q = thread[t]
  OBVIOUS
<1>2. StoreThreadOk(q)' /\ DOMAIN q = StoreFields /\ StoreThreadOk(q)
  BY <1>0, <1>1, FindingsStay DEF PlaceInv
<1>3. ~Sending(r) /\ UNCHANGED <<clock, jobs, rows, captured>>
  BY <1>0 DEF Quietly
<1>4. \A rec : StoreAt(t, rec) => r = rec
  BY <1>0, OneThreadMoves DEF PlaceInv
<1>5. ASSUME NEW key, LiveRow(key)
      PROVE  key \in Keys /\ Kept(rows[key], key) /\ Known(rows[key].sig)' /\ ~Waits(rows[key].sig)'
  <2>1. PICK e : e = rows[key] /\ e = rows'[key]
    BY <1>3
  <2>2. key \in DOMAIN rows'
    BY <1>3, <1>5 DEF LiveRow
  <2>3. ~Waits(rows[key].sig)' /\ Kept(rows[key], key)'
    BY <2>2, RowStep DEF RowInv
  <2> QED BY <1>0, <1>3, <1>5, <2>3 DEF RowInv, LiveRow, Kept
<1>a. ASSUME NEW talk \in Asks, LookupRam(t, talk) PROVE StoreThreadOk(r)'
  <2> DEFINE key == talk.key
             had == IF LiveRow(key) THEN {rows[key]} ELSE {}
             lookup == [Resting EXCEPT !.talk = talk, !.had = had]
             answer == Identity(cache[key], talk)
             known == [lookup EXCEPT !.at = "answered", !.answer = answer,
                         !.sig = IF answer = "compatible" THEN cache[key].sig ELSE Nil]
  <2>1. PICK x : x = rows[key]
    OBVIOUS
  <2>2. \A e \in had : Known(e.sig)' /\ ~Waits(e.sig)'
    <3>1. LiveRow(key) => Known(x.sig)' /\ ~Waits(x.sig)'
      <4>1. SUFFICES ASSUME LiveRow(key) PROVE Known(x.sig)' /\ ~Waits(x.sig)'
        OBVIOUS
      <4>2. x = rows'[key] /\ Known(rows[key].sig)' /\ ~Waits(rows[key].sig)'
        BY <1>3, <1>5, <2>1, <4>1
      <4> QED BY <4>2 DEF Known, Waits
    <3> QED BY <2>1, <3>1
  <2>3. \/ StoreAt(t, [lookup EXCEPT !.at = "expired"])
        \/ key \in DOMAIN cache /\ StoreAt(t, known)
        \/ StoreAt(t, [lookup EXCEPT !.at = "fetch"])
    BY <1>a, RamAnswers
  <2>4. DOMAIN lookup = StoreFields /\ lookup.had = had /\ lookup.talk = talk
    BY DEF Resting, StoreFields
  <2> HIDE DEF had, lookup, answer
  <2>5. CASE r = [lookup EXCEPT !.at = "expired"] \/ r = [lookup EXCEPT !.at = "fetch"]
    <3>1. r.at \in {"expired", "fetch"} /\ r.had = had
      BY <2>4, <2>5 DEF StoreFields
    <3> QED BY <1>3, <2>2, <3>1 DEF StoreThreadOk
  <2>6. CASE key \in DOMAIN cache /\ r = known
    <3>1. /\ r.at = "answered" /\ r.had = had /\ r.talk = talk /\ r.answer = answer
          /\ r.answer = "compatible" => r.sig = cache[key].sig
      BY <2>4, <2>6 DEF StoreFields
    <3>2. Kept(cache[key], key)
      BY <1>0, <2>6 DEF CacheInv
    <3>3. answer \notin {"missing", "incompatible"} /\ (answer = "compatible" => FitsTalk(cache[key], talk))
      BY IdentityAnswers DEF answer
    <3>4. r.answer = "compatible" =>
            Known(r.sig) /\ captured[r.sig].key = key /\ FitsTalk(captured[r.sig], talk)
      BY <3>1, <3>2, <3>3 DEF Kept, FitsTalk
    <3>5. r.answer = "compatible" =>
            Known(r.sig)' /\ captured'[r.sig].key = r.talk.key /\ FitsTalk(captured'[r.sig], r.talk)
      BY <1>3, <3>1, <3>4 DEF Known
    <3> QED BY <1>3, <2>2, <3>1, <3>3, <3>5 DEF StoreThreadOk, FitsTalk
  <2> QED BY <1>4, <2>3, <2>5, <2>6
<1>b. CASE RemoveExpired(t)
  <2>1. r = [q EXCEPT !.at = "fetch"]
    BY <1>1, <1>4, <1>b DEF RemoveExpired
  <2>2. r.at = "fetch" /\ r.had = q.had
    BY <1>2, <2>1 DEF StoreFields
  <2> QED BY <1>2, <1>3, <2>2 DEF StoreThreadOk
<1>c. CASE LookupSqlite(t)
  <2> DEFINE talk == q.talk
             key == talk.key
             answer == Resolved(talk, FetchRows(talk))
             rec == [q EXCEPT !.at = IF answer = "compatible" THEN "restore" ELSE "answered",
                       !.answer = answer,
                       !.found = IF answer = "compatible" THEN {rows[key]} ELSE {}]
  <2>1. r = rec
    BY <1>1, <1>4, <1>c DEF LookupSqlite
  <2>2. answer = "compatible" => LiveRow(key) /\ Identity(rows[key], talk) = "compatible"
    BY DEF Resolved, CrossModel, FetchRows
  <2>3. LiveRow(key) => answer \notin {"missing", "incompatible"}
    <3>1. SUFFICES ASSUME LiveRow(key) PROVE answer = Identity(rows[key], talk)
      BY IdentityAnswers
    <3>2. key \in FetchRows(talk)
      BY <3>1 DEF FetchRows, LiveRow
    <3>3. key.model # NoTarget
      BY <1>5, <3>1, StoreBounds
    <3> QED BY <3>2, <3>3 DEF Resolved
  <2> HIDE DEF answer
  <2>4. /\ r.at = (IF answer = "compatible" THEN "restore" ELSE "answered")
        /\ r.answer = answer /\ r.talk = talk /\ r.had = q.had
        /\ r.found = (IF answer = "compatible" THEN {rows[key]} ELSE {})
    BY <1>2, <2>1 DEF StoreFields
  <2>5. \A e \in r.had : Known(e.sig)' /\ ~Waits(e.sig)'
    BY <1>2, <2>4 DEF StoreThreadOk
  <2>6. CASE answer = "compatible"
    <3>1. LiveRow(key) /\ FitsTalk(rows[key], talk)
      BY <2>2, <2>6, IdentityAnswers
    <3>2. key \in Keys /\ Kept(rows[key], key)
      BY <1>5, <3>1
    <3>3. PICK e : e = rows[key]
      OBVIOUS
    <3>4. Kept(e, key)' /\ FitsTalk(e, talk)
      BY <1>0, <3>1, <3>2, <3>3, KeptStays
    <3>5. r.at = "restore" /\ r.found = {e} /\ r.answer = "compatible"
      BY <2>4, <2>6, <3>3
    <3> QED BY <1>3, <2>4, <2>5, <3>2, <3>4, <3>5 DEF StoreThreadOk, FitsTalk
  <2>7. CASE answer # "compatible"
    <3>1. r.at = "answered" /\ r.answer # "compatible"
      BY <2>4, <2>7
    <3>2. r.answer \in {"missing", "incompatible"} => ~LiveRow(r.talk.key)'
      BY <1>3, <2>3, <2>4 DEF LiveRow
    <3> QED BY <1>3, <2>5, <3>1, <3>2 DEF StoreThreadOk
  <2> QED BY <2>6, <2>7
<1>d. CASE LookupFails(t)
  <2>1. r = [q EXCEPT !.at = "answered", !.answer = "missing", !.had = {}]
    BY <1>1, <1>4, <1>d DEF LookupFails
  <2>2. r.at = "answered" /\ r.had = {} /\ r.answer = "missing"
    BY <1>2, <2>1 DEF StoreFields
  <2> QED BY <1>3, <2>2 DEF StoreThreadOk
<1>e. CASE RestoreRow(t)
  <2>1. PICK e \in q.found : r = [q EXCEPT !.at = "touched", !.sig = e.sig] /\ q.at = "restore"
    BY <1>1, <1>4, <1>e DEF RestoreRow
  <2>2. /\ r.at = "touched" /\ r.had = q.had /\ r.talk = q.talk /\ r.sig = e.sig
        /\ r.answer = q.answer
    BY <1>2, <2>1 DEF StoreFields
  <2>3. q.talk.key \in Keys /\ q.answer = "compatible" /\ Kept(e, q.talk.key) /\ FitsTalk(e, q.talk)
    BY <1>2, <2>1 DEF StoreThreadOk
  <2>4. Known(r.sig)' /\ captured'[r.sig].key = r.talk.key /\ FitsTalk(captured'[r.sig], r.talk)
    BY <1>3, <2>2, <2>3 DEF Kept, Known, FitsTalk
  <2>5. \A x \in r.had : Known(x.sig)' /\ ~Waits(x.sig)'
    BY <1>2, <2>2 DEF StoreThreadOk
  <2> QED BY <1>3, <2>2, <2>3, <2>4, <2>5 DEF StoreThreadOk, FitsTalk
<1>f. CASE RestoreTouch(t)
  <2>1. r = [q EXCEPT !.at = "answered", !.found = {}] /\ q.at = "touched"
    BY <1>1, <1>4, <1>f DEF RestoreTouch
  <2>2. /\ r.at = "answered" /\ r.had = q.had /\ r.talk = q.talk /\ r.sig = q.sig
        /\ r.answer = q.answer
    BY <1>2, <2>1 DEF StoreFields
  <2>3. q.answer = "compatible"
    BY <1>2, <2>1 DEF StoreThreadOk
  <2> QED BY <1>2, <1>3, <2>1, <2>2, <2>3 DEF StoreThreadOk, FitsTalk
<1>g. CASE DecryptFails(t)
  <2>1. r = [q EXCEPT !.at = "answered", !.answer = "unavailable", !.found = {}]
    BY <1>1, <1>4, <1>g DEF DecryptFails
  <2>2. r.at = "answered" /\ r.had = q.had /\ r.answer = "unavailable"
    BY <1>2, <2>1 DEF StoreFields
  <2> QED BY <1>2, <1>3, <2>2 DEF StoreThreadOk
<1>h. CASE Hydrated(t)
  <2>1. r = Resting
    BY <1>4, <1>h DEF Hydrated
  <2> QED BY <2>1, RestingIsOk DEF StoreThreadOk
<1> QED BY <1>a, <1>b, <1>c, <1>d, <1>e, <1>f, <1>g, <1>h DEF Looks

\* An empty store keeps the invariant, and so does every step.
LEMMA StoreStart == StoreInit => StoreInv
<1> SUFFICES ASSUME StoreInit PROVE StoreInv
  OBVIOUS
<1>1. /\ clock = 0 /\ cache = << >> /\ order = << >> /\ jobs = << >> /\ rows = << >>
      /\ writes = 0 /\ thread = [t \in Threads |-> Resting] /\ captured = << >>
  BY DEF StoreInit
<1>2. \A t \in Threads : thread[t] = Resting
  BY <1>1
<1>3. PlaceInv
  <2>1. captured \in Seq(Talks) /\ Len(captured) <= MaxCaptures
    BY <1>1, StoreBounds
  <2>2. DOMAIN thread = Threads
    BY <1>1
  <2>3. \A t \in Threads : DOMAIN thread[t] = StoreFields /\ thread[t].at \in StoreStages
    BY <1>2, RestingIsOk DEF StoreStages
  <2>4. clock \in 0..MaxTime /\ writes \in 0..(PruneEvery - 1)
    BY <1>1, StoreBounds
  <2> QED BY <2>1, <2>2, <2>3, <2>4 DEF PlaceInv
<1>4. CacheInv
  <2>1. order \in Seq(Keys) /\ Len(order) = 0 /\ DOMAIN cache = {}
    BY <1>1
  <2> QED BY <2>1, StoreBounds DEF CacheInv, Distinct
<1>5. RowInv
  <2>1. DOMAIN rows = {}
    BY <1>1
  <2> QED BY <2>1 DEF RowInv
<1>6. JobInv
  <2>1. jobs \in Seq({}) /\ Len(jobs) = 0 /\ \A u \in Threads : ~Sending(thread[u])
    BY <1>1, <1>2, RestingIsOk
  <2>2. 1..Len(jobs) = {} /\ Len(jobs) <= MaxJobs /\ \E T : jobs \in Seq(T)
    BY <2>1, StoreBounds
  <2> QED BY <2>1, <2>2 DEF JobInv
<1>7. StoreThreadInv
  BY <1>2, RestingIsOk DEF StoreThreadInv, StoreThreadOk
<1> QED BY <1>3, <1>4, <1>5, <1>6, <1>7 DEF StoreInv

\* Each part of the invariant survives a step.
LEMMA StoreStep == StoreInv /\ [StoreNext]_storeVars => StoreInv'
<1> SUFFICES ASSUME StoreInv, [StoreNext]_storeVars PROVE StoreInv'
  OBVIOUS
<1>0. PlaceInv /\ StoreThreadInv
  BY DEF StoreInv
<1>1. ASSUME NEW t \in Threads, NEW r, r = thread'[t] PROVE StoreThreadOk(r)'
  <2>1. CASE thread'[t] = thread[t]
    BY <1>0, <1>1, <2>1, FindingsStay DEF StoreThreadInv
  <2>2. CASE (\E talk \in Talks : CaptureInsert(t, talk)) \/ CaptureTouch(t) \/ CaptureSend(t)
    BY <1>1, <2>2, CaptureKnows
  <2>3. CASE Looks(t)
    BY <1>1, <2>3, LookupKnows
  <2>4. ASSUME NEW u \in Threads, u # t,
               (\E talk \in Talks : CaptureInsert(u, talk)) \/ CaptureTouch(u) \/ CaptureSend(u)
                 \/ Looks(u)
        PROVE  thread'[t] = thread[t]
    BY <1>0, <2>4, CaptureSteps, LookupMoves DEF Quietly
  <2>5. CASE PersistOpaqueState \/ PersistFails \/ StoreTick \/ UNCHANGED storeVars
    <3>1. thread' = thread
      BY <2>5 DEF PersistOpaqueState, PersistFails, StoreTick, storeVars
    <3> QED BY <2>1, <3>1
  <2>6. CASE StoreRestart
    <3>1. r = Resting
      BY <1>1, <2>6 DEF StoreRestart
    <3> QED BY <3>1, RestingIsOk DEF StoreThreadOk
  <2> QED BY <2>1, <2>2, <2>3, <2>4, <2>5, <2>6, StoreSteps
<1>2. ASSUME NEW t \in Threads PROVE StoreThreadOk(thread[t])'
  <2>1. PICK r : r = thread'[t]
    OBVIOUS
  <2>2. StoreThreadOk(r)'
    BY <1>1, <2>1
  <2> QED BY <2>1, <2>2 DEF StoreThreadOk, Sending
<1>3. StoreThreadInv'
  BY <1>2 DEF StoreThreadInv
<1> QED BY <1>0, <1>3, PlaceStep, CacheStep, RowStep, JobStep DEF StoreInv

\* The invariant implies the property.
LEMMA StoreSuffices == StoreInv => SignaturesAreKept
<1> SUFFICES ASSUME StoreInv PROVE SignaturesAreKept
  OBVIOUS
<1>0. PlaceInv /\ CacheInv /\ RowInv /\ JobInv /\ \A t \in Threads : StoreThreadOk(thread[t])
  BY DEF StoreInv, StoreThreadInv
<1>1. Len(order) \in Nat /\ DOMAIN order = 1..Len(order)
  BY <1>0, LenProperties DEF CacheInv
<1>2. StoreTypeOK
  BY <1>0 DEF PlaceInv, CacheInv, RowInv, JobInv, StoreTypeOK, StoreStages
<1>3. CacheHasSlots
  BY <1>0, <1>1 DEF CacheInv, CacheHasSlots, Slotted, Distinct
<1>4. SignatureIsOwn
  <2> SUFFICES ASSUME NEW t \in Threads, thread[t].at = "answered", thread[t].answer = "compatible"
               PROVE  /\ captured[thread[t].sig].key = thread[t].talk.key
                      /\ captured[thread[t].sig].name = thread[t].talk.name
                      /\ SessionFits(captured[thread[t].sig].session, thread[t].talk.session)
    BY DEF SignatureIsOwn
  <2> QED BY <1>0 DEF StoreThreadOk, FitsTalk
<1>5. DurableIsFound
  BY <1>0 DEF StoreThreadOk, DurableIsFound
<1> QED BY <1>2, <1>3, <1>4, <1>5 DEF SignaturesAreKept

\* Signatures are kept within the bounds of RAM, queue and table, given only to the
\* conversation, call and model they were captured from, and found as long as they
\* are stored, for any number of threads, whatever captures, lookups, expiry,
\* eviction, pruning, failures and restarts come between (opaque_state.rs).
THEOREM SignaturesAreAlwaysKept == StoreSpec => []SignaturesAreKept
<1>1. StoreSpec => []StoreInv
  BY StoreStart, StoreStep, PTL DEF StoreSpec
<1> QED BY <1>1, StoreSuffices, PTL
=============================================================================

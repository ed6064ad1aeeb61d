--------------------------- MODULE SessionsProofs ---------------------------
(***************************************************************************)
(* Requests are never taken apart in the wrong place (Framed), and only    *)
(* the owner's reach the app (OnlyOwner), for any number of connections,   *)
(* requests, bodies and restarts.                                          *)
(***************************************************************************)
EXTENDS Sessions, SequenceTheorems, TLAPS

Cookies == [secret : Nat, exp : Nat] \cup {None}
Requests == [shape : UNION {Shapes[c] : c \in Conns}, cookie : Cookies, owner : BOOLEAN]
Units == [kind : {"head", "body"}, conn : Conns, of : Nat]
Reaches == [conn : Conns, of : Nat, body : Seq(Units)]

Types ==
    /\ config \in 1..MaxConfigs /\ now \in Nat
    /\ asked \in [Conns -> Seq(Requests)]
    /\ wire \in [Conns -> Seq(Units)]
    /\ body \in [Conns -> Seq(Units)]
    /\ current \in [Conns -> Nat]
    /\ DOMAIN client = Conns /\ DOMAIN pc = Conns /\ DOMAIN reply = Conns
    /\ reached \in Seq(Reaches)

\* A cookie some login was given.
Backed(cookie) ==
    \E g \in granted : /\ g.cookie = cookie /\ g.config \in Nat /\ g.at \in Nat
                       /\ cookie = SignCookie(g.config, g.at)

Grants == \A g \in granted : g.login.path = "login" /\ g.login.token = g.config

\* A stream of units: heads in order, each followed by its body, which is
\* complete while the client has not left, and then by the next head.
WireOK(c, w, a, open) ==
    /\ \A j \in 1..Len(w) : w[j].conn = c /\ w[j].of \in 1..Len(a)
    /\ \A j \in 1..Len(w) : w[j].kind = "head" =>
        /\ \A i \in 1..(j - 1) : w[i].of < w[j].of
        /\ \A m \in 1..a[w[j].of].shape.units :
              j + m <= Len(w) => w[j + m] = Unit("body", c, w[j].of)
        /\ j + a[w[j].of].shape.units + 1 <= Len(w) =>
              w[j + a[w[j].of].shape.units + 1].kind = "head"
        /\ open => j + a[w[j].of].shape.units <= Len(w)

RequestOK(c, r) ==
    /\ r.shape \in Shapes[c]
    /\ r.cookie = None \/ Backed(r.cookie)
    /\ pc[c] # "closed" /\ VerifyCookie(config, r.cookie, now) => r.owner

\* What a connection carries.
StreamOK(c) ==
    /\ \A i \in 1..Len(asked[c]) : RequestOK(c, asked[c][i])
    /\ WireOK(c, wire[c], asked[c], client[c] = "open")

Busy(c) == pc[c] \in {"route", "forward", "waiting", "reply", "payload"}
Ahead(c, i) == \A j \in 1..Len(wire[c]) : wire[c][j].kind = "head" => wire[c][j].of > i

\* Where its handler is: behind what it has taken off the wire, and, but after
\* a refusal that ends the connection, before the head of a request.
HandlerOK(c) ==
    /\ pc[c] = "new" => asked[c] = <<>>
    /\ ~(pc[c] \in {"reply", "payload"} /\ reply[c].final /\ ~reply[c].guarded)
          /\ Len(wire[c]) > 0 => wire[c][1].kind = "head"
    /\ Busy(c) => current[c] \in 1..Len(asked[c]) /\ Ahead(c, current[c])
    /\ pc[c] = "route" => \A m \in 1..Len(body[c]) : body[c][m] = Unit("body", c, current[c])
    /\ pc[c] = "forward" => asked[c][current[c]].owner
    /\ pc[c] \in {"reply", "payload"} => reply[c].cookie = None \/ Backed(reply[c].cookie)

ReachedOK(r) ==
    /\ r.of \in 1..Len(asked[r.conn]) /\ asked[r.conn][r.of].owner
    /\ Ahead(r.conn, r.of)

Inv ==
    /\ Types /\ Grants
    /\ \A cookie \in jar : Backed(cookie)
    /\ \A c \in Conns : StreamOK(c) /\ HandlerOK(c)
    /\ \A k \in 1..Len(reached) : ReachedOK(reached[k])

-----------------------------------------------------------------------------
(* Streams of units.                                                       *)

\* Reading from the front of a stream leaves one.
LEMMA DropWire ==
    ASSUME NEW c, NEW w \in Seq(Units), NEW a, NEW open, WireOK(c, w, a, open),
           \A i \in 1..Len(a) : a[i].shape.units \in Nat,
           NEW n \in 0..Len(w), NEW v \in Seq(Units), Len(v) = Len(w) - n,
           \A j \in 1..Len(v) : v[j] = w[j + n]
    PROVE  WireOK(c, v, a, open)
  <1>1. \A j \in 1..Len(v) : j + n \in 1..Len(w)
    OBVIOUS
  <1>2. \A j \in 1..Len(v) : v[j].conn = c /\ v[j].of \in 1..Len(a)
    BY <1>1 DEF WireOK
  <1> SUFFICES ASSUME NEW j \in 1..Len(v), v[j].kind = "head"
               PROVE  /\ \A i \in 1..(j - 1) : v[i].of < v[j].of
                      /\ \A m \in 1..a[v[j].of].shape.units :
                            j + m <= Len(v) => v[j + m] = Unit("body", c, v[j].of)
                      /\ j + a[v[j].of].shape.units + 1 <= Len(v) =>
                            v[j + a[v[j].of].shape.units + 1].kind = "head"
                      /\ open => j + a[v[j].of].shape.units <= Len(v)
    BY <1>2 DEF WireOK
  <1>p. PICK p, u : p = j + n /\ u = a[v[j].of].shape.units
    OBVIOUS
  <1>3. /\ v[j] = w[p] /\ p \in 1..Len(w) /\ u \in Nat /\ j \in Nat /\ n \in Nat
        /\ Len(w) \in Nat /\ Len(v) = Len(w) - n
    BY <1>1, <1>2, <1>p, LenProperties
  <1>4. /\ \A i \in 1..(p - 1) : w[i].of < w[p].of
        /\ \A m \in 1..u : p + m <= Len(w) => w[p + m] = Unit("body", c, v[j].of)
        /\ p + u + 1 <= Len(w) => w[p + u + 1].kind = "head"
        /\ open => p + u <= Len(w)
    <2>1. p \in 1..Len(w) /\ w[p].kind = "head" /\ u = a[w[p].of].shape.units
      BY <1>3, <1>p
    <2> QED BY <1>3, <2>1 DEF WireOK
  <1>5. \A i \in 1..(j - 1) : v[i].of < v[j].of
    <2> TAKE i \in 1..(j - 1)
    <2>1. i \in 1..Len(v) /\ i + n \in 1..(p - 1)
      BY <1>3, <1>p
    <2> QED BY <2>1, <1>3, <1>4
  <1>6. \A m \in 1..u : j + m <= Len(v) => v[j + m] = Unit("body", c, v[j].of)
    <2> SUFFICES ASSUME NEW m \in 1..u, j + m <= Len(v)
                 PROVE  v[j + m] = Unit("body", c, v[j].of)
      OBVIOUS
    <2>1. j + m \in 1..Len(v) /\ (j + m) + n = p + m /\ p + m <= Len(w)
      <3>1. m \in Nat /\ m > 0 /\ p = j + n
        BY <1>p, <1>3
      <3> QED BY <1>3, <3>1
    <2> QED BY <2>1, <1>4
  <1>7. j + u + 1 <= Len(v) => v[j + u + 1].kind = "head"
    <2> SUFFICES ASSUME j + u + 1 <= Len(v) PROVE v[j + u + 1].kind = "head"
      OBVIOUS
    <2>1. j + u + 1 \in 1..Len(v) /\ (j + u + 1) + n = p + u + 1 /\ p + u + 1 <= Len(w)
      <3>1. p = j + n
        BY <1>p
      <3> QED BY <1>3, <3>1
    <2> QED BY <2>1, <1>4
  <1>8. open => j + u <= Len(v)
    BY <1>3, <1>4, <1>p
  <1> QED BY <1>5, <1>6, <1>7, <1>8, <1>p

\* What is left of a stream when the client breaks off after k units: only
\* requests whose head was sent.
Lost(w, k) == {w[j].of : j \in {x \in (k + 1)..Len(w) : w[x].kind = "head"}}

Shortened(c, w, a, v, b, k, n) ==
    /\ v \in Seq(Units) /\ b \in Seq(Requests)
    /\ Len(b) = n
    /\ \A i \in 1..n : b[i] = a[i]
    /\ Len(v) = k
    /\ \A i \in 1..k : v[i] = w[i]
    /\ WireOK(c, v, b, FALSE)

LEMMA CutWire ==
    ASSUME NEW c, NEW w \in Seq(Units), NEW a \in Seq(Requests), NEW open, WireOK(c, w, a, open),
           \A i \in 1..Len(a) : a[i].shape.units \in Nat,
           NEW k \in 0..Len(w), NEW n \in 0..Len(a),
           Lost(w, k) = (n + 1)..Len(a)
    PROVE  Shortened(c, w, a, SubSeq(w, 1, k), SubSeq(a, 1, n), k, n)
  <1> DEFINE v == SubSeq(w, 1, k)
             b == SubSeq(a, 1, n)
  <1>0. Len(w) \in Nat /\ Len(a) \in Nat /\ \A i \in 1..Len(w) : w[i] \in Units
    BY LenProperties, ElementOfSeq
  <1>k. k \in Nat /\ k <= Len(w) /\ Len(w) \in Nat /\ n \in Nat
    BY <1>0
  <1>1. v \in Seq(Units) /\ Len(v) = k /\ \A i \in 1..k : v[i] = w[i]
    BY <1>0, SubSeqProperties
  <1>2. b \in Seq(Requests) /\ Len(b) = n /\ \A i \in 1..n : b[i] = a[i]
    <2>1. \A i \in 1..n : a[i] \in Requests
      BY <1>0, ElementOfSeq
    <2> QED BY <1>0, <2>1, SubSeqProperties
  <1> HIDE DEF v, b
  <1>3. \A j \in 1..k : w[j].of \in 1..n
    <2> SUFFICES ASSUME NEW j \in 1..k, w[j].of \notin 1..n PROVE FALSE
      OBVIOUS
    <2>1. w[j].of \in (n + 1)..Len(a)
      BY <1>0 DEF WireOK
    <2>a. w[j].of \in Lost(w, k)
      BY <2>1
    <2>2. PICK x \in (k + 1)..Len(w) : w[x].kind = "head" /\ w[x].of = w[j].of
      BY <2>a DEF Lost
    <2>3. w[j].of < w[x].of
      BY <1>0, <2>2 DEF WireOK
    <2> QED BY <2>1, <2>2, <2>3
  <1>4. \A j \in 1..Len(v) : v[j].conn = c /\ v[j].of \in 1..Len(b)
    <2> TAKE j \in 1..Len(v)
    <2>1. j \in 1..k /\ j \in 1..Len(w) /\ v[j] = w[j]
      BY <1>k, <1>1
    <2>2. w[j].conn = c
      BY <2>1 DEF WireOK
    <2> QED BY <1>2, <1>3, <2>1, <2>2
  <1>5. WireOK(c, v, b, FALSE)
    <2> SUFFICES ASSUME NEW j \in 1..Len(v), v[j].kind = "head"
                 PROVE  /\ \A i \in 1..(j - 1) : v[i].of < v[j].of
                        /\ \A m \in 1..b[v[j].of].shape.units :
                              j + m <= Len(v) => v[j + m] = Unit("body", c, v[j].of)
                        /\ j + b[v[j].of].shape.units + 1 <= Len(v) =>
                              v[j + b[v[j].of].shape.units + 1].kind = "head"
      BY <1>4 DEF WireOK
    <2> DEFINE u == b[v[j].of].shape.units
    <2>1. j \in 1..Len(w) /\ v[j] = w[j] /\ v[j].of \in 1..n /\ v[j].of \in 1..Len(a)
      <3>1. j \in 1..k /\ j \in 1..Len(w)
        BY <1>k, <1>1
      <3>2. v[j] = w[j] /\ w[j].of \in 1..n
        BY <1>1, <1>3, <3>1
      <3> QED BY <1>0, <3>1, <3>2
    <2>2. u = a[w[j].of].shape.units /\ u \in Nat
      <3>1. b[v[j].of] = a[w[j].of] /\ w[j].of \in 1..Len(a)
        BY <1>2, <2>1
      <3> QED BY <3>1
    <2> HIDE DEF u
    <2>3. /\ \A i \in 1..(j - 1) : w[i].of < w[j].of
          /\ \A m \in 1..u : j + m <= Len(w) => w[j + m] = Unit("body", c, w[j].of)
          /\ j + u + 1 <= Len(w) => w[j + u + 1].kind = "head"
      BY <2>1, <2>2 DEF WireOK
    <2>4. \A i \in 1..(j - 1) : v[i].of < v[j].of
      BY <1>1, <2>1, <2>3
    <2>5. \A m \in 1..u : j + m <= Len(v) => v[j + m] = Unit("body", c, v[j].of)
      <3> SUFFICES ASSUME NEW m \in 1..u, j + m <= Len(v)
                   PROVE  v[j + m] = Unit("body", c, v[j].of)
        OBVIOUS
      <3>1. j + m \in 1..k /\ j + m <= Len(w)
        BY <1>0, <1>1, <2>2
      <3> QED BY <1>1, <2>1, <2>3, <3>1
    <2>6. j + u + 1 <= Len(v) => v[j + u + 1].kind = "head"
      <3> SUFFICES ASSUME j + u + 1 <= Len(v) PROVE v[j + u + 1].kind = "head"
        OBVIOUS
      <3>0. j \in Nat /\ u \in Nat /\ Len(v) = k
        BY <1>1, <2>2
      <3>1. j + u + 1 \in 1..k /\ j + u + 1 <= Len(w)
        BY <1>k, <3>0
      <3>2. w[j + u + 1].kind = "head"
        BY <2>3, <3>1
      <3> QED BY <1>1, <3>1, <3>2
    <2> QED BY <2>4, <2>5, <2>6 DEF u
  <1> QED BY <1>1, <1>2, <1>5 DEF v, b, Shortened

\* A request behind a whole stream makes a whole stream.
LEMMA GrowWire ==
    ASSUME NEW c, NEW w \in Seq(Units), NEW a \in Seq(Requests), WireOK(c, w, a, TRUE),
           NEW r \in Requests, NEW n \in Nat, r.shape.units = n,
           \A i \in 1..Len(a) : a[i].shape.units \in Nat,
           NEW b \in Seq(Requests), b = Append(a, r),
           NEW v \in Seq(Units), Len(v) = Len(w) + 1 + n,
           \A x \in 1..Len(w) : v[x] = w[x],
           v[Len(w) + 1] = Unit("head", c, Len(a) + 1),
           \A m \in 1..n : v[Len(w) + 1 + m] = Unit("body", c, Len(a) + 1)
    PROVE  WireOK(c, v, b, TRUE)
  <1>1. Len(w) \in Nat /\ Len(a) \in Nat
    BY LenProperties
  <1>2. Len(b) = Len(a) + 1 /\ b[Len(a) + 1] = r /\ \A i \in 1..Len(a) : b[i] = a[i]
    BY <1>1, AppendProperties
  <1>3. \A x \in 1..Len(v) : \/ x \in 1..Len(w)
                            \/ x = Len(w) + 1
                            \/ \E m \in 1..n : x = Len(w) + 1 + m
    <2> SUFFICES ASSUME NEW x \in 1..Len(v), x \notin 1..Len(w), x # Len(w) + 1
                 PROVE  \E m \in 1..n : x = Len(w) + 1 + m
      OBVIOUS
    <2>1. x - (Len(w) + 1) \in 1..n /\ x = Len(w) + 1 + (x - (Len(w) + 1))
      BY <1>1
    <2> QED BY <2>1
  <1>4. \A x \in 1..Len(v) : v[x].conn = c /\ v[x].of \in 1..Len(b)
    <2> TAKE x \in 1..Len(v)
    <2>1. CASE x \in 1..Len(w)
      BY <1>1, <1>2, <2>1 DEF WireOK
    <2>2. CASE x = Len(w) + 1
      <3>1. v[x].conn = c /\ v[x].of = Len(a) + 1
        BY <2>2 DEF Unit
      <3> QED BY <1>1, <1>2, <3>1
    <2>3. CASE \E m \in 1..n : x = Len(w) + 1 + m
      <3>0. PICK m \in 1..n : x = Len(w) + 1 + m
        BY <2>3
      <3>a. v[Len(w) + 1 + m] = Unit("body", c, Len(a) + 1)
        OBVIOUS
      <3>b. v[x] = Unit("body", c, Len(a) + 1)
        BY ONLY <3>0, <3>a
      <3>1. v[x].conn = c /\ v[x].of = Len(a) + 1
        BY ONLY <3>b DEF Unit
      <3>2. Len(a) + 1 \in 1..Len(b)
        BY <1>1, <1>2
      <3> QED BY <3>1, <3>2
    <2> QED BY <1>3, <2>1, <2>2, <2>3
  <1> SUFFICES ASSUME NEW j \in 1..Len(v), v[j].kind = "head"
               PROVE  /\ \A i \in 1..(j - 1) : v[i].of < v[j].of
                      /\ \A m \in 1..b[v[j].of].shape.units :
                            j + m <= Len(v) => v[j + m] = Unit("body", c, v[j].of)
                      /\ j + b[v[j].of].shape.units + 1 <= Len(v) =>
                            v[j + b[v[j].of].shape.units + 1].kind = "head"
                      /\ j + b[v[j].of].shape.units <= Len(v)
    BY <1>4 DEF WireOK
  <1>5. j \in 1..Len(w) \/ j = Len(w) + 1
    <2>1. ASSUME NEW m \in 1..n, j = Len(w) + 1 + m PROVE FALSE
      <3>1. v[j] = Unit("body", c, Len(a) + 1)
        BY <2>1
      <3> QED BY <3>1 DEF Unit
    <2> QED BY <1>3, <2>1
  <1>6. CASE j = Len(w) + 1
    <2>1. v[j].of = Len(a) + 1 /\ b[v[j].of].shape.units = n
      BY <1>2, <1>6 DEF Unit
    <2>2. \A i \in 1..(j - 1) : v[i].of < v[j].of
      <3> TAKE i \in 1..(j - 1)
      <3>1. i \in 1..Len(w) /\ v[i] = w[i]
        BY <1>6
      <3>2. w[i].of \in 1..Len(a)
        BY <3>1 DEF WireOK
      <3> QED BY ONLY <2>1, <3>1, <3>2, Len(a) \in Nat
    <2>3. \A m \in 1..n : v[j + m] = Unit("body", c, v[j].of)
      BY <1>6, <2>1
    <2>4. Len(v) = j + n
      BY <1>6
    <2>5. j + n <= Len(v) /\ ~(j + n + 1 <= Len(v))
      BY <1>1, <1>6, <2>4
    <2> DEFINE u == b[v[j].of].shape.units
    <2>6. u = n
      BY <2>1
    <2> HIDE DEF u
    <2>7. /\ \A m \in 1..u : v[j + m] = Unit("body", c, v[j].of)
          /\ j + u <= Len(v) /\ ~(j + u + 1 <= Len(v))
      BY <2>3, <2>5, <2>6
    <2> QED BY <2>2, <2>7 DEF u
  <1>7. CASE j \in 1..Len(w)
    <2> DEFINE u == b[v[j].of].shape.units
    <2>1. v[j] = w[j] /\ v[j].of \in 1..Len(a)
      BY <1>7 DEF WireOK
    <2>2. u = a[w[j].of].shape.units /\ u \in Nat
      BY <1>2, <2>1
    <2> HIDE DEF u
    <2>3. /\ \A i \in 1..(j - 1) : w[i].of < w[j].of
          /\ \A m \in 1..u : j + m <= Len(w) => w[j + m] = Unit("body", c, w[j].of)
          /\ j + u + 1 <= Len(w) => w[j + u + 1].kind = "head"
          /\ j + u <= Len(w)
      BY <1>7, <2>1, <2>2 DEF WireOK
    <2>4. \A i \in 1..(j - 1) : v[i].of < v[j].of
      <3> TAKE i \in 1..(j - 1)
      <3>1. i \in 1..Len(w)
        BY <1>1, <1>7
      <3> QED BY <2>1, <2>3, <3>1
    <2>a. j \in Nat /\ u \in Nat /\ j + u <= Len(w) /\ Len(w) \in Nat /\ j > 0
      BY <1>1, <1>7, <2>2, <2>3
    <2>5. \A m \in 1..u : v[j + m] = Unit("body", c, v[j].of)
      <3> TAKE m \in 1..u
      <3>1. j + m \in 1..Len(w) /\ j + m <= Len(w)
        BY <2>a
      <3> QED BY <2>1, <2>3, <3>1
    <2>6. v[j + u + 1].kind = "head"
      <3>1. CASE j + u = Len(w)
        <4>1. j + u + 1 = Len(w) + 1
          BY <3>1
        <4> QED BY <4>1 DEF Unit
      <3>2. CASE j + u # Len(w)
        <4>1. j + u + 1 \in 1..Len(w) /\ j + u + 1 <= Len(w)
          BY <2>a, <3>2
        <4> QED BY <2>3, <4>1
      <3> QED BY <3>1, <3>2
    <2>7. j + u <= Len(v)
      BY <1>1, <1>7, <2>2, <2>3
    <2> QED BY <2>4, <2>5, <2>6, <2>7 DEF u
  <1> QED BY <1>5, <1>6, <1>7

-----------------------------------------------------------------------------
(* What a step leaves alone.                                               *)

\* Bodies have a length.
LEMMA UnitsOfRequests ==
    ASSUME Inv, NEW c \in Conns
    PROVE  \A i \in 1..Len(asked[c]) : asked[c][i].shape.units \in Nat
  BY ShapesAssumption DEF Inv, StreamOK, RequestOK

\* Who was the owner when a request was sent is not forgotten, and no cookie
\* comes back to life.
LEMMA RequestKept ==
    ASSUME NEW c \in Conns, NEW r, RequestOK(c, r), config' = config,
           now \in Nat, now' \in Nat, now' >= now, granted \subseteq granted',
           pc'[c] # "closed" => pc[c] # "closed"
    PROVE  RequestOK(c, r)'
  <1>1. r.cookie = None \/ Backed(r.cookie)'
    BY DEF RequestOK, Backed
  <1>2. ASSUME pc'[c] # "closed", VerifyCookie(config', r.cookie, now') PROVE r.owner
    <2>1. PICK g \in granted : g.config \in Nat /\ g.at \in Nat /\ r.cookie = SignCookie(g.config, g.at)
      BY <1>2 DEF RequestOK, Backed, VerifyCookie
    <2>2. r.cookie.exp = g.at + Ttl /\ Ttl \in Nat
      BY <2>1, TtlAssumption DEF SignCookie
    <2>3. VerifyCookie(config, r.cookie, now)
      BY <1>2, <2>1, <2>2 DEF VerifyCookie
    <2> QED BY <1>2, <2>3 DEF RequestOK
  <1> QED BY <1>1, <1>2 DEF RequestOK

LEMMA BackedKept ==
    ASSUME NEW cookie, Backed(cookie), granted \subseteq granted'
    PROVE  Backed(cookie)'
  BY DEF Backed

\* A connection a step does not touch.
LEMMA Elsewhere ==
    ASSUME Inv, NEW d \in Conns, config' = config, now' \in Nat, now' >= now,
           granted \subseteq granted', asked'[d] = asked[d], wire'[d] = wire[d],
           (client'[d] = "open") = (client[d] = "open"), pc'[d] = pc[d],
           current'[d] = current[d], body'[d] = body[d], reply'[d] = reply[d]
    PROVE  StreamOK(d)' /\ HandlerOK(d)' /\ \A i : Ahead(d, i) => Ahead(d, i)'
  <1>1. StreamOK(d) /\ HandlerOK(d) /\ now \in Nat
    BY DEF Inv, Types
  <1>2. \A i \in 1..Len(asked[d]) : RequestOK(d, asked[d][i])'
    BY <1>1, RequestKept DEF StreamOK
  <1>3. StreamOK(d)'
    BY <1>1, <1>2 DEF StreamOK, WireOK
  <1>4. \A i : Ahead(d, i) => Ahead(d, i)'
    BY DEF Ahead
  <1>5. pc[d] \in {"reply", "payload"} => reply[d].cookie = None \/ Backed(reply[d].cookie)'
    BY <1>1, BackedKept DEF HandlerOK
  <1>6. HandlerOK(d)'
    BY <1>1, <1>4, <1>5 DEF HandlerOK, Busy
  <1> QED BY <1>3, <1>4, <1>6

\* A step of the handler of one connection, which takes some units off the wire.
Behind(v, w, n) ==
    /\ n \in 0..Len(w) /\ Len(v) = Len(w) - n
    /\ \A j \in 1..Len(v) : v[j] = w[j + n]

Handling(c) ==
    /\ UNCHANGED <<config, now, asked, client>> /\ granted \subseteq granted'
    /\ \A d \in Conns \ {c} : /\ wire'[d] = wire[d] /\ pc'[d] = pc[d] /\ reply'[d] = reply[d]
                             /\ current'[d] = current[d] /\ body'[d] = body[d]
    /\ pc[c] # "closed" /\ \E n \in Nat : Behind(wire'[c], wire[c], n)

LEMMA Handled ==
    ASSUME Inv, Types', NEW c \in Conns, Handling(c), HandlerOK(c)'
    PROVE  /\ \A d \in Conns : StreamOK(d)' /\ HandlerOK(d)'
           /\ \A d \in Conns : \A i : Ahead(d, i) => Ahead(d, i)'
  <1>1. now \in Nat /\ StreamOK(c) /\ wire[c] \in Seq(Units) /\ wire'[c] \in Seq(Units)
    BY DEF Inv, Types
  <1>2. PICK n \in Nat : Behind(wire'[c], wire[c], n)
    BY DEF Handling
  <1>3. \A d \in Conns \ {c} : StreamOK(d)' /\ HandlerOK(d)' /\ \A i : Ahead(d, i) => Ahead(d, i)'
    <2>1. now' \in Nat /\ now' >= now
      BY <1>1 DEF Handling
    <2> QED BY <2>1, Elsewhere DEF Handling
  <1>4. \A i \in 1..Len(asked[c]) : RequestOK(c, asked[c][i])'
    <2>1. now' \in Nat /\ now' >= now
      BY <1>1 DEF Handling
    <2> QED BY <1>1, <2>1, RequestKept DEF StreamOK, Handling
  <1>5. WireOK(c, wire'[c], asked[c], client[c] = "open")
    BY <1>1, <1>2, DropWire, UnitsOfRequests DEF StreamOK, Behind
  <1>6. StreamOK(c)'
    BY <1>4, <1>5 DEF StreamOK, WireOK, Handling
  <1>7. ASSUME NEW i, Ahead(c, i) PROVE Ahead(c, i)'
    <2> SUFFICES ASSUME NEW j \in 1..Len(wire'[c]), wire'[c][j].kind = "head"
                 PROVE  wire'[c][j].of > i
      BY DEF Ahead
    <2>1. j + n \in 1..Len(wire[c])
      BY <1>1, <1>2, LenProperties DEF Behind
    <2>2. wire'[c][j] = wire[c][j + n]
      BY <1>2 DEF Behind
    <2> QED BY <1>7, <2>1, <2>2 DEF Ahead
  <1> QED BY <1>3, <1>6, <1>7

LEMMA ReachedKept ==
    ASSUME Inv, UNCHANGED <<asked, reached>>,
           \A d \in Conns : \A i : Ahead(d, i) => Ahead(d, i)'
    PROVE  (\A k \in 1..Len(reached) : ReachedOK(reached[k]))'
  <1> SUFFICES ASSUME NEW k \in 1..Len(reached) PROVE ReachedOK(reached[k])'
    OBVIOUS
  <1>1. reached \in Seq(Reaches)
    BY DEF Inv, Types
  <1>2. reached[k] \in Reaches
    BY <1>1, ElementOfSeq
  <1>3. reached[k].conn \in Conns
    BY <1>2 DEF Reaches
  <1>4. ReachedOK(reached[k])
    BY DEF Inv
  <1> QED BY <1>3, <1>4 DEF ReachedOK

LEMMA HandledInv ==
    ASSUME Inv, Types', NEW c \in Conns, Handling(c), HandlerOK(c)', Grants',
           \A cookie \in jar' : Backed(cookie)', UNCHANGED reached
    PROVE  Inv'
  <1>1. (\A k \in 1..Len(reached) : ReachedOK(reached[k]))'
    BY Handled, ReachedKept DEF Handling
  <1> QED BY <1>1, Handled DEF Inv

-----------------------------------------------------------------------------
(* Reading a request.                                                      *)

LEMMA ReadRequestInv ==
    ASSUME Inv, NEW c \in Conns, ReadRequest(c)
    PROVE  Inv'
  <1>i. PICK i : i = Head(wire[c]).of
    OBVIOUS
  <1> DEFINE w == wire[c]
             rest == Tail(w)
             r == asked[c][i].shape
             u == r.units
  <1>0. /\ pc[c] = "idle" /\ w \in Seq(Units) /\ w # <<>>
        /\ UNCHANGED <<session, clients, received, reached>>
        /\ current' = [current EXCEPT ![c] = i]
    BY <1>i DEF ReadRequest, Inv, Types
  <1>1. /\ Len(w) \in Nat \ {0} /\ Head(w) = w[1]
        /\ rest \in Seq(Units) /\ Len(rest) = Len(w) - 1
        /\ \A k \in 1..Len(rest) : rest[k] = w[k + 1]
    BY <1>0, EmptySeq, HeadTailProperties
  <1>2. w[1].kind = "head" /\ WireOK(c, w, asked[c], client[c] = "open")
    BY <1>0, <1>1 DEF Inv, HandlerOK, StreamOK
  <1>3. i \in 1..Len(asked[c]) /\ i \in Nat /\ u \in Nat /\ i = w[1].of
    <2>1. i = w[1].of /\ 1 \in 1..Len(w)
      BY <1>i, <1>1
    <2>2. i \in 1..Len(asked[c])
      BY <1>2, <2>1 DEF WireOK
    <2>3. Len(asked[c]) \in Nat
      BY LenProperties DEF Inv, Types
    <2> QED BY <2>1, <2>2, <2>3, UnitsOfRequests
  <1>4. /\ \A m \in 1..u : 1 + m <= Len(w) => w[1 + m] = Unit("body", c, i)
        /\ 1 + u + 1 <= Len(w) => w[1 + u + 1].kind = "head"
        /\ \A j \in 2..Len(w) : w[j].kind = "head" => w[j].of > i
    <2>1. 1 \in 1..Len(w)
      BY <1>1
    <2>2. /\ \A m \in 1..u : 1 + m <= Len(w) => w[1 + m] = Unit("body", c, i)
          /\ 1 + u + 1 <= Len(w) => w[1 + u + 1].kind = "head"
      BY <1>2, <1>3, <2>1 DEF WireOK
    <2>3. ASSUME NEW j \in 2..Len(w), w[j].kind = "head" PROVE w[j].of > i
      <3>1. j \in 1..Len(w) /\ 1 \in 1..(j - 1)
        BY <1>1
      <3>2. w[1].of < w[j].of /\ w[j].of \in 1..Len(asked[c])
        BY <1>2, <2>3, <3>1 DEF WireOK
      <3> QED BY <1>3, <3>2
    <2> QED BY <2>2, <2>3
  <1> HIDE DEF u, r
  <1>5. ASSUME NEW n \in 1..Len(w), NEW v \in Seq(Units), Len(v) = Len(w) - n,
               \A j \in 1..Len(v) : v[j] = w[j + n], wire' = [wire EXCEPT ![c] = v]
        PROVE  /\ wire' \in [Conns -> Seq(Units)] /\ wire'[c] = v
               /\ Behind(wire'[c], wire[c], n) /\ Ahead(c, i)'
    <2>1. wire' \in [Conns -> Seq(Units)] /\ wire'[c] = v
      BY <1>5 DEF Inv, Types
    <2>2. Behind(wire'[c], wire[c], n)
      <3>1. n \in 0..Len(wire[c])
        BY <1>1
      <3> QED BY <1>5, <2>1, <3>1 DEF Behind
    <2>3. ASSUME NEW j \in 1..Len(v), v[j].kind = "head" PROVE v[j].of > i
      <3>1. j + n \in 2..Len(w) /\ v[j] = w[j + n]
        BY <1>1, <1>5, LenProperties
      <3> QED BY <1>4, <2>3, <3>1
    <2> QED BY <2>1, <2>2, <2>3 DEF Ahead
  <1>6. ASSUME NEW n \in 1..Len(w), NEW v \in Seq(Units), Len(v) = Len(w) - n,
               \A j \in 1..Len(v) : v[j] = w[j + n], wire' = [wire EXCEPT ![c] = v],
               NEW response, Answer(c, response), response.final,
               ~response.guarded, response.cookie = None,
               UNCHANGED body
        PROVE  Inv'
    <2>1. Types'
      BY <1>0, <1>3, <1>5, <1>6 DEF Inv, Types, Answer, Goto, session, clients
    <2>2. Handling(c)
      <3>a. n \in Nat
        BY <1>1
      <3>b. Behind(wire'[c], wire[c], n)
        BY <1>5, <1>6
      <3>0. n \in Nat /\ Behind(wire'[c], wire[c], n)
        BY <3>a, <3>b
      <3>1. \E m \in Nat : Behind(wire'[c], wire[c], m)
        BY <3>0
      <3> QED BY <1>0, <1>6, <3>1 DEF Inv, Types, Handling, Answer, Goto, session, clients
    <2>3. HandlerOK(c)'
      BY <1>0, <1>3, <1>5, <1>6 DEF Inv, Types, HandlerOK, Busy, Answer, Goto, clients
    <2> QED BY <1>0, <2>1, <2>2, <2>3, HandledInv DEF Inv, Grants, Backed, session, received
  <1>7. CASE ~Supported(r) /\ Answer(c, Final(Response(501, 1, r)))
             /\ wire' = [wire EXCEPT ![c] = rest] /\ UNCHANGED body
    <2>1. /\ Final(Response(501, 1, r)).final /\ ~Final(Response(501, 1, r)).guarded
          /\ Final(Response(501, 1, r)).cookie = None
      BY DEF Final, Response
    <2>2. 1 \in 1..Len(w)
      BY <1>1
    <2> QED BY <1>1, <1>6, <1>7, <2>1, <2>2
  <1>r. Rejection(r).final /\ ~Rejection(r).guarded /\ Rejection(r).cookie = None
    BY DEF Rejection, Final, Response
  <1>8. CASE Supported(r) /\ ~Framable(r) /\ Answer(c, Rejection(r))
             /\ wire' = [wire EXCEPT ![c] = rest] /\ UNCHANGED body
    <2>1. 1 \in 1..Len(w)
      BY <1>1
    <2> QED BY <1>1, <1>6, <1>8, <1>r, <2>1
  <1>9. CASE /\ Answer(c, Rejection(r)) /\ wire' = [wire EXCEPT ![c] = <<>>] /\ UNCHANGED body
    <2>1. <<>> \in Seq(Units) /\ Len(<<>>) = Len(w) - Len(w) /\ Len(w) \in 1..Len(w)
      BY <1>1, EmptySeq
    <2>2. \A j \in 1..Len(<<>>) : <<>>[j] = w[j + Len(w)]
      BY EmptySeq
    <2> QED BY <1>6, <1>9, <1>r, <2>1, <2>2
  <1>10. CASE /\ u <= Len(rest) /\ Goto(c, "route") /\ Keep(c, SubSeq(rest, 1, u))
              /\ wire' = [wire EXCEPT ![c] = SubSeq(rest, u + 1, Len(rest))]
              /\ UNCHANGED reply
    <2> DEFINE b == SubSeq(rest, 1, u)
               v == SubSeq(rest, u + 1, Len(rest))
    <2>1. \A k \in 1..Len(rest) : rest[k] \in Units
      BY <1>1, ElementOfSeq
    <2>2. b \in Seq(Units) /\ Len(b) = u /\ \A m \in 1..u : b[m] = rest[m]
      BY <1>1, <1>3, <1>10, <2>1, SubSeqProperties
    <2>3. v \in Seq(Units) /\ Len(v) = Len(w) - (1 + u) /\ \A j \in 1..Len(v) : v[j] = rest[u + j]
      BY <1>1, <1>3, <1>10, <2>1, SubSeqProperties
    <2> HIDE DEF b, v
    <2>4. \A m \in 1..Len(b) : b[m] = Unit("body", c, i)
      <3> TAKE m \in 1..Len(b)
      <3>1. m \in 1..u /\ m \in 1..Len(rest) /\ 1 + m = m + 1 /\ 1 + m <= Len(w)
        BY <1>1, <1>3, <1>10, <2>2
      <3> QED BY <1>1, <1>4, <2>2, <3>1
    <2>5. 1 + u \in 1..Len(w) /\ \A j \in 1..Len(v) : v[j] = w[j + (1 + u)]
      <3>1. 1 + u \in 1..Len(w)
        BY <1>1, <1>3, <1>10
      <3>2. ASSUME NEW j \in 1..Len(v) PROVE v[j] = w[j + (1 + u)]
        <4>1. u + j \in 1..Len(rest) /\ (u + j) + 1 = j + (1 + u)
          BY <1>1, <1>3, <2>3
        <4> QED BY <1>1, <2>3, <4>1
      <3> QED BY <3>1, <3>2
    <2>6. /\ wire' \in [Conns -> Seq(Units)] /\ wire'[c] = v
          /\ Behind(wire'[c], wire[c], 1 + u) /\ Ahead(c, i)'
      BY <1>5, <1>10, <2>3, <2>5 DEF v
    <2>7. Len(v) > 0 => v[1].kind = "head"
      <3> SUFFICES ASSUME Len(v) > 0 PROVE v[1].kind = "head"
        OBVIOUS
      <3>1. 1 \in 1..Len(v) /\ 1 + (1 + u) = 1 + u + 1 /\ 1 + u + 1 <= Len(w)
        BY <1>1, <1>3, <2>3
      <3> QED BY <1>4, <2>5, <3>1
    <2>8. body' = [body EXCEPT ![c] = b]
      BY <1>10 DEF Keep, b
    <2>9. Types'
      BY <1>0, <1>3, <1>10, <2>2, <2>6, <2>8 DEF Inv, Types, Goto, session, clients
    <2>10. Handling(c)
      <3>1. \E m \in Nat : Behind(wire'[c], wire[c], m)
        BY <1>3, <2>6
      <3> QED BY <3>1, <1>0, <1>3, <1>10, <2>6, <2>8 DEF Inv, Types, Handling, Goto, session, clients
    <2>11. HandlerOK(c)'
      BY <1>0, <1>3, <1>10, <2>4, <2>6, <2>7, <2>8 DEF Inv, Types, HandlerOK, Busy, Goto, clients
    <2> QED BY <1>0, <2>9, <2>10, <2>11, HandledInv DEF Inv, Grants, Backed, session, received
  <1> QED BY <1>i, <1>7, <1>8, <1>9, <1>10 DEF ReadRequest, r, u

-----------------------------------------------------------------------------
(* The rest of the handler.                                                *)

\* A handler that keeps its place on the wire.
LEMMA InPlace ==
    ASSUME Inv, NEW c \in Conns, UNCHANGED <<config, now, asked, client, wire, current, body>>,
           granted \subseteq granted', pc[c] # "closed",
           NEW label, Goto(c, label),
           reply' = reply \/ \E response : reply' = [reply EXCEPT ![c] = response]
    PROVE  Handling(c) /\ (reached' \in Seq(Reaches) => Types')
           /\ pc'[c] = label /\ \A i : Ahead(c, i) => Ahead(c, i)'
  <1>1. wire[c] \in Seq(Units) /\ Len(wire[c]) \in Nat
    BY LenProperties DEF Inv, Types
  <1>2. Behind(wire'[c], wire[c], 0)
    <2>1. \A j \in 1..Len(wire[c]) : j + 0 = j
      OBVIOUS
    <2> QED BY <1>1, <2>1 DEF Behind
  <1>3. \E n \in Nat : Behind(wire'[c], wire[c], n)
    BY <1>2
  <1>4. pc'[c] = label /\ DOMAIN pc' = Conns /\ DOMAIN reply' = Conns
    BY DEF Inv, Types, Goto
  <1>5. Handling(c)
    <2>1. \A d \in Conns \ {c} : pc'[d] = pc[d] /\ reply'[d] = reply[d]
      BY DEF Inv, Types, Goto
    <2> QED BY <1>3, <2>1 DEF Handling
  <1>6. \A i : Ahead(c, i) => Ahead(c, i)'
    BY DEF Ahead
  <1>7. reached' \in Seq(Reaches) => Types'
    BY <1>4 DEF Inv, Types
  <1> QED BY <1>4, <1>5, <1>6, <1>7

\* A response is decided on.
LEMMA AnswerInv ==
    ASSUME Inv, NEW c \in Conns, UNCHANGED <<config, now, clients, wire, current, body, reached>>,
           granted \subseteq granted', Grants', jar' = jar, Busy(c),
           pc[c] \in {"reply", "payload"} => reply[c].guarded,
           NEW response, Answer(c, response),
           response.cookie = None \/ Backed(response.cookie)'
    PROVE  Inv'
  <1>1. /\ Handling(c) /\ (reached' \in Seq(Reaches) => Types')
        /\ pc'[c] = "reply" /\ \A i : Ahead(c, i) => Ahead(c, i)'
    BY InPlace DEF Answer, Busy, clients
  <1>2. Types'
    BY <1>1 DEF Inv, Types
  <1>3. reply'[c] = response
    BY DEF Inv, Types, Answer
  <1>4. HandlerOK(c) /\ current[c] \in 1..Len(asked[c]) /\ Ahead(c, current[c])
    BY DEF Inv, HandlerOK
  <1>5. HandlerOK(c)'
    BY <1>1, <1>3, <1>4 DEF HandlerOK, Busy, clients
  <1>6. \A cookie \in jar' : Backed(cookie)'
    BY BackedKept DEF Inv
  <1> QED BY <1>1, <1>2, <1>5, <1>6, HandledInv

\* The end of a connection.
LEMMA CloseInv ==
    ASSUME Inv, NEW c \in Conns, UNCHANGED <<session, clients, reached>>,
           \A cookie \in jar' : Backed(cookie), pc[c] # "closed", Close(c)
    PROVE  Inv'
  <1>1. wire[c] \in Seq(Units) /\ Len(wire[c]) \in Nat /\ <<>> \in Seq(Units) /\ Len(<<>>) = 0
    BY LenProperties, EmptySeq DEF Inv, Types
  <1>2. wire'[c] = <<>> /\ pc'[c] = "closed"
    BY DEF Close, Goto, Inv, Types
  <1>3. Behind(wire'[c], wire[c], Len(wire[c]))
    BY <1>1, <1>2 DEF Behind
  <1>4. \E n \in Nat : Behind(wire'[c], wire[c], n)
    BY <1>1, <1>3
  <1>5. Handling(c)
    BY <1>4 DEF Handling, Close, Goto, session, clients
  <1>6. Types'
    BY <1>1 DEF Inv, Types, Close, Goto, session, clients
  <1>7. HandlerOK(c)'
    BY <1>1, <1>2 DEF HandlerOK, Busy
  <1> QED BY <1>5, <1>6, <1>7, HandledInv DEF Inv, Grants, Backed, session

LEMMA RouteInv ==
    ASSUME Inv, NEW c \in Conns, Route(c)
    PROVE  Inv'
  <1> DEFINE r == Request(c).shape
  <1>1. /\ pc[c] = "route" /\ Busy(c) /\ HandlerOK(c)
        /\ UNCHANGED <<config, now, clients, received, reached, jar>>
    BY DEF Route, Busy, Inv, received
  <1> DEFINE Kept == UNCHANGED <<wire, current, body>>
  <1>2. current[c] \in 1..Len(asked[c]) /\ RequestOK(c, Request(c))
    BY <1>1 DEF HandlerOK, Inv, StreamOK, Request
  <1>3. ASSUME NEW status, NEW size, Answer(c, Response(status, size, r)), UNCHANGED granted,
               Kept
        PROVE  Inv'
    <2>1. Response(status, size, r).cookie = None
      BY DEF Response
    <2> QED BY <1>1, <1>3, <2>1, AnswerInv DEF Inv, Grants
  <1>4. CASE r.path = "login" /\ ~LoginFails(c)
             /\ Answer(c, [Response(303, 0, r) EXCEPT !.cookie = SignCookie(config, now)])
             /\ granted' = granted \cup {Grant(config, now, r)} /\ Kept
    <2> DEFINE g == Grant(config, now, r)
               response == [Response(303, 0, r) EXCEPT !.cookie = SignCookie(config, now)]
    <2>1. /\ g.cookie = SignCookie(config, now) /\ g.config = config /\ g.at = now
          /\ g.login = r /\ config \in Nat /\ now \in Nat /\ g \in granted'
      BY <1>4 DEF Grant, Inv, Types
    <2>2. Backed(SignCookie(config, now))'
      BY <1>1, <2>1 DEF Backed
    <2>3. r.token = config
      <3>1. Token(body[c]) = config /\ config # None
        BY <1>4, BoundsAssumption DEF LoginFails, VerifyToken, Inv, Types
      <3>2. body[c] # <<>> /\ body[c] \in Seq(Units)
        BY <3>1 DEF Token, Inv, Types
      <3>3. 1 \in 1..Len(body[c])
        BY <3>2, EmptySeq
      <3>4. body[c][1] = Unit("body", c, current[c])
        BY <1>1, <3>3 DEF HandlerOK
      <3> QED BY <3>1, <3>2, <3>4 DEF Token, Unit, Request
    <2>4. Grants'
      BY <1>4, <2>1, <2>3 DEF Grants, Inv
    <2>5. response.cookie = SignCookie(config, now)
      BY DEF Response
    <2> HIDE DEF g, response
    <2> QED BY <1>1, <1>4, <2>2, <2>4, <2>5, AnswerInv DEF response
  <1>5. CASE Subject(c) /\ Goto(c, "forward") /\ UNCHANGED <<reply, granted>> /\ Kept
    <2>1. /\ Handling(c) /\ (reached' \in Seq(Reaches) => Types')
          /\ pc'[c] = "forward" /\ \A i : Ahead(c, i) => Ahead(c, i)'
      BY <1>1, <1>5, InPlace DEF clients
    <2>2. Types'
      BY <1>1, <2>1 DEF Inv, Types
    <2>3. Request(c).owner
      BY <1>1, <1>2, <1>5 DEF RequestOK, Subject
    <2>4. HandlerOK(c)'
      BY <1>1, <1>2, <1>5, <2>1, <2>3 DEF HandlerOK, Busy, Request, clients
    <2>5. Grants' /\ (\A cookie \in jar' : Backed(cookie)') /\ UNCHANGED reached
      BY <1>1, <1>5 DEF Inv, Grants, Backed
    <2> QED BY <1>1, <2>1, <2>2, <2>4, <2>5, HandledInv
  <1>6. CASE Close(c) /\ UNCHANGED granted
    <2>1. UNCHANGED <<session, clients, reached>> /\ \A cookie \in jar' : Backed(cookie)
      BY <1>1, <1>6 DEF session, Inv
    <2> QED BY <1>1, <1>6, <2>1, CloseInv
  <1> QED BY <1>1, <1>3, <1>4, <1>5, <1>6 DEF Route, Login, r

LEMMA ForwardInv ==
    ASSUME Inv, NEW c \in Conns, Forward(c)
    PROVE  Inv'
  <1>1. /\ pc[c] = "forward" /\ Busy(c) /\ HandlerOK(c)
        /\ UNCHANGED <<session, config, now, granted, clients, asked, client, received, jar>>
    BY DEF Forward, Busy, Inv, received, session, clients
  <1>2. CASE /\ Answer(c, BadGateway(Request(c).shape))
             /\ UNCHANGED <<wire, current, body, reached>>
    <2>1. BadGateway(Request(c).shape).cookie = None
      BY DEF BadGateway, Response
    <2> QED BY <1>1, <1>2, <2>1, AnswerInv DEF Inv, Grants
  <1>3. CASE /\ Goto(c, "waiting") /\ UNCHANGED <<wire, current, body, reply>>
             /\ reached' = Append(reached, [conn |-> c, of |-> current[c], body |-> body[c]])
    <2> DEFINE q == [conn |-> c, of |-> current[c], body |-> body[c]]
    <2>1. /\ Handling(c) /\ (reached' \in Seq(Reaches) => Types')
          /\ pc'[c] = "waiting" /\ \A i : Ahead(c, i) => Ahead(c, i)'
      BY <1>1, <1>3, InPlace
    <2>2. q \in Reaches /\ reached \in Seq(Reaches)
      BY DEF Inv, Types, Reaches
    <2>3. /\ reached' \in Seq(Reaches) /\ Len(reached') = Len(reached) + 1
          /\ Len(reached) \in Nat
          /\ \A k \in 1..Len(reached) : reached'[k] = reached[k]
          /\ reached'[Len(reached) + 1] = q
      BY <1>3, <2>2, AppendProperties, LenProperties
    <2>4. HandlerOK(c)'
      BY <1>1, <1>3, <2>1 DEF HandlerOK, Busy
    <2>5. /\ \A d \in Conns : StreamOK(d)' /\ HandlerOK(d)'
          /\ \A d \in Conns : \A i : Ahead(d, i) => Ahead(d, i)'
      BY <2>1, <2>3, <2>4, Handled
    <2>6. /\ q.of \in 1..Len(asked[q.conn]) /\ asked[q.conn][q.of].owner
          /\ Ahead(q.conn, q.of)
      BY <1>1 DEF HandlerOK
    <2> HIDE DEF q
    <2>7. ASSUME NEW k \in 1..Len(reached') PROVE ReachedOK(reached[k])'
      <3>1. CASE k = Len(reached) + 1
        <4>1. reached'[k] = q /\ q.conn = c
          BY <2>3, <3>1 DEF q
        <4> QED BY <1>1, <2>5, <2>6, <4>1 DEF ReachedOK
      <3>2. CASE k # Len(reached) + 1
        <4>1. k \in 1..Len(reached)
          BY <2>3, <3>2
        <4>2. reached'[k] = reached[k] /\ reached[k] \in Reaches /\ ReachedOK(reached[k])
          BY <2>2, <2>3, <4>1, ElementOfSeq DEF Inv
        <4>3. reached[k].conn \in Conns
          BY <4>2 DEF Reaches
        <4> QED BY <1>1, <2>5, <4>2, <4>3 DEF ReachedOK
      <3> QED BY <3>1, <3>2
    <2> QED BY <1>1, <2>1, <2>3, <2>5, <2>7 DEF Inv, Grants, Backed
  <1>4. CASE Close(c) /\ UNCHANGED reached
    BY <1>1, <1>4, CloseInv DEF Inv
  <1> QED BY <1>2, <1>3, <1>4 DEF Forward

LEMMA ReceiveInv ==
    ASSUME Inv, NEW c \in Conns, Receive(c)
    PROVE  Inv'
  <1>1. /\ pc[c] = "waiting" /\ Busy(c)
        /\ UNCHANGED <<session, config, now, granted, clients, received, jar, reached>>
    BY DEF Receive, Busy, received, session
  <1>2. ASSUME NEW response, response.cookie = None, Answer(c, response),
               UNCHANGED <<wire, current, body>>
        PROVE  Inv'
    BY <1>1, <1>2, AnswerInv DEF Inv, Grants
  <1>3. /\ \A size : [Response(200, size, Request(c).shape) EXCEPT !.guarded = TRUE].cookie = None
        /\ BadGateway(Request(c).shape).cookie = None
    BY DEF Response, BadGateway
  <1>4. CASE Close(c)
    BY <1>1, <1>4, CloseInv DEF Inv
  <1> QED BY <1>2, <1>3, <1>4 DEF Receive

\* What the client is sent are cookies of logins.
LEMMA DeliverJar ==
    ASSUME Inv, NEW c \in Conns, NEW unit, Deliver(c, unit),
           unit.cookie = None \/ Backed(unit.cookie)
    PROVE  \A cookie \in jar' : Backed(cookie)
  BY DEF Deliver, Inv, received

LEMMA FinishedInv ==
    ASSUME Inv, NEW c \in Conns, UNCHANGED <<session, clients, reached>>,
           \A cookie \in jar' : Backed(cookie),
           pc[c] \in {"reply", "payload"}, Finished(c)
    PROVE  Inv'
  <1>1. CASE Close(c)
    BY <1>1, CloseInv
  <1>2. CASE /\ ~reply[c].final /\ Goto(c, "idle") /\ UNCHANGED wire
             /\ current' = [current EXCEPT ![c] = 0]
             /\ body' = [body EXCEPT ![c] = <<>>]
             /\ reply' = [reply EXCEPT ![c] = None]
    <2>1. wire[c] \in Seq(Units) /\ Len(wire[c]) \in Nat /\ <<>> \in Seq(Units)
      BY LenProperties, EmptySeq DEF Inv, Types
    <2>2. Types' /\ pc'[c] = "idle"
      BY <1>2, <2>1 DEF Inv, Types, Goto, session, clients
    <2>3. Behind(wire'[c], wire[c], 0)
      <3>1. \A j \in 1..Len(wire[c]) : j + 0 = j
        OBVIOUS
      <3> QED BY <1>2, <2>1, <3>1 DEF Behind
    <2>4. \E n \in Nat : Behind(wire'[c], wire[c], n)
      BY <2>3
    <2>5. Handling(c)
      BY <1>2, <2>4 DEF Inv, Types, Handling, Goto, session, clients
    <2>6. HandlerOK(c)'
      BY <1>2, <2>2 DEF Inv, HandlerOK, Busy
    <2> QED BY <2>2, <2>5, <2>6, HandledInv DEF Inv, Grants, Backed, session
  <1> QED BY <1>1, <1>2 DEF Finished

LEMMA WriteInv ==
    ASSUME Inv, NEW c \in Conns, WriteHead(c) \/ WriteBody(c) \/ BrokenPipe(c) \/ EndOfFile(c)
    PROVE  Inv'
  <1>1. CASE WriteHead(c)
    <2>1. pc[c] = "reply" /\ UNCHANGED <<session, config, now, granted, clients, asked, client, reached>>
      BY <1>1 DEF WriteHead, session, clients
    <2>2. \A cookie \in jar' : Backed(cookie)
      <3> DEFINE unit == [kind |-> "head", status |-> reply[c].status, size |-> reply[c].size,
                          cookie |-> reply[c].cookie]
      <3>1. Deliver(c, unit) /\ unit.cookie = reply[c].cookie
        BY <1>1 DEF WriteHead
      <3>2. unit.cookie = None \/ Backed(unit.cookie)
        BY <2>1, <3>1 DEF Inv, HandlerOK
      <3> HIDE DEF unit
      <3> QED BY <3>1, <3>2, DeliverJar
    <2>3. CASE Goto(c, "payload") /\ UNCHANGED <<wire, current, body, reply>>
      <3>1. /\ Handling(c) /\ (reached' \in Seq(Reaches) => Types')
            /\ pc'[c] = "payload" /\ \A i : Ahead(c, i) => Ahead(c, i)'
        BY <2>1, <2>3, InPlace
      <3>2. Types' /\ HandlerOK(c)
        BY <2>1, <3>1 DEF Inv, Types
      <3>3. HandlerOK(c)'
        BY <2>1, <2>3, <3>1, <3>2 DEF HandlerOK, Busy, Backed
      <3> QED BY <2>1, <2>2, <3>1, <3>2, <3>3, HandledInv DEF Inv, Grants, Backed
    <2>4. CASE Finished(c)
      BY <2>1, <2>2, <2>4, FinishedInv
    <2> QED BY <1>1, <2>3, <2>4 DEF WriteHead
  <1>2. CASE WriteBody(c)
    <2>1. \A cookie \in jar' : Backed(cookie)
      BY <1>2, DeliverJar DEF WriteBody
    <2> QED BY <1>2, <2>1, FinishedInv DEF WriteBody
  <1>3. CASE BrokenPipe(c)
    <2>1. /\ pc[c] \in {"reply", "payload"} /\ Busy(c)
          /\ UNCHANGED <<session, config, now, granted, clients, received, jar, reached>>
      BY <1>3 DEF BrokenPipe, Busy, session, received
    <2>2. BadGateway(Request(c).shape).cookie = None
      BY DEF BadGateway, Response
    <2>3. CASE Close(c)
      BY <2>1, <2>3, CloseInv DEF Inv
    <2>4. CASE reply[c].guarded /\ Answer(c, BadGateway(Request(c).shape))
               /\ UNCHANGED <<wire, current, body>>
      BY <2>1, <2>2, <2>4, AnswerInv DEF Inv, Grants
    <2> QED BY <1>3, <2>3, <2>4 DEF BrokenPipe
  <1>4. CASE EndOfFile(c)
    BY <1>4, CloseInv DEF EndOfFile, received, Inv
  <1> QED BY <1>1, <1>2, <1>3, <1>4

-----------------------------------------------------------------------------
(* The clients, the clock and the process.                                 *)

LEMMA CookieType ==
    ASSUME NEW cookie, cookie = None \/ Backed(cookie)
    PROVE  cookie \in Cookies
  BY TtlAssumption DEF Backed, SignCookie, Cookies

\* What a request adds to the stream.
Sent(w, c, i, n) == w \o <<Unit("head", c, i)>> \o Body(c, i, n)

Follows(v, w, c, i, n) ==
    /\ v \in Seq(Units) /\ Len(v) = Len(w) + 1 + n
    /\ \A x \in 1..Len(w) : v[x] = w[x]
    /\ v[Len(w) + 1] = Unit("head", c, i)
    /\ \A m \in 1..n : v[Len(w) + 1 + m] = Unit("body", c, i)

LEMMA SentWire ==
    ASSUME NEW c \in Conns, NEW i \in Nat, NEW n \in Nat, NEW w \in Seq(Units)
    PROVE  Follows(Sent(w, c, i, n), w, c, i, n)
  <1>v. PICK v : v = Sent(w, c, i, n)
    OBVIOUS
  <1>1. PICK h, e : h = <<Unit("head", c, i)>> /\ e = [k \in 1..n |-> Unit("body", c, i)]
    OBVIOUS
  <1>2. Unit("head", c, i) \in Units /\ Unit("body", c, i) \in Units /\ Len(w) \in Nat
    BY LenProperties DEF Unit, Units
  <1>3. h \in Seq(Units) /\ Len(h) = 1 /\ h[1] = Unit("head", c, i)
    BY <1>1, <1>2
  <1>4. e \in Seq(Units) /\ Len(e) = n /\ \A m \in 1..n : e[m] = Unit("body", c, i)
    BY <1>1, <1>2
  <1>5. PICK t : t = w \o h
    OBVIOUS
  <1>6. /\ t \in Seq(Units) /\ Len(t) = Len(w) + 1
        /\ \A x \in 1..(Len(w) + 1) : t[x] = IF x <= Len(w) THEN w[x] ELSE h[x - Len(w)]
    <2>1. /\ w \o h \in Seq(Units) /\ Len(w \o h) = Len(w) + Len(h)
          /\ \A x \in 1..(Len(w) + Len(h)) :
                (w \o h)[x] = IF x <= Len(w) THEN w[x] ELSE h[x - Len(w)]
      BY <1>3, ConcatProperties
    <2> QED BY <1>3, <1>5, <2>1
  <1>7. /\ v \in Seq(Units) /\ Len(v) = Len(w) + 1 + n
        /\ \A x \in 1..(Len(w) + 1 + n) :
              v[x] = IF x <= Len(w) + 1 THEN t[x] ELSE e[x - (Len(w) + 1)]
    <2>1. v = t \o e
      BY <1>v, <1>1, <1>5 DEF Sent, Body
    <2>2. /\ t \o e \in Seq(Units) /\ Len(t \o e) = Len(t) + Len(e)
          /\ \A x \in 1..(Len(t) + Len(e)) :
                (t \o e)[x] = IF x <= Len(t) THEN t[x] ELSE e[x - Len(t)]
      <3>1. t \in Seq(Units) /\ e \in Seq(Units)
        BY <1>4, <1>6
      <3> QED BY <3>1, ConcatProperties
    <2> QED BY <1>4, <1>6, <2>1, <2>2
  <1>8. ASSUME NEW x \in 1..Len(w) PROVE v[x] = w[x]
    <2>1. x \in 1..(Len(w) + 1) /\ x \in 1..(Len(w) + 1 + n) /\ x <= Len(w) + 1 /\ x <= Len(w)
      BY <1>2
    <2> QED BY <1>6, <1>7, <2>1
  <1>9. v[Len(w) + 1] = Unit("head", c, i)
    <2>1. /\ Len(w) + 1 \in 1..(Len(w) + 1) /\ Len(w) + 1 \in 1..(Len(w) + 1 + n)
          /\ ~(Len(w) + 1 <= Len(w)) /\ Len(w) + 1 <= Len(w) + 1 /\ Len(w) + 1 - Len(w) = 1
      BY <1>2
    <2> QED BY <1>3, <1>6, <1>7, <2>1
  <1>10. ASSUME NEW m \in 1..n PROVE v[Len(w) + 1 + m] = Unit("body", c, i)
    <2>1. /\ Len(w) + 1 + m \in 1..(Len(w) + 1 + n) /\ ~(Len(w) + 1 + m <= Len(w) + 1)
          /\ Len(w) + 1 + m - (Len(w) + 1) = m
      BY <1>2
    <2> QED BY <1>4, <1>7, <2>1
  <1> QED BY <1>v, <1>7, <1>8, <1>9, <1>10 DEF Follows

LEMMA AskInv ==
    ASSUME Inv, NEW c \in Conns, NEW s \in Shapes[c], NEW cookie \in jar \cup {None},
           Ask(c, s, cookie)
    PROVE  Inv'
  <1>a. PICK a, w : a = asked[c] /\ w = wire[c]
    OBVIOUS
  <1>r. PICK i, r : i = Len(a) + 1 /\ r = [shape |-> s, cookie |-> cookie, owner |-> Owner(cookie)]
    OBVIOUS
  <1>b. PICK b, n, v : b = Append(a, r) /\ n = s.units /\ v = Sent(w, c, i, n)
    OBVIOUS
  <1>1. /\ client[c] = "open" /\ pc[c] # "closed"
        /\ UNCHANGED <<session, config, now, granted, client, current, body, reply, jar, reached>>
        /\ asked' = [asked EXCEPT ![c] = b]
        /\ wire' = [wire EXCEPT ![c] = v]
        /\ pc' = [pc EXCEPT ![c] = IF @ = "new" THEN "idle" ELSE @]
    BY <1>a, <1>r, <1>b DEF Ask, received, session, Sent
  <1>2. /\ a \in Seq(Requests) /\ w \in Seq(Units) /\ Len(a) \in Nat /\ Len(w) \in Nat
        /\ i \in Nat /\ i = Len(a) + 1 /\ n \in Nat /\ StreamOK(c) /\ HandlerOK(c)
        /\ asked[c] = a /\ wire[c] = w
    BY <1>a, <1>r, <1>b, LenProperties, ShapesAssumption DEF Inv, Types
  <1>3. cookie = None \/ Backed(cookie)
    BY DEF Inv
  <1>4. r \in Requests
    <2>1. cookie \in Cookies /\ Owner(cookie) \in BOOLEAN
      BY <1>3, CookieType DEF Owner
    <2> QED BY <2>1, <1>r DEF Requests
  <1>6. /\ v \in Seq(Units) /\ Len(v) = Len(w) + 1 + n
        /\ \A x \in 1..Len(w) : v[x] = w[x]
        /\ v[Len(w) + 1] = Unit("head", c, i)
        /\ \A m \in 1..n : v[Len(w) + 1 + m] = Unit("body", c, i)
    <2>1. i \in Nat /\ n \in Nat /\ w \in Seq(Units) /\ v = Sent(w, c, i, n)
      BY <1>2, <1>b
    <2>2. Follows(v, w, c, i, n)
      BY <2>1, SentWire
    <2> QED BY <2>2 DEF Follows
  <1>7. /\ b \in Seq(Requests) /\ Len(b) = i /\ b[i] = r /\ \A k \in 1..Len(a) : b[k] = a[k]
    BY <1>2, <1>4, <1>b, AppendProperties
  <1>8. /\ asked'[c] = b /\ wire'[c] = v /\ client'[c] = "open"
        /\ pc'[c] = (IF pc[c] = "new" THEN "idle" ELSE pc[c])
    BY <1>1 DEF Inv, Types
  <1>9. Types'
    BY <1>1, <1>6, <1>7 DEF Inv, Types, session
  <1>10. r.shape = s /\ r.cookie = cookie /\ r.owner = Owner(cookie)
    BY <1>r
  <1>11. WireOK(c, v, b, TRUE)
    <2>1. WireOK(c, w, a, TRUE) /\ \A k \in 1..Len(a) : a[k].shape.units \in Nat
      BY <1>1, <1>2, UnitsOfRequests DEF StreamOK
    <2>2. b = Append(a, r) /\ r.shape.units = n /\ r \in Requests
      BY <1>4, <1>10, <1>b
    <2>3. b \in Seq(Requests) /\ a \in Seq(Requests) /\ w \in Seq(Units) /\ n \in Nat
      BY <1>2, <1>7
    <2>4. /\ v \in Seq(Units) /\ Len(v) = Len(w) + 1 + n
          /\ \A x \in 1..Len(w) : v[x] = w[x]
          /\ v[Len(w) + 1] = Unit("head", c, Len(a) + 1)
          /\ \A m \in 1..n : v[Len(w) + 1 + m] = Unit("body", c, Len(a) + 1)
      BY <1>2, <1>6
    <2> QED BY <2>1, <2>2, <2>3, <2>4, GrowWire
  <1>12. \A k \in 1..Len(b) : RequestOK(c, b[k])'
    <2>1. RequestOK(c, r)'
      <3>1. ASSUME VerifyCookie(config, cookie, now) PROVE Owner(cookie)
        <4>1. PICK g \in granted : /\ g.cookie = cookie /\ g.config \in Nat /\ g.at \in Nat
                                    /\ cookie = SignCookie(g.config, g.at)
          BY <1>3, <3>1 DEF VerifyCookie, Backed
        <4>2. cookie.secret = g.config /\ cookie.exp = g.at + Ttl /\ now \in Nat /\ Ttl \in Nat
          BY <4>1, TtlAssumption DEF SignCookie, Inv, Types
        <4>3. g.config = config /\ now < g.at + Ttl
          BY <3>1, <4>1, <4>2 DEF VerifyCookie
        <4> QED BY <4>1, <4>3 DEF Owner
      <3> QED BY <1>1, <1>3, <1>10, <3>1 DEF RequestOK, Backed
    <2>2. ASSUME NEW k \in 1..Len(a) PROVE RequestOK(c, a[k])'
      <3>1. now \in Nat /\ now' \in Nat /\ now' >= now /\ pc[c] # "closed"
        BY <1>1 DEF Inv, Types
      <3>2. RequestOK(c, a[k])
        BY <1>2 DEF StreamOK
      <3>3. config' = config /\ granted \subseteq granted'
        BY <1>1
      <3> QED BY <3>1, <3>2, <3>3, RequestKept
    <2>3. \A k \in 1..Len(b) : k \in 1..Len(a) \/ k = i
      BY <1>2, <1>7
    <2> QED BY <1>7, <2>1, <2>2, <2>3
  <1>13. StreamOK(c)'
    BY <1>8, <1>11, <1>12 DEF StreamOK, WireOK
  <1>14. ASSUME NEW k \in Nat, k < i, Ahead(c, k) PROVE Ahead(c, k)'
    <2> SUFFICES ASSUME NEW j \in 1..Len(v), v[j].kind = "head" PROVE v[j].of > k
      BY <1>8 DEF Ahead
    <2>1. CASE j \in 1..Len(w)
      BY <1>2, <1>6, <1>14, <2>1 DEF Ahead
    <2>2. CASE j = Len(w) + 1
      BY <1>2, <1>6, <1>14, <2>2 DEF Unit
    <2>3. ASSUME j \notin 1..Len(w), j # Len(w) + 1 PROVE FALSE
      <3>1. j - (Len(w) + 1) \in 1..n /\ Len(w) + 1 + (j - (Len(w) + 1)) = j
        BY <1>2, <1>6, <2>3
      <3>2. v[j] = Unit("body", c, i)
        BY <1>6, <3>1
      <3> QED BY <3>2 DEF Unit
    <2> QED BY <2>1, <2>2, <2>3
  <1>15. HandlerOK(c)'
    <2>1. pc'[c] # "new"
      BY <1>8
    <2>2. (Len(w) > 0 => w[1].kind = "head") => v[1].kind = "head"
      <3>1. CASE Len(w) = 0
        BY <1>6, <3>1 DEF Unit
      <3>2. CASE Len(w) > 0
        BY <1>2, <1>6, <3>2
      <3> QED BY <1>2, <3>1, <3>2
    <2>3. Busy(c)' => Busy(c) /\ pc'[c] = pc[c]
      BY <1>8 DEF Busy
    <2>4. Busy(c) => /\ current[c] \in 1..Len(a) /\ current[c] \in 1..Len(b) /\ current[c] < i
                     /\ b[current[c]] = a[current[c]] /\ Ahead(c, current[c])'
      <3>1. Busy(c) => current[c] \in 1..Len(a) /\ Ahead(c, current[c])
        BY <1>2 DEF HandlerOK
      <3>2. ASSUME NEW k \in 1..Len(a) PROVE k \in 1..Len(b) /\ k < i /\ b[k] = a[k] /\ k \in Nat
        BY <1>2, <1>7
      <3> QED BY <1>1, <1>14, <3>1, <3>2 DEF Ahead
    <2>5. pc'[c] \in {"reply", "payload"} => Busy(c)'
      BY DEF Busy
    <2> QED BY <1>1, <1>2, <1>8, <2>1, <2>2, <2>3, <2>4, <2>5 DEF HandlerOK, Busy, Backed
  <1>16. \A d \in Conns \ {c} : StreamOK(d)' /\ HandlerOK(d)' /\ \A k : Ahead(d, k) => Ahead(d, k)'
    <2> TAKE d \in Conns \ {c}
    <2>1. now' \in Nat /\ now' >= now
      BY <1>1 DEF Inv, Types
    <2>2. asked'[d] = asked[d] /\ wire'[d] = wire[d] /\ pc'[d] = pc[d]
      BY <1>1 DEF Inv, Types
    <2> QED BY <1>1, <2>1, <2>2, Elsewhere
  <1>17. ASSUME NEW k \in 1..Len(reached) PROVE ReachedOK(reached[k])'
    <2>1. reached \in Seq(Reaches) /\ ReachedOK(reached[k])
      BY DEF Inv, Types
    <2>2. reached[k] \in Reaches
      BY <2>1, ElementOfSeq
    <2>3. reached[k].conn \in Conns
      BY <2>2 DEF Reaches
    <2>4. CASE reached[k].conn = c
      <3>1. reached[k].of \in 1..Len(a) /\ Ahead(c, reached[k].of)
        BY <1>2, <2>1, <2>4 DEF ReachedOK
      <3>2. ASSUME NEW x \in 1..Len(a) PROVE x \in 1..Len(b) /\ x < i /\ x \in Nat
        BY <1>2, <1>7
      <3>3. reached[k].of \in 1..Len(b) /\ Ahead(c, reached[k].of)'
        <4>1. Ahead(c, reached[k].of) /\ reached[k].of \in Nat /\ reached[k].of < i
          BY <3>1, <3>2
        <4> QED BY <1>1, <1>14, <3>1, <3>2, <4>1 DEF Ahead
      <3>4. b[reached[k].of] = a[reached[k].of] /\ a[reached[k].of].owner
        BY <1>2, <1>7, <2>1, <2>4, <3>1 DEF ReachedOK
      <3> QED BY <1>1, <1>8, <2>4, <3>3, <3>4 DEF ReachedOK
    <2>5. CASE reached[k].conn # c
      <3>1. asked'[reached[k].conn] = asked[reached[k].conn]
        BY <1>1, <2>3, <2>5 DEF Inv, Types
      <3> QED BY <1>1, <1>16, <2>1, <2>3, <2>5, <3>1 DEF ReachedOK
    <2> QED BY <2>4, <2>5
  <1> QED BY <1>1, <1>9, <1>13, <1>15, <1>16, <1>17 DEF Inv, Grants, Backed

LEMMA BreakOffInv ==
    ASSUME Inv, NEW c \in Conns, NEW how \in Breaks[c],
           NEW k \in 0..Len(wire[c]), NEW n \in 0..Len(asked[c]), BreakOff(c, how, k, n)
    PROVE  Inv'
  <1>a. PICK a, w : a = asked[c] /\ w = wire[c]
    OBVIOUS
  <1>b. PICK b, v : b = SubSeq(a, 1, n) /\ v = SubSeq(w, 1, k)
    OBVIOUS
  <1>1. /\ client[c] = "open" /\ pc[c] # "closed"
        /\ UNCHANGED <<session, config, now, granted, pc, current, body, reply, jar, reached>>
        /\ asked' = [asked EXCEPT ![c] = b] /\ wire' = [wire EXCEPT ![c] = v]
        /\ client' = [client EXCEPT ![c] = how]
    BY <1>a, <1>b DEF BreakOff, received, session
  <1>2. /\ a \in Seq(Requests) /\ w \in Seq(Units) /\ Len(a) \in Nat /\ Len(w) \in Nat
        /\ StreamOK(c) /\ HandlerOK(c) /\ asked[c] = a /\ wire[c] = w
        /\ k \in 0..Len(w) /\ n \in 0..Len(a) /\ how # "open"
    BY <1>a, LenProperties, BreaksAssumption DEF Inv, Types
  <1>3. Lost(w, k) = (n + 1)..Len(a)
    BY <1>2 DEF BreakOff, Lost
  <1>4. /\ v \in Seq(Units) /\ b \in Seq(Requests) /\ Len(b) = n
        /\ \A i \in 1..n : b[i] = a[i]
        /\ Len(v) = k
        /\ \A i \in 1..k : v[i] = w[i]
        /\ WireOK(c, v, b, FALSE)
    <2>1. WireOK(c, w, a, client[c] = "open") /\ \A i \in 1..Len(a) : a[i].shape.units \in Nat
      BY <1>2, UnitsOfRequests DEF StreamOK
    <2>2. Shortened(c, w, a, v, b, k, n)
      BY <1>2, <1>3, <1>b, <2>1, CutWire
    <2> QED BY <2>2 DEF Shortened
  <1>5. /\ asked'[c] = b /\ wire'[c] = v /\ client'[c] = how /\ pc'[c] = pc[c]
    BY <1>1 DEF Inv, Types
  <1>6. Types'
    BY <1>1, <1>4 DEF Inv, Types, session
  <1>7. ASSUME NEW i, Ahead(c, i) PROVE Ahead(c, i)'
    <2>1. \A j \in 1..Len(v) : j \in 1..Len(w) /\ v[j] = w[j]
      <3>1. k \in Nat /\ k <= Len(w) /\ Len(v) = k /\ Len(w) \in Nat
        BY <1>2, <1>4
      <3> QED BY <1>4, <3>1
    <2> QED BY <1>2, <1>5, <1>7, <2>1 DEF Ahead
  <1>8. ASSUME NEW i \in 1..Len(a), Ahead(c, i) PROVE i \in 1..Len(b) /\ b[i] = a[i]
    <2>1. CASE i \in 1..n
      BY <1>4, <2>1
    <2>2. ASSUME i \notin 1..n PROVE FALSE
      <3>1. i \in (n + 1)..Len(a)
        BY <1>2, <2>2
      <3>2. PICK x \in (k + 1)..Len(w) : w[x].kind = "head" /\ w[x].of = i
        BY <1>3, <3>1 DEF Lost
      <3>3. x \in 1..Len(w) /\ i \in Nat /\ ~(i > i)
        BY <1>2, <3>1, <3>2
      <3> QED BY <1>2, <1>8, <3>2, <3>3 DEF Ahead
    <2> QED BY <2>1, <2>2
  <1>9. StreamOK(c)'
    <2>1. \A i \in 1..Len(b) : i \in 1..Len(a) /\ b[i] = a[i]
      BY <1>2, <1>4
    <2>2. \A i \in 1..Len(a) : RequestOK(c, a[i])
      BY <1>2 DEF StreamOK
    <2>3. \A i \in 1..Len(b) : RequestOK(c, b[i])'
      BY <1>1, <2>1, <2>2 DEF RequestOK, Backed
    <2> QED BY <1>2, <1>4, <1>5, <2>3 DEF StreamOK, WireOK
  <1>10. HandlerOK(c)'
    <2>1. pc[c] = "new" => b = <<>>
      <3>1. pc[c] = "new" => Len(a) = 0
        BY <1>2, EmptySeq DEF HandlerOK
      <3>2. Len(b) = 0 => b = <<>>
        BY <1>4, EmptySeq
      <3> QED BY <1>2, <1>4, <3>1, <3>2
    <2>2. (Len(w) > 0 => w[1].kind = "head") => (Len(v) > 0 => v[1].kind = "head")
      <3>1. k \in Nat /\ k <= Len(w) /\ Len(v) = k /\ Len(w) \in Nat
        BY <1>2, <1>4
      <3>2. k > 0 => v[1] = w[1]
        BY <1>4, <3>1
      <3> QED BY <3>1, <3>2
    <2>3. Busy(c) => /\ current[c] \in 1..Len(a) /\ current[c] \in 1..Len(b)
                     /\ b[current[c]] = a[current[c]] /\ Ahead(c, current[c])
      BY <1>2, <1>8 DEF HandlerOK
    <2>4. Busy(c) => Ahead(c, current[c])'
      BY <1>1, <1>7, <2>3 DEF Ahead
    <2>5. pc[c] = "forward" => Busy(c)
      BY DEF Busy
    <2> QED BY <1>1, <1>2, <1>5, <2>1, <2>2, <2>3, <2>4, <2>5 DEF HandlerOK, Busy, Backed
  <1>11. \A d \in Conns \ {c} : StreamOK(d)' /\ HandlerOK(d)' /\ \A i : Ahead(d, i) => Ahead(d, i)'
    <2> TAKE d \in Conns \ {c}
    <2>1. now' \in Nat /\ now' >= now
      BY <1>1 DEF Inv, Types
    <2>2. asked'[d] = asked[d] /\ wire'[d] = wire[d] /\ client'[d] = client[d]
      BY <1>1 DEF Inv, Types
    <2> QED BY <1>1, <2>1, <2>2, Elsewhere
  <1>12. ASSUME NEW m \in 1..Len(reached) PROVE ReachedOK(reached[m])'
    <2>1. reached \in Seq(Reaches) /\ ReachedOK(reached[m])
      BY DEF Inv, Types
    <2>2. reached[m] \in Reaches
      BY <2>1, ElementOfSeq
    <2>3. reached[m].conn \in Conns
      BY <2>2 DEF Reaches
    <2>4. CASE reached[m].conn = c
      <3>1. /\ reached[m].of \in 1..Len(a) /\ Ahead(c, reached[m].of)
            /\ a[reached[m].of].owner
        BY <1>2, <2>1, <2>4 DEF ReachedOK
      <3>2. /\ reached[m].of \in 1..Len(b) /\ b[reached[m].of] = a[reached[m].of]
        BY <1>8, <3>1
      <3>3. Ahead(c, reached[m].of)'
        BY <1>1, <1>7, <3>1 DEF Ahead
      <3> QED BY <1>1, <1>5, <2>4, <3>1, <3>2, <3>3 DEF ReachedOK
    <2>5. CASE reached[m].conn # c
      <3>1. asked'[reached[m].conn] = asked[reached[m].conn]
        BY <1>1, <2>3, <2>5 DEF Inv, Types
      <3> QED BY <1>1, <1>11, <2>1, <2>3, <2>5, <3>1 DEF ReachedOK
    <2> QED BY <2>4, <2>5
  <1> QED BY <1>1, <1>6, <1>9, <1>10, <1>11, <1>12 DEF Inv, Grants, Backed

LEMMA TickInv ==
    ASSUME Inv, Tick
    PROVE  Inv'
  <1>1. /\ now \in Nat /\ now' \in Nat /\ now' >= now
        /\ UNCHANGED <<config, granted, clients, asked, client, handlers, wire, pc, current, body,
                       reply, received, jar, reached>>
    BY DEF Tick, Inv, Types, clients, handlers, received
  <1>2. Types'
    BY <1>1 DEF Inv, Types
  <1>3. /\ \A d \in Conns : StreamOK(d)' /\ HandlerOK(d)'
        /\ \A d \in Conns : \A i : Ahead(d, i) => Ahead(d, i)'
    BY <1>1, Elsewhere
  <1>4. (\A k \in 1..Len(reached) : ReachedOK(reached[k]))'
    BY <1>1, <1>3, ReachedKept
  <1> QED BY <1>1, <1>2, <1>3, <1>4 DEF Inv, Grants, Backed

LEMMA RestartInv ==
    ASSUME Inv, NEW secrets \in 1..MaxConfigs, Restart(secrets)
    PROVE  Inv'
  <1>1. /\ UNCHANGED <<now, granted, clients, asked, client, received, jar, reached>>
        /\ config' = secrets
        /\ pc' = [c \in Conns |-> IF pc[c] = "new" THEN "new" ELSE "closed"]
        /\ wire' = [c \in Conns |-> <<>>]
        /\ current' = [c \in Conns |-> 0]
        /\ body' = [c \in Conns |-> <<>>]
        /\ reply' = [c \in Conns |-> None]
    BY DEF Restart, clients, received
  <1>2. <<>> \in Seq(Units) /\ Len(<<>>) = 0 /\ <<>> \in Seq(Requests)
    BY EmptySeq
  <1>3. Types'
    BY <1>1, <1>2 DEF Inv, Types
  <1>4. ASSUME NEW c \in Conns PROVE StreamOK(c)' /\ HandlerOK(c)' /\ \A i : Ahead(c, i)'
    <2>1. wire'[c] = <<>> /\ pc'[c] = (IF pc[c] = "new" THEN "new" ELSE "closed")
      BY <1>1
    <2>2. WireOK(c, <<>>, asked[c], client[c] = "open")
      BY <1>2 DEF WireOK
    <2>3. pc[c] = "new" => Len(asked[c]) = 0
      BY <1>2 DEF Inv, HandlerOK
    <2>4. \A i \in 1..Len(asked[c]) : RequestOK(c, asked[c][i])'
      <3> TAKE i \in 1..Len(asked[c])
      <3>1. pc'[c] = "closed"
        BY <2>1, <2>3
      <3> QED BY <1>1, <3>1 DEF Inv, StreamOK, RequestOK, Backed
    <2>5. StreamOK(c)'
      BY <1>1, <2>1, <2>2, <2>4 DEF StreamOK, WireOK
    <2>6. HandlerOK(c)'
      BY <1>1, <1>2, <2>1 DEF Inv, HandlerOK, Busy
    <2> QED BY <1>2, <2>1, <2>5, <2>6 DEF Ahead
  <1>5. (\A k \in 1..Len(reached) : ReachedOK(reached[k]))'
    BY <1>1, <1>4, ReachedKept
  <1> QED BY <1>1, <1>3, <1>4, <1>5 DEF Inv, Grants, Backed

LEMMA InitInv == Init => Inv
  <1> SUFFICES ASSUME Init PROVE Inv
    OBVIOUS
  <1>1. <<>> \in Seq(Units) /\ Len(<<>>) = 0 /\ <<>> \in Seq(Requests) /\ <<>> \in Seq(Reaches)
    BY EmptySeq
  <1>2. Types
    BY <1>1, BoundsAssumption DEF Init, Types
  <1>3. Grants /\ \A cookie \in jar : Backed(cookie)
    BY EarlierAssumption DEF Init, Grants, Backed
  <1>4. ASSUME NEW c \in Conns PROVE StreamOK(c) /\ HandlerOK(c)
    <2>1. asked[c] = <<>> /\ wire[c] = <<>> /\ pc[c] = "new"
      BY DEF Init
    <2> QED BY <1>1, <2>1 DEF StreamOK, WireOK, HandlerOK, Busy
  <1> QED BY <1>1, <1>2, <1>3, <1>4 DEF Init, Inv

LEMMA NextInv == Inv /\ [Next]_vars => Inv'
  <1> SUFFICES ASSUME Inv, [Next]_vars PROVE Inv'
    OBVIOUS
  <1>1. ASSUME NEW c \in Conns, Handle(c) PROVE Inv'
    BY <1>1, ReadRequestInv, RouteInv, ForwardInv, ReceiveInv, WriteInv DEF Handle
  <1>2. CASE UNCHANGED vars
    BY <1>2 DEF vars, session, clients, handlers, received, Inv, Types, Grants, Backed, StreamOK,
                RequestOK, HandlerOK, Busy, Ahead, ReachedOK
  <1> QED BY <1>1, <1>2, AskInv, BreakOffInv, TickInv, RestartInv DEF Next

-----------------------------------------------------------------------------
\* What the proof goes by holds in every reachable state of Gateway.
THEOREM InvHolds == Spec => []Inv
  BY InitInv, NextInv, PTL DEF Spec

\* Whatever was refused, misdirected or not allowed, a handler that looks for a
\* request finds the head of one (Sessions.Framed).
THEOREM AlwaysFramed == Spec => []Framed
  <1>1. Inv => Framed
    <2> SUFFICES ASSUME Inv, NEW c \in Conns, pc[c] = "idle", wire[c] # <<>>
                 PROVE  Head(wire[c]).kind = "head"
      BY DEF Framed
    <2>1. wire[c] \in Seq(Units) /\ HandlerOK(c)
      BY DEF Inv, Types
    <2>2. Len(wire[c]) > 0 /\ Head(wire[c]) = wire[c][1]
      BY <2>1, EmptySeq
    <2> QED BY <2>1, <2>2 DEF HandlerOK
  <1> QED BY <1>1, InvHolds, PTL

\* Nothing but requests of the owner, signed in with the secrets in force, is
\* given to the app; cookies are given for the token only (Sessions.OnlyOwner).
THEOREM AlwaysOnlyOwner == Spec => []OnlyOwner
  <1>1. Inv => OnlyOwner
    <2> SUFFICES ASSUME Inv PROVE OnlyOwner
      OBVIOUS
    <2>1. DOMAIN reached = 1..Len(reached)
      BY LenProperties DEF Inv, Types
    <2> QED BY <2>1 DEF Inv, Grants, ReachedOK, OnlyOwner
  <1> QED BY <1>1, InvHolds, PTL
=============================================================================

---------------------------- MODULE ClientProofs ----------------------------
(***************************************************************************)
(* The handlers implement Exchange (InOrder): every client has its         *)
(* requests answered one by one, in order, by the contract.  What it has   *)
(* read (`answers`, `begun`) and the place of its handler (`pc`,           *)
(* `current`) are never more than one request apart while it is there.     *)
(* Then: the owner stays signed in (StaysSignedIn), and types (TypeOK).    *)
(***************************************************************************)
EXTENDS SessionsProofs

Labels == {"new", "idle", "route", "forward", "waiting", "reply", "payload", "closed"}
Responses == [status : Nat, size : Nat, final : BOOLEAN, guarded : BOOLEAN,
              cookie : [secret : Nat, exp : Nat] \cup {None}]

Pending(c) == Len(answers[c]) + 1
Writing(c) == pc[c] \in {"reply", "payload"}
Listening(c) == client[c] # "gone"

\* Its head is still on the wire.
Upcoming(c, i) == \E j \in 1..Len(wire[c]) : wire[c][j].kind = "head" /\ wire[c][j].of = i

Shaped ==
    /\ answers \in [Conns -> Seq(E!Statuses)]
    /\ begun \in [Conns -> Nat]

\* What a connection has in each state of its handler.
Stage(c) ==
    /\ pc[c] \in Labels /\ client[c] \in {"open", "finished", "stalled", "gone"}
    /\ current[c] = 0 <=> ~Busy(c)
    /\ pc[c] = "closed" => wire[c] = <<>>
    /\ Writing(c) => reply[c] \in Responses
    /\ ~Writing(c) => reply[c] = None

\* The handler is never behind the client: what it is at and what it has yet
\* to read are requests the client has no answer to.
NotBehind(c) ==
    /\ Len(answers[c]) <= Len(asked[c])
    /\ Ahead(c, Len(answers[c]))
    /\ Busy(c) => current[c] >= Pending(c)
    /\ begun[c] # 0 => Ahead(c, Pending(c))
    /\ begun[c] # 0 /\ pc[c] \in {"route", "forward"} => current[c] > Pending(c)
    /\ begun[c] # 0 /\ pc[c] # "closed" /\ Listening(c) => pc[c] = "payload"
    /\ pc[c] # "closed" => ~E!Ended(c)

\* Nor is it ahead of one that listens: it is at the request the client waits
\* for, and the requests after that are on the wire.
NotBefore(c) == Listening(c) =>
    /\ Busy(c) => current[c] = Pending(c)
    /\ pc[c] # "closed" =>
          \A i \in 1..Len(asked[c]) :
              i > (IF Busy(c) THEN current[c] ELSE Len(answers[c])) => Upcoming(c, i)

\* The request at hand.
AtHand(c) ==
    /\ pc[c] \in {"route", "forward", "waiting"} =>
          /\ Len(body[c]) = Request(c).shape.units
          /\ \A m \in 1..Len(body[c]) : body[c][m] = Unit("body", c, current[c])
    /\ pc[c] \in {"route", "forward"} =>
          \A i : E!Reached(c, i) => i < current[c]
    /\ pc[c] = "forward" => Request(c).shape.path \in ForApp
    /\ pc[c] = "waiting" => Request(c).shape.path = "app" /\ E!Reached(c, current[c])

\* The response that is written is one of the contract.
Written(c) == Writing(c) /\ Listening(c) =>
    /\ E!Contract(c, current[c], reply[c].status)
    /\ reply[c].final <=> \/ reply[c].status \in {413, 501}
                          \/ ~Request(c).shape.keep
    /\ pc[c] = "payload" => begun[c] = reply[c].status

TurnOK(c) == Stage(c) /\ NotBehind(c) /\ NotBefore(c) /\ AtHand(c) /\ Written(c)

Turns == Shaped /\ \A c \in Conns : TurnOK(c)

-----------------------------------------------------------------------------
(* Responses.                                                              *)

\* An answer to a request that leaves its connection as the client asked.
Says(response, status, r) ==
    response \in Responses /\ response.status = status /\ (response.final <=> ~r.keep)

LEMMA ResponseSays ==
    ASSUME NEW r, NEW status \in Nat, NEW size \in Nat
    PROVE  Says(Response(status, size, r), status, r)
  BY DEF Response, Responses, Says

LEMMA GuardedSays ==
    ASSUME NEW r, NEW status, NEW response, Says(response, status, r)
    PROVE  Says([response EXCEPT !.guarded = TRUE], status, r)
  BY DEF Responses, Says

LEMMA CookieSays ==
    ASSUME NEW r, NEW status, NEW response, Says(response, status, r),
           NEW cookie \in [secret : Nat, exp : Nat]
    PROVE  Says([response EXCEPT !.cookie = cookie], status, r)
  BY DEF Responses, Says

LEMMA FinalFields ==
    ASSUME NEW response \in Responses
    PROVE  /\ Final(response) \in Responses
           /\ Final(response).status = response.status
           /\ Final(response).final
  BY DEF Final, Responses

LEMMA RefusalFields ==
    ASSUME NEW r, NEW status \in Nat
    PROVE  /\ Final(Response(status, 1, r)) \in Responses
           /\ Final(Response(status, 1, r)).status = status
           /\ Final(Response(status, 1, r)).final
  <1>1. PICK response : response = Response(status, 1, r)
    OBVIOUS
  <1>2. response \in Responses /\ response.status = status
    <2>1. Response(status, 1, r) \in Responses /\ Response(status, 1, r).status = status
      BY DEF Response, Responses
    <2> QED BY <1>1, <2>1
  <1> QED BY <1>1, <1>2, FinalFields

-----------------------------------------------------------------------------
(* What a step leaves alone.                                               *)

\* A connection a step does not touch.
LEMMA TurnElsewhere ==
    ASSUME NEW d \in Conns, TurnOK(d),
           asked'[d] = asked[d], client'[d] = client[d], wire'[d] = wire[d], pc'[d] = pc[d],
           current'[d] = current[d], body'[d] = body[d], reply'[d] = reply[d],
           answers'[d] = answers[d], begun'[d] = begun[d],
           \A i : E!Reached(d, i)' <=> E!Reached(d, i)
    PROVE  TurnOK(d)'
  <1>1. Stage(d)'
    BY DEF TurnOK, Stage, Busy, Writing
  <1>2. NotBehind(d)'
    BY DEF TurnOK, NotBehind, Busy, Ahead, Pending, Listening, E!Ended, E!Last
  <1>3. NotBefore(d)'
    BY DEF TurnOK, NotBefore, Busy, Upcoming, Pending, Listening
  <1>4. AtHand(d)'
    BY DEF TurnOK, AtHand, Request
  <1>5. Written(d)'
    <2>1. E!Contract(d, current[d], reply[d].status) =>
              E!Contract(d, current[d], reply[d].status)'
      BY DEF E!Contract
    <2>2. Writing(d)' /\ Listening(d)' => Writing(d) /\ Listening(d)
      BY DEF Writing, Listening
    <2>3. Request(d)' = Request(d)
      BY DEF Request
    <2>4. Written(d)
      BY DEF TurnOK
    <2> QED BY <2>1, <2>2, <2>3, <2>4 DEF Written
  <1> QED BY <1>1, <1>2, <1>3, <1>4, <1>5 DEF TurnOK

\* A step of one connection.
Elsewise(c) ==
    \A d \in Conns \ {c} :
        /\ asked'[d] = asked[d] /\ client'[d] = client[d] /\ wire'[d] = wire[d]
        /\ pc'[d] = pc[d] /\ current'[d] = current[d] /\ body'[d] = body[d]
        /\ reply'[d] = reply[d] /\ answers'[d] = answers[d] /\ begun'[d] = begun[d]
        /\ \A i : E!Reached(d, i)' <=> E!Reached(d, i)

LEMMA TurnsKept ==
    ASSUME Turns, NEW c \in Conns, Elsewise(c), Shaped', TurnOK(c)'
    PROVE  Turns'
  <1>1. ASSUME NEW d \in Conns \ {c} PROVE TurnOK(d)'
    BY TurnElsewhere DEF Turns, Elsewise
  <1> QED BY <1>1 DEF Turns

LEMMA SameReached ==
    ASSUME UNCHANGED reached
    PROVE  \A d, i : E!Reached(d, i)' <=> E!Reached(d, i)
  BY DEF E!Reached

\* A step of the handler that gives the client and the app nothing.
LEMMA QuietStep ==
    ASSUME Inv, Turns, NEW c \in Conns, UNCHANGED <<asked, client, answers, begun, reached>>,
           \A d \in Conns \ {c} : /\ wire'[d] = wire[d] /\ pc'[d] = pc[d] /\ reply'[d] = reply[d]
                                 /\ current'[d] = current[d] /\ body'[d] = body[d],
           TurnOK(c)'
    PROVE  Turns'
  <1>1. Elsewise(c)
    BY SameReached DEF Elsewise
  <1>2. Shaped'
    BY DEF Turns, Shaped
  <1> QED BY <1>1, <1>2, TurnsKept

-----------------------------------------------------------------------------
(* Reading a request.                                                      *)

\* The head a handler finds, and what is behind it.
FrontOf(c, w, i) ==
    /\ w \in Seq(Units) /\ Len(w) \in Nat \ {0}
    /\ i \in 1..Len(asked[c]) /\ i \in Nat
    /\ w[1].kind = "head" /\ w[1].of = i
    /\ asked[c][i].shape.units \in Nat
    /\ \A m \in 1..asked[c][i].shape.units : 1 + m <= Len(w) => w[1 + m] = Unit("body", c, i)
    /\ \A j \in 2..Len(w) : w[j].kind = "head" => w[j].of > i

LEMMA Front ==
    ASSUME Inv, NEW c \in Conns, pc[c] = "idle", wire[c] # <<>>
    PROVE  FrontOf(c, wire[c], Head(wire[c]).of)
  <1>w. PICK w, i : w = wire[c] /\ i = Head(w).of
    OBVIOUS
  <1>1. /\ w \in Seq(Units) /\ Len(w) \in Nat \ {0} /\ Head(w) = w[1] /\ 1 \in 1..Len(w)
    BY <1>w, EmptySeq DEF Inv, Types
  <1>2. w[1].kind = "head" /\ WireOK(c, w, asked[c], client[c] = "open")
    BY <1>1, <1>w DEF Inv, HandlerOK, StreamOK
  <1>3. i = w[1].of /\ i \in 1..Len(asked[c]) /\ i \in Nat /\ asked[c][i].shape.units \in Nat
    <2>1. Len(asked[c]) \in Nat
      BY LenProperties DEF Inv, Types
    <2>2. i = w[1].of
      BY <1>1, <1>w
    <2>3. i \in 1..Len(asked[c])
      BY <1>1, <1>2, <2>2 DEF WireOK
    <2> QED BY <2>1, <2>2, <2>3, UnitsOfRequests
  <1>4. \A m \in 1..asked[c][i].shape.units : 1 + m <= Len(w) => w[1 + m] = Unit("body", c, i)
    BY <1>1, <1>2, <1>3 DEF WireOK
  <1>5. ASSUME NEW j \in 2..Len(w), w[j].kind = "head" PROVE w[j].of > i
    <2>1. j \in 1..Len(w) /\ 1 \in 1..(j - 1)
      BY <1>1
    <2>2. w[1].of < w[j].of /\ w[j].of \in 1..Len(asked[c])
      BY <1>2, <1>5, <2>1 DEF WireOK
    <2> QED BY <1>3, <2>2
  <1> QED BY <1>1, <1>2, <1>3, <1>4, <1>5, <1>w DEF FrontOf

\* It is the head of the request the client waits for.
LEMMA FrontIsPending ==
    ASSUME Inv, Turns, NEW c \in Conns, pc[c] = "idle", NEW i, FrontOf(c, wire[c], i)
    PROVE  /\ i >= Pending(c)
           /\ begun[c] # 0 => i > Pending(c)
           /\ Listening(c) => i = Pending(c)
           /\ \A k : E!Reached(c, k) => k < i
           /\ Len(answers[c]) \in Nat
  <1>1. 1 \in 1..Len(wire[c]) /\ wire[c][1].kind = "head" /\ wire[c][1].of = i /\ i \in Nat
    BY DEF FrontOf
  <1>2. Len(answers[c]) \in Nat
    BY LenProperties DEF Turns, Shaped
  <1>3. i > Len(answers[c]) /\ (begun[c] # 0 => i > Pending(c))
    BY <1>1 DEF Turns, TurnOK, NotBehind, Ahead
  <1>4. ASSUME Listening(c), i # Pending(c) PROVE FALSE
    <2>1. Pending(c) \in 1..Len(asked[c]) /\ Pending(c) > Len(answers[c]) /\ Pending(c) < i
      BY <1>2, <1>3, <1>4 DEF FrontOf, Pending
    <2>2. Upcoming(c, Pending(c))
      BY <1>4, <2>1 DEF Turns, TurnOK, NotBefore, Busy
    <2>3. PICK j \in 1..Len(wire[c]) : wire[c][j].kind = "head" /\ wire[c][j].of = Pending(c)
      BY <2>2 DEF Upcoming
    <2>4. j # 1 /\ j \in 2..Len(wire[c])
      BY <1>1, <1>4, <2>3 DEF FrontOf
    <2> QED BY <2>1, <2>3, <2>4 DEF FrontOf
  <1>5. ASSUME NEW k, E!Reached(c, k) PROVE k < i
    <2>1. PICK x \in 1..Len(reached) : reached[x].conn = c /\ reached[x].of = k
      BY <1>5, LenProperties DEF E!Reached, Inv, Types
    <2>2. k \in 1..Len(asked[c]) /\ Ahead(c, k)
      BY <2>1 DEF Inv, ReachedOK
    <2> QED BY <1>1, <2>2 DEF Ahead
  <1>6. i >= Pending(c)
    BY <1>1, <1>2, <1>3 DEF Pending
  <1> QED BY <1>2, <1>3, <1>4, <1>5, <1>6

\* Once it is read, the handler is at it and the requests after it still on the
\* wire.
LEMMA ReadPlace ==
    ASSUME Inv, Inv', Turns, NEW c \in Conns, pc[c] = "idle", NEW i, FrontOf(c, wire[c], i),
           UNCHANGED <<asked, client, answers, begun, reached>>,
           current'[c] = i, pc'[c] \in {"route", "reply"},
           Listening(c) => \A k \in (i + 1)..Len(asked[c]) : Upcoming(c, k)'
    PROVE  NotBehind(c)' /\ NotBefore(c)'
  <1>1. /\ i >= Pending(c) /\ Len(answers[c]) \in Nat /\ i \in Nat /\ i \in 1..Len(asked[c])
        /\ begun[c] # 0 => i > Pending(c)
        /\ Listening(c) => i = Pending(c)
    BY FrontIsPending DEF FrontOf
  <1>2. Busy(c)'
    BY DEF Busy
  <1>3. Ahead(c, i)' /\ wire'[c] \in Seq(Units)
    BY <1>2 DEF Inv, Types, HandlerOK, Ahead
  <1>4. ASSUME NEW k, k <= i, k \in Nat PROVE Ahead(c, k)'
    <2> SUFFICES ASSUME NEW j \in 1..Len(wire'[c]), wire'[c][j].kind = "head"
                 PROVE  wire'[c][j].of > k
      BY DEF Ahead
    <2>1. wire'[c][j].of > i /\ wire'[c][j] \in Units
      BY <1>3, ElementOfSeq DEF Ahead
    <2> QED BY <1>1, <1>4, <2>1 DEF Units
  <1>5. NotBehind(c)'
    <2>a. PICK a \in Nat : a = Len(answers[c]) /\ a = Len(answers'[c])
      BY <1>1
    <2>b. a <= i /\ (begun[c] # 0 => a + 1 <= i)
      BY <1>1, <2>a DEF Pending
    <2>c. Ahead(c, a)' /\ (begun[c] # 0 => Ahead(c, a + 1)')
      BY <1>4, <2>b
    <2>1. Ahead(c, Len(answers[c]))' /\ (begun[c] # 0 => Ahead(c, Pending(c))')
      BY <2>a, <2>c DEF Pending, Ahead
    <2>2. ~E!Ended(c)'
      BY DEF Turns, TurnOK, NotBehind, E!Ended, E!Last
    <2>3. begun[c] # 0 => ~Listening(c)
      BY DEF Turns, TurnOK, NotBehind
    <2> QED BY <1>1, <2>1, <2>2, <2>3 DEF Turns, TurnOK, NotBehind, Pending, Listening, Ahead
  <1>6. NotBefore(c)'
    <2>1. ASSUME NEW k \in 1..Len(asked[c]), k > i, Listening(c) PROVE Upcoming(c, k)'
      <3>1. k \in (i + 1)..Len(asked[c])
        BY <1>1, <2>1
      <3> QED BY <2>1, <3>1
    <2> QED BY <1>1, <1>2, <2>1 DEF NotBefore, Pending, Listening, Upcoming
  <1> QED BY <1>5, <1>6

LEMMA ReadRequestTurn ==
    ASSUME Inv, Inv', Turns, NEW c \in Conns, ReadRequest(c)
    PROVE  Turns'
  <1>w. PICK w, i, rest, r, u : /\ w = wire[c] /\ i = Head(w).of /\ rest = Tail(w)
                               /\ r = asked[c][i].shape /\ u = r.units
    OBVIOUS
  <1>0. /\ pc[c] = "idle" /\ w # <<>>
        /\ UNCHANGED <<asked, client, answers, begun, reached>>
        /\ current' = [current EXCEPT ![c] = i]
    BY <1>w DEF ReadRequest, clients, received
  <1>1. FrontOf(c, w, i) /\ wire[c] = w
    BY <1>0, <1>w, Front
  <1>2. /\ rest \in Seq(Units) /\ Len(rest) = Len(w) - 1 /\ Len(w) \in Nat \ {0}
        /\ \A k \in 1..Len(rest) : rest[k] = w[k + 1]
    BY <1>0, <1>1, <1>w, HeadTailProperties DEF FrontOf
  <1>3. /\ i \in 1..Len(asked[c]) /\ i \in Nat /\ i # 0 /\ u \in Nat
        /\ \A m \in 1..u : 1 + m <= Len(w) => w[1 + m] = Unit("body", c, i)
        /\ w[1].kind = "head" /\ w[1].of = i
    BY <1>1, <1>w DEF FrontOf
  <1>4. /\ i >= Pending(c) /\ Len(answers[c]) \in Nat
        /\ Listening(c) => i = Pending(c)
        /\ \A k : E!Reached(c, k) => k < i
    BY <1>0, <1>1, FrontIsPending
  <1>5. /\ client[c] \in {"open", "finished", "stalled", "gone"}
        /\ DOMAIN pc = Conns /\ DOMAIN reply = Conns /\ wire \in [Conns -> Seq(Units)]
        /\ current \in [Conns -> Nat] /\ body \in [Conns -> Seq(Units)] /\ reply[c] = None
    BY <1>0 DEF Turns, TurnOK, Stage, Writing, Inv, Types
  <1>6. \A k \in (i + 1)..Len(asked[c]) :
            Listening(c) => \E j \in 2..Len(w) : w[j].kind = "head" /\ w[j].of = k
    <2> SUFFICES ASSUME NEW k \in (i + 1)..Len(asked[c]), Listening(c)
                 PROVE  \E j \in 2..Len(w) : w[j].kind = "head" /\ w[j].of = k
      OBVIOUS
    <2>1. k \in 1..Len(asked[c]) /\ k > Len(answers[c]) /\ k # i
      BY <1>3, <1>4 DEF Pending
    <2>2. Upcoming(c, k)
      BY <1>0, <2>1 DEF Turns, TurnOK, NotBefore, Busy
    <2>3. PICK j \in 1..Len(w) : w[j].kind = "head" /\ w[j].of = k
      BY <1>1, <2>2 DEF Upcoming
    <2>4. j # 1
      BY <1>3, <2>1, <2>3
    <2> QED BY <1>2, <2>3, <2>4
  <1>7. \A d \in Conns \ {c} : current'[d] = current[d]
    BY <1>0, <1>5
  \* The request is refused.
  <1>8. ASSUME NEW response \in Responses, Answer(c, response), UNCHANGED body,
               NEW v, wire' = [wire EXCEPT ![c] = v],
               Listening(c) => \A k \in (i + 1)..Len(asked[c]) :
                   \E j \in 1..Len(v) : v[j].kind = "head" /\ v[j].of = k,
               Listening(c) => E!Contract(c, i, response.status),
               response.final, response.status \in {413, 501}
        PROVE  Turns'
    <2>1. /\ pc'[c] = "reply" /\ reply'[c] = response /\ wire'[c] = v /\ current'[c] = i
          /\ \A d \in Conns \ {c} : pc'[d] = pc[d] /\ reply'[d] = reply[d] /\ wire'[d] = wire[d]
      BY <1>0, <1>5, <1>8 DEF Answer, Goto
    <2>2. Listening(c) => \A k \in (i + 1)..Len(asked[c]) : Upcoming(c, k)'
      BY <1>8, <2>1 DEF Upcoming
    <2>3. NotBehind(c)' /\ NotBefore(c)'
      BY <1>0, <1>1, <2>1, <2>2, ReadPlace
    <2>4. Stage(c)'
      BY <1>0, <1>3, <1>5, <1>8, <2>1 DEF Stage, Labels, Busy, Writing
    <2>5. AtHand(c)'
      BY <2>1 DEF AtHand
    <2>6. E!Contract(c, i, response.status)' <=> E!Contract(c, i, response.status)
      BY <1>0 DEF E!Contract, E!Reached
    <2>7. Written(c)'
      BY <1>0, <1>8, <2>1, <2>6 DEF Written, Listening
    <2>8. TurnOK(c)'
      BY <2>3, <2>4, <2>5, <2>7 DEF TurnOK
    <2> QED BY <1>0, <1>7, <1>8, <2>1, <2>8, QuietStep
  <1>9. Listening(c) => \A k \in (i + 1)..Len(asked[c]) :
            \E j \in 1..Len(rest) : rest[j].kind = "head" /\ rest[j].of = k
    <2> SUFFICES ASSUME NEW k \in (i + 1)..Len(asked[c]), Listening(c)
                 PROVE  \E j \in 1..Len(rest) : rest[j].kind = "head" /\ rest[j].of = k
      OBVIOUS
    <2>1. PICK j \in 2..Len(w) : w[j].kind = "head" /\ w[j].of = k
      BY <1>6
    <2>2. j - 1 \in 1..Len(rest) /\ (j - 1) + 1 = j
      BY <1>2
    <2>3. rest[j - 1] = w[j]
      BY <1>2, <2>2
    <2> QED BY <2>1, <2>2, <2>3
  <1>10. CASE ~Supported(r) /\ Answer(c, Final(Response(501, 1, r)))
              /\ wire' = [wire EXCEPT ![c] = rest] /\ UNCHANGED body
    <2> DEFINE response == Final(Response(501, 1, r))
    <2>1. response \in Responses /\ response.status = 501 /\ response.final
      BY RefusalFields
    <2> HIDE DEF response
    <2>2. E!Contract(c, i, response.status)
      BY <1>10, <1>w, <2>1 DEF E!Contract, Supported
    <2> QED BY <1>8, <1>9, <1>10, <2>1, <2>2 DEF response
  <1>r. Rejection(r) \in Responses /\ Rejection(r).status = 413 /\ Rejection(r).final
    BY RefusalFields DEF Rejection
  <1>11. CASE Supported(r) /\ ~Framable(r) /\ Answer(c, Rejection(r))
              /\ wire' = [wire EXCEPT ![c] = rest] /\ UNCHANGED body
    <2>1. E!Contract(c, i, Rejection(r).status)
      <3>1. r.chunked \/ r.units > MaxProxyBody
        <4>1. ~Framable(r) /\ r.units \in Nat /\ MaxProxyBody \in Nat
          BY <1>3, <1>11, <1>w, BoundsAssumption
        <4>2. ~(r.units <= MaxProxyBody) => r.units > MaxProxyBody
          BY <4>1
        <4> QED BY <4>1, <4>2, Zenon DEF Framable
      <3> QED BY <1>r, <1>w, <3>1 DEF E!Contract
    <2> QED BY <1>8, <1>9, <1>11, <1>r, <2>1
  <1>12. CASE /\ u > Len(rest) /\ client[c] \in {"finished", "gone"}
              /\ Answer(c, Rejection(r)) /\ wire' = [wire EXCEPT ![c] = <<>>] /\ UNCHANGED body
    <2>1. ASSUME Listening(c), NEW k \in (i + 1)..Len(asked[c]) PROVE FALSE
      <3>1. PICK j \in 2..Len(w) : w[j].kind = "head" /\ w[j].of = k
        BY <1>6, <2>1
      <3>2. j - 1 \in 1..u /\ 1 + (j - 1) = j /\ j <= Len(w)
        BY <1>2, <1>3, <1>12
      <3>3. w[j] = Unit("body", c, i)
        BY <1>3, <3>2
      <3> QED BY <3>1, <3>3 DEF Unit
    <2>2. Listening(c) => i = Len(asked[c])
      <3> SUFFICES ASSUME Listening(c), i # Len(asked[c]) PROVE FALSE
        OBVIOUS
      <3>1. Len(asked[c]) \in Nat
        BY LenProperties DEF Inv, Types
      <3>2. i + 1 \in (i + 1)..Len(asked[c])
        BY <1>3, <3>1
      <3> QED BY <2>1, <3>2
    <2>3. Listening(c) => E!Contract(c, i, Rejection(r).status)
      <3>1. u > 0
        BY <1>2, <1>3, <1>12
      <3> QED BY <1>12, <1>r, <1>w, <2>2, <3>1 DEF E!Contract, Listening
    <2> QED BY <1>8, <1>12, <1>r, <2>1, <2>3
  \* It is routed.
  <1>13. CASE /\ u <= Len(rest) /\ Goto(c, "route") /\ Keep(c, SubSeq(rest, 1, u))
              /\ wire' = [wire EXCEPT ![c] = SubSeq(rest, u + 1, Len(rest))]
              /\ UNCHANGED reply
    <2>v. PICK b, v : b = SubSeq(rest, 1, u) /\ v = SubSeq(rest, u + 1, Len(rest))
      OBVIOUS
    <2>1. \A k \in 1..Len(rest) : rest[k] \in Units
      BY <1>2, ElementOfSeq
    <2>2. b \in Seq(Units) /\ Len(b) = u /\ \A m \in 1..u : b[m] = rest[m]
      BY <1>2, <1>3, <1>13, <2>1, <2>v, SubSeqProperties
    <2>3. v \in Seq(Units) /\ Len(v) = Len(w) - (1 + u) /\ \A j \in 1..Len(v) : v[j] = rest[u + j]
      BY <1>2, <1>3, <1>13, <2>1, <2>v, SubSeqProperties
    <2>4. /\ pc'[c] = "route" /\ reply'[c] = None /\ wire'[c] = v /\ current'[c] = i /\ body'[c] = b
          /\ \A d \in Conns \ {c} : pc'[d] = pc[d] /\ wire'[d] = wire[d] /\ body'[d] = body[d]
      BY <1>0, <1>5, <1>13, <2>v DEF Goto, Keep
    <2>5. \A m \in 1..Len(b) : b[m] = Unit("body", c, i)
      <3> TAKE m \in 1..Len(b)
      <3>1. m \in 1..u /\ m \in 1..Len(rest) /\ 1 + m = m + 1 /\ 1 + m <= Len(w)
        BY <1>2, <1>3, <1>13, <2>2
      <3> QED BY <1>2, <1>3, <2>2, <3>1
    <2>6. ASSUME Listening(c), NEW k \in (i + 1)..Len(asked[c]) PROVE Upcoming(c, k)'
      <3>1. PICK j \in 2..Len(w) : w[j].kind = "head" /\ w[j].of = k
        BY <1>6, <2>6
      <3>2. ASSUME j <= u + 1 PROVE FALSE
        <4>1. j - 1 \in 1..u /\ 1 + (j - 1) = j /\ j <= Len(w)
          BY <1>2, <1>3, <3>2
        <4>2. w[j] = Unit("body", c, i)
          BY <1>3, <4>1
        <4> QED BY <3>1, <4>2 DEF Unit
      <3>3. j - (1 + u) \in 1..Len(v) /\ u + (j - (1 + u)) \in 1..Len(rest)
            /\ (u + (j - (1 + u))) + 1 = j
        <4>1. j \in Nat /\ j <= Len(w) /\ u + 1 < j
          BY <1>2, <1>3, <3>2
        <4>2. u \in Nat /\ Len(w) \in Nat /\ Len(rest) = Len(w) - 1 /\ Len(v) = Len(w) - (1 + u)
          BY <1>2, <1>3, <2>3
        <4> QED BY ONLY <4>1, <4>2
      <3>4. v[j - (1 + u)] = w[j]
        BY <1>2, <2>3, <3>3
      <3> QED BY <2>4, <3>1, <3>3, <3>4 DEF Upcoming
    <2>7. NotBehind(c)' /\ NotBefore(c)'
      BY <1>0, <1>1, <2>4, <2>6, ReadPlace
    <2>8. Stage(c)'
      BY <1>0, <1>3, <1>5, <2>4 DEF Stage, Labels, Busy, Writing
    <2>9. AtHand(c)'
      <3>1. \A k : E!Reached(c, k)' => k < i
        BY <1>0, <1>4 DEF E!Reached
      <3> QED BY <1>0, <1>w, <2>2, <2>4, <2>5, <3>1 DEF AtHand, Request
    <2>10. Written(c)'
      BY <2>4 DEF Written, Writing
    <2>11. TurnOK(c)'
      BY <2>7, <2>8, <2>9, <2>10 DEF TurnOK
    <2> QED BY <1>0, <1>7, <1>13, <2>4, <2>11, QuietStep
  <1> QED BY <1>w, <1>10, <1>11, <1>12, <1>13 DEF ReadRequest

-----------------------------------------------------------------------------
(* The rest of the handler.                                                *)

\* A handler that keeps its place.
LEMMA SamePlace ==
    ASSUME Turns, NEW c \in Conns,
           UNCHANGED <<asked, client, answers, begun>>,
           wire'[c] = wire[c], current'[c] = current[c],
           Busy(c), pc[c] = "payload" => ~Listening(c),
           \/ pc'[c] \in {"waiting", "reply"}
           \/ pc[c] = "route" /\ pc'[c] = "forward"
    PROVE  NotBehind(c)' /\ NotBefore(c)' /\ Busy(c)'
  <1>1. Busy(c)'
    BY DEF Busy
  <1>2. NotBehind(c) /\ NotBefore(c) /\ pc[c] # "closed" /\ pc'[c] # "closed"
    BY DEF Turns, TurnOK, Busy
  <1>3. ~E!Ended(c)'
    BY <1>2 DEF NotBehind, E!Ended, E!Last
  <1>4. begun[c] # 0 /\ Listening(c) => FALSE
    BY <1>2 DEF NotBehind
  <1>5. NotBehind(c)'
    BY <1>1, <1>2, <1>3, <1>4 DEF NotBehind, Ahead, Pending, Listening
  <1>6. NotBefore(c)'
    BY <1>1, <1>2 DEF NotBefore, Listening, Pending, Upcoming
  <1> QED BY <1>1, <1>5, <1>6

\* A response of the contract is decided on.
LEMMA AnswerTurn ==
    ASSUME Inv, Turns, NEW c \in Conns,
           UNCHANGED <<asked, client, wire, current, body, answers, begun, reached>>,
           Busy(c), pc[c] = "payload" => ~Listening(c),
           NEW response \in Responses, Answer(c, response),
           E!Contract(c, current[c], response.status),
           response.final <=> response.status \in {413, 501} \/ ~Request(c).shape.keep
    PROVE  Turns'
  <1>1. /\ pc'[c] = "reply" /\ reply'[c] = response
        /\ \A d \in Conns \ {c} : pc'[d] = pc[d] /\ reply'[d] = reply[d]
    BY DEF Answer, Goto, Inv, Types
  <1>2. NotBehind(c)' /\ NotBefore(c)' /\ Busy(c)'
    BY <1>1, SamePlace
  <1>3. Stage(c)'
    BY <1>1, <1>2 DEF Turns, TurnOK, Stage, Labels, Writing
  <1>4. AtHand(c)'
    BY <1>1 DEF AtHand
  <1>5. E!Contract(c, current[c], response.status)'
    BY DEF E!Contract, E!Reached
  <1>6. Written(c)'
    BY <1>1, <1>5 DEF Written, Request
  <1>7. TurnOK(c)'
    BY <1>2, <1>3, <1>4, <1>6 DEF TurnOK
  <1> QED BY <1>1, <1>7, QuietStep

\* The end of a connection, after a last response or without.
LEMMA CloseTurn ==
    ASSUME Inv, Turns, NEW c \in Conns, Elsewise(c), Shaped', UNCHANGED <<asked, client>>,
           Len(answers'[c]) <= Len(asked[c]), Close(c)
    PROVE  Turns'
  <1>1. pc'[c] = "closed" /\ wire'[c] = <<>> /\ current'[c] = 0 /\ reply'[c] = None
    BY DEF Close, Goto, Inv, Types
  <1>2. Len(<<>>) = 0
    OBVIOUS
  <1>3. \A i : Ahead(c, i)'
    BY <1>1, <1>2 DEF Ahead
  <1>4. TurnOK(c)'
    <2>1. Stage(c)'
      BY <1>1 DEF Turns, TurnOK, Stage, Busy, Writing, Labels
    <2>2. NotBehind(c)'
      BY <1>1, <1>3 DEF NotBehind, Busy, Ahead, Pending
    <2>3. NotBefore(c)' /\ AtHand(c)' /\ Written(c)'
      BY <1>1 DEF NotBefore, Busy, AtHand, Written, Writing
    <2> QED BY <2>1, <2>2, <2>3 DEF TurnOK
  <1> QED BY <1>4, TurnsKept

LEMMA ElseClose ==
    ASSUME NEW c \in Conns, Close(c),
           UNCHANGED <<asked, client, answers, begun, reached>>
    PROVE  Elsewise(c)
  BY SameReached DEF Close, Goto, Elsewise

LEMMA RouteTurn ==
    ASSUME Inv, Inv', Turns, NEW c \in Conns, Route(c)
    PROVE  Turns'
  <1>r. PICK r, i : r = Request(c).shape /\ i = current[c]
    OBVIOUS
  <1>1. /\ pc[c] = "route" /\ Busy(c) /\ TurnOK(c)
        /\ UNCHANGED <<asked, client, answers, begun, reached>>
    BY DEF Route, Busy, Turns, clients, received
  <1>2. r = asked[c][i].shape /\ ~E!Reached(c, i)
    <2>1. i \in Nat
      BY <1>r DEF Inv, Types
    <2> QED BY <1>1, <1>r, <2>1 DEF TurnOK, AtHand, Request
  <1> DEFINE Kept == UNCHANGED <<wire, current, body>>
  <1>3. ASSUME NEW status \in {200, 204, 303, 401, 404, 405}, NEW response, Kept,
               Answer(c, response), Says(response, status, r), E!Contract(c, i, status)
        PROVE  Turns'
    BY <1>1, <1>3, <1>r, AnswerTurn DEF Says
  <1>4. ASSUME NEW status \in {200, 204, 303, 401, 404, 405}, NEW size \in Nat, Kept,
               Answer(c, Response(status, size, r)), E!Contract(c, i, status)
        PROVE  Turns'
    <2>1. status \in Nat
      OBVIOUS
    <2>2. Says(Response(status, size, r), status, r)
      BY <2>1, ResponseSays
    <2> QED BY <1>3, <1>4, <2>2
  <1>5. CASE r.path = "login" /\ r.method = "POST" /\ Login(c, r) /\ Kept
    <2>1. E!Contract(c, i, 401) /\ E!Contract(c, i, 303)
      BY <1>2, <1>5 DEF E!Contract
    <2>2. CASE Answer(c, Response(401, 1, r))
      BY <1>4, <1>5, <2>1, <2>2
    <2>3. CASE Answer(c, [Response(303, 0, r) EXCEPT !.cookie = SignCookie(config, now)])
      <3>1. Says(Response(303, 0, r), 303, r)
        BY ResponseSays
      <3>2. SignCookie(config, now) \in [secret : Nat, exp : Nat]
        BY TtlAssumption DEF SignCookie, Inv, Types
      <3>3. Says([Response(303, 0, r) EXCEPT !.cookie = SignCookie(config, now)], 303, r)
        BY <3>1, <3>2, CookieSays
      <3> QED BY <1>3, <1>5, <2>1, <2>3, <3>3
    <2> QED BY <1>5, <2>2, <2>3 DEF Login
  <1>6. CASE r.path \in ForApp /\ Goto(c, "forward") /\ UNCHANGED reply /\ Kept
    <2>1. /\ pc'[c] = "forward" /\ \A d \in Conns \ {c} : pc'[d] = pc[d]
      BY <1>6 DEF Goto, Inv, Types
    <2>2. NotBehind(c)' /\ NotBefore(c)' /\ Busy(c)'
      BY <1>1, <1>6, <2>1, SamePlace
    <2>3. Stage(c)'
      BY <1>1, <1>6, <2>1, <2>2 DEF TurnOK, Stage, Labels, Writing
    <2>4. \A k : E!Reached(c, k)' <=> E!Reached(c, k)
      BY <1>1, SameReached
    <2>5. AtHand(c)'
      BY <1>1, <1>6, <1>r, <2>1, <2>4 DEF TurnOK, AtHand, Request
    <2>6. Written(c)'
      BY <2>1 DEF Written, Writing
    <2>7. TurnOK(c)'
      BY <2>2, <2>3, <2>5, <2>6 DEF TurnOK
    <2> QED BY <1>1, <1>6, <2>1, <2>7, QuietStep
  <1>7. CASE r.path \in {"auth"} \cup ForApp /\ Answer(c, Response(401, 1, r)) /\ Kept
    <2>1. E!Contract(c, i, 401)
      BY <1>2, <1>7 DEF E!Contract, ForApp
    <2> QED BY <1>4, <1>7, <2>1
  <1>8. CASE r.path = "auth" /\ Answer(c, Response(204, 0, r)) /\ Kept
    <2>1. E!Contract(c, i, 204)
      BY <1>2, <1>8 DEF E!Contract
    <2> QED BY <1>4, <1>8, <2>1
  <1>9. CASE r.path = "login" /\ ~(r.method = "POST") /\ Answer(c, Response(200, 1, r)) /\ Kept
    <2>1. E!Contract(c, i, 200)
      BY <1>2, <1>9 DEF E!Contract
    <2> QED BY <1>4, <1>9, <2>1
  <1>10. CASE r.path = "logout" /\ r.method = "POST" /\ Answer(c, Response(303, 0, r)) /\ Kept
    <2>1. E!Contract(c, i, 303)
      BY <1>2, <1>10 DEF E!Contract
    <2> QED BY <1>4, <1>10, <2>1
  <1>11. CASE r.path = "logout" /\ ~(r.method = "POST") /\ Answer(c, Response(405, 1, r)) /\ Kept
    <2>1. E!Contract(c, i, 405)
      BY <1>2, <1>11 DEF E!Contract
    <2> QED BY <1>4, <1>11, <2>1
  <1>12. CASE r.path = "other" /\ Answer(c, Response(404, 1, r)) /\ Kept
    <2>1. E!Contract(c, i, 404)
      BY <1>2, <1>12 DEF E!Contract
    <2> QED BY <1>4, <1>12, <2>1
  <1>13. CASE Close(c)
    BY <1>1, <1>13, CloseTurn, ElseClose DEF TurnOK, NotBehind, Turns, Shaped
  <1> QED
    <2>1. Route(c) => \/ Close(c)
                      \/ Kept /\ r.path = "login" /\ r.method = "POST" /\ Login(c, r)
                      \/ Kept /\ r.path \in ForApp /\ Goto(c, "forward") /\ UNCHANGED reply
                      \/ Kept /\ r.path \in {"auth"} \cup ForApp /\ Answer(c, Response(401, 1, r))
                      \/ Kept /\ r.path = "auth" /\ Answer(c, Response(204, 0, r))
                      \/ /\ Kept /\ r.path = "login" /\ ~(r.method = "POST")
                         /\ Answer(c, Response(200, 1, r))
                      \/ /\ Kept /\ r.path = "logout"
                         /\ Answer(c, IF r.method = "POST" THEN Response(303, 0, r)
                                      ELSE Response(405, 1, r))
                      \/ Kept /\ r.path = "other" /\ Answer(c, Response(404, 1, r))
      BY <1>r DEF Route, Subject
    <2>2. CASE /\ Kept /\ r.path = "logout"
               /\ Answer(c, IF r.method = "POST" THEN Response(303, 0, r)
                            ELSE Response(405, 1, r))
      <3>1. CASE r.method = "POST"
        BY <1>10, <2>2, <3>1
      <3>2. CASE ~(r.method = "POST")
        BY <1>11, <2>2, <3>2
      <3> QED BY <3>1, <3>2
    <2> QED BY <2>1, <2>2, <1>5, <1>6, <1>7, <1>8, <1>9, <1>12, <1>13

LEMMA ForwardTurn ==
    ASSUME Inv, Inv', Turns, NEW c \in Conns, Forward(c)
    PROVE  Turns'
  <1>1. /\ pc[c] = "forward" /\ Busy(c) /\ TurnOK(c)
        /\ UNCHANGED <<asked, client, answers, begun>>
    BY DEF Forward, Busy, Turns, clients, received
  <1>r. PICK r : r = Request(c).shape
    OBVIOUS
  <1>2. CASE /\ r.path = "app" /\ Answer(c, BadGateway(r))
             /\ UNCHANGED <<wire, current, body, reached>>
    <2>1. Says(BadGateway(r), 502, r)
      BY ResponseSays DEF BadGateway
    <2>2. E!Contract(c, current[c], 502)
      BY <1>1, <1>2, <1>r DEF TurnOK, AtHand, E!Contract, Request
    <2> QED BY <1>1, <1>2, <1>r, <2>1, <2>2, AnswerTurn DEF Says
  <1>3. CASE /\ r.path = "app" /\ Goto(c, "waiting") /\ UNCHANGED <<wire, current, body, reply>>
             /\ reached' = Append(reached, [conn |-> c, of |-> current[c], body |-> body[c]])
    <2>q. PICK q : q = [conn |-> c, of |-> current[c], body |-> body[c]]
      OBVIOUS
    <2>1. /\ pc'[c] = "waiting" /\ \A d \in Conns \ {c} : pc'[d] = pc[d]
      BY <1>3 DEF Goto, Inv, Types
    <2>2. NotBehind(c)' /\ NotBefore(c)' /\ Busy(c)'
      BY <1>1, <1>3, <2>1, SamePlace
    <2>3. Stage(c)'
      BY <1>1, <1>3, <2>1, <2>2 DEF TurnOK, Stage, Labels, Writing
    <2>4. /\ reached \in Seq(Reaches) /\ q \in Reaches /\ q.conn = c /\ q.of = current[c]
          /\ Len(reached) \in Nat
      BY <2>q, LenProperties DEF Inv, Types, Reaches
    <2>5. /\ Len(reached') = Len(reached) + 1 /\ reached'[Len(reached) + 1] = q
          /\ \A k \in 1..Len(reached) : reached'[k] = reached[k]
          /\ DOMAIN reached = 1..Len(reached) /\ DOMAIN reached' = 1..Len(reached')
      BY <1>3, <2>4, <2>q, AppendProperties, LenProperties
    <2>6. E!Reached(c, current[c])'
      <3>1. Len(reached) + 1 \in DOMAIN reached'
        BY <2>4, <2>5
      <3> QED BY <1>1, <1>3, <2>4, <2>5, <3>1 DEF E!Reached
    <2>7. ASSUME NEW d \in Conns \ {c}, NEW i PROVE E!Reached(d, i)' <=> E!Reached(d, i)
      <3>1. DOMAIN reached \subseteq DOMAIN reached'
        BY <2>4, <2>5
      <3>2. \A k \in DOMAIN reached' : k \in DOMAIN reached \/ reached'[k] = q
        BY <2>4, <2>5
      <3> QED BY <2>4, <2>5, <3>1, <3>2 DEF E!Reached
    <2>8. AtHand(c)'
      BY <1>1, <1>3, <1>r, <2>1, <2>6 DEF TurnOK, AtHand, Request
    <2>9. Written(c)'
      BY <2>1 DEF Written, Writing
    <2>10. TurnOK(c)'
      BY <2>2, <2>3, <2>8, <2>9 DEF TurnOK
    <2>11. Elsewise(c) /\ Shaped'
      BY <1>1, <1>3, <2>1, <2>7 DEF Elsewise, Turns, Shaped
    <2> QED BY <2>10, <2>11, TurnsKept
  <1>4. CASE Close(c) /\ UNCHANGED reached
    BY <1>1, <1>4, CloseTurn, ElseClose DEF TurnOK, NotBehind, Turns, Shaped
  <1> QED BY <1>2, <1>3, <1>4, <1>r DEF Forward

LEMMA ReceiveTurn ==
    ASSUME Inv, Inv', Turns, NEW c \in Conns, Receive(c)
    PROVE  Turns'
  <1>1. /\ pc[c] = "waiting" /\ Busy(c) /\ TurnOK(c)
        /\ UNCHANGED <<asked, client, answers, begun, reached>>
    BY DEF Receive, Busy, Turns, clients, received
  <1>r. PICK r : r = Request(c).shape
    OBVIOUS
  <1>2. E!Contract(c, current[c], 200) /\ E!Contract(c, current[c], 502)
    BY <1>1 DEF TurnOK, AtHand, E!Contract, Request
  <1>3. ASSUME NEW status \in {200, 502}, NEW response, Answer(c, response),
               Says(response, status, r), UNCHANGED <<wire, current, body>>
        PROVE  Turns'
    BY <1>1, <1>2, <1>3, <1>r, AnswerTurn DEF Says
  <1>4. ASSUME NEW size \in {0, 1} PROVE Says([Response(200, size, r) EXCEPT !.guarded = TRUE], 200, r)
    <2>1. Says(Response(200, size, r), 200, r)
      BY ResponseSays
    <2> QED BY <2>1, GuardedSays
  <1>5. Says(BadGateway(r), 502, r)
    BY ResponseSays DEF BadGateway
  <1>6. CASE Close(c)
    BY <1>1, <1>6, CloseTurn, ElseClose DEF TurnOK, NotBehind, Turns, Shaped
  <1>7. CASE /\ Answer(c, [Response(200, IF r.method = "HEAD" THEN 0 ELSE 1, r)
                              EXCEPT !.guarded = TRUE])
             /\ UNCHANGED <<wire, current, body>>
    <2>1. (IF r.method = "HEAD" THEN 0 ELSE 1) \in {0, 1}
      OBVIOUS
    <2> QED BY <1>3, <1>4, <1>7, <2>1
  <1>8. CASE Answer(c, BadGateway(r)) /\ UNCHANGED <<wire, current, body>>
    BY <1>3, <1>5, <1>8
  <1> QED BY <1>r, <1>6, <1>7, <1>8 DEF Receive

-----------------------------------------------------------------------------
(* Writing.                                                                *)

\* The client has read the whole response, or is gone.
Heard(c) ==
    IF Listening(c)
    THEN /\ answers' = [answers EXCEPT ![c] = Append(@, reply[c].status)]
         /\ begun' = [begun EXCEPT ![c] = 0]
    ELSE UNCHANGED <<answers, begun>>

\* At a response of the contract, the client is waiting for it.
LEMMA WritingTo ==
    ASSUME Inv, Turns, NEW c \in Conns, Writing(c), Listening(c)
    PROVE  /\ current[c] = Pending(c) /\ current[c] \in 1..Len(asked[c])
           /\ answers[c] \in Seq(E!Statuses) /\ Len(answers[c]) \in Nat
           /\ reply[c].status \in E!Statuses /\ reply[c].status \in Nat \ {0, 1}
           /\ E!Contract(c, current[c], reply[c].status)
           /\ pc[c] = "reply" => begun[c] = 0
           /\ pc[c] = "payload" => begun[c] = reply[c].status
           /\ ~E!Ended(c) /\ pc[c] # "closed"
  <1>1. Busy(c) /\ pc[c] # "closed" /\ TurnOK(c)
    BY DEF Busy, Writing, Turns
  <1>2. current[c] = Pending(c) /\ current[c] \in 1..Len(asked[c])
    BY <1>1 DEF TurnOK, NotBefore, Inv, HandlerOK
  <1>3. answers[c] \in Seq(E!Statuses) /\ Len(answers[c]) \in Nat
    BY LenProperties DEF Turns, Shaped
  <1>4. E!Contract(c, current[c], reply[c].status) /\ (pc[c] = "payload" => begun[c] = reply[c].status)
    BY <1>1 DEF TurnOK, Written
  <1>5. reply[c].status \in E!Statuses
    BY <1>4 DEF E!Contract, E!Statuses
  <1>6. reply[c].status \in Nat \ {0, 1}
    BY <1>5 DEF E!Statuses
  <1>7. ~E!Ended(c) /\ (pc[c] = "reply" => begun[c] = 0)
    BY <1>1 DEF TurnOK, NotBehind
  <1> QED BY <1>1, <1>2, <1>3, <1>4, <1>5, <1>6, <1>7

LEMMA HeadRead ==
    ASSUME Inv, Turns, NEW c \in Conns, WriteHead(c)
    PROVE  /\ HasBody(c) /\ Listening(c) =>
                  /\ UNCHANGED answers
                  /\ begun' = [begun EXCEPT ![c] = reply[c].status]
           /\ ~HasBody(c) \/ ~Listening(c) => Heard(c)
  <1>u. PICK unit : unit = [kind |-> "head", status |-> reply[c].status, size |-> reply[c].size,
                            cookie |-> reply[c].cookie]
    OBVIOUS
  <1>1. unit.kind = "head" /\ unit.status = reply[c].status /\ unit.size = reply[c].size
    BY <1>u
  <1>2. Deliver(c, unit) /\ pc[c] = "reply" /\ Writing(c)
    BY <1>u DEF WriteHead, Writing
  <1>3. CASE ~Listening(c)
    BY <1>2, <1>3 DEF Deliver, Listening, received, Heard
  <1>4. CASE Listening(c)
    <2>1. Understand(c, unit)
      BY <1>2, <1>4 DEF Deliver, Listening
    <2>2. /\ begun[c] = 0 /\ Len(answers[c]) < Len(asked[c])
          /\ Request(c) = asked[c][Len(answers[c]) + 1]
      <3>1. Len(asked[c]) \in Nat
        BY LenProperties DEF Inv, Types
      <3> QED BY <1>2, <1>4, <3>1, WritingTo DEF Pending, Request
    <2>3. unit.size > 0 /\ Request(c).shape.method # "HEAD" <=> HasBody(c)
      BY <1>1 DEF HasBody
    <2> DEFINE more == unit.size > 0 /\ Request(c).shape.method # "HEAD"
    <2>4. /\ begun' = [begun EXCEPT ![c] = IF more THEN reply[c].status ELSE 0]
          /\ answers' = IF ~more THEN [answers EXCEPT ![c] = Append(@, reply[c].status)]
                        ELSE answers
      BY <1>1, <2>1, <2>2 DEF Understand
    <2> QED BY <1>4, <2>3, <2>4 DEF Heard
  <1> QED BY <1>3, <1>4

LEMMA BodyRead ==
    ASSUME Inv, Turns, NEW c \in Conns, WriteBody(c)
    PROVE  Heard(c)
  <1>u. PICK unit : unit = [kind |-> "body", cookie |-> None]
    OBVIOUS
  <1>1. unit.kind # "head"
    BY <1>u
  <1>2. Deliver(c, unit) /\ pc[c] = "payload" /\ Writing(c)
    BY <1>u DEF WriteBody, Writing
  <1>3. CASE ~Listening(c)
    BY <1>2, <1>3 DEF Deliver, Listening, received, Heard
  <1>4. CASE Listening(c)
    <2>1. Understand(c, unit)
      BY <1>2, <1>4 DEF Deliver, Listening
    <2>2. begun[c] = reply[c].status /\ begun[c] \notin {0, Garbled}
      BY <1>2, <1>4, WritingTo DEF Garbled
    <2> QED BY <1>1, <1>4, <2>1, <2>2 DEF Understand, Heard
  <1> QED BY <1>3, <1>4

\* The last of its responses ends a connection, and no other.
LEMMA EndedWhenFinal ==
    ASSUME Inv, Turns, NEW c \in Conns, Writing(c), Listening(c), UNCHANGED asked, Heard(c)
    PROVE  /\ answers'[c] \in Seq(E!Statuses) /\ Len(answers'[c]) = current[c]
           /\ begun'[c] = 0
           /\ E!Ended(c)' <=> reply[c].final
  <1>a. PICK s, t, p : s = answers[c] /\ t = answers'[c] /\ p = current[c]
    OBVIOUS
  <1>1. /\ p = Len(s) + 1 /\ p \in 1..Len(asked[c])
        /\ s \in Seq(E!Statuses) /\ Len(s) \in Nat
        /\ reply[c].status \in E!Statuses /\ ~E!Ended(c)
    BY <1>a, WritingTo DEF Pending
  <1>2. t = Append(s, reply[c].status) /\ begun'[c] = 0
    BY <1>a DEF Heard, Turns, Shaped
  <1>3. /\ t \in Seq(E!Statuses) /\ Len(t) = Len(s) + 1 /\ t[Len(s) + 1] = reply[c].status
        /\ \A i \in 1..Len(s) : t[i] = s[i]
        /\ DOMAIN t = 1..Len(t) /\ DOMAIN s = 1..Len(s)
    BY <1>1, <1>2, AppendProperties, LenProperties
  <1>4. \A i \in DOMAIN s : ~E!Last(c, i)' /\ i \in DOMAIN t
    <2> TAKE i \in DOMAIN s
    <2>1. ~E!Last(c, i)
      BY <1>1, <1>a DEF E!Ended
    <2>2. t[i] = s[i] /\ i \in DOMAIN t
      BY <1>1, <1>3
    <2> QED BY <1>a, <2>1, <2>2 DEF E!Last
  <1>5. E!Last(c, p)' <=> reply[c].final
    <2>1. reply[c].final <=> reply[c].status \in {413, 501} \/ ~Request(c).shape.keep
      BY DEF Turns, TurnOK, Written
    <2>2. t[p] = reply[c].status /\ Request(c) = asked[c][p]
      BY <1>1, <1>3, <1>a DEF Request
    <2> QED BY <1>a, <2>1, <2>2 DEF E!Last
  <1>6. \A i \in DOMAIN t : i \in DOMAIN s \/ i = p
    BY <1>1, <1>3
  <1>7. p \in DOMAIN t
    BY <1>1, <1>3
  <1>8. E!Ended(c)' <=> \E i \in DOMAIN t : E!Last(c, i)'
    BY <1>a DEF E!Ended
  <1>9. E!Ended(c)' <=> reply[c].final
    BY <1>4, <1>5, <1>6, <1>7, <1>8
  <1>10. t \in Seq(E!Statuses) /\ Len(t) = p
    BY <1>1, <1>3
  <1> QED BY <1>2, <1>9, <1>10, <1>a

\* What is left when a response has been read.
LEMMA HeardShape ==
    ASSUME Inv, Turns, NEW c \in Conns, Writing(c), UNCHANGED asked, Heard(c)
    PROVE  /\ Shaped' /\ Len(answers'[c]) <= Len(asked[c])
           /\ \A d \in Conns \ {c} : answers'[d] = answers[d] /\ begun'[d] = begun[d]
  <1>1. CASE Listening(c)
    <2>1. answers'[c] \in Seq(E!Statuses) /\ Len(answers'[c]) = current[c] /\ current[c] \in 1..Len(asked[c])
      BY <1>1, EndedWhenFinal, WritingTo
    <2>2. /\ answers \in [Conns -> Seq(E!Statuses)] /\ begun \in [Conns -> Nat]
          /\ \E s : answers' = [answers EXCEPT ![c] = s]
          /\ begun' = [begun EXCEPT ![c] = 0]
      BY <1>1 DEF Turns, Shaped, Heard
    <2>3. Shaped'
      BY <2>1, <2>2 DEF Shaped, E!Statuses
    <2> QED BY <2>1, <2>2, <2>3
  <1>2. CASE ~Listening(c)
    BY <1>2 DEF Heard, Turns, Shaped, TurnOK, NotBehind
  <1> QED BY <1>1, <1>2

LEMMA FinishedTurn ==
    ASSUME Inv, Inv', Turns, NEW c \in Conns, Writing(c), UNCHANGED <<asked, client, reached>>,
           Heard(c), Finished(c)
    PROVE  Turns'
  <1>1. /\ Shaped' /\ Len(answers'[c]) <= Len(asked[c])
        /\ \A d \in Conns \ {c} : answers'[d] = answers[d] /\ begun'[d] = begun[d]
    BY HeardShape
  <1>2. CASE Close(c)
    <2>1. Elsewise(c)
      BY <1>1, <1>2, SameReached DEF Close, Goto, Elsewise
    <2> QED BY <1>1, <1>2, <2>1, CloseTurn
  <1>3. CASE /\ ~reply[c].final /\ Goto(c, "idle") /\ UNCHANGED wire
             /\ current' = [current EXCEPT ![c] = 0]
             /\ body' = [body EXCEPT ![c] = <<>>]
             /\ reply' = [reply EXCEPT ![c] = None]
    <2>1. Elsewise(c)
      BY <1>1, <1>3, SameReached DEF Goto, Elsewise
    <2>2. pc'[c] = "idle" /\ current'[c] = 0 /\ reply'[c] = None /\ TurnOK(c)
      BY <1>3 DEF Goto, Inv, Types, Turns
    <2>3. Busy(c) /\ ~Busy(c)' /\ ~Writing(c)'
      BY <2>2 DEF Busy, Writing
    <2>4. Stage(c)'
      BY <2>2, <2>3 DEF TurnOK, Stage, Labels
    <2>5. AtHand(c)' /\ Written(c)'
      BY <2>2, <2>3 DEF AtHand, Written
    <2>6. ASSUME Listening(c) PROVE TurnOK(c)'
      <3>1. /\ Len(answers'[c]) = current[c] /\ begun'[c] = 0 /\ ~E!Ended(c)'
            /\ current[c] \in 1..Len(asked[c])
        BY <1>3, <2>6, EndedWhenFinal, WritingTo
      <3>2. Ahead(c, current[c])
        BY <2>3 DEF Inv, HandlerOK
      <3>3. Ahead(c, Len(answers[c]))'
        BY <1>3, <3>1, <3>2 DEF Ahead
      <3>4. NotBehind(c)'
        BY <1>1, <2>3, <3>1, <3>3 DEF NotBehind
      <3>5. NotBefore(c)'
        <4>1. \A i \in 1..Len(asked[c]) : i > current[c] => Upcoming(c, i)
          BY <2>2, <2>3, <2>6 DEF TurnOK, NotBefore, Writing
        <4> QED BY <1>3, <2>3, <3>1, <4>1 DEF NotBefore, Upcoming
      <3> QED BY <2>4, <2>5, <3>4, <3>5 DEF TurnOK
    <2>7. ASSUME ~Listening(c) PROVE TurnOK(c)'
      <3>1. UNCHANGED <<answers, begun>>
        BY <2>7 DEF Heard
      <3>2. ~E!Ended(c)'
        BY <2>2, <2>3, <3>1 DEF TurnOK, NotBehind, E!Ended, E!Last, Busy
      <3>3. NotBehind(c)'
        BY <1>3, <2>2, <2>3, <2>7, <3>1, <3>2 DEF TurnOK, NotBehind, Pending, Ahead, Listening
      <3>4. NotBefore(c)'
        BY <2>7 DEF NotBefore, Listening
      <3> QED BY <2>4, <2>5, <3>3, <3>4 DEF TurnOK
    <2> QED BY <1>1, <2>1, <2>6, <2>7, TurnsKept
  <1> QED BY <1>2, <1>3 DEF Finished

LEMMA WriteHeadTurn ==
    ASSUME Inv, Inv', Turns, NEW c \in Conns, WriteHead(c)
    PROVE  Turns'
  <1>1. /\ pc[c] = "reply" /\ Writing(c) /\ Busy(c) /\ UNCHANGED <<asked, client, reached>>
    BY DEF WriteHead, Writing, Busy, clients
  <1>2. CASE ~HasBody(c) /\ Finished(c)
    BY <1>1, <1>2, HeadRead, FinishedTurn
  <1>3. CASE HasBody(c) /\ Goto(c, "payload") /\ UNCHANGED <<wire, current, body, reply>>
    <2>1. pc'[c] = "payload" /\ TurnOK(c) /\ \A d \in Conns \ {c} : pc'[d] = pc[d]
      BY <1>3 DEF Goto, Inv, Types, Turns
    <2>2. /\ UNCHANGED answers
          /\ Listening(c) => begun' = [begun EXCEPT ![c] = reply[c].status]
          /\ ~Listening(c) => UNCHANGED begun
      BY <1>3, HeadRead DEF Heard
    <2>3. /\ begun' \in [Conns -> Nat] /\ \A d \in Conns \ {c} : begun'[d] = begun[d]
          /\ Listening(c) => begun'[c] = reply[c].status
      BY <1>1, <2>2, WritingTo DEF Turns, Shaped
    <2>4. Elsewise(c) /\ Shaped'
      BY <1>1, <1>3, <2>1, <2>2, <2>3, SameReached DEF Elsewise, Turns, Shaped
    <2>5. Busy(c)' /\ Writing(c)'
      BY <2>1 DEF Busy, Writing
    <2>6. Stage(c)'
      BY <1>1, <1>3, <2>1, <2>5 DEF TurnOK, Stage, Labels
    <2>7. NotBefore(c)'
      BY <1>1, <1>3, <2>1, <2>2, <2>5 DEF TurnOK, NotBefore, Upcoming, Listening, Pending
    <2>8. AtHand(c)'
      BY <2>1 DEF AtHand
    <2>9. Written(c)'
      <3>1. \A i, status : E!Contract(c, i, status)' <=> E!Contract(c, i, status)
        BY <1>1 DEF E!Contract, E!Reached
      <3>2. Listening(c) => current'[c] = current[c] /\ reply'[c] = reply[c] /\ begun'[c] = reply[c].status
        BY <1>3, <2>3
      <3> QED BY <1>1, <1>3, <2>1, <3>1, <3>2 DEF TurnOK, Written, Listening, Request
    <2>10. NotBehind(c)'
      <3>1. ~E!Ended(c)'
        BY <1>1, <2>1, <2>2 DEF TurnOK, NotBehind, E!Ended, E!Last
      <3>2. Listening(c) => Ahead(c, Pending(c))
        <4>1. Busy(c) => Ahead(c, current[c])
          BY DEF Inv, HandlerOK
        <4> QED BY <1>1, <4>1, WritingTo
      <3>3. Ahead(c, Pending(c)) => Ahead(c, Pending(c))'
        BY <1>3, <2>2 DEF Ahead, Pending
      <3> QED BY <1>1, <1>3, <2>1, <2>2, <2>5, <3>1, <3>2, <3>3
              DEF TurnOK, NotBehind, Pending, Ahead, Listening
    <2>11. TurnOK(c)'
      BY <2>6, <2>7, <2>8, <2>9, <2>10 DEF TurnOK
    <2> QED BY <2>4, <2>11, TurnsKept
  <1> QED BY <1>2, <1>3 DEF WriteHead

LEMMA WriteRestTurn ==
    ASSUME Inv, Inv', Turns, NEW c \in Conns, WriteBody(c) \/ BrokenPipe(c) \/ EndOfFile(c)
    PROVE  Turns'
  <1>1. CASE WriteBody(c)
    <2>1. Writing(c) /\ UNCHANGED <<asked, client, reached>> /\ Finished(c)
      BY <1>1 DEF WriteBody, Writing, clients
    <2> QED BY <1>1, <2>1, BodyRead, FinishedTurn
  <1>2. Len(answers[c]) <= Len(asked[c]) /\ Shaped /\ TurnOK(c)
    BY DEF Turns, TurnOK, NotBehind
  <1>3. ASSUME UNCHANGED <<asked, client, answers, begun, reached>>, Close(c) PROVE Turns'
    BY <1>2, <1>3, CloseTurn, ElseClose DEF Shaped
  <1>4. CASE BrokenPipe(c)
    <2>1. /\ pc[c] \in {"reply", "payload"} /\ Busy(c) /\ client[c] = "gone" /\ ~Listening(c)
          /\ UNCHANGED <<asked, client, answers, begun, reached>>
      BY <1>4 DEF BrokenPipe, Busy, Listening, clients, received
    <2>2. CASE Answer(c, BadGateway(Request(c).shape)) /\ UNCHANGED <<wire, current, body>>
      <3>1. PICK response : response = BadGateway(Request(c).shape)
        OBVIOUS
      <3>2. Says(response, 502, Request(c).shape) /\ response \in Responses
        <4>1. Says(BadGateway(Request(c).shape), 502, Request(c).shape)
          BY ResponseSays DEF BadGateway
        <4> QED BY <3>1, <4>1 DEF Says
      <3>3. /\ pc'[c] = "reply" /\ reply'[c] = response
            /\ \A d \in Conns \ {c} : pc'[d] = pc[d] /\ reply'[d] = reply[d]
        BY <2>2, <3>1 DEF Answer, Goto, Inv, Types
      <3>4. NotBehind(c)' /\ NotBefore(c)' /\ Busy(c)'
        BY <2>1, <2>2, <3>3, SamePlace
      <3>5. Stage(c)'
        BY <1>2, <2>1, <2>2, <3>2, <3>3, <3>4 DEF TurnOK, Stage, Labels, Writing
      <3>6. AtHand(c)' /\ Written(c)'
        BY <2>1, <3>3 DEF AtHand, Written, Listening
      <3>7. TurnOK(c)'
        BY <3>4, <3>5, <3>6 DEF TurnOK
      <3> QED BY <2>1, <2>2, <3>3, <3>7, QuietStep
    <2> QED BY <1>3, <1>4, <2>1, <2>2 DEF BrokenPipe
  <1>5. CASE EndOfFile(c)
    BY <1>3, <1>5 DEF EndOfFile, clients, received
  <1> QED BY <1>1, <1>4, <1>5

-----------------------------------------------------------------------------
(* The clients, the clock and the process.                                 *)

\* The contract is about the request, and about who has left.
LEMMA ContractKept ==
    ASSUME NEW c \in Conns, NEW p \in 1..Len(asked[c]), NEW status,
           E!Contract(c, p, status), asked'[c][p] = asked[c][p], UNCHANGED reached,
           client[c] = "finished" /\ p = Len(asked[c]) =>
               client'[c] = "finished" /\ p = Len(asked'[c])
    PROVE  E!Contract(c, p, status)'
  <1>1. E!Reached(c, p)' <=> E!Reached(c, p)
    BY SameReached
  <1> QED BY <1>1 DEF E!Contract

\* What was asked and not taken back.
LEMMA EndedKept ==
    ASSUME Turns, NEW c \in Conns, UNCHANGED answers, ~E!Ended(c),
           \A i \in 1..Len(answers[c]) : asked'[c][i] = asked[c][i]
    PROVE  ~E!Ended(c)'
  <1>1. DOMAIN answers[c] = 1..Len(answers[c])
    BY LenProperties DEF Turns, Shaped
  <1> QED BY <1>1 DEF E!Ended, E!Last

LEMMA AskTurn ==
    ASSUME Inv, Inv', Turns, NEW c \in Conns, NEW s \in Shapes[c], NEW cookie \in jar \cup {None},
           Ask(c, s, cookie)
    PROVE  Turns'
  <1>a. PICK a, w, i : a = asked[c] /\ w = wire[c] /\ i = Len(a) + 1
    OBVIOUS
  <1>r. PICK r, n, v : /\ r = [shape |-> s, cookie |-> cookie, owner |-> Owner(cookie)]
                       /\ n = s.units /\ v = Sent(w, c, i, n)
    OBVIOUS
  <1>1. /\ client[c] = "open" /\ pc[c] # "closed" /\ Listening(c) /\ TurnOK(c)
        /\ UNCHANGED <<client, current, body, reply, answers, begun, reached>>
        /\ asked' = [asked EXCEPT ![c] = Append(a, r)]
        /\ wire' = [wire EXCEPT ![c] = v]
        /\ pc' = [pc EXCEPT ![c] = IF @ = "new" THEN "idle" ELSE @]
    BY <1>a, <1>r DEF Ask, received, Sent, Listening, Turns
  <1>2. /\ w \in Seq(Units) /\ Len(a) \in Nat /\ Len(w) \in Nat /\ i \in Nat /\ n \in Nat
        /\ asked'[c] \in Seq(Requests) /\ asked \in [Conns -> Seq(Requests)]
        /\ DOMAIN pc = Conns /\ wire \in [Conns -> Seq(Units)] /\ a \in Seq(Requests)
    BY <1>a, <1>r, LenProperties, ShapesAssumption DEF Inv, Types
  <1>3. /\ v \in Seq(Units) /\ Len(v) = Len(w) + 1 + n
        /\ \A x \in 1..Len(w) : v[x] = w[x]
        /\ v[Len(w) + 1] = Unit("head", c, i)
        /\ \A m \in 1..n : v[Len(w) + 1 + m] = Unit("body", c, i)
    <2>1. Follows(v, w, c, i, n)
      BY <1>2, <1>r, SentWire
    <2> QED BY <2>1 DEF Follows
  <1>4. /\ asked'[c] = Append(a, r) /\ wire'[c] = v /\ asked[c] = a /\ wire[c] = w
        /\ pc'[c] = (IF pc[c] = "new" THEN "idle" ELSE pc[c])
    BY <1>1, <1>2, <1>a
  <1>5. Len(asked'[c]) = i /\ \A k \in 1..Len(a) : asked'[c][k] = a[k]
    <2>1. /\ DOMAIN Append(a, r) = 1..(Len(a) + 1)
          /\ \A k \in 1..Len(a) : Append(a, r)[k] = a[k]
      BY <1>2
    <2>2. DOMAIN asked'[c] = 1..Len(asked'[c]) /\ Len(asked'[c]) \in Nat
      BY <1>2, LenProperties
    <2> QED BY <1>2, <1>4, <1>a, <2>1, <2>2
  <1>6. ASSUME NEW k \in 0..Len(a), Ahead(c, k) PROVE Ahead(c, k)'
    <2> SUFFICES ASSUME NEW j \in 1..Len(v), v[j].kind = "head" PROVE v[j].of > k
      BY <1>4 DEF Ahead
    <2>1. CASE j \in 1..Len(w)
      BY <1>3, <1>4, <1>6, <2>1 DEF Ahead
    <2>2. CASE j = Len(w) + 1
      BY <1>2, <1>3, <1>a, <2>2 DEF Unit
    <2>3. ASSUME j \notin 1..Len(w), j # Len(w) + 1 PROVE FALSE
      <3>1. j - (Len(w) + 1) \in 1..n /\ Len(w) + 1 + (j - (Len(w) + 1)) = j
        BY <1>2, <1>3, <2>3
      <3>2. v[j] = Unit("body", c, i)
        BY <1>3, <3>1
      <3> QED BY <3>2 DEF Unit
    <2> QED BY <2>1, <2>2, <2>3
  <1>7. \A k : Upcoming(c, k) \/ k = i => Upcoming(c, k)'
    <2>1. ASSUME NEW j \in 1..Len(w) PROVE j \in 1..Len(v) /\ v[j] = w[j]
      <3>1. Len(w) \in Nat /\ n \in Nat /\ Len(v) = Len(w) + 1 + n
        BY <1>2, <1>3
      <3>2. j \in 1..Len(v)
        BY <3>1
      <3> QED BY <1>3, <3>2
    <2>2. Len(w) + 1 \in 1..Len(v) /\ v[Len(w) + 1].kind = "head" /\ v[Len(w) + 1].of = i
      BY <1>2, <1>3 DEF Unit
    <2> QED BY <1>4, <2>1, <2>2 DEF Upcoming
  <1>8. /\ Busy(c)' <=> Busy(c)
        /\ Writing(c)' <=> Writing(c)
        /\ pc'[c] \notin {"new", "idle"} => pc'[c] = pc[c]
        /\ pc'[c] # "closed"
    BY <1>1, <1>4 DEF Busy, Writing
  <1>9. Busy(c) => current[c] \in 1..Len(a) /\ Request(c)' = Request(c) /\ current[c] = Pending(c)
    <2>1. Busy(c) => current[c] \in 1..Len(a) /\ current[c] = Pending(c)
      BY <1>1, <1>4 DEF Inv, HandlerOK, TurnOK, NotBefore
    <2> QED BY <1>1, <1>4, <1>5, <2>1 DEF Request
  <1>10. Stage(c)'
    BY <1>1, <1>4, <1>8 DEF TurnOK, Stage, Labels
  <1>11. NotBehind(c)'
    <2>1. Len(answers[c]) <= Len(a) /\ Len(answers[c]) \in Nat
      BY <1>1, <1>4, LenProperties DEF TurnOK, NotBehind, Turns, Shaped
    <2>2. Ahead(c, Len(answers[c]))'
      <3>1. PICK k : k = Len(answers[c])
        OBVIOUS
      <3>2. Ahead(c, k)'
        BY <1>1, <1>2, <1>6, <2>1, <3>1 DEF TurnOK, NotBehind
      <3> QED BY <1>1, <3>1, <3>2 DEF Ahead
    <2>3. begun[c] # 0 => pc[c] = "payload" /\ Busy(c)
      BY <1>1 DEF TurnOK, NotBehind, Busy
    <2>4. begun[c] # 0 => Ahead(c, Pending(c))'
      <3>1. PICK k : k = Pending(c)
        OBVIOUS
      <3>2. begun[c] # 0 => Ahead(c, k)'
        BY <1>1, <1>2, <1>6, <1>9, <2>3, <3>1 DEF TurnOK, NotBehind
      <3> QED BY <1>1, <3>1, <3>2 DEF Ahead, Pending
    <2>5. ~E!Ended(c)'
      <3>1. ~E!Ended(c)
        BY <1>1 DEF TurnOK, NotBehind
      <3>2. \A k \in 1..Len(answers[c]) : asked'[c][k] = asked[c][k]
        BY <1>2, <1>4, <1>5, <2>1
      <3> QED BY <1>1, <3>1, <3>2, EndedKept
    <2>6. Len(answers[c]) <= i
      BY <1>2, <1>a, <2>1
    <2>7. Busy(c) => current[c] >= Pending(c)
      BY <1>1 DEF TurnOK, NotBehind
    <2> QED BY <1>1, <1>5, <1>8, <2>2, <2>3, <2>4, <2>5, <2>6, <2>7 DEF NotBehind, Pending, Listening
  <1>12. NotBefore(c)'
    <2>1. \A k \in 1..i : k \in 1..Len(a) \/ k = i
      BY <1>2, <1>a
    <2> QED BY <1>1, <1>4, <1>5, <1>7, <1>8, <2>1 DEF TurnOK, NotBefore, Pending, Listening
  <1>13. AtHand(c)'
    <2>1. pc'[c] \in {"route", "forward", "waiting"} => Busy(c) /\ pc'[c] = pc[c]
      BY <1>8 DEF Busy
    <2>2. \A k : E!Reached(c, k)' <=> E!Reached(c, k)
      BY <1>1, SameReached
    <2> QED BY <1>1, <1>9, <2>1, <2>2 DEF TurnOK, AtHand
  <1>14. Written(c)'
    <2>1. Writing(c) => Busy(c)
      BY DEF Writing, Busy
    <2>2. PICK p : p = current[c]
      OBVIOUS
    <2>3. Writing(c) => E!Contract(c, p, reply[c].status)
      BY <1>1, <2>2 DEF TurnOK, Written
    <2>4. Writing(c) => E!Contract(c, p, reply[c].status)'
      BY <1>1, <1>4, <1>5, <1>9, <2>1, <2>2, <2>3, ContractKept
    <2>5. pc'[c] = "payload" => pc[c] = "payload"
      BY <1>8
    <2> QED BY <1>1, <1>8, <1>9, <2>1, <2>2, <2>4, <2>5 DEF TurnOK, Written, Listening
  <1>15. TurnOK(c)'
    BY <1>10, <1>11, <1>12, <1>13, <1>14 DEF TurnOK
  <1>16. Elsewise(c) /\ Shaped'
    BY <1>1, SameReached DEF Elsewise, Turns, Shaped
  <1> QED BY <1>15, <1>16, TurnsKept

\* What a client that leaves takes back; what the handler has taken up stays.
BreakFacts(c, a, w, b, v, how, k, n) ==
    /\ client[c] = "open" /\ how \in {"finished", "stalled", "gone"} /\ pc[c] \notin {"new", "closed"}
    /\ UNCHANGED <<pc, current, body, reply, answers, begun, reached>>
    /\ asked' = [asked EXCEPT ![c] = b] /\ wire' = [wire EXCEPT ![c] = v]
    /\ client' = [client EXCEPT ![c] = how]
    /\ asked[c] = a /\ wire[c] = w /\ asked'[c] = b /\ wire'[c] = v /\ client'[c] = how
    /\ Lost(w, k) = (n + 1)..Len(a)
    /\ a \in Seq(Requests) /\ w \in Seq(Units) /\ Len(a) \in Nat /\ Len(w) \in Nat
    /\ k \in 0..Len(w) /\ n \in 0..Len(a)
    /\ b \in Seq(Requests) /\ Len(b) = n /\ v \in Seq(Units) /\ Len(v) = k
    /\ \A i \in 1..n : b[i] = a[i]
    /\ \A i \in 1..k : v[i] = w[i]
    /\ \A i \in 1..Len(a) : Ahead(c, i) => i \in 1..n

LEMMA BrokenOff ==
    ASSUME Inv, Turns, NEW c \in Conns, NEW how \in Breaks[c],
           NEW k \in 0..Len(wire[c]), NEW n \in 0..Len(asked[c]), BreakOff(c, how, k, n)
    PROVE  BreakFacts(c, asked[c], wire[c], SubSeq(asked[c], 1, n), SubSeq(wire[c], 1, k), how, k, n)
  <1>a. PICK a, w : a = asked[c] /\ w = wire[c]
    OBVIOUS
  <1>b. PICK b, v : b = SubSeq(a, 1, n) /\ v = SubSeq(w, 1, k)
    OBVIOUS
  <1>1. /\ client[c] = "open" /\ pc[c] \notin {"new", "closed"}
        /\ UNCHANGED <<pc, current, body, reply, answers, begun, reached>>
        /\ asked' = [asked EXCEPT ![c] = b] /\ wire' = [wire EXCEPT ![c] = v]
        /\ client' = [client EXCEPT ![c] = how] /\ how \in {"finished", "stalled", "gone"}
    BY <1>a, <1>b, BreaksAssumption DEF BreakOff, received
  <1>2. /\ a \in Seq(Requests) /\ w \in Seq(Units) /\ Len(a) \in Nat /\ Len(w) \in Nat
        /\ StreamOK(c) /\ k \in 0..Len(w) /\ n \in 0..Len(a)
        /\ asked'[c] = b /\ wire'[c] = v /\ client'[c] = how
    BY <1>1, <1>a, LenProperties DEF Inv, Types
  <1>3. Lost(w, k) = (n + 1)..Len(a)
    BY <1>a DEF BreakOff, Lost
  <1>4. WireOK(c, w, a, client[c] = "open") /\ \A i \in 1..Len(a) : a[i].shape.units \in Nat
    BY <1>2, <1>a, UnitsOfRequests DEF StreamOK
  <1>5. Shortened(c, w, a, v, b, k, n)
    BY <1>2, <1>3, <1>4, <1>b, CutWire
  <1>6. ASSUME NEW i \in 1..Len(a), Ahead(c, i), i \notin 1..n PROVE FALSE
    <2>1. i \in (n + 1)..Len(a)
      BY <1>2, <1>6
    <2>2. PICK x \in (k + 1)..Len(w) : w[x].kind = "head" /\ w[x].of = i
      BY <1>3, <2>1 DEF Lost
    <2>3. x \in 1..Len(w) /\ i \in Nat /\ ~(i > i)
      BY <1>2, <2>1, <2>2
    <2> QED BY <1>6, <1>a, <2>2, <2>3 DEF Ahead
  <1>7. BreakFacts(c, a, w, b, v, how, k, n)
    BY <1>1, <1>2, <1>3, <1>5, <1>6, <1>a DEF BreakFacts, Shortened
  <1> QED BY <1>7, <1>a, <1>b

LEMMA BreakOffTurn ==
    ASSUME Inv, Inv', Turns, NEW c \in Conns, NEW how \in Breaks[c],
           NEW k \in 0..Len(wire[c]), NEW n \in 0..Len(asked[c]), BreakOff(c, how, k, n)
    PROVE  Turns'
  <1>a. PICK a, w, b, v : BreakFacts(c, a, w, b, v, how, k, n)
    BY BrokenOff
  <1>1. /\ client[c] = "open" /\ how \in {"finished", "stalled", "gone"} /\ Listening(c) /\ TurnOK(c)
        /\ UNCHANGED <<pc, current, body, reply, answers, begun, reached>>
        /\ asked[c] = a /\ wire[c] = w /\ asked'[c] = b /\ wire'[c] = v /\ client'[c] = how
    BY <1>a DEF BreakFacts, Listening, Turns
  <1>2. /\ Len(a) \in Nat /\ Len(w) \in Nat /\ k \in Nat /\ k <= Len(w) /\ n \in Nat /\ n <= Len(a)
        /\ Len(b) = n /\ Len(v) = k /\ pc[c] # "closed" /\ Lost(w, k) = (n + 1)..Len(a)
        /\ \A i \in 1..n : b[i] = a[i]
        /\ \A i \in 1..k : v[i] = w[i]
    BY <1>a DEF BreakFacts
  <1>3. \A i \in 1..Len(a) : Ahead(c, i) => i \in 1..n
    BY <1>a DEF BreakFacts
  <1>4. ASSUME NEW i, Ahead(c, i) PROVE Ahead(c, i)'
    <2>1. \A j \in 1..Len(v) : j \in 1..Len(w) /\ v[j] = w[j]
      BY <1>2
    <2> QED BY <1>1, <1>4, <2>1 DEF Ahead
  <1>5. ASSUME NEW i \in 1..n, Upcoming(c, i) PROVE Upcoming(c, i)'
    <2>1. PICK j \in 1..Len(w) : w[j].kind = "head" /\ w[j].of = i
      BY <1>1, <1>5 DEF Upcoming
    <2>2. ASSUME j > k PROVE FALSE
      <3>1. j \in (k + 1)..Len(w)
        BY <1>2, <2>2
      <3>2. i \in Lost(w, k)
        BY <2>1, <3>1 DEF Lost
      <3> QED BY <1>2, <3>2
    <2>3. j \in 1..k
      BY <1>2, <2>2
    <2> QED BY <1>1, <1>2, <2>1, <2>3 DEF Upcoming
  <1>6. Busy(c) => /\ current[c] \in 1..Len(a) /\ current[c] \in 1..n /\ current[c] = Pending(c)
                   /\ Request(c)' = Request(c)
    <2>1. Busy(c) => current[c] \in 1..Len(a) /\ Ahead(c, current[c]) /\ current[c] = Pending(c)
      BY <1>1 DEF Inv, HandlerOK, TurnOK, NotBefore
    <2> QED BY <1>1, <1>2, <1>3, <2>1 DEF Request
  <1>7. Len(answers[c]) <= n /\ Len(answers[c]) \in Nat
    <2>1. Len(answers[c]) \in Nat /\ Len(answers[c]) <= Len(a) /\ Ahead(c, Len(answers[c]))
      BY <1>1, LenProperties DEF TurnOK, NotBehind, Turns, Shaped
    <2>2. CASE Len(answers[c]) = 0
      BY <1>2, <2>2
    <2>3. CASE Len(answers[c]) # 0
      <3>1. Len(answers[c]) \in 1..Len(a)
        BY <1>2, <2>1, <2>3
      <3> QED BY <1>2, <1>3, <2>1, <3>1
    <2> QED BY <2>1, <2>2, <2>3
  <1>8. Stage(c)'
    BY <1>1, <1>2 DEF TurnOK, Stage, Labels, Busy, Writing
  <1>9. NotBehind(c)'
    <2>1. Ahead(c, Len(answers[c]))'
      BY <1>1, <1>4 DEF TurnOK, NotBehind, Ahead
    <2>2. begun[c] # 0 => Ahead(c, Pending(c))'
      BY <1>1, <1>4 DEF TurnOK, NotBehind, Ahead, Pending
    <2>3. ~E!Ended(c)'
      <3>1. \A i \in 1..Len(answers[c]) : asked'[c][i] = asked[c][i]
        BY <1>1, <1>2, <1>7
      <3> QED BY <1>1, <1>2, <3>1, EndedKept DEF TurnOK, NotBehind
    <2> QED BY <1>1, <1>2, <1>7, <2>1, <2>2, <2>3 DEF TurnOK, NotBehind, Pending, Busy
  <1>10. NotBefore(c)'
    <2>1. \A i \in 1..n : i \in 1..Len(a)
      BY <1>2
    <2> QED BY <1>1, <1>2, <1>5, <2>1 DEF TurnOK, NotBefore, Pending, Busy
  <1>11. AtHand(c)'
    <2>1. pc[c] \in {"route", "forward", "waiting"} => Busy(c)
      BY DEF Busy
    <2>2. \A i : E!Reached(c, i)' <=> E!Reached(c, i)
      BY <1>1, SameReached
    <2> QED BY <1>1, <1>6, <2>1, <2>2 DEF TurnOK, AtHand
  <1>12. Written(c)'
    <2>1. Writing(c) => Busy(c)
      BY DEF Writing, Busy
    <2>2. PICK p : p = current[c]
      OBVIOUS
    <2>3. Writing(c) => E!Contract(c, p, reply[c].status)
      BY <1>1, <2>2 DEF TurnOK, Written
    <2>4. Writing(c) => E!Contract(c, p, reply[c].status)'
      BY <1>1, <1>2, <1>6, <2>1, <2>2, <2>3, ContractKept
    <2> QED BY <1>1, <1>6, <2>1, <2>2, <2>4 DEF TurnOK, Written, Writing
  <1>13. TurnOK(c)'
    BY <1>8, <1>9, <1>10, <1>11, <1>12 DEF TurnOK
  <1>14. Elsewise(c) /\ Shaped'
    BY <1>a, SameReached DEF BreakFacts, Elsewise, Turns, Shaped
  <1> QED BY <1>13, <1>14, TurnsKept

LEMMA TickTurn ==
    ASSUME Inv, Turns, Tick
    PROVE  Turns'
  <1>1. UNCHANGED <<client, asked, wire, pc, current, body, reply, answers, begun, reached>>
    BY DEF Tick, clients, handlers, received
  <1>2. ASSUME NEW d \in Conns PROVE TurnOK(d)'
    BY <1>1, TurnElsewhere, SameReached DEF Turns
  <1> QED BY <1>1, <1>2 DEF Turns, Shaped

LEMMA RestartTurn ==
    ASSUME Inv, Inv', Turns, NEW secrets \in 1..MaxConfigs, Restart(secrets)
    PROVE  Turns'
  <1>1. UNCHANGED <<client, asked, answers, begun, reached>>
    BY DEF Restart, clients, received
  <1>2. Shaped'
    BY <1>1 DEF Turns, Shaped
  <1>3. ASSUME NEW c \in Conns PROVE TurnOK(c)'
    <2>1. /\ pc'[c] = (IF pc[c] = "new" THEN "new" ELSE "closed") /\ wire'[c] = <<>>
          /\ current'[c] = 0 /\ reply'[c] = None /\ TurnOK(c)
      BY DEF Restart, Turns
    <2>2. pc[c] = "new" => asked[c] = <<>>
      BY DEF Inv, HandlerOK
    <2>3. Len(<<>>) = 0
      OBVIOUS
    <2>4. \A i : Ahead(c, i)'
      BY <2>1, <2>3 DEF Ahead
    <2>5. ~Busy(c)' /\ ~Writing(c)'
      BY <2>1 DEF Busy, Writing
    <2>6. Stage(c)'
      BY <1>1, <2>1, <2>5 DEF TurnOK, Stage, Labels
    <2>7. NotBehind(c)'
      <3>1. pc[c] = "new" => ~E!Ended(c)'
        BY <1>1, <2>1 DEF TurnOK, NotBehind, E!Ended, E!Last
      <3>2. pc[c] = "new" /\ begun[c] # 0 => ~Listening(c)
        BY <2>1 DEF TurnOK, NotBehind
      <3> QED BY <1>1, <2>1, <2>4, <2>5, <3>1, <3>2
              DEF TurnOK, NotBehind, Ahead, Pending, Listening
    <2>8. NotBefore(c)'
      BY <1>1, <2>1, <2>2, <2>3, <2>5 DEF NotBefore
    <2>9. AtHand(c)' /\ Written(c)'
      BY <2>1, <2>5 DEF AtHand, Written
    <2> QED BY <2>6, <2>7, <2>8, <2>9 DEF TurnOK
  <1> QED BY <1>2, <1>3 DEF Turns

LEMMA InitTurns == Init => Turns
  <1> SUFFICES ASSUME Init PROVE Turns
    OBVIOUS
  <1>0. <<>> \in Seq(E!Statuses) /\ Len(<<>>) = 0
    OBVIOUS
  <1>1. Shaped
    BY <1>0 DEF Init, Shaped
  <1>2. ASSUME NEW c \in Conns PROVE TurnOK(c)
    <2>1. /\ client[c] = "open" /\ asked[c] = <<>> /\ wire[c] = <<>> /\ pc[c] = "new"
          /\ current[c] = 0 /\ reply[c] = None /\ answers[c] = <<>> /\ begun[c] = 0
      BY DEF Init
    <2>2. ~Busy(c) /\ ~Writing(c)
      BY <2>1 DEF Busy, Writing
    <2>3. Stage(c) /\ AtHand(c) /\ Written(c)
      BY <2>1, <2>2 DEF Stage, Labels, AtHand, Written
    <2>4. ~E!Ended(c)
      <3>1. DOMAIN answers[c] = {}
        BY <2>1
      <3> QED BY <3>1 DEF E!Ended
    <2>5. NotBehind(c) /\ NotBefore(c)
      BY <1>0, <2>1, <2>2, <2>4 DEF NotBehind, NotBefore, Ahead
    <2> QED BY <2>3, <2>5 DEF TurnOK
  <1> QED BY <1>1, <1>2 DEF Turns

LEMMA NextTurns == Inv /\ Inv' /\ Turns /\ [Next]_vars => Turns'
  <1> SUFFICES ASSUME Inv, Inv', Turns, [Next]_vars PROVE Turns'
    OBVIOUS
  <1>1. ASSUME NEW c \in Conns, Handle(c) PROVE Turns'
    BY <1>1, ReadRequestTurn, RouteTurn, ForwardTurn, ReceiveTurn, WriteHeadTurn, WriteRestTurn
       DEF Handle
  <1>2. CASE UNCHANGED vars
    <2>1. UNCHANGED <<client, asked, wire, pc, current, body, reply, answers, begun, reached>>
      BY <1>2 DEF vars, clients, handlers, received
    <2>2. ASSUME NEW d \in Conns PROVE TurnOK(d)'
      BY <2>1, TurnElsewhere, SameReached DEF Turns
    <2> QED BY <2>1, <2>2 DEF Turns, Shaped
  <1> QED BY <1>1, <1>2, AskTurn, BreakOffTurn, TickTurn, RestartTurn DEF Next

\* Client and handler are never out of step: what has been read, what is being
\* written and what is still on the wire belong together (Turns).
THEOREM TurnsHold == Spec => [](Inv /\ Turns)
  <1>1. Spec => []Inv
    BY InvHolds
  <1>2. Init => Turns
    BY InitTurns
  <1>3. Inv /\ Inv' /\ Turns /\ [Next]_vars => Turns'
    BY NextTurns
  <1> QED BY <1>1, <1>2, <1>3, PTL DEF Spec

-----------------------------------------------------------------------------
(* The steps of Exchange.                                                  *)

Open == [c \in Conns |-> pc[c] # "closed"]

LEMMA OpenSame ==
    ASSUME \A d \in Conns : pc'[d] = "closed" <=> pc[d] = "closed"
    PROVE  Open' = Open
  <1>1. \A d \in Conns : (pc'[d] # "closed") = (pc[d] # "closed")
    OBVIOUS
  <1> QED BY <1>1, Zenon DEF Open

LEMMA OpenAt ==
    ASSUME NEW c \in Conns, NEW p, pc'[c] # "closed" <=> p, p \in BOOLEAN,
           \A d \in Conns \ {c} : pc'[d] = pc[d]
    PROVE  Open' = [Open EXCEPT ![c] = p]
  <1>1. \A d \in Conns : (pc'[d] # "closed") = IF d = c THEN p ELSE pc[d] # "closed"
    BY Zenon
  <1>2. [Open EXCEPT ![c] = p] = [d \in Conns |-> IF d = c THEN p ELSE pc[d] # "closed"]
    BY Zenon DEF Open
  <1> QED BY <1>1, <1>2, Zenon DEF Open

LEMMA NothingNew ==
    ASSUME UNCHANGED <<asked, answers, begun, client, reached>>,
           \A d \in Conns : pc'[d] = "closed" <=> pc[d] = "closed"
    PROVE  UNCHANGED E!vars
  <1>1. Open' = Open
    BY OpenSame
  <1> QED BY <1>1, Zenon DEF E!vars, Open

LEMMA HangsUp ==
    ASSUME Inv, Turns, NEW c \in Conns, pc[c] # "closed", Close(c),
           UNCHANGED <<asked, answers, begun, client, reached>>,
           \/ ~Listening(c)
           \/ client[c] = "finished" /\ begun[c] = 0 /\ Len(answers[c]) = Len(asked[c])
           \/ begun[c] = 0 /\ (E!Reached(c, Pending(c)) \/ E!Breaking(c))
    PROVE  E!Next
  <1>1. pc'[c] = "closed" /\ \A d \in Conns \ {c} : pc'[d] = pc[d]
    BY DEF Close, Goto, Inv, Types
  <1>2. Open' = [Open EXCEPT ![c] = FALSE]
    BY <1>1, OpenAt
  <1>3. E!HangUp(c)
    <2>1. E!Reached(c, Pending(c)) <=> E!Reached(c, E!Pending(c))
      BY DEF Pending, E!Pending
    <2> QED BY <1>2, <2>1 DEF E!HangUp, Open, Listening
  <1> QED BY <1>3 DEF E!Next

LEMMA PrefixOf ==
    ASSUME NEW S, NEW s \in Seq(S), NEW x \in S
    PROVE  E!IsPrefixOf(s, Append(s, x)) /\ Len(Append(s, x)) = Len(s) + 1
  <1>1. /\ Append(s, x) \in Seq(S) /\ Len(Append(s, x)) = Len(s) + 1 /\ Len(s) \in Nat
        /\ \A i \in 1..Len(s) : Append(s, x)[i] = s[i]
    BY AppendProperties, LenProperties
  <1>2. SubSeq(Append(s, x), 1, Len(s)) = s
    <2>1. \A i \in 1..Len(s) : Append(s, x)[i] \in S
      BY <1>1, ElementOfSeq
    <2>2. /\ SubSeq(Append(s, x), 1, Len(s)) \in Seq(S)
          /\ Len(SubSeq(Append(s, x), 1, Len(s))) = Len(s)
          /\ \A i \in 1..Len(s) : SubSeq(Append(s, x), 1, Len(s))[i] = s[i]
      BY <1>1, <2>1, SubSeqProperties
    <2> QED BY <2>2, SeqEqual
  <1> QED BY <1>1, <1>2 DEF E!IsPrefixOf

LEMMA AskStep ==
    ASSUME Inv, Turns, NEW c \in Conns, NEW s \in Shapes[c], NEW cookie \in jar \cup {None},
           Ask(c, s, cookie)
    PROVE  E!Next
  <1>r. PICK r : r = [shape |-> s, cookie |-> cookie, owner |-> Owner(cookie)]
    OBVIOUS
  <1>1. /\ client[c] = "open" /\ pc[c] # "closed"
        /\ UNCHANGED <<client, answers, begun, reached>>
        /\ asked' = [asked EXCEPT ![c] = Append(@, r)]
        /\ pc' = [pc EXCEPT ![c] = IF @ = "new" THEN "idle" ELSE @]
    BY <1>r DEF Ask, received
  <1>2. asked[c] \in Seq(Requests) /\ asked \in [Conns -> Seq(Requests)] /\ DOMAIN pc = Conns
    BY DEF Inv, Types
  <1>3. r \in Requests
    <2>1. cookie \in Cookies
      BY CookieType DEF Inv
    <2>2. Owner(cookie) \in BOOLEAN
      BY DEF Owner
    <2> QED BY <1>r, <2>1, <2>2 DEF Requests
  <1>4. asked'[c] = Append(asked[c], r) /\ \A d \in Conns \ {c} : asked'[d] = asked[d]
    BY <1>1, <1>2
  <1>5. E!IsPrefixOf(asked[c], asked'[c]) /\ Len(asked'[c]) = Len(asked[c]) + 1
    BY <1>2, <1>3, <1>4, PrefixOf
  <1>6. \A d \in Conns : pc'[d] = "closed" <=> pc[d] = "closed"
    BY <1>1, <1>2
  <1>7. Open' = Open
    BY <1>6, OpenSame
  <1>8. E!Ask(c)
    BY <1>1, <1>4, <1>5, <1>7 DEF E!Ask, E!Others, Open
  <1> QED BY <1>8 DEF E!Next

LEMMA BreakOffStep ==
    ASSUME Inv, Turns, NEW c \in Conns, NEW how \in Breaks[c],
           NEW k \in 0..Len(wire[c]), NEW n \in 0..Len(asked[c]), BreakOff(c, how, k, n)
    PROVE  E!Next
  <1>b. PICK a, b, w, v : /\ a = asked[c] /\ w = wire[c]
                          /\ b = SubSeq(a, 1, n) /\ v = SubSeq(w, 1, k)
    OBVIOUS
  <1>1. BreakFacts(c, a, w, b, v, how, k, n)
    BY <1>b, BrokenOff
  <1>2. Len(answers[c]) \in Nat /\ Len(answers[c]) <= Len(a) /\ Ahead(c, Len(answers[c]))
    BY <1>b, LenProperties DEF Turns, Shaped, TurnOK, NotBehind
  <1>3. Len(b) >= Len(answers[c])
    <2>1. CASE Len(answers[c]) = 0
      BY <1>1, <2>1 DEF BreakFacts
    <2>2. CASE Len(answers[c]) # 0
      <3>1. Len(answers[c]) \in 1..Len(a)
        BY <1>1, <1>2, <2>2 DEF BreakFacts
      <3>2. Len(answers[c]) \in 1..n
        BY <1>1, <1>2, <3>1 DEF BreakFacts
      <3> QED BY <1>1, <3>2 DEF BreakFacts
    <2> QED BY <2>1, <2>2
  <1>4. E!IsPrefixOf(b, a)
    BY <1>1, <1>b DEF E!IsPrefixOf, BreakFacts
  <1>5. Open' = Open
    <2>1. UNCHANGED pc
      BY <1>1 DEF BreakFacts
    <2> QED BY <2>1 DEF Open
  <1>6. E!Leave(c)
    <2>1. /\ client[c] = "open" /\ client'[c] # "open" /\ asked[c] = a /\ asked'[c] = b
          /\ \A d \in Conns \ {c} : asked'[d] = asked[d] /\ client'[d] = client[d]
          /\ UNCHANGED <<answers, begun, reached>>
      BY <1>1 DEF BreakFacts
    <2> QED BY <1>3, <1>4, <1>5, <2>1 DEF E!Leave, E!Others, Open
  <1> QED BY <1>6 DEF E!Next

LEMMA RestartStep ==
    ASSUME Inv, Turns, NEW secrets \in 1..MaxConfigs, Restart(secrets)
    PROVE  E!Next \/ UNCHANGED E!vars
  <1>1. /\ UNCHANGED <<client, asked, answers, begun, reached>>
        /\ \A c \in Conns : pc'[c] = (IF pc[c] = "new" THEN "new" ELSE "closed")
    BY DEF Restart, clients, received
  <1>2. \A c \in Conns : Open'[c] => asked[c] = <<>>
    BY <1>1 DEF Open, Inv, HandlerOK
  <1>3. CASE Open' = Open
    <2>1. UNCHANGED E!vars
      BY <1>1, <1>3, Zenon DEF E!vars, Open
    <2> QED BY <2>1
  <1>4. CASE Open' # Open
    <2>1. E!Crash
      BY <1>1, <1>2, <1>4 DEF E!Crash, Open
    <2> QED BY <2>1 DEF E!Next
  <1> QED BY <1>3, <1>4

\* The end of a connection at a request the gateway fails on.
LEMMA GivesUp ==
    ASSUME Inv, Turns, NEW c \in Conns, Busy(c), pc[c] \notin {"reply", "payload"},
           Request(c).shape.path \in {"unsendable", "unparsable"}, Close(c),
           UNCHANGED <<asked, answers, begun, client, reached>>
    PROVE  E!Next
  <1>1. Listening(c) => begun[c] = 0 /\ current[c] = Pending(c)
    BY DEF Turns, TurnOK, NotBehind, NotBefore, Busy
  <1>2. current[c] \in 1..Len(asked[c]) /\ DOMAIN asked[c] = 1..Len(asked[c])
    BY LenProperties DEF Inv, HandlerOK, Types
  <1>3. current[c] = Pending(c) => E!Breaking(c)
    BY <1>2 DEF E!Breaking, E!Pending, Pending, Request
  <1> QED BY <1>1, <1>3, HangsUp DEF Busy

LEMMA ForwardStep ==
    ASSUME Inv, Turns, NEW c \in Conns, Forward(c)
    PROVE  E!Next \/ UNCHANGED E!vars
  <1>1. /\ pc[c] = "forward" /\ Busy(c) /\ TurnOK(c)
        /\ UNCHANGED <<asked, client, answers, begun>>
    BY DEF Forward, Busy, Turns, clients, received
  <1>2. CASE /\ Answer(c, BadGateway(Request(c).shape))
             /\ UNCHANGED <<wire, current, body, reached>>
    <2>1. \A d \in Conns : pc'[d] = "closed" <=> pc[d] = "closed"
      BY <1>1, <1>2 DEF Answer, Goto, Inv, Types
    <2> QED BY <1>1, <1>2, <2>1, NothingNew
  <1>3. CASE /\ Request(c).shape.path = "app" /\ Goto(c, "waiting")
             /\ reached' = Append(reached, [conn |-> c, of |-> current[c], body |-> body[c]])
    <2>i. PICK i, u, given : /\ i = current[c] /\ u = asked[c][i].shape.units
                             /\ given = [k \in 1..u |-> [kind |-> "body", conn |-> c, of |-> i]]
      OBVIOUS
    <2>1. /\ i \in 1..Len(asked[c]) /\ i >= Pending(c) /\ Len(answers[c]) \in Nat
          /\ Len(asked[c]) \in Nat /\ DOMAIN asked[c] = 1..Len(asked[c])
      BY <1>1, <2>i, LenProperties DEF Inv, Types, HandlerOK, TurnOK, NotBehind, Turns, Shaped
    <2>2. \/ i = Pending(c) /\ begun[c] = 0
          \/ i > Pending(c) /\ client[c] = "gone"
      <3>1. Listening(c) => i = Pending(c) /\ begun[c] = 0
        BY <1>1, <2>i DEF TurnOK, NotBefore, NotBehind
      <3>2. begun[c] # 0 => i > Pending(c)
        BY <1>1, <2>i DEF TurnOK, NotBehind
      <3> QED BY <2>1, <3>1, <3>2 DEF Listening, Pending
    <2>3. asked[c][i].shape.path = "app" /\ \A j \in i..Len(asked[c]) : ~E!Reached(c, j)
      <3>1. asked[c][i].shape.path = "app" /\ \A k : E!Reached(c, k) => k < i
        BY <1>1, <1>3, <2>i DEF TurnOK, AtHand, Request
      <3>2. \A j \in i..Len(asked[c]) : ~(j < i)
        BY <2>1
      <3> QED BY <3>1, <3>2
    <2>4. body[c] = given
      <3>1. /\ body[c] \in Seq(Units) /\ Len(body[c]) = u
            /\ \A m \in 1..Len(body[c]) : body[c][m] = Unit("body", c, i)
        BY <1>1, <2>i DEF TurnOK, AtHand, Request, Inv, Types
      <3>2. body[c] = [m \in 1..u |-> body[c][m]]
        BY <3>1, LenProperties
      <3> QED BY <2>i, <3>1, <3>2 DEF Unit
    <2>5. Open' = Open
      <3>1. \A d \in Conns : pc'[d] = "closed" <=> pc[d] = "closed"
        BY <1>1, <1>3 DEF Goto, Inv, Types
      <3> QED BY <3>1, OpenSame
    <2>6. reached' = Append(reached, [conn |-> c, of |-> i, body |-> given])
      BY <1>3, <2>4, <2>i
    <2>7. E!Reach(c, i)
      <3>1. ~E!Ended(c) /\ pc[c] # "closed" /\ i \in DOMAIN asked[c]
        BY <1>1, <2>1 DEF TurnOK, NotBehind
      <3>2. Pending(c) = E!Pending(c)
        BY DEF Pending, E!Pending
      <3> QED BY <1>1, <2>2, <2>3, <2>5, <2>6, <2>i, <3>1, <3>2 DEF E!Reach, Open
    <2> QED BY <2>1, <2>7 DEF E!Next
  <1>4. CASE /\ Request(c).shape.path = "unsendable" /\ Close(c) /\ UNCHANGED reached
    BY <1>1, <1>4, GivesUp
  <1> QED BY <1>2, <1>3, <1>4 DEF Forward

\* A response the client gets, or begins to get.
LEMMA RespondStep ==
    ASSUME Inv, Turns, NEW c \in Conns, NEW status \in E!Statuses,
           E!Answer(c, status) \/ E!Begin(c, status) \/ E!Finish(c, status),
           UNCHANGED <<asked, client, reached>>,
           pc'[c] # "closed" <=> ~E!Ended(c)',
           \A d \in Conns \ {c} : pc'[d] = pc[d]
    PROVE  E!Next
  <1>p. PICK p \in BOOLEAN : p = ~E!Ended(c)'
    BY DEF E!Ended
  <1>1. Open' = [Open EXCEPT ![c] = p]
    BY <1>p, OpenAt
  <1>2. E!Respond(c, status)
    BY <1>1, <1>p, Zenon DEF E!Respond, Open
  <1> QED BY <1>2 DEF E!Next

LEMMA Answerable ==
    ASSUME Inv, Turns, NEW c \in Conns, pc[c] = "reply", Listening(c)
    PROVE  E!Answerable(c, reply[c].status)
  <1>1. /\ current[c] = E!Pending(c) /\ current[c] \in 1..Len(asked[c]) /\ begun[c] = 0
        /\ E!Contract(c, current[c], reply[c].status) /\ ~E!Ended(c) /\ pc[c] # "closed"
    BY WritingTo DEF Writing, Pending, E!Pending
  <1>2. E!Contract(c, E!Pending(c), reply[c].status) /\ E!Pending(c) <= Len(asked[c])
    BY <1>1
  <1> QED BY <1>1, <1>2 DEF E!Answerable, Listening

\* Where the connection is after a response that has been read.
LEMMA FinishedPlace ==
    ASSUME Inv, NEW c \in Conns, Finished(c)
    PROVE  /\ pc'[c] = "closed" <=> reply[c].final
           /\ \A d \in Conns \ {c} : pc'[d] = pc[d]
           /\ pc'[c] \in {"closed", "idle"}
           /\ reply[c].final => Close(c)
  BY DEF Finished, Close, Goto, Inv, Types

LEMMA WriteHeadStep ==
    ASSUME Inv, Turns, NEW c \in Conns, WriteHead(c)
    PROVE  E!Next \/ UNCHANGED E!vars
  <1>1. /\ pc[c] = "reply" /\ Writing(c) /\ UNCHANGED <<asked, client, reached>>
    BY DEF WriteHead, Writing, clients
  <1>2. CASE ~Listening(c)
    <2>1. UNCHANGED <<answers, begun>>
      BY <1>2, HeadRead DEF Heard
    <2>2. CASE Goto(c, "payload")
      <3>1. \A d \in Conns : pc'[d] = "closed" <=> pc[d] = "closed"
        BY <1>1, <2>2 DEF Goto, Inv, Types
      <3> QED BY <1>1, <2>1, <3>1, NothingNew
    <2>3. CASE Finished(c)
      <3>1. CASE reply[c].final
        BY <1>1, <1>2, <2>1, <2>3, <3>1, FinishedPlace, HangsUp
      <3>2. CASE ~reply[c].final
        <4>1. \A d \in Conns : pc'[d] = "closed" <=> pc[d] = "closed"
          BY <1>1, <2>3, <3>2, FinishedPlace
        <4> QED BY <1>1, <2>1, <4>1, NothingNew
      <3> QED BY <3>1, <3>2
    <2> QED BY <2>2, <2>3 DEF WriteHead
  <1>3. CASE Listening(c) /\ HasBody(c) /\ Goto(c, "payload")
    <2>s. PICK status \in E!Statuses : status = reply[c].status
      BY <1>1, <1>3, WritingTo
    <2>1. UNCHANGED answers /\ begun' = [begun EXCEPT ![c] = status]
      BY <1>3, <2>s, HeadRead
    <2>2. E!Begin(c, status)
      BY <1>1, <1>3, <2>1, <2>s, Answerable DEF E!Begin
    <2>3. pc'[c] = "payload" /\ \A d \in Conns \ {c} : pc'[d] = pc[d]
      BY <1>3 DEF Goto, Inv, Types
    <2>4. ~E!Ended(c)'
      <3>1. ~E!Ended(c)
        BY <1>1, <1>3, WritingTo
      <3> QED BY <1>1, <2>1, <3>1, EndedKept
    <2> QED BY <1>1, <2>2, <2>3, <2>4, RespondStep
  <1>4. CASE Listening(c) /\ ~HasBody(c) /\ Finished(c)
    <2>s. PICK status \in E!Statuses : status = reply[c].status
      BY <1>1, <1>4, WritingTo
    <2>1. Heard(c) /\ begun[c] = 0
      BY <1>1, <1>4, HeadRead, WritingTo
    <2>2. answers' = [answers EXCEPT ![c] = Append(@, status)] /\ UNCHANGED begun
      BY <1>4, <2>1, <2>s DEF Heard, Turns, Shaped
    <2>3. E!Answer(c, status)
      BY <1>1, <1>4, <2>2, <2>s, Answerable DEF E!Answer
    <2>4. /\ \A d \in Conns \ {c} : pc'[d] = pc[d]
          /\ pc'[c] # "closed" <=> ~E!Ended(c)'
      BY <1>1, <1>4, <2>1, FinishedPlace, EndedWhenFinal
    <2> QED BY <1>1, <2>3, <2>4, RespondStep
  <1> QED BY <1>2, <1>3, <1>4 DEF WriteHead

LEMMA WriteBodyStep ==
    ASSUME Inv, Turns, NEW c \in Conns, WriteBody(c)
    PROVE  E!Next \/ UNCHANGED E!vars
  <1>1. /\ pc[c] = "payload" /\ Writing(c) /\ Finished(c) /\ Heard(c)
        /\ UNCHANGED <<asked, client, reached>>
    BY BodyRead DEF WriteBody, Writing, clients
  <1>2. CASE ~Listening(c)
    <2>1. UNCHANGED <<answers, begun>>
      BY <1>1, <1>2 DEF Heard
    <2>2. CASE reply[c].final
      BY <1>1, <1>2, <2>1, <2>2, FinishedPlace, HangsUp
    <2>3. CASE ~reply[c].final
      <3>1. \A d \in Conns : pc'[d] = "closed" <=> pc[d] = "closed"
        BY <1>1, <2>3, FinishedPlace
      <3> QED BY <1>1, <2>1, <3>1, NothingNew
    <2> QED BY <2>2, <2>3
  <1>3. CASE Listening(c)
    <2>s. PICK status \in E!Statuses : status = reply[c].status
      BY <1>1, <1>3, WritingTo
    <2>1. begun[c] = status /\ status # 0 /\ pc[c] # "closed"
      BY <1>1, <1>3, <2>s, WritingTo
    <2>2. E!Finish(c, status)
      BY <1>1, <1>3, <2>1, <2>s DEF E!Finish, Heard
    <2>3. /\ \A d \in Conns \ {c} : pc'[d] = pc[d]
          /\ pc'[c] # "closed" <=> ~E!Ended(c)'
      BY <1>1, <1>3, FinishedPlace, EndedWhenFinal
    <2> QED BY <1>1, <2>2, <2>3, RespondStep
  <1> QED BY <1>2, <1>3

LEMMA QuietHandlerStep ==
    ASSUME Inv, Turns, NEW c \in Conns,
           ReadRequest(c) \/ Route(c) \/ Receive(c) \/ BrokenPipe(c) \/ EndOfFile(c)
    PROVE  E!Next \/ UNCHANGED E!vars
  <1>1. UNCHANGED <<asked, client, answers, begun, reached>> /\ pc[c] # "closed"
    BY DEF ReadRequest, Route, Receive, BrokenPipe, EndOfFile, clients, received
  <1>2. ASSUME NEW label \in {"reply", "route", "forward"}, Goto(c, label)
        PROVE  UNCHANGED E!vars
    <2>1. \A d \in Conns : pc'[d] = "closed" <=> pc[d] = "closed"
      BY <1>1, <1>2 DEF Goto, Inv, Types
    <2> QED BY <1>1, <2>1, NothingNew
  <1>3. ASSUME NEW response, Answer(c, response) PROVE UNCHANGED E!vars
    BY <1>2, <1>3 DEF Answer
  <1>4. CASE ReadRequest(c)
    BY <1>2, <1>3, <1>4, Zenon DEF ReadRequest
  <1>5. CASE Route(c)
    <2>1. CASE Request(c).shape.path = "unparsable" /\ Close(c)
      BY <1>1, <1>5, <2>1, GivesUp DEF Route, Busy
    <2> QED BY <1>2, <1>3, <1>5, <2>1 DEF Route, Login
  <1>6. CASE Receive(c)
    <2>1. CASE Close(c)
      <3>1. Listening(c) => begun[c] = 0 /\ E!Reached(c, Pending(c))
        BY <1>6 DEF Receive, Turns, TurnOK, NotBehind, NotBefore, AtHand, Busy
      <3> QED BY <1>1, <2>1, <3>1, HangsUp
    <2> QED BY <1>3, <1>6, <2>1 DEF Receive
  <1>7. CASE BrokenPipe(c)
    <2>1. CASE Close(c)
      <3>1. ~Listening(c)
        BY <1>7 DEF BrokenPipe, Listening
      <3> QED BY <1>1, <2>1, <3>1, HangsUp
    <2> QED BY <1>3, <1>7, <2>1 DEF BrokenPipe
  <1>8. CASE EndOfFile(c)
    <2>1. pc[c] = "idle" /\ wire[c] = <<>> /\ Close(c) /\ client[c] \in {"finished", "gone"}
      BY <1>8 DEF EndOfFile
    <2>2. ASSUME client[c] = "finished" PROVE begun[c] = 0 /\ Len(answers[c]) = Len(asked[c])
      <3>1. Listening(c) /\ begun[c] = 0 /\ ~Busy(c) /\ TurnOK(c)
        BY <2>1, <2>2 DEF Listening, Turns, TurnOK, NotBehind, Busy
      <3>2. Len(answers[c]) \in Nat /\ Len(asked[c]) \in Nat /\ Len(answers[c]) <= Len(asked[c])
        BY <3>1, LenProperties DEF TurnOK, NotBehind, Turns, Shaped, Inv, Types
      <3>3. ASSUME Len(answers[c]) # Len(asked[c]) PROVE FALSE
        <4>1. Len(asked[c]) \in 1..Len(asked[c]) /\ Len(asked[c]) > Len(answers[c])
          BY <3>2, <3>3
        <4>2. Upcoming(c, Len(asked[c]))
          BY <1>1, <3>1, <4>1 DEF TurnOK, NotBefore
        <4>3. Len(wire[c]) = 0
          BY <2>1
        <4> QED BY <4>2, <4>3 DEF Upcoming
      <3> QED BY <3>1, <3>3
    <2> QED BY <1>1, <2>1, <2>2, HangsUp DEF Listening
  <1> QED BY <1>4, <1>5, <1>6, <1>7, <1>8

-----------------------------------------------------------------------------
\* Every step of the gateway, its clients and its restarts is a step of
\* Exchange, or changes nothing of it.
LEMMA NextStep == Inv /\ Turns /\ [Next]_vars => [E!Next]_(E!vars)
  <1> SUFFICES ASSUME Inv, Turns, [Next]_vars PROVE E!Next \/ UNCHANGED E!vars
    OBVIOUS
  <1>1. ASSUME NEW c \in Conns, Handle(c) PROVE E!Next \/ UNCHANGED E!vars
    BY <1>1, ForwardStep, WriteHeadStep, WriteBodyStep, QuietHandlerStep DEF Handle
  <1>2. ASSUME UNCHANGED <<pc, asked, answers, begun, client, reached>> PROVE UNCHANGED E!vars
    BY <1>2, NothingNew
  <1>3. CASE UNCHANGED vars
    BY <1>2, <1>3 DEF vars, clients, handlers, received
  <1>4. CASE Tick
    BY <1>2, <1>4 DEF Tick, clients, handlers, received
  <1> QED BY <1>1, <1>3, <1>4, AskStep, BreakOffStep, RestartStep DEF Next

LEMMA InitStep == Init => E!Init
  <1> SUFFICES ASSUME Init PROVE E!Init
    OBVIOUS
  <1>1. \A c \in Conns : (pc[c] # "closed") = TRUE
    BY DEF Init
  <1>2. Open = [c \in Conns |-> TRUE]
    BY <1>1, Zenon DEF Open
  <1> QED BY <1>2 DEF Init, E!Init, Open

\* The handlers implement Exchange (Sessions.InOrder).
THEOREM ImplementsExchange == Spec => InOrder
  BY InitStep, NextStep, TurnsHold, PTL DEF Spec, InOrder, E!Spec

-----------------------------------------------------------------------------
(* The owner stays signed in.                                              *)

\* No login still in force gave this cookie.
Expired(cookie) ==
    \A g \in granted : g.cookie = cookie => g.config # config \/ now >= g.at + Ttl

Guarded(r) == r.shape.path \in {"auth"} \cup ForApp

\* Cookies are of secrets and of times up to now.
Dated ==
    /\ now <= MaxNow
    /\ \A g \in granted : /\ g.config \in 0..config /\ g.at \in 0..now
                          /\ g.cookie = SignCookie(g.config, g.at)

\* Who is being told, or has been told, to sign in has to.
Telling(c) ==
    Writing(c) /\ Listening(c) /\ reply[c].status = 401 /\ Guarded(Request(c)) =>
        Expired(Request(c).cookie)
Told(c) ==
    \A i \in DOMAIN answers[c] :
        answers[c][i] = 401 /\ Guarded(asked[c][i]) => Expired(asked[c][i].cookie)

SignedIn == Dated /\ \A c \in Conns : Telling(c) /\ Told(c)

\* The secrets and the clock only go forward, and a login is of now.
Onward ==
    /\ config' \in Nat /\ config' >= config /\ now' \in Nat /\ now' >= now /\ now' <= MaxNow
    /\ granted \subseteq granted'
    /\ \A g \in granted' : g \in granted \/
          /\ g.config = config /\ g.at = now /\ g.cookie = SignCookie(config, now)
          /\ config' = config /\ now' = now

LEMMA DatedKept ==
    ASSUME Inv, Dated, Onward
    PROVE  Dated'
  <1>1. config \in Nat /\ now \in Nat
    BY DEF Inv, Types
  <1>2. ASSUME NEW g \in granted'
        PROVE  g.config \in 0..config' /\ g.at \in 0..now' /\ g.cookie = SignCookie(g.config, g.at)
    <2>1. CASE g \in granted
      BY <1>1, <2>1 DEF Dated, Onward
    <2>2. CASE g \notin granted
      BY <1>1, <1>2, <2>2 DEF Onward
    <2> QED BY <2>1, <2>2
  <1>3. \A g : SignCookie(g.config, g.at)' = SignCookie(g.config, g.at)
    BY DEF SignCookie
  <1> QED BY <1>2, <1>3 DEF Dated, Onward

\* A cookie that has run out, or was never given, does not come back to life.
LEMMA ExpiredKept ==
    ASSUME Inv, Dated, Onward, NEW cookie, cookie = None \/ Backed(cookie), Expired(cookie)
    PROVE  Expired(cookie)'
  <1>1. config \in Nat /\ now \in Nat /\ Ttl \in Nat /\ Ttl > 0
    BY TtlAssumption DEF Inv, Types
  <1>2. ASSUME NEW g \in granted', g.cookie = cookie
        PROVE  g.config # config' \/ now' >= g.at + Ttl
    <2>1. CASE g \in granted
      <3>1. g.config \in 0..config /\ g.at \in 0..now
        BY <2>1 DEF Dated
      <3>2. g.config # config \/ now >= g.at + Ttl
        BY <1>2, <2>1 DEF Expired
      <3> QED BY <1>1, <3>1, <3>2 DEF Onward
    <2>2. CASE g \notin granted
      <3>1. g.cookie = SignCookie(config, now)
        BY <2>2 DEF Onward
      <3>2. cookie # None
        <4>1. SignCookie(config, now) \in [secret : Nat, exp : Nat]
          BY <1>1 DEF SignCookie
        <4> QED BY <1>2, <3>1, <4>1, NoneAssumption
      <3>3. PICK h \in granted : /\ h.cookie = cookie /\ h.config \in Nat /\ h.at \in Nat
                                 /\ cookie = SignCookie(h.config, h.at)
        BY <3>2 DEF Backed
      <3>4. h.config = cookie.secret /\ h.at + Ttl = cookie.exp
        BY <3>3 DEF SignCookie
      <3>5. cookie.secret = config /\ cookie.exp = now + Ttl
        BY <1>2, <3>1 DEF SignCookie
      <3>6. h.config # config \/ now >= h.at + Ttl
        BY <3>3 DEF Expired
      <3> QED BY <1>1, <3>3, <3>4, <3>5, <3>6
    <2> QED BY <2>1, <2>2
  <1> QED BY <1>2 DEF Expired

LEMMA CookieOf ==
    ASSUME Inv, NEW c \in Conns, NEW i \in 1..Len(asked[c])
    PROVE  asked[c][i].cookie = None \/ Backed(asked[c][i].cookie)
  BY DEF Inv, StreamOK, RequestOK

\* A cookie that does not verify has run out, or was never given.
LEMMA ExpiredNow ==
    ASSUME Inv, Dated, NEW cookie, cookie = None \/ Backed(cookie),
           ~VerifyCookie(config, cookie, now)
    PROVE  Expired(cookie)
  <1>1. config \in Nat /\ now \in Nat /\ Ttl \in Nat
    BY TtlAssumption DEF Inv, Types
  <1> SUFFICES ASSUME NEW g \in granted, g.cookie = cookie
               PROVE  g.config # config \/ now >= g.at + Ttl
    BY DEF Expired
  <1>2. g.config \in Nat /\ g.at \in Nat /\ cookie = SignCookie(g.config, g.at)
    BY <1>1 DEF Dated
  <1>3. cookie \in [secret : Nat, exp : Nat] /\ cookie.secret = g.config /\ cookie.exp = g.at + Ttl
    BY <1>1, <1>2 DEF SignCookie
  <1>4. cookie # None
    BY <1>3, NoneAssumption
  <1> QED BY <1>1, <1>2, <1>3, <1>4 DEF VerifyCookie

\* Nothing new is being told.
LEMMA TellingKept ==
    ASSUME Inv, Turns, SignedIn, Onward, NEW c \in Conns,
           \/ ~(Writing(c)' /\ Listening(c)')
           \/ reply'[c].status # 401
           \/ /\ Writing(c) /\ Listening(c) /\ reply'[c].status = reply[c].status
              /\ Request(c)' = Request(c)
    PROVE  Telling(c)'
  <1>1. CASE /\ Writing(c) /\ Listening(c) /\ reply'[c].status = reply[c].status
             /\ Request(c)' = Request(c)
    <2>p. PICK r : r = Request(c)
      OBVIOUS
    <2>1. r.cookie = None \/ Backed(r.cookie)
      BY <1>1, <2>p, WritingTo, CookieOf DEF Request
    <2>2. reply[c].status = 401 /\ Guarded(r) => Expired(r.cookie)
      BY <1>1, <2>p DEF SignedIn, Telling
    <2>3. reply[c].status = 401 /\ Guarded(r) => Expired(r.cookie)'
      BY <2>1, <2>2, ExpiredKept DEF SignedIn
    <2> QED BY <1>1, <2>p, <2>3 DEF Telling, Guarded, Expired
  <1>2. CASE ~(Writing(c)' /\ Listening(c)') \/ reply'[c].status # 401
    BY <1>2 DEF Telling
  <1> QED BY <1>1, <1>2

\* Nothing new has been told but what was being told.
LEMMA ToldKept ==
    ASSUME Inv, Turns, SignedIn, Onward, NEW c \in Conns,
           \A i \in DOMAIN answers'[c] :
              \/ /\ i \in DOMAIN answers[c] /\ answers'[c][i] = answers[c][i]
                 /\ asked'[c][i] = asked[c][i]
              \/ /\ Writing(c) /\ Listening(c) /\ answers'[c][i] = reply[c].status
                 /\ asked'[c][i] = Request(c)
    PROVE  Told(c)'
  <1> SUFFICES ASSUME NEW i \in DOMAIN answers'[c], answers'[c][i] = 401, Guarded(asked[c][i])'
               PROVE  Expired(asked[c][i].cookie)'
    BY DEF Told
  <1>r. PICK r : r = asked'[c][i] /\ Guarded(r)
    BY DEF Guarded
  <1>1. (r.cookie = None \/ Backed(r.cookie)) /\ Expired(r.cookie)
    <2>1. CASE /\ i \in DOMAIN answers[c] /\ answers'[c][i] = answers[c][i]
               /\ asked'[c][i] = asked[c][i]
      <3>1. i \in 1..Len(asked[c])
        <4>1. /\ DOMAIN answers[c] = 1..Len(answers[c]) /\ Len(answers[c]) <= Len(asked[c])
              /\ Len(answers[c]) \in Nat /\ Len(asked[c]) \in Nat
          BY LenProperties DEF Turns, Shaped, TurnOK, NotBehind, Inv, Types
        <4> QED BY <2>1, <4>1
      <3> QED BY <1>r, <2>1, <3>1, CookieOf DEF SignedIn, Told
    <2>2. CASE /\ Writing(c) /\ Listening(c) /\ answers'[c][i] = reply[c].status
               /\ asked'[c][i] = Request(c)
      <3>1. r = Request(c) /\ reply[c].status = 401 /\ current[c] \in 1..Len(asked[c])
        BY <1>r, <2>2, WritingTo
      <3>2. Expired(r.cookie)
        BY <1>r, <2>2, <3>1 DEF SignedIn, Telling
      <3>3. r.cookie = None \/ Backed(r.cookie)
        BY <3>1, CookieOf DEF Request
      <3> QED BY <3>2, <3>3
    <2> QED BY <2>1, <2>2
  <1>2. Expired(r.cookie)'
    BY <1>1, ExpiredKept DEF SignedIn
  <1> QED BY <1>r, <1>2 DEF Expired

\* A step that only the handler of one connection makes.
LEMMA SignedKept ==
    ASSUME Inv, Turns, SignedIn, Onward, NEW c \in Conns,
           UNCHANGED <<asked, client, answers>>,
           \A d \in Conns \ {c} : /\ pc'[d] = pc[d] /\ reply'[d] = reply[d]
                                 /\ current'[d] = current[d],
           Telling(c)'
    PROVE  SignedIn'
  <1>1. Dated'
    BY DatedKept DEF SignedIn
  <1>2. ASSUME NEW d \in Conns PROVE Told(d)'
    BY ToldKept
  <1>3. ASSUME NEW d \in Conns \ {c} PROVE Telling(d)'
    <2>1. Writing(d)' /\ Listening(d)' => Writing(d) /\ Listening(d)
      BY DEF Writing, Listening
    <2>2. reply'[d].status = reply[d].status /\ Request(d)' = Request(d)
      BY DEF Request
    <2> QED BY <2>1, <2>2, TellingKept
  <1> QED BY <1>1, <1>2, <1>3 DEF SignedIn

LEMMA NotOnward ==
    ASSUME Inv, Dated, UNCHANGED <<config, now, granted>>
    PROVE  Onward
  BY DEF Inv, Types, Dated, Onward

LEMMA ReadSigned ==
    ASSUME Inv, Turns, SignedIn, NEW c \in Conns, ReadRequest(c)
    PROVE  SignedIn'
  <1>1. /\ UNCHANGED <<config, now, granted, asked, client, answers>>
        /\ \A d \in Conns \ {c} : current'[d] = current[d]
    BY DEF ReadRequest, session, clients, received, Inv, Types
  <1>2. Onward
    BY <1>1, NotOnward DEF SignedIn
  <1>3. ASSUME NEW response, Answer(c, response), response.status \in {413, 501} PROVE SignedIn'
    <2>1. /\ reply'[c] = response /\ \A d \in Conns \ {c} : pc'[d] = pc[d] /\ reply'[d] = reply[d]
      BY <1>3 DEF Answer, Goto, Inv, Types
    <2>2. Telling(c)'
      BY <1>2, <1>3, <2>1, TellingKept
    <2> QED BY <1>1, <1>2, <2>1, <2>2, SignedKept
  <1>4. ASSUME Goto(c, "route"), UNCHANGED reply PROVE SignedIn'
    <2>1. /\ pc'[c] = "route" /\ \A d \in Conns \ {c} : pc'[d] = pc[d] /\ reply'[d] = reply[d]
      BY <1>4 DEF Goto, Inv, Types
    <2>2. Telling(c)'
      BY <2>1 DEF Telling, Writing
    <2> QED BY <1>1, <1>2, <2>1, <2>2, SignedKept
  <1>5. \A r : /\ Final(Response(501, 1, r)).status \in {413, 501}
               /\ Rejection(r).status \in {413, 501}
    BY RefusalFields DEF Rejection
  <1>r. PICK r : r = asked[c][Head(wire[c]).of].shape
    OBVIOUS
  <1>6. \/ Answer(c, Final(Response(501, 1, r)))
        \/ Answer(c, Rejection(r))
        \/ Goto(c, "route") /\ UNCHANGED reply
    BY <1>r DEF ReadRequest
  <1>7. CASE Answer(c, Final(Response(501, 1, r)))
    BY <1>3, <1>5, <1>7
  <1>8. CASE Answer(c, Rejection(r))
    BY <1>3, <1>5, <1>8
  <1> QED BY <1>4, <1>6, <1>7, <1>8

\* Only a request whose cookie does not verify is told to sign in.
LEMMA RouteSigned ==
    ASSUME Inv, Turns, SignedIn, NEW c \in Conns, Route(c)
    PROVE  SignedIn'
  <1>r. PICK q, r : q = Request(c) /\ r = q.shape
    OBVIOUS
  <1>1. /\ pc[c] = "route" /\ Busy(c) /\ UNCHANGED <<config, now, asked, client, answers>>
        /\ config \in Nat /\ now \in Nat
    BY DEF Route, Busy, clients, received, Inv, Types
  <1>2. q.cookie = None \/ Backed(q.cookie)
    BY <1>1, <1>r, CookieOf DEF Inv, HandlerOK, Request
  <1>3. ASSUME NEW response, UNCHANGED current, Answer(c, response), Onward,
               response.status # 401 \/ ~Guarded(q) \/ ~VerifyCookie(config, q.cookie, now)
        PROVE  SignedIn'
    <2>1. /\ reply'[c] = response /\ \A d \in Conns \ {c} : pc'[d] = pc[d] /\ reply'[d] = reply[d]
      BY <1>3 DEF Answer, Goto, Inv, Types
    <2>2. CASE response.status # 401
      BY <1>3, <2>1, <2>2, TellingKept, SignedKept, <1>1
    <2>3. Request(c)' = q
      BY <1>1, <1>3, <1>r DEF Request
    <2>4. CASE ~Guarded(q)
      <3>1. Telling(c)'
        BY <2>3, <2>4 DEF Telling, Guarded
      <3> QED BY <1>1, <1>3, <2>1, <3>1, SignedKept
    <2>5. CASE ~VerifyCookie(config, q.cookie, now)
      <3>1. Expired(q.cookie)
        BY <1>2, <2>5, ExpiredNow DEF SignedIn
      <3>2. Expired(q.cookie)'
        BY <1>2, <1>3, <3>1, ExpiredKept DEF SignedIn
      <3>3. Telling(c)'
        BY <2>3, <3>2 DEF Telling, Expired
      <3> QED BY <1>1, <1>3, <2>1, <3>3, SignedKept
    <2> QED BY <1>3, <2>2, <2>4, <2>5
  <1>4. UNCHANGED granted => Onward
    BY <1>1, NotOnward DEF SignedIn
  <1>5. \A status, size : Response(status, size, r).status = status
    BY DEF Response
  <1>6. CASE r.path = "login" /\ Login(c, r) /\ UNCHANGED current
    <2>1. ~Guarded(q)
      BY <1>6, <1>r DEF Guarded, ForApp
    <2>2. CASE granted' = granted \cup {Grant(config, now, r)}
      <3>1. /\ Grant(config, now, r).config = config /\ Grant(config, now, r).at = now
            /\ Grant(config, now, r).cookie = SignCookie(config, now)
        BY DEF Grant
      <3>2. Onward
        BY <1>1, <2>2, <3>1 DEF SignedIn, Dated, Onward
      <3> QED BY <1>3, <1>4, <1>6, <2>1, <3>2 DEF Login
    <2>3. CASE UNCHANGED granted
      BY <1>3, <1>4, <1>6, <2>1, <2>3 DEF Login
    <2> QED BY <1>6, <2>2, <2>3 DEF Login
  <1>7. CASE Goto(c, "forward") /\ UNCHANGED <<current, reply, granted>>
    <2>1. /\ pc'[c] = "forward" /\ \A d \in Conns \ {c} : pc'[d] = pc[d] /\ reply'[d] = reply[d]
      BY <1>7 DEF Goto, Inv, Types
    <2>2. Telling(c)'
      BY <2>1 DEF Telling, Writing
    <2> QED BY <1>1, <1>4, <1>7, <2>1, <2>2, SignedKept
  <1>8. CASE ~Subject(c) /\ Answer(c, Response(401, 1, r)) /\ UNCHANGED <<current, granted>>
    BY <1>3, <1>4, <1>8, <1>r DEF Subject
  <1>9. ASSUME NEW status \in {200, 204, 303, 404, 405}, NEW size,
               Answer(c, Response(status, size, r)), UNCHANGED <<current, granted>>
        PROVE  SignedIn'
    BY <1>3, <1>4, <1>5, <1>9
  <1>10. CASE Answer(c, IF r.method = "POST" THEN Response(303, 0, r) ELSE Response(405, 1, r))
              /\ UNCHANGED <<current, granted>>
    BY <1>9, <1>10
  <1>11. CASE Close(c) /\ UNCHANGED granted
    <2>1. /\ pc'[c] = "closed" /\ \A d \in Conns \ {c} : pc'[d] = pc[d] /\ reply'[d] = reply[d]
          /\ \A d \in Conns \ {c} : current'[d] = current[d]
      BY <1>11 DEF Close, Goto, Inv, Types
    <2>2. Telling(c)'
      BY <2>1 DEF Telling, Writing
    <2> QED BY <1>1, <1>4, <1>11, <2>1, <2>2, SignedKept
  <1> QED
    <2>1. \/ r.path = "login" /\ Login(c, r) /\ UNCHANGED current
          \/ Close(c) /\ UNCHANGED granted
          \/ Goto(c, "forward") /\ UNCHANGED <<current, reply, granted>>
          \/ ~Subject(c) /\ Answer(c, Response(401, 1, r)) /\ UNCHANGED <<current, granted>>
          \/ Answer(c, Response(204, 0, r)) /\ UNCHANGED <<current, granted>>
          \/ Answer(c, Response(200, 1, r)) /\ UNCHANGED <<current, granted>>
          \/ /\ Answer(c, IF r.method = "POST" THEN Response(303, 0, r) ELSE Response(405, 1, r))
             /\ UNCHANGED <<current, granted>>
          \/ Answer(c, Response(404, 1, r)) /\ UNCHANGED <<current, granted>>
      BY <1>r DEF Route
    <2> QED BY <1>6, <1>7, <1>8, <1>9, <1>10, <1>11, <2>1

LEMMA ForwardSigned ==
    ASSUME Inv, Turns, SignedIn, NEW c \in Conns, Forward(c) \/ Receive(c)
    PROVE  SignedIn'
  <1>1. /\ UNCHANGED <<config, now, granted, asked, client, answers>>
        /\ \A d \in Conns \ {c} : current'[d] = current[d]
    BY DEF Forward, Receive, Close, session, clients, received, Inv, Types
  <1>2. Onward
    BY <1>1, NotOnward DEF SignedIn
  <1>r. PICK r : r = Request(c).shape
    OBVIOUS
  <1>3. ASSUME NEW response, Answer(c, response), response.status \in {200, 502} PROVE SignedIn'
    <2>1. /\ reply'[c] = response /\ \A d \in Conns \ {c} : pc'[d] = pc[d] /\ reply'[d] = reply[d]
      BY <1>3 DEF Answer, Goto, Inv, Types
    <2>2. Telling(c)'
      BY <1>2, <1>3, <2>1, TellingKept
    <2> QED BY <1>1, <1>2, <2>1, <2>2, SignedKept
  <1>4. ASSUME pc'[c] \in {"waiting", "closed"},
               \A d \in Conns \ {c} : pc'[d] = pc[d] /\ reply'[d] = reply[d]
        PROVE  SignedIn'
    <2>1. Telling(c)'
      BY <1>4 DEF Telling, Writing
    <2> QED BY <1>1, <1>2, <1>4, <2>1, SignedKept
  <1>5. BadGateway(r).status = 502
    BY DEF BadGateway, Response
  <1>6. \A size : [Response(200, size, r) EXCEPT !.guarded = TRUE].status = 200
    BY DEF Response
  <1>7. CASE Forward(c)
    <2>1. CASE Answer(c, BadGateway(r))
      BY <1>3, <1>5, <2>1
    <2>2. CASE Goto(c, "waiting") /\ UNCHANGED reply
      BY <1>4, <2>2 DEF Goto, Inv, Types
    <2>3. CASE Close(c)
      BY <1>4, <2>3 DEF Close, Goto, Inv, Types
    <2> QED BY <1>7, <1>r, <2>1, <2>2, <2>3 DEF Forward
  <1>8. CASE Receive(c)
    <2>1. CASE Close(c)
      BY <1>4, <2>1 DEF Close, Goto, Inv, Types
    <2>2. CASE Answer(c, BadGateway(r))
      BY <1>3, <1>5, <2>2
    <2>3. CASE Answer(c, [Response(200, IF r.method = "HEAD" THEN 0 ELSE 1, r)
                             EXCEPT !.guarded = TRUE])
      <3>1. PICK size : size = IF r.method = "HEAD" THEN 0 ELSE 1
        OBVIOUS
      <3>2. PICK response : response = [Response(200, size, r) EXCEPT !.guarded = TRUE]
        OBVIOUS
      <3>3. response.status = 200
        BY <1>6, <3>2
      <3>4. Answer(c, response)
        BY ONLY <2>3, <3>1, <3>2
      <3> QED BY <1>3, <3>3, <3>4
    <2>4. \/ Answer(c, [Response(200, IF Request(c).shape.method = "HEAD" THEN 0 ELSE 1, Request(c).shape)
                           EXCEPT !.guarded = TRUE])
          \/ Answer(c, BadGateway(Request(c).shape))
          \/ Close(c)
      BY <1>8, Zenon DEF Receive
    <2> QED BY <1>r, <2>1, <2>2, <2>3, <2>4, Zenon
  <1> QED BY <1>7, <1>8

\* Once it has been told, it has been told.
LEMMA HeardSigned ==
    ASSUME Inv, Turns, SignedIn, NEW c \in Conns, Writing(c), Heard(c), Finished(c),
           UNCHANGED <<config, now, granted, asked, client>>
    PROVE  SignedIn'
  <1>1. Onward /\ Dated'
    BY NotOnward, DatedKept DEF SignedIn
  <1>2. /\ pc'[c] \in {"idle", "closed"}
        /\ \A d \in Conns \ {c} : pc'[d] = pc[d] /\ reply'[d] = reply[d] /\ current'[d] = current[d]
    BY DEF Finished, Close, Goto, Inv, Types
  <1>3. \A d \in Conns \ {c} : answers'[d] = answers[d]
    BY HeardShape
  <1>4. Told(c)'
    <2>1. CASE ~Listening(c)
      BY <1>1, <2>1, ToldKept DEF Heard
    <2>2. CASE Listening(c)
      <3>a. PICK s, t, status : s = answers[c] /\ t = answers'[c] /\ status = reply[c].status
        OBVIOUS
      <3>1. /\ current[c] = Len(s) + 1 /\ s \in Seq(E!Statuses) /\ Len(s) \in Nat
            /\ status \in E!Statuses
        BY <2>2, <3>a, WritingTo DEF Pending
      <3>2. t = Append(s, status)
        BY <2>2, <3>a DEF Heard, Turns, Shaped
      <3>3. /\ t[Len(s) + 1] = status /\ \A i \in 1..Len(s) : t[i] = s[i]
            /\ DOMAIN t = 1..(Len(s) + 1) /\ DOMAIN s = 1..Len(s)
        BY <3>1, <3>2, AppendProperties, LenProperties
      <3>4. ASSUME NEW i \in DOMAIN t
            PROVE  \/ i \in DOMAIN s /\ t[i] = s[i]
                   \/ t[i] = status /\ i = current[c]
        BY <3>1, <3>3, <3>4
      <3> QED BY <1>1, <2>2, <3>4, <3>a, ToldKept DEF Request
    <2> QED BY <2>1, <2>2
  <1>5. Telling(c)'
    BY <1>2 DEF Telling, Writing
  <1>6. ASSUME NEW d \in Conns \ {c} PROVE Telling(d)' /\ Told(d)'
    <2>1. Told(d)'
      BY <1>1, <1>3, ToldKept
    <2>2. /\ Writing(d)' /\ Listening(d)' => Writing(d) /\ Listening(d)
          /\ Request(d)' = Request(d)
      BY <1>2 DEF Writing, Listening, Request
    <2>3. Telling(d)'
      BY <1>1, <1>2, <2>2, TellingKept
    <2> QED BY <2>1, <2>3
  <1> QED BY <1>1, <1>4, <1>5, <1>6 DEF SignedIn

LEMMA WriteSigned ==
    ASSUME Inv, Turns, SignedIn, NEW c \in Conns,
           WriteHead(c) \/ WriteBody(c) \/ BrokenPipe(c) \/ EndOfFile(c)
    PROVE  SignedIn'
  <1>1. UNCHANGED <<config, now, granted, asked, client>> /\ Onward
    <2>1. UNCHANGED <<config, now, granted, asked, client>>
      BY DEF WriteHead, WriteBody, BrokenPipe, EndOfFile, session, clients
    <2> QED BY <2>1, NotOnward DEF SignedIn
  <1>2. CASE WriteHead(c)
    <2>1. pc[c] = "reply" /\ Writing(c)
      BY <1>2 DEF WriteHead, Writing
    <2>2. CASE ~HasBody(c) /\ Finished(c)
      BY <1>1, <1>2, <2>1, <2>2, HeadRead, HeardSigned
    <2>3. CASE HasBody(c) /\ Goto(c, "payload") /\ UNCHANGED <<wire, current, body, reply>>
      <3>1. UNCHANGED answers
        BY <1>2, <2>3, HeadRead DEF Heard
      <3>2. \A d \in Conns \ {c} : pc'[d] = pc[d]
        BY <2>3 DEF Goto, Inv, Types
      <3>3. Listening(c)' => Listening(c)
        BY <1>1 DEF Listening
      <3>4. Request(c)' = Request(c)
        BY <1>1, <2>3 DEF Request
      <3>5. Telling(c)'
        BY <1>1, <2>1, <2>3, <3>3, <3>4, TellingKept
      <3> QED BY <1>1, <2>3, <3>1, <3>2, <3>5, SignedKept
    <2> QED BY <1>2, <2>2, <2>3 DEF WriteHead
  <1>3. CASE WriteBody(c)
    <2>1. Writing(c) /\ Finished(c)
      BY <1>3 DEF WriteBody, Writing
    <2> QED BY <1>1, <1>3, <2>1, BodyRead, HeardSigned
  <1>4. ASSUME UNCHANGED answers, pc'[c] = "closed" \/ client[c] = "gone",
               \A d \in Conns \ {c} : pc'[d] = pc[d] /\ reply'[d] = reply[d] /\ current'[d] = current[d]
        PROVE  SignedIn'
    <2>1. Telling(c)'
      BY <1>1, <1>4 DEF Telling, Writing, Listening
    <2> QED BY <1>1, <1>4, <2>1, SignedKept
  <1>5. CASE BrokenPipe(c)
    BY <1>4, <1>5 DEF BrokenPipe, Answer, Close, Goto, received, Inv, Types
  <1>6. CASE EndOfFile(c)
    BY <1>4, <1>6 DEF EndOfFile, Close, Goto, received, Inv, Types
  <1> QED BY <1>2, <1>3, <1>5, <1>6

\* Requests come and go; those a client was told of stay.
LEMMA StreamSigned ==
    ASSUME Inv, Turns, SignedIn, NEW c \in Conns,
           UNCHANGED <<config, now, granted, answers, reply, current>>,
           \A d \in Conns \ {c} : /\ asked'[d] = asked[d] /\ client'[d] = client[d]
                                 /\ pc'[d] = pc[d],
           \A i \in DOMAIN answers[c] : asked'[c][i] = asked[c][i],
           Writing(c)' /\ Listening(c)' =>
               /\ Writing(c) /\ Listening(c)
               /\ asked'[c][current[c]] = asked[c][current[c]]
    PROVE  SignedIn'
  <1>1. Onward /\ Dated'
    BY NotOnward, DatedKept DEF SignedIn
  <1>2. ASSUME NEW d \in Conns PROVE Telling(d)' /\ Told(d)'
    <2>1. \A i \in DOMAIN answers[d] : asked'[d][i] = asked[d][i]
      BY <1>2
    <2>2. Told(d)'
      BY <1>1, <2>1, ToldKept
    <2>3. Writing(d)' /\ Listening(d)' =>
              Writing(d) /\ Listening(d) /\ Request(d)' = Request(d)
      BY <1>2 DEF Writing, Listening, Request
    <2>4. Telling(d)'
      BY <1>1, <2>3, TellingKept
    <2> QED BY <2>2, <2>4
  <1> QED BY <1>1, <1>2 DEF SignedIn

LEMMA AskSigned ==
    ASSUME Inv, Turns, SignedIn, NEW c \in Conns, NEW s \in Shapes[c],
           NEW cookie \in jar \cup {None}, Ask(c, s, cookie)
    PROVE  SignedIn'
  <1>1. PICK r : asked' = [asked EXCEPT ![c] = Append(@, r)]
    BY DEF Ask
  <1>2. /\ UNCHANGED <<config, now, granted, answers, reply, current, client>>
        /\ pc' = [pc EXCEPT ![c] = IF @ = "new" THEN "idle" ELSE @]
    BY DEF Ask, session, received
  <1>3. PICK a : a = asked[c]
    OBVIOUS
  <1>4. /\ asked'[c] = Append(a, r) /\ a \in Seq(Requests) /\ Len(a) \in Nat
        /\ \A d \in Conns \ {c} : asked'[d] = asked[d] /\ pc'[d] = pc[d]
    BY <1>1, <1>2, <1>3, LenProperties DEF Inv, Types
  <1>5. \A i \in 1..Len(a) : Append(a, r)[i] = a[i]
    BY <1>4
  <1>6. DOMAIN answers[c] \subseteq 1..Len(a)
    BY <1>3, <1>4, LenProperties DEF Turns, Shaped, TurnOK, NotBehind
  <1>7. Writing(c)' => Writing(c) /\ current[c] \in 1..Len(a)
    <2>1. Writing(c)' => Writing(c) /\ Busy(c)
      BY <1>2 DEF Writing, Busy, Inv, Types
    <2> QED BY <1>3, <2>1 DEF Inv, HandlerOK
  <1>8. Listening(c)' => Listening(c)
    BY <1>2 DEF Listening
  <1> QED BY <1>2, <1>3, <1>4, <1>5, <1>6, <1>7, <1>8, StreamSigned

LEMMA BreakOffSigned ==
    ASSUME Inv, Turns, SignedIn, NEW c \in Conns, NEW how \in Breaks[c],
           NEW k \in 0..Len(wire[c]), NEW n \in 0..Len(asked[c]), BreakOff(c, how, k, n)
    PROVE  SignedIn'
  <1>a. PICK a, w, b, v : BreakFacts(c, a, w, b, v, how, k, n)
    BY BrokenOff
  <1>1. /\ client[c] = "open" /\ Listening(c)
        /\ UNCHANGED <<pc, current, reply, answers>>
        /\ asked[c] = a /\ asked'[c] = b /\ n \in 0..Len(a) /\ Len(a) \in Nat
        /\ \A i \in 1..n : b[i] = a[i]
        /\ \A i \in 1..Len(a) : Ahead(c, i) => i \in 1..n
        /\ \A d \in Conns \ {c} : asked'[d] = asked[d] /\ client'[d] = client[d]
    BY <1>a DEF BreakFacts, Listening, Inv, Types
  <1>2. UNCHANGED <<config, now, granted>>
    BY DEF BreakOff, session
  <1>3. DOMAIN answers[c] \subseteq 1..n
    <2>1. /\ DOMAIN answers[c] = 1..Len(answers[c]) /\ Len(answers[c]) \in Nat
          /\ Len(answers[c]) <= Len(a) /\ Ahead(c, Len(answers[c]))
      BY <1>1, LenProperties DEF Turns, Shaped, TurnOK, NotBehind
    <2> QED BY <1>1, <2>1
  <1>4. Writing(c)' => Writing(c) /\ current[c] \in 1..n
    <2>1. Writing(c)' => Writing(c) /\ Busy(c)
      BY <1>1 DEF Writing, Busy
    <2> QED BY <1>1, <2>1 DEF Inv, HandlerOK
  <1> QED BY <1>1, <1>2, <1>3, <1>4, StreamSigned

LEMMA OtherSigned ==
    ASSUME Inv, Turns, SignedIn,
           \/ Tick \/ UNCHANGED vars \/ \E secrets \in 1..MaxConfigs : Restart(secrets)
    PROVE  SignedIn'
  <1>1. UNCHANGED <<asked, answers, client, granted>>
    BY DEF Tick, Restart, vars, session, clients, received
  <1>2. Onward
    <2>1. config \in Nat /\ now \in Nat /\ MaxNow \in Nat /\ now <= MaxNow
      BY BoundsAssumption DEF Inv, Types, SignedIn, Dated
    <2>2. CASE Tick
      BY <1>1, <2>1, <2>2 DEF Tick, Onward
    <2>3. CASE UNCHANGED vars
      BY <2>3, NotOnward DEF vars, session, SignedIn
    <2>4. ASSUME NEW secrets \in 1..MaxConfigs, Restart(secrets) PROVE Onward
      BY <1>1, <2>1, <2>4 DEF Restart, Onward
    <2> QED BY <2>2, <2>3, <2>4
  <1>3. ASSUME NEW c \in Conns PROVE Telling(c)'
    <2>1. CASE UNCHANGED <<pc, reply, current>>
      <3>1. /\ Writing(c)' /\ Listening(c)' => Writing(c) /\ Listening(c)
            /\ Request(c)' = Request(c) /\ reply'[c].status = reply[c].status
        BY <1>1, <2>1 DEF Writing, Listening, Request
      <3> QED BY <1>2, <3>1, TellingKept
    <2>2. CASE \E secrets \in 1..MaxConfigs : Restart(secrets)
      BY <2>2 DEF Restart, Telling, Writing
    <2> QED BY <2>1, <2>2 DEF Tick, vars, handlers
  <1>4. ASSUME NEW c \in Conns PROVE Told(c)'
    BY <1>1, <1>2, ToldKept
  <1>5. Dated'
    BY <1>2, DatedKept DEF SignedIn
  <1> QED BY <1>3, <1>4, <1>5 DEF SignedIn

LEMMA InitSigned == Init => SignedIn
  <1> SUFFICES ASSUME Init PROVE SignedIn
    OBVIOUS
  <1>1. config = 1 /\ now = 0 /\ granted = Earlier
    BY DEF Init
  <1>2. Dated
    <2>1. \A g \in Earlier : g.config \in 0..1 /\ g.at \in 0..0 /\ g.cookie = SignCookie(g.config, g.at)
      BY EarlierAssumption
    <2> QED BY <1>1, <2>1, BoundsAssumption DEF Dated
  <1>3. ASSUME NEW c \in Conns PROVE Telling(c) /\ Told(c)
    BY <1>3 DEF Init, Telling, Told, Writing
  <1> QED BY <1>2, <1>3 DEF SignedIn

\* Whoever is told to sign in, or is about to be, has to (SignedIn).
THEOREM SignedInHolds == Spec => [](Inv /\ Turns /\ SignedIn)
  <1>1. Spec => [](Inv /\ Turns)
    BY TurnsHold
  <1>2. Init => SignedIn
    BY InitSigned
  <1>3. Inv /\ Turns /\ SignedIn /\ [Next]_vars => SignedIn'
    <2> SUFFICES ASSUME Inv, Turns, SignedIn, [Next]_vars PROVE SignedIn'
      OBVIOUS
    <2>1. ASSUME NEW c \in Conns, Handle(c) PROVE SignedIn'
      BY <2>1, ReadSigned, RouteSigned, ForwardSigned, WriteSigned DEF Handle
    <2> QED BY <2>1, AskSigned, BreakOffSigned, OtherSigned DEF Next
  <1> QED BY <1>1, <1>2, <1>3, PTL DEF Spec

\* Nobody whose cookie is of the secrets in force and has not run out has been
\* sent back to the login (_route, verify_cookie).
THEOREM AlwaysStaysSignedIn == Spec => []StaysSignedIn
  <1>1. SignedIn => StaysSignedIn
    <2> SUFFICES ASSUME SignedIn, NEW c \in Conns, NEW i \in DOMAIN answers[c],
                        answers[c][i] = 401, asked[c][i].shape.path \in {"auth"} \cup ForApp,
                        NEW g \in granted, g.cookie = asked[c][i].cookie
                 PROVE  g.config # config \/ now >= g.at + Ttl
      BY DEF StaysSignedIn
    <2>1. Expired(asked[c][i].cookie)
      BY DEF SignedIn, Told, Guarded
    <2> QED BY <2>1 DEF Expired
  <1> QED BY <1>1, SignedInHolds, PTL

\* Every variable of the gateway has its type, and what a handler has (a
\* request at hand, its body, a response) belongs to where it is.
THEOREM AlwaysTyped == Spec => []TypeOK
  <1>1. Inv /\ Turns /\ SignedIn => TypeOK
    <2> SUFFICES ASSUME Inv, Turns, SignedIn PROVE TypeOK
      OBVIOUS
    <2>1. config \in 1..MaxConfigs /\ now \in Nat /\ now \in 0..MaxNow /\ config \in Nat /\ Ttl \in Nat
      BY BoundsAssumption, TtlAssumption DEF Inv, Types, SignedIn, Dated
    <2>2. ASSUME NEW g \in granted
          PROVE  g.cookie \in [secret : 0..config, exp : Ttl..(now + Ttl)]
      <3>1. g.config \in 0..config /\ g.at \in 0..now /\ g.cookie = SignCookie(g.config, g.at)
        BY DEF SignedIn, Dated
      <3>2. g.at + Ttl \in Ttl..(now + Ttl)
        BY <2>1, <3>1
      <3> QED BY <3>1, <3>2 DEF SignCookie
    <2>3. ASSUME NEW c \in Conns
          PROVE  /\ client[c] \in {"open", "finished", "stalled", "gone"}
                 /\ pc[c] \in Labels
                 /\ pc[c] \in {"new", "idle", "closed"} <=> current[c] = 0
                 /\ current[c] \in 0..Len(asked[c])
                 /\ pc[c] \in {"reply", "payload"} <=> reply[c] # None
                 /\ pc[c] = "closed" => wire[c] = <<>>
                 /\ pc[c] \in {"route", "forward", "waiting"} =>
                       Len(body[c]) = Request(c).shape.units
                 /\ \A k \in DOMAIN wire[c] : wire[c][k].kind \in {"head", "body"}
      <3>1. Stage(c) /\ AtHand(c) /\ HandlerOK(c)
        BY DEF Turns, TurnOK, Inv
      <3>2. /\ Len(asked[c]) \in Nat /\ current[c] \in Nat
            /\ \A k \in DOMAIN wire[c] : wire[c][k].kind \in {"head", "body"}
        <4>1. wire[c] \in Seq(Units) /\ asked[c] \in Seq(Requests) /\ current[c] \in Nat
          BY DEF Inv, Types
        <4>2. \A k \in DOMAIN wire[c] : wire[c][k] \in Units
          BY <4>1, LenProperties, ElementOfSeq
        <4> QED BY <4>1, <4>2, LenProperties DEF Units
      <3>3. None \notin Responses
        BY NoResponseAssumption DEF Responses
      <3>4. pc[c] \in Labels /\ (Writing(c) <=> reply[c] # None)
        BY <3>1, <3>3 DEF Stage
      <3>5. pc[c] \in {"new", "idle", "closed"} <=> current[c] = 0
        BY <3>1, <3>4 DEF Stage, Labels, Busy
      <3>6. current[c] \in 0..Len(asked[c])
        BY <3>1, <3>2 DEF Stage, HandlerOK
      <3> QED BY <3>1, <3>2, <3>4, <3>5, <3>6 DEF Stage, AtHand, Writing
    <2> QED BY <2>1, <2>2, <2>3 DEF TypeOK, Labels
  <1> QED BY <1>1, SignedInHolds, PTL
=============================================================================

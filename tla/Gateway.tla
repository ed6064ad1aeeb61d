------------------------------- MODULE Gateway -------------------------------
(***************************************************************************)
(* gateway.py: one process, one handler thread per connection.  A          *)
(* connection carries requests one after another (keep-alive, the next may *)
(* be sent before the last is answered); what the client sends is a stream *)
(* of units, a head or a piece of a body, and nothing but reading the      *)
(* right number of them keeps the heads apart.  The handler reads a        *)
(* request, routes it, gives it to the app if it is to be proxied, and     *)
(* writes the head and then the body of a response.  Clients, the app and  *)
(* the process itself may stop at any moment.                              *)
(***************************************************************************)
EXTENDS Tokens, Sequences, FiniteSets, Functions

CONSTANTS
    Conns,         \* connections
    Shapes,        \* Shapes[c]: what is asked, [path, method, chunked, units, token, keep]
    Breaks,        \* Breaks[c]: how the client may leave: "finished", "stalled", "gone"
    Earlier,       \* logins before this process was started
    MaxLoginBody,  \* MAX_LOGIN_BODY, in units
    MaxProxyBody,  \* MAX_PROXY_BODY, in units
    MaxAsked,      \* bound: requests of a behaviour, whatever their connections
    MaxNow,        \* bound: the clock
    MaxConfigs     \* bound: times the secrets are generated

\* What the clients send: a body of some length, and the token in a login's.
ASSUME ShapesAssumption ==
    \A c \in Conns : \A s \in Shapes[c] : s.units \in Nat /\ s.keep \in BOOLEAN

\* Cookies given before were given for the token of their secrets, which are
\* those in force or older ones.
ASSUME EarlierAssumption ==
    \A g \in Earlier :
        /\ g.config \in {0, 1} /\ g.at = 0
        /\ g.cookie = SignCookie(g.config, g.at)
        /\ g.login.path = "login" /\ g.login.token = g.config

ASSUME BreaksAssumption ==
    \A c \in Conns : Breaks[c] \subseteq {"finished", "stalled", "gone"}

ASSUME BoundsAssumption ==
    /\ MaxConfigs \in Nat \ {0} /\ \A n \in 1..MaxConfigs : None # n
    /\ MaxNow \in Nat /\ MaxLoginBody \in Nat /\ MaxProxyBody \in Nat

\* No response is no response.
ASSUME NoResponseAssumption ==
    None \notin [status : Nat, size : Nat, final : BOOLEAN, guarded : BOOLEAN,
                 cookie : [secret : Nat, exp : Nat] \cup {None}]

VARIABLES
    config,   \* the secrets in the process's environment
    now,      \* the clock
    granted,  \* history: the logins that were given a cookie
    client,   \* "open", "finished" (sends no more), "stalled" or "gone"
    asked,    \* the requests sent, and (history) whether by the owner
    wire,     \* units sent and not read yet
    pc,       \* where the connection's handler is
    current,  \* the request it handles
    body,     \* Handler.body
    reply,    \* the response it writes
    answers,  \* statuses of the responses the client has in full
    begun,    \* status of the response it has the head of; 0, or Garbled
    jar,      \* the cookies clients were sent
    reached   \* the requests the app was given

session == <<config, now, granted>>
clients == <<client, asked>>
handlers == <<wire, pc, current, body, reply>>
received == <<answers, begun, jar>>
vars == <<session, clients, handlers, received, reached>>

-----------------------------------------------------------------------------
(* Requests and responses.                                                 *)

Unit(kind, c, i) == [kind |-> kind, conn |-> c, of |-> i]
Body(c, i, n) == [k \in 1..n |-> Unit("body", c, i)]

Request(c) == asked[c][current[c]]

\* What goes to the app; http.client refuses to send some of it (a path or a
\* header's name that is not ASCII, a path with a control character).
ForApp == {"app", "unsendable"}
Supported(r) == r.method \in {"GET", "HEAD", "POST", "PUT", "PATCH", "DELETE"}

\* A declared length within the limit, and no other framing.
Framable(r) == ~r.chunked /\ r.units <= MaxProxyBody

\* `final`: the connection is closed after it.  `guarded`: written inside the
\* try of _proxy, where a write that fails is taken for an upstream that fails.
Response(status, size, r) ==
    [status |-> status, size |-> size, final |-> ~r.keep, guarded |-> FALSE, cookie |-> None]
Final(response) == [response EXCEPT !.final = TRUE]

\* Mutant: a request that cannot be framed is refused, and the connection kept.
Rejection_KeepsOpen(r) == Response(413, 1, r)

Rejection(r) == Final(Response(413, 1, r))
BadGateway(r) == Response(502, 1, r)

Init ==
    /\ config = 1 /\ now = 0
    /\ granted = Earlier
    /\ client = [c \in Conns |-> "open"]
    /\ asked = [c \in Conns |-> <<>>]
    /\ wire = [c \in Conns |-> <<>>]
    /\ pc = [c \in Conns |-> "new"]
    /\ current = [c \in Conns |-> 0]
    /\ body = [c \in Conns |-> <<>>]
    /\ reply = [c \in Conns |-> None]
    /\ answers = [c \in Conns |-> <<>>]
    /\ begun = [c \in Conns |-> 0]
    /\ jar = {g.cookie : g \in Earlier}
    /\ reached = <<>>

-----------------------------------------------------------------------------
(* Clients: browsers, and Caddy in front of them.                          *)

Asked == SumFunctionOnSet([c \in Conns |-> Len(asked[c])], Conns)

\* A cookie of a login with the secrets in force that has not run out.
Owner(cookie) ==
    \E g \in granted : g.cookie = cookie /\ g.config = config /\ now < g.at + Ttl

\* A request with or without a cookie a login has set, behind the requests
\* already sent.  The cookie is given where some path looks at it.
Ask(c, s, cookie) ==
    /\ client[c] = "open" /\ pc[c] # "closed" /\ Asked < MaxAsked
    /\ cookie # None => s.path \in {"auth"} \cup ForApp
    /\ LET i == Len(asked[c]) + 1
           r == [shape |-> s, cookie |-> cookie, owner |-> Owner(cookie)]
       IN  /\ asked' = [asked EXCEPT ![c] = Append(@, r)]
           /\ wire' = [wire EXCEPT ![c] =
                           @ \o <<Unit("head", c, i)>> \o Body(c, i, s.units)]
    /\ pc' = [pc EXCEPT ![c] = IF @ = "new" THEN "idle" ELSE @]
    /\ UNCHANGED <<session, client, current, body, reply, received, reached>>

\* The client sends no more: it waits for its answers, or holds the connection,
\* or is gone.  All but the first k units still under way never arrive; the
\* requests after the n-th, whose heads are among them, were never asked.
BreakOff(c, how, k, n) ==
    /\ client[c] = "open" /\ pc[c] \notin {"new", "closed"}
    /\ LET lost == {wire[c][j].of : j \in {x \in (k + 1)..Len(wire[c]) :
                                             wire[c][x].kind = "head"}}
       IN  lost = (n + 1)..Len(asked[c])
    /\ asked' = [asked EXCEPT ![c] = SubSeq(@, 1, n)]
    /\ client' = [client EXCEPT ![c] = how]
    /\ wire' = [wire EXCEPT ![c] = SubSeq(@, 1, k)]
    /\ UNCHANGED <<session, pc, current, body, reply, received, reached>>

Tick ==
    /\ now < MaxNow
    /\ now' = now + 1
    /\ UNCHANGED <<config, granted, clients, handlers, received, reached>>

-----------------------------------------------------------------------------
(* The handler of a connection.                                            *)

\* Mutant: a server without threads serves one connection until it is closed.
Scheduled_OneAtATime(c) == \A d \in Conns \ {c} : pc[d] \in {"new", "closed"}

\* ThreadingHTTPServer: no handler waits for another.
Scheduled(c) == TRUE

Goto(c, label) == pc' = [pc EXCEPT ![c] = label]

Answer(c, response) ==
    /\ Goto(c, "reply")
    /\ reply' = [reply EXCEPT ![c] = response]

Close(c) ==
    /\ Goto(c, "closed")
    /\ wire' = [wire EXCEPT ![c] = <<>>]
    /\ current' = [current EXCEPT ![c] = 0]
    /\ body' = [body EXCEPT ![c] = <<>>]
    /\ reply' = [reply EXCEPT ![c] = None]

\* Mutant: the body belongs to the class, and so to every connection.
Keep_Shared(c, read) == body' = [d \in Conns |-> read]

Keep(c, read) == body' = [body EXCEPT ![c] = read]

\* The next head and the body it declares: the units that follow, whatever
\* they are.  read() blocks until they have come or never will.
ReadRequest(c) ==
    /\ Scheduled(c) /\ pc[c] = "idle" /\ wire[c] # <<>>
    /\ LET i == Head(wire[c]).of
           rest == Tail(wire[c])
           r == asked[c][i].shape
           Left(units) == wire' = [wire EXCEPT ![c] = units]
       IN  /\ current' = [current EXCEPT ![c] = i]
           /\ \/ /\ ~Supported(r)
                 /\ Answer(c, Final(Response(501, 1, r)))
                 /\ Left(rest) /\ UNCHANGED body
              \/ /\ Supported(r) /\ ~Framable(r)
                 /\ Answer(c, Rejection(r))
                 /\ Left(rest) /\ UNCHANGED body
              \/ /\ Supported(r) /\ Framable(r) /\ r.units <= Len(rest)
                 /\ Goto(c, "route")
                 /\ Keep(c, SubSeq(rest, 1, r.units))
                 /\ Left(SubSeq(rest, r.units + 1, Len(rest)))
                 /\ UNCHANGED reply
              \/ /\ Supported(r) /\ Framable(r) /\ r.units > Len(rest)
                 /\ client[c] \in {"finished", "gone"}
                 /\ Answer(c, Rejection(r))
                 /\ Left(<<>>) /\ UNCHANGED body
    /\ UNCHANGED <<session, clients, received, reached>>

Subject(c) == VerifyCookie(config, Request(c).cookie, now)
Grant(secret, time, s) ==
    [cookie |-> SignCookie(secret, time), at |-> time, config |-> secret, login |-> s]

\* The token in a form: the one the request with that body carries.
Token(units) == IF units = <<>> THEN None
                ELSE asked[units[1].conn][units[1].of].shape.token

LoginFails(c) == \/ Len(body[c]) > MaxLoginBody
                 \/ ~VerifyToken(Token(body[c]), config)

Login(c, r) ==
    \/ /\ LoginFails(c)
       /\ Answer(c, Response(401, 1, r))
       /\ UNCHANGED granted
    \/ /\ ~LoginFails(c)
       /\ Answer(c, [Response(303, 0, r) EXCEPT !.cookie = SignCookie(config, now)])
       /\ granted' = granted \cup {Grant(config, now, r)}

\* urlsplit raises on some targets ('http://[') and nothing catches it: the
\* handler dies.
Route(c) ==
    /\ Scheduled(c) /\ pc[c] = "route"
    /\ LET r == Request(c).shape
           post == r.method = "POST"
       IN  \/ /\ r.path = "unparsable"
              /\ Close(c) /\ UNCHANGED granted
           \/ /\ r.path = "login" /\ post
              /\ Login(c, r) /\ UNCHANGED <<wire, current, body>>
           \/ /\ r.path \in ForApp /\ Subject(c)
              /\ Goto(c, "forward") /\ UNCHANGED <<wire, current, body, reply, granted>>
           \/ /\ \/ /\ r.path \in {"auth"} \cup ForApp /\ ~Subject(c)
                    /\ Answer(c, Response(401, 1, r))
                 \/ /\ r.path = "auth" /\ Subject(c)
                    /\ Answer(c, Response(204, 0, r))
                 \/ /\ r.path = "login" /\ ~post
                    /\ Answer(c, Response(200, 1, r))
                 \/ /\ r.path = "logout"
                    /\ Answer(c, IF post THEN Response(303, 0, r) ELSE Response(405, 1, r))
                 \/ /\ r.path = "other"
                    /\ Answer(c, Response(404, 1, r))
              /\ UNCHANGED <<wire, current, body, granted>>
    /\ UNCHANGED <<config, now, clients, received, reached>>

\* The request is refused by http.client with no OSError, and the handler dies;
\* or the app is not there, or is given the request.
Forward(c) ==
    /\ Scheduled(c) /\ pc[c] = "forward"
    /\ \/ /\ Request(c).shape.path = "unsendable"
          /\ Close(c) /\ UNCHANGED reached
       \/ /\ Request(c).shape.path = "app"
          /\ \/ /\ Answer(c, BadGateway(Request(c).shape))
                /\ UNCHANGED reached
             \/ /\ Goto(c, "waiting")
                /\ reached' = Append(reached,
                       [conn |-> c, of |-> current[c], body |-> body[c]])
                /\ UNCHANGED reply
          /\ UNCHANGED <<wire, current, body>>
    /\ UNCHANGED <<session, clients, received>>

\* The whole response is read before any of it is passed on; or the app falls
\* silent (a timeout) or breaks the connection (an OSError); or what it says is
\* not HTTP, which _proxy does not catch: the handler dies.
Receive(c) ==
    /\ Scheduled(c) /\ pc[c] = "waiting"
    /\ LET r == Request(c).shape
           size == IF r.method = "HEAD" THEN 0 ELSE 1
       IN  \/ /\ Answer(c, [Response(200, size, r) EXCEPT !.guarded = TRUE])
              /\ UNCHANGED <<wire, current, body>>
           \/ /\ Answer(c, BadGateway(r))
              /\ UNCHANGED <<wire, current, body>>
           \/ Close(c)
    /\ UNCHANGED <<session, clients, received, reached>>

Garbled == 1

\* The client reads: it knows its own requests, and so which heads are followed
\* by a body.
Understand(c, u) ==
    LET head == u.kind = "head"
        fits == IF head THEN begun[c] = 0 /\ Len(answers[c]) < Len(asked[c])
                ELSE begun[c] \notin {0, Garbled}
        more == head /\ u.size > 0 /\ asked[c][Len(answers[c]) + 1].shape.method # "HEAD"
        status == IF head THEN u.status ELSE begun[c]
    IN  /\ begun' = [begun EXCEPT ![c] = IF ~fits THEN Garbled ELSE IF more THEN status ELSE 0]
        /\ answers' = IF fits /\ ~more THEN [answers EXCEPT ![c] = Append(@, status)]
                      ELSE answers

Deliver(c, unit) ==
    \/ /\ client[c] = "gone"
       /\ UNCHANGED received
    \/ /\ client[c] # "gone"
       /\ Understand(c, unit)
       /\ jar' = jar \cup ({unit.cookie} \ {None})

\* Mutant: a HEAD is answered with the body it describes.
HasBody_Head(c) == reply[c].size > 0

HasBody(c) == reply[c].size > 0 /\ Request(c).shape.method # "HEAD"

\* Handling is over: the next request, or the end of the connection.
Finished(c) ==
    \/ /\ reply[c].final
       /\ Close(c)
    \/ /\ ~reply[c].final
       /\ Goto(c, "idle")
       /\ current' = [current EXCEPT ![c] = 0]
       /\ body' = [body EXCEPT ![c] = <<>>]
       /\ reply' = [reply EXCEPT ![c] = None]
       /\ UNCHANGED wire

WriteHead(c) ==
    /\ Scheduled(c) /\ pc[c] = "reply"
    /\ Deliver(c, [kind |-> "head", status |-> reply[c].status, size |-> reply[c].size,
                   cookie |-> reply[c].cookie])
    /\ \/ /\ HasBody(c)
          /\ Goto(c, "payload") /\ UNCHANGED <<wire, current, body, reply>>
       \/ /\ ~HasBody(c)
          /\ Finished(c)
    /\ UNCHANGED <<session, clients, reached>>

WriteBody(c) ==
    /\ Scheduled(c) /\ pc[c] = "payload"
    /\ Deliver(c, [kind |-> "body", cookie |-> None])
    /\ Finished(c)
    /\ UNCHANGED <<session, clients, reached>>

\* Writing to a client that is gone fails: the handler dies, but a response
\* written inside the try of _proxy is first followed by a 502.
BrokenPipe(c) ==
    /\ Scheduled(c) /\ pc[c] \in {"reply", "payload"} /\ client[c] = "gone"
    /\ \/ /\ reply[c].guarded
          /\ Answer(c, BadGateway(Request(c).shape))
          /\ UNCHANGED <<wire, current, body>>
       \/ /\ ~reply[c].guarded
          /\ Close(c)
    /\ UNCHANGED <<session, clients, received, reached>>

\* Nothing more to read, and never will be.
EndOfFile(c) ==
    /\ Scheduled(c) /\ pc[c] = "idle" /\ wire[c] = <<>>
    /\ client[c] \in {"finished", "gone"}
    /\ Close(c)
    /\ UNCHANGED <<session, clients, received, reached>>

\* The process ends and is started again, with the same secrets or those of a
\* later apply.  Connections do not survive it.
Restart(secrets) ==
    /\ secrets \in {config, config + 1} /\ secrets <= MaxConfigs
    /\ config' = secrets
    /\ pc' = [c \in Conns |-> IF pc[c] = "new" THEN "new" ELSE "closed"]
    /\ wire' = [c \in Conns |-> <<>>]
    /\ current' = [c \in Conns |-> 0]
    /\ body' = [c \in Conns |-> <<>>]
    /\ reply' = [c \in Conns |-> None]
    /\ UNCHANGED <<now, granted, clients, received, reached>>

-----------------------------------------------------------------------------
Handle(c) ==
    \/ ReadRequest(c) \/ Route(c) \/ Forward(c) \/ Receive(c)
    \/ WriteHead(c) \/ WriteBody(c) \/ BrokenPipe(c) \/ EndOfFile(c)

Next ==
    \/ \E c \in Conns : Handle(c)
    \/ \E c \in Conns : \E s \in Shapes[c], cookie \in jar \cup {None} : Ask(c, s, cookie)
    \/ \E c \in Conns : \E how \in Breaks[c], k \in 0..Len(wire[c]), n \in 0..Len(asked[c]) :
          BreakOff(c, how, k, n)
    \/ Tick
    \/ \E secrets \in 1..MaxConfigs : Restart(secrets)

Spec == Init /\ [][Next]_vars

\* A thread runs; a socket operation with the app ends by itself or by the
\* timeout.  Clients owe nothing.
FairSpec == Spec /\ \A c \in Conns : WF_vars(Handle(c))
=============================================================================

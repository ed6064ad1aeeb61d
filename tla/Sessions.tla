------------------------------ MODULE Sessions ------------------------------
(***************************************************************************)
(* What the gateway promises: to the client at the other end of a          *)
(* connection (Exchange), to the owner, and to the app behind it.          *)
(***************************************************************************)
EXTENDS Gateway

\* Types, and what belongs to which state of a handler.
TypeOK ==
    /\ config \in 1..MaxConfigs /\ now \in 0..MaxNow
    /\ \A g \in granted : g.cookie \in [secret : 0..config, exp : Ttl..(now + Ttl)]
    /\ \A c \in Conns :
        /\ client[c] \in {"open", "finished", "stalled", "gone"}
        /\ pc[c] \in {"new", "idle", "route", "forward", "waiting", "reply", "payload", "closed"}
        /\ pc[c] \in {"new", "idle", "closed"} <=> current[c] = 0
        /\ current[c] \in 0..Len(asked[c])
        /\ pc[c] \in {"reply", "payload"} <=> reply[c] # None
        /\ pc[c] = "closed" => wire[c] = <<>>
        /\ pc[c] \in {"route", "forward", "waiting"} => Len(body[c]) = Request(c).shape.units
        /\ \A k \in DOMAIN wire[c] : wire[c][k].kind \in {"head", "body"}

-----------------------------------------------------------------------------
(* The client's side.                                                      *)

E == INSTANCE Exchange WITH state <- client, open <- [c \in Conns |-> pc[c] # "closed"]

\* The handlers' reads and writes implement Exchange: one whole response of the
\* contract to each request, in order; the app given each request once, with
\* its body; connections ended between responses, for a reason: one is that the
\* gateway fails on the request.
InOrder == E!Spec

\* Where the handler looks for a head there is one: no body of an earlier
\* request, refused, misdirected or not allowed, is ever left before it.
Framed ==
    \A c \in Conns : pc[c] = "idle" /\ wire[c] # <<>> => Head(wire[c]).kind = "head"

\* A client that keeps its connection gets an answer to everything it has asked,
\* unless the connection is ended, whatever the other clients do.
Answered ==
    \A c \in Conns : []<>(\/ client[c] # "open" \/ pc[c] = "closed"
                          \/ Len(answers[c]) = Len(asked[c]))

-----------------------------------------------------------------------------
(* The owner's side.                                                       *)

\* A cookie is given for the token of the secrets in force and for nothing else,
\* and nothing reaches the app but with such a cookie, of the secrets in force
\* and not run out when the request was sent.
OnlyOwner ==
    /\ \A g \in granted : g.login.path = "login" /\ g.login.token = g.config
    /\ \A k \in DOMAIN reached : asked[reached[k].conn][reached[k].of].owner

\* The owner is not sent back to the login before the cookie has run out or the
\* secrets have changed.
StaysSignedIn ==
    \A c \in Conns : \A i \in DOMAIN answers[c] :
        (answers[c][i] = 401 /\ asked[c][i].shape.path \in {"auth"} \cup ForApp) =>
            \A g \in granted : g.cookie = asked[c][i].cookie =>
                g.config # config \/ now >= g.at + Ttl
=============================================================================

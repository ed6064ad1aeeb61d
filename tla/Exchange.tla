------------------------------ MODULE Exchange ------------------------------
(***************************************************************************)
(* What the gateway promises to each client: its requests are answered one *)
(* by one in the order they were asked, each by one whole response of the  *)
(* documented contract; the app is given the client's own requests, in     *)
(* that order, each at most once and with its body; and a connection ends  *)
(* between two responses, for one of the reasons HangUp names.             *)
(***************************************************************************)
EXTENDS Naturals, Sequences

CONSTANTS
    Conns,
    MaxProxyBody   \* the longest body of a request

VARIABLES
    asked,     \* requests in the order they were asked
    answers,   \* the statuses of the responses the client has in full
    begun,     \* the status of a response it has a part of, or 0
    state,     \* the client: "open", "finished", "stalled" or "gone"
    open,      \* is the connection?
    reached    \* requests the app was given, in order

vars == <<asked, answers, begun, state, open, reached>>

Init ==
    /\ asked = [c \in Conns |-> <<>>]
    /\ answers = [c \in Conns |-> <<>>]
    /\ begun = [c \in Conns |-> 0]
    /\ state = [c \in Conns |-> "open"]
    /\ open = [c \in Conns |-> TRUE]
    /\ reached = <<>>

-----------------------------------------------------------------------------
Others(f, c) == \A d \in Conns \ {c} : f'[d] = f[d]
IsPrefixOf(s, t) == Len(s) <= Len(t) /\ SubSeq(t, 1, Len(s)) = s

Pending(c) == Len(answers[c]) + 1
Reached(c, i) == \E k \in DOMAIN reached : reached[k].conn = c /\ reached[k].of = i

\* The table of the specification, and the refusals around it.
Contract(c, i, status) ==
    LET s == asked[c][i].shape
        post == s.method = "POST"
    IN  \/ /\ status = 413
           /\ \/ s.chunked \/ s.units > MaxProxyBody
              \/ s.units > 0 /\ state[c] = "finished" /\ i = Len(asked[c])
        \/ status = 501 /\ s.method \notin {"GET", "HEAD", "POST", "PUT", "PATCH", "DELETE"}
        \/ status \in {204, 401} /\ s.path = "auth"
        \/ status = 200 /\ s.path = "login" /\ ~post
        \/ status \in {303, 401} /\ s.path = "login" /\ post
        \/ status = 303 /\ s.path = "logout" /\ post
        \/ status = 405 /\ s.path = "logout" /\ ~post
        \/ status = 404 /\ s.path = "other"
        \/ status = 401 /\ s.path \in {"app", "unsendable"} /\ ~Reached(c, i)
        \/ status = 200 /\ s.path = "app" /\ Reached(c, i)
        \/ status = 502 /\ s.path = "app"

\* After these nothing more is answered on the connection.
Last(c, i) == answers[c][i] \in {413, 501} \/ ~asked[c][i].shape.keep
Ended(c) == \E i \in DOMAIN answers[c] : Last(c, i)

Answerable(c, status) ==
    /\ open[c] /\ state[c] # "gone" /\ ~Ended(c) /\ begun[c] = 0
    /\ Pending(c) <= Len(asked[c])
    /\ Contract(c, Pending(c), status)

-----------------------------------------------------------------------------
Ask(c) ==
    /\ open[c] /\ state[c] = "open"
    /\ Len(asked'[c]) = Len(asked[c]) + 1 /\ IsPrefixOf(asked[c], asked'[c])
    /\ Others(asked, c)
    /\ UNCHANGED <<answers, begun, state, open, reached>>

\* Requests that were not heard of yet are as if they had not been asked.
Leave(c) ==
    /\ state[c] = "open" /\ state'[c] # "open"
    /\ IsPrefixOf(asked'[c], asked[c]) /\ Len(asked'[c]) >= Len(answers[c])
    /\ Others(asked, c) /\ Others(state, c)
    /\ UNCHANGED <<answers, begun, open, reached>>

\* For a client that is gone, requests it did send may still be carried out.
Reach(c, i) ==
    /\ open[c] /\ ~Ended(c)
    /\ \/ i = Pending(c) /\ begun[c] = 0
       \/ i > Pending(c) /\ state[c] = "gone"
    /\ i \in DOMAIN asked[c] /\ asked[c][i].shape.path = "app"
    /\ \A j \in i..Len(asked[c]) : ~Reached(c, j)
    /\ reached' = Append(reached,
           [conn |-> c, of |-> i,
            body |-> [k \in 1..asked[c][i].shape.units |->
                          [kind |-> "body", conn |-> c, of |-> i]]])
    /\ UNCHANGED <<asked, answers, begun, state, open>>

Answer(c, status) ==
    /\ Answerable(c, status)
    /\ answers' = [answers EXCEPT ![c] = Append(@, status)]
    /\ UNCHANGED begun

Begin(c, status) ==
    /\ Answerable(c, status)
    /\ begun' = [begun EXCEPT ![c] = status]
    /\ UNCHANGED answers

Finish(c, status) ==
    /\ open[c] /\ begun[c] = status /\ status # 0
    /\ answers' = [answers EXCEPT ![c] = Append(@, status)]
    /\ begun' = [begun EXCEPT ![c] = 0]

\* The last of the responses comes with the end of the connection.
Respond(c, status) ==
    /\ \/ Answer(c, status) \/ Begin(c, status) \/ Finish(c, status)
    /\ open' = [open EXCEPT ![c] = ~Ended(c)']
    /\ UNCHANGED <<asked, state, reached>>

\* A request the gateway fails on: it answers it with no response at all.
Breaking(c) ==
    /\ Pending(c) \in DOMAIN asked[c]
    /\ asked[c][Pending(c)].shape.path \in {"unsendable", "unparsable"}

\* Without a response: nothing is asked, nobody listens, the app was given the
\* request and did not speak HTTP, or the gateway fails on the request.
HangUp(c) ==
    /\ open[c]
    /\ \/ state[c] = "gone"
       \/ state[c] = "finished" /\ begun[c] = 0 /\ Len(answers[c]) = Len(asked[c])
       \/ begun[c] = 0 /\ (Reached(c, Pending(c)) \/ Breaking(c))
    /\ open' = [open EXCEPT ![c] = FALSE]
    /\ UNCHANGED <<asked, answers, begun, state, reached>>

\* The process ends, with every connection, in the middle of whatever it does.
Crash ==
    /\ open' # open
    /\ \A c \in Conns : open'[c] => asked[c] = <<>>
    /\ UNCHANGED <<asked, answers, begun, state, reached>>

Statuses == {200, 204, 303, 401, 404, 405, 413, 501, 502}

Next ==
    \/ \E c \in Conns : Ask(c) \/ Leave(c) \/ HangUp(c)
    \/ \E c \in Conns : \E i \in DOMAIN asked[c] : Reach(c, i)
    \/ \E c \in Conns, status \in Statuses : Respond(c, status)
    \/ Crash

Spec == Init /\ [][Next]_vars
=============================================================================

----------------------------- MODULE MCGateway -----------------------------
(* The small instance of Sessions: each kind of request the handler tells   *)
(* apart, and each way a body can be framed.                               *)
EXTENDS Sessions

Shape(path, method, units, token) ==
    [path |-> path, method |-> method, units |-> units, token |-> token,
     chunked |-> FALSE, keep |-> TRUE]

MCConns == {"c1", "c2"}

\* On one connection every way to frame and to route a request, on the other a
\* request of the app and a check of the cookie.
MCShapes == [c \in MCConns |->
    IF c = "c1"
    THEN {Shape("login", "POST", 1, 1), Shape("login", "POST", 1, 2),    \* a wrong token
          Shape("login", "POST", 2, 1), Shape("login", "GET", 0, None),  \* oversized
          Shape("logout", "PATCH", 0, None), Shape("other", "POST", 1, None),
          Shape("app", "POST", 1, None), Shape("app", "HEAD", 0, None),
          Shape("app", "PUT", 3, None),                                  \* too long a body
          [Shape("app", "POST", 1, None) EXCEPT !.chunked = TRUE],
          Shape("other", "OPTIONS", 1, None),                            \* no such method
          Shape("unsendable", "GET", 0, None), Shape("unparsable", "POST", 1, None),
          [Shape("logout", "POST", 0, None) EXCEPT !.keep = FALSE]}
    ELSE {Shape("app", "POST", 1, None), Shape("auth", "GET", 0, None)}]

MCEarlier == {Grant(1, 0, Shape("login", "POST", 1, 1))}
MCBreaks == [c \in MCConns |->
    IF c = "c1" THEN {} ELSE {"finished", "stalled", "gone"}]
=============================================================================

-------------------------- MODULE MCCallActivity --------------------------
(* Call trees for TLC. *)
EXTENDS CallActivity

\* A parent with a step before its call and one after it.
OneCall == [i \in {"root", "child"} |->
              IF i = "root" THEN <<"a", "child", "d">> ELSE <<"b">>]
\* A parent that ends in its call.
Short == [i \in {"root", "child"} |-> IF i = "root" THEN <<"a", "child">> ELSE <<"b">>]
\* A call inside a call.
Deep == [i \in {"root", "child", "grand"} |->
           CASE i = "root" -> <<"child">> [] i = "child" -> <<"b", "grand">> [] i = "grand" -> <<"d">>]
\* Bound of call_tree: a second call of the operator only where no timer fires.
CallOrTimer == calls < 2 \/ (fire = {} /\ \A c \in Children : timer[c] # "fired")
=============================================================================

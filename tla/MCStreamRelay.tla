----------------------------- MODULE MCStreamRelay -----------------------------
(* One stream with the bodies below, and one whose body is empty.           *)
EXTENDS StreamRelay, TLC

CONSTANTS s1, s2

Item(event, sep) == [event |-> event, sep |-> sep]
Sep(events, sep) == [i \in DOMAIN events |-> Item(events[i], sep)]

LongBodies ==
  {Sep(<<"start", "ansi", "usage", "stop", "delta">>, "lf"),
   Sep(<<"start", "usage", "stop">>, "crlf"),
   <<Item("start", "lf"), Item("delta", "crlf"), Item("stop", "lf")>>,
   <<Item("ping", "lf"), Item("start", "lf"), Item("usage", "crlf"), Item("stop", "cut")>>,
   <<Item("start", "lf"), Item("start", "lf"), Item("delta", "cut")>>,
   Sep(<<"stop", "stop">>, "lf")}

Path(provider, ingress) == [provider |-> provider, ingress |-> ingress]
AllPaths == {Path(p, i) : p \in {"openai", "anthropic"}, i \in {"openai", "anthropic"}}
Mocks == [path : {Path("mock", "openai"), Path("mock", "anthropic")}, body : {<< >>}]
AnswersOf == (s1 :> [path : AllPaths, body : LongBodies] \cup Mocks)
             @@ (s2 :> [path : {Path("anthropic", "anthropic")}, body : {<< >>}])
================================================================================

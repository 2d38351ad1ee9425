----------------------------- MODULE MCRequests ------------------------------
(* A small instance of Requests for TLC: two devices that share an         *)
(* interface, and one that has another beside it which every bus knows.    *)
EXTENDS Requests, TLC

CONSTANTS r1, r2, c1, c2, c3, basic, bare, value, extra, reset, ping

\* ping belongs to an interface every bus has, which is therefore not cached.
Interfaces == [m \in Member |-> IF m = ping THEN bare ELSE basic]

\* The second device's definition has a property the first one lacks.
Devices == [r \in Root |-> IF r = r1 THEN {value, reset} ELSE {value, extra, ping}]

Ask(r, op, m) == [root |-> r, op |-> op, member |-> m]

\* Two Sets of the shared property and a Get of it; a method beside the first,
\* what only one device has beside the others.
Calls ==
  [c \in Call |->
     CASE c = c1 -> {Ask(r1, "set", value), Ask(r1, "invoke", reset)}
       [] c = c2 -> {Ask(r2, "set", value), Ask(r2, "get", extra)}
       [] c = c3 -> {Ask(r1, "get", value), Ask(r2, "invoke", ping)}]
=============================================================================

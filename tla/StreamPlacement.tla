--------------------------- MODULE StreamPlacement ---------------------------
(***************************************************************************)
(* What the table of media servers promises: every call sits on at most    *)
(* one server; a live call shares the server its camera already plays      *)
(* through, any other call goes to a server that carries the fewest calls; *)
(* calls leave alone or together with the calls that share their stream.   *)
(* There are no counters and no lists here, only where each call is.       *)
(***************************************************************************)
EXTENDS Integers, FiniteSets

CONSTANTS Server, Camera, Call, NoPlace

VARIABLES
    up,     \* servers that may be given calls
    place   \* where each call is, and what it plays

Type == {"play", "playback", "download"}

Placed == {c \in Call : place[c] # NoPlace}

Load(s) == Cardinality({c \in Placed : place[c].server = s})

\* The calls that already play this camera live through a server that is up.
Playing(cam) == {c \in Placed : /\ place[c].camera = cam
                                /\ place[c].type = "play"
                                /\ place[c].server \in up}

Init ==
    /\ up = {}
    /\ place = [c \in Call |-> NoPlace]

Assign(c, cam, type, s) ==
    /\ c \notin Placed
    /\ s \in up
    /\ IF type = "play" /\ Playing(cam) # {}
         THEN \E d \in Playing(cam) : place[d].server = s
         ELSE \A t \in up : Load(s) <= Load(t)
    /\ place' = [place EXCEPT ![c] = [server |-> s, camera |-> cam, type |-> type]]
    /\ UNCHANGED up

\* Calls that leave together had the same stream.
Release(R) ==
    /\ R # {}
    /\ \A c, d \in R : place[c] = place[d]
    /\ place' = [c \in Call |-> IF c \in R THEN NoPlace ELSE place[c]]
    /\ UNCHANGED up

Rise(s) == up' = up \cup {s} /\ UNCHANGED place

Fall(s) == up' = up \ {s} /\ UNCHANGED place

\* A server is withdrawn with its calls.
Withdraw(s) ==
    /\ up' = up \ {s}
    /\ place' = [c \in Call |-> IF c \in Placed /\ place[c].server = s
                                  THEN NoPlace ELSE place[c]]

Next ==
    \/ \E c \in Call, cam \in Camera, type \in Type, s \in Server : Assign(c, cam, type, s)
    \/ \E R \in SUBSET Placed : Release(R)
    \/ \E s \in Server : Rise(s) \/ Fall(s) \/ Withdraw(s)

Spec == Init /\ [][Next]_<<up, place>>

\* The same promise where some servers are up before the first call.
Running ==
    /\ up \in SUBSET Server
    /\ place = [c \in Call |-> NoPlace]

RunningSpec == Running /\ [][Next]_<<up, place>>
==============================================================================

--------------------------- MODULE TablePlacement ---------------------------
(***************************************************************************)
(* The table implements StreamPlacement.  The mapping forgets the counters *)
(* and the lists: a call is where the stream is whose list it is in, and   *)
(* servers that may be given calls are those the scans do not skip.        *)
(***************************************************************************)
EXTENDS StreamTable

CONSTANT NoPlace

ASSUME PlaceAssumption ==
    NoPlace \notin [server : Server, camera : Camera, type : InviteType]

PlaceOf(e) == [server |-> cams[e].server, camera |-> cams[e].camera, type |-> cams[e].type]

\* Where each call is, read off the table.
Placement == [c \in Call |-> IF InTable(c) THEN PlaceOf(StreamOf(c)) ELSE NoPlace]

Abstract == INSTANCE StreamPlacement WITH up <- Practicable, place <- Placement

\* The table with its counters and lists places and releases calls as the
\* abstract specification promises: GetPracticableRTPServer shares a running
\* live stream or picks a server with the fewest real calls, and
\* ReduceRTPTotal removes one call or exactly those of one stream.
ImplementsPlacement == Abstract!Spec

\* The same of a system whose servers are listed and online before its first
\* call: the handlers of SIPServer.cpp, once their table is loaded.
ImplementsRunning == Abstract!RunningSpec
=============================================================================

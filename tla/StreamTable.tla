----------------------------- MODULE StreamTable -----------------------------
(***************************************************************************)
(* The table of RTP media servers that RTPServerManager keeps              *)
(* (m_listRTPInfo): which servers are listed and online, the camera        *)
(* streams each one relays (listCameraToRTP), the client calls each stream *)
(* is sent to (listSendStreamCallID), and the counters nTotal and nTranmit *)
(* by which new calls are spread over the servers.                         *)
(*                                                                         *)
(* The operations on streams, and EraseRTPInfo, are critical sections of   *)
(* RTPServerManager::m_cs.  InsertRTPInfo and the threads that set bOnLine *)
(* do not take that lock; each is one step because it adds one element, or *)
(* writes one flag, that the others see or do not see.  The lists of       *)
(* servers and of streams are sets here: where the code takes the first    *)
(* match of a list whose order comes from the database, the model takes    *)
(* any match.  The calls of one stream keep their order, because the code  *)
(* answers the first of them on behalf of all.                             *)
(***************************************************************************)
EXTENDS Integers, Sequences, FiniteSets, SequencesExt

CONSTANTS
    Server,      \* media servers the database may assign to this SIP server
    FileServer,  \* those of type 224: they relay files, never a call
    Camera,
    Call,        \* Call-IDs of the clients' INVITEs (CallID1)
    Entry,       \* addresses a `new CameraToRTP' may return
    NoCam        \* an address that holds no CameraToRTP

ASSUME TableAssumption ==
    /\ FileServer \subseteq Server
    /\ NoCam \notin [server   : Server,
                     camera   : Camera,
                     type     : {"play", "playback", "download"},
                     nTranmit : Int,
                     invites  : Seq(Call)]

VARIABLES
    listed,  \* servers in m_listRTPInfo
    online,  \* those with bOnLine
    nTotal,  \* nTotal of each listed server
    cams     \* the CameraToRTP at each address, of whichever server

tableVars == <<listed, online, nTotal, cams>>

InviteType == {"play", "playback", "download"}

CamRec == [server   : Server,
           camera   : Camera,
           type     : InviteType,
           nTranmit : Int,
           invites  : Seq(Call)]

(***************************************************************************)
(* What the lookups of the table see.                                      *)
(***************************************************************************)
Live == {e \in Entry : cams[e] # NoCam}

OnServer(s) == {e \in Live : cams[e].server = s}

\* Mutant: the scans do not ask whether the server answers.
PracticableListed == listed \ FileServer

\* The servers the two scans of GetPracticableRTPServer do not skip.
Practicable == (listed \cap online) \ FileServer

\* The live streams of a camera that a new call may share.
Forwarding(cam) == {e \in Live : /\ cams[e].camera = cam
                                 /\ cams[e].type = "play"
                                 /\ cams[e].server \in Practicable}

Holds(e, c) == c \in ToSet(cams[e].invites)

InTable(c) == \E e \in Live : Holds(e, c)

\* The stream a call belongs to.
StreamOf(c) == CHOOSE e \in Live : Holds(e, c)

\* The stream r once it is sent to the calls q.
Sending(r, n, q) == [server |-> r.server, camera |-> r.camera, type |-> r.type,
                     nTranmit |-> n, invites |-> q]

\* Mutant: the first server that is online.
LeastLoadedIgnored == Practicable

LeastLoaded == {s \in Practicable : \A t \in Practicable : nTotal[s] <= nTotal[t]}

(***************************************************************************)
(* Changes of the table.                                                   *)
(***************************************************************************)
TableInit ==
    /\ listed = {}
    /\ online = {}
    /\ nTotal = [s \in Server |-> 0]
    /\ cams = [e \in Entry |-> NoCam]

\* InsertRTPInfo of a server that is not in the list yet.
InsertRTPInfo(s) ==
    /\ s \notin listed
    /\ listed' = listed \cup {s}
    /\ nTotal' = [nTotal EXCEPT ![s] = 0]
    /\ UNCHANGED <<online, cams>>

\* Mutant: the streams of an erased server stay.
EraseRTPInfoOnly(s) ==
    /\ s \in listed
    /\ listed' = listed \ {s}
    /\ online' = online \ {s}
    /\ nTotal' = [nTotal EXCEPT ![s] = 0]
    /\ UNCHANGED cams

\* EraseRTPInfo drops a server with whatever it relays.
EraseRTPInfo(s) ==
    /\ s \in listed
    /\ listed' = listed \ {s}
    /\ online' = online \ {s}
    /\ nTotal' = [nTotal EXCEPT ![s] = 0]
    /\ cams' = [e \in Entry |-> IF e \in OnServer(s) THEN NoCam ELSE cams[e]]

\* SetRTPServerStatus: the server answered a poll.
SetOnline(s) ==
    /\ s \in listed \ online
    /\ online' = online \cup {s}
    /\ UNCHANGED <<listed, nTotal, cams>>

\* CheckRTPStreamAction: no answer for eight seconds.
SetOffline(s) ==
    /\ s \in (listed \cap online) \ FileServer
    /\ online' = online \ {s}
    /\ UNCHANGED <<listed, nTotal, cams>>

\* GetPracticableRTPServer, first scan: share the running live stream.
JoinStream(c, cam, e) ==
    /\ e \in Forwarding(cam)
    /\ nTotal' = [nTotal EXCEPT ![cams[e].server] = @ + 1]
    /\ cams' = [cams EXCEPT ![e] = Sending(@, @.nTranmit + 1, Append(@.invites, c))]
    /\ UNCHANGED <<listed, online>>

\* Mutant: the second scan does not depend on the first.
PlaceStreamAlways(c, cam, type, s, e) ==
    /\ s \in LeastLoaded
    /\ e \in Entry \ Live
    /\ nTotal' = [nTotal EXCEPT ![s] = @ + 1]
    /\ cams' = [cams EXCEPT ![e] = [server |-> s, camera |-> cam, type |-> type,
                                    nTranmit |-> 1, invites |-> <<c>>]]
    /\ UNCHANGED <<listed, online>>

\* GetPracticableRTPServer, second scan: a new stream on the least loaded
\* server.
PlaceStream(c, cam, type, s, e) ==
    /\ type = "play" => Forwarding(cam) = {}
    /\ s \in LeastLoaded
    /\ e \in Entry \ Live
    /\ nTotal' = [nTotal EXCEPT ![s] = @ + 1]
    /\ cams' = [cams EXCEPT ![e] = [server |-> s, camera |-> cam, type |-> type,
                                    nTranmit |-> 1, invites |-> <<c>>]]
    /\ UNCHANGED <<listed, online>>

\* Mutant: a deleted stream counts as one call.
DeleteStreamOne(e, c, deleteCamera) ==
    /\ Holds(e, c)
    /\ cams[e].nTranmit <= 1 \/ deleteCamera
    /\ nTotal' = [nTotal EXCEPT ![cams[e].server] = @ - 1]
    /\ cams' = [cams EXCEPT ![e] = NoCam]
    /\ UNCHANGED <<listed, online>>

\* ReduceRTPTotal deleting the whole CameraToRTP of call c.
DeleteStream(e, c, deleteCamera) ==
    LET left == nTotal[cams[e].server] - cams[e].nTranmit
    IN  /\ Holds(e, c)
        /\ cams[e].nTranmit <= 1 \/ deleteCamera
        /\ nTotal' = [nTotal EXCEPT ![cams[e].server] = IF left < 0 THEN 0 ELSE left]
        /\ cams' = [cams EXCEPT ![e] = NoCam]
        /\ UNCHANGED <<listed, online>>

\* Mutant: the leg stays in the list.
DeleteLegKept(e, c) ==
    /\ Holds(e, c)
    /\ cams[e].nTranmit > 1
    /\ nTotal' = [nTotal EXCEPT ![cams[e].server] = @ - 1]
    /\ cams' = [cams EXCEPT ![e] = Sending(@, @.nTranmit - 1, @.invites)]
    /\ UNCHANGED <<listed, online>>

\* ReduceRTPTotal deleting only the leg of call c.
DeleteLeg(e, c) ==
    /\ Holds(e, c)
    /\ cams[e].nTranmit > 1
    /\ nTotal' = [nTotal EXCEPT ![cams[e].server] = @ - 1]
    /\ \E i \in 1 .. Len(cams[e].invites) :
          /\ cams[e].invites[i] = c
          /\ \A j \in 1 .. (i - 1) : cams[e].invites[j] # c
          /\ cams' = [cams EXCEPT ![e] =
                         Sending(@, @.nTranmit - 1, RemoveAt(@.invites, i))]
    /\ UNCHANGED <<listed, online>>

\* Mutant: a Call-ID that is in the table already gets a second place.
GetPracticableRTPServerAgain(c) ==
    \E cam \in Camera, type \in InviteType :
        \/ type = "play" /\ \E e \in Forwarding(cam) : JoinStream(c, cam, e)
        \/ \E s \in LeastLoaded, e \in Entry : PlaceStream(c, cam, type, s, e)

\* InviteMsgRecv calls GetPracticableRTPServer only for a Call-ID that
\* GetAnswerType does not find.
GetPracticableRTPServer(c) ==
    /\ ~ InTable(c)
    /\ \E cam \in Camera, type \in InviteType :
          \/ type = "play" /\ \E e \in Forwarding(cam) : JoinStream(c, cam, e)
          \/ \E s \in LeastLoaded, e \in Entry : PlaceStream(c, cam, type, s, e)

\* The deletion flag comes from the handler: TRUE after a failure answer or a
\* BYE of the receiving leg, FALSE otherwise.
ReduceRTPTotal(c) ==
    \E e \in Live :
        \/ \E deleteCamera \in BOOLEAN : DeleteStream(e, c, deleteCamera)
        \/ DeleteLeg(e, c)

TableNext ==
    \/ \E s \in Server : InsertRTPInfo(s)
    \/ \E s \in Server : EraseRTPInfo(s)
    \/ \E s \in Server : SetOnline(s)
    \/ \E s \in Server : SetOffline(s)
    \/ \E c \in Call : GetPracticableRTPServer(c)
    \/ \E c \in Call : ReduceRTPTotal(c)

TableSpec == TableInit /\ [][TableNext]_tableVars

(***************************************************************************)
(* Correctness.                                                            *)
(***************************************************************************)

\* Types: every stream is on a listed server and its counter is an integer.
TableTypeOK ==
    /\ listed \subseteq Server
    /\ online \subseteq listed
    /\ nTotal \in [Server -> Int]
    /\ cams \in [Entry -> CamRec \cup {NoCam}]
    /\ \A e \in Live : cams[e].server \in listed \ FileServer

\* The legs a server relays, as pairs of a stream and a position in it.
Legs(s) == UNION {{e} \X (1 .. Len(cams[e].invites)) : e \in OnServer(s)}

\* nTranmit is the number of calls of the stream, which is never empty: the
\* branches for an empty list in GetPracticableRTPServer, GetAnswerType and
\* GetPlayInfoByID are never taken.
NTranmitExact ==
    \A e \in Live : /\ cams[e].nTranmit = Len(cams[e].invites)
                    /\ cams[e].nTranmit >= 1

\* nTotal, on which placement relies, is the number of legs that the server
\* really relays, whatever sequence of placements, joins, single and whole
\* deletions and reloads led here (the clamp at zero never acts).
NTotalExact == \A s \in Server : nTotal[s] = Cardinality(Legs(s))

\* The two counters of the table.
CountersExact == NTranmitExact /\ NTotalExact

\* A call has one leg in the whole table, so a message with its Call-ID is
\* routed to one stream and deleting the leg ends the call.
OneLegPerCall ==
    \A e, f \in Live :
        \A i \in 1 .. Len(cams[e].invites), j \in 1 .. Len(cams[f].invites) :
            cams[e].invites[i] = cams[f].invites[j] => e = f /\ i = j

\* A server is asked for the live stream of a camera once, however often
\* servers go offline and return with their old streams.
OneLiveStreamPerServer ==
    \A e, f \in Live :
        /\ cams[e].type = "play"
        /\ cams[f].type = "play"
        /\ cams[e].camera = cams[f].camera
        /\ cams[e].server = cams[f].server
        => e = f
==============================================================================

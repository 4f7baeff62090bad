------------------------------- MODULE CallFlow -------------------------------
(***************************************************************************)
(* The back-to-back call handling of SIPServer over the table of           *)
(* StreamTable.  One client call drives up to four SIP dialogs:            *)
(*                                                                         *)
(*   1  the client's INVITE                                                *)
(*   2  the media server is asked to receive the camera's stream           *)
(*   3  the camera is asked to send it                                     *)
(*   4  the media server is asked to send it on to the client              *)
(*                                                                         *)
(* The calls of one camera share dialogs 2 and 3; a call that joins goes   *)
(* straight to dialog 4.  The handlers of INVITE, its answers, ACK, CANCEL *)
(* and BYE run in IO threads one at a time (m_csLock): the "worker".  The  *)
(* handler of MediaStatus and the thread that drops the calls of a silent  *)
(* media server do not take that lock: "media" and "sweeper".  A handler   *)
(* first copies what it needs out of the table (GetAnswerType, GetPlayInfo) *)
(* and later acts on the copy; the others may act in between.              *)
(*                                                                         *)
(* The server's messages accumulate in `sent'; a peer may answer a request *)
(* any time after it was sent, in any order, more than once, or never.     *)
(***************************************************************************)
EXTENDS StreamTable

CONSTANTS
    CamOf,       \* the camera each call asks for
    TypeOf,      \* and whether it plays it live, plays back or downloads
    Monitor,     \* calls whose stream goes to a decoder channel
    SdkCamera,   \* cameras of nNetType >= 4, which the media server opens itself
    FaultSets,   \* the sets of faults that may happen together
    MaxInvite    \* bound on the Call-IDs made for one call or one stream

FaultKind == {"absent",    \* the camera is not known or not online
              "reject",    \* a peer refuses an INVITE
              "hangup",    \* the camera or dialog 4 of the media server says BYE
              "hangup2",   \* dialog 2 of the media server says BYE
              "mediaend",  \* the camera says that the media has ended
              "outage",    \* a media server stops answering its polls
              "withdraw",  \* the database takes a media server away, or adds one
              "repeat"}    \* an INVITE arrives again after its call has ended

ASSUME FlowAssumption ==
    /\ CamOf \in [Call -> Camera]
    /\ TypeOf \in [Call -> {"play", "playback", "download"}]
    /\ Monitor \subseteq Call
    /\ SdkCamera \subseteq Camera
    /\ FaultSets \subseteq SUBSET FaultKind
    /\ MaxInvite \in Nat \ {0}

VARIABLES
    born,     \* addresses `new CameraToRTP' has returned so far
    dialogs,  \* per stream: CallID2/Msg2, Answer2, CallID3/Msg3, Answer3
    legs,     \* per call: CallID4/Msg4, Answer4 (as the number of the Invite4)
    client,   \* what each client has done
    sent,     \* messages the server has sent
    said,     \* final replies its peers have given
    sweeping, \* the server the sweeper is clearing, if any
    faults,   \* the faults that may happen in this behaviour
    job       \* what each thread has copied and still has to do

flowVars == <<born, dialogs, legs, client, sent, said, sweeping, faults, job>>
vars == <<tableVars, flowVars>>

Thread == {"worker", "media", "sweeper"}

(***************************************************************************)
(* Dialogs and messages.  A stream's address is used once here, so it also *)
(* stands for the Call-ID of its dialog 2.                                 *)
(***************************************************************************)
Dialog1(c) == <<1, c>>
Dialog2(e) == <<2, e>>
Dialog3(e, k) == <<3, e, k>>
Dialog4(c, k) == <<4, c, k>>
Dialog5(c) == <<5, c>>

NoLeg == [call4 |-> 0, answer |-> 0, told |-> FALSE]

\* A leg after the INVITE k of dialog 4, and after its answer.
Inviting(l, k) == [call4 |-> k, answer |-> l.answer, told |-> l.told]
Answered(l, told) == [call4 |-> l.call4, answer |-> l.call4, told |-> l.told \/ told]

NoDialog == [msg2 |-> FALSE, answer2 |-> FALSE, call3 |-> 0, answer3 |-> FALSE]

Invited(d) == <<"invite", d>> \in sent

\* Mutant: the counter has gone round and picks a Call-ID of the call again.
FreshCall4Reused(c) == 1

\* xsip_get_CallIDNum, whose counter goes round after hundreds of millions: the
\* next unused Call-ID towards a camera, or towards the media server for a client.
FreshCall3(e) == 1 + Cardinality({k \in 1 .. MaxInvite : Invited(Dialog3(e, k))})
FreshCall4(c) == 1 + Cardinality({k \in 1 .. MaxInvite : Invited(Dialog4(c, k))})

\* A final reply of a peer: an accepted INVITE may be accepted again by a
\* retransmission, but is not rejected later, nor the other way round.
Reply(r, d) ==
    /\ Invited(d)
    /\ \A other \in {"ok", "reject"} \ {r} : <<other, d>> \notin said
    /\ said' = said \cup {<<r, d>>}

(***************************************************************************)
(* PlayInfo, the copy of one stream and one of its legs.                   *)
(***************************************************************************)
FirstCall(e) == Head(cams[e].invites)

PlayInfo(e, c) == [entry    |-> e,
                   call     |-> c,
                   nTranmit |-> cams[e].nTranmit,
                   msg2     |-> dialogs[e].msg2,
                   call3    |-> dialogs[e].call3,
                   answer3  |-> dialogs[e].answer3,
                   call4    |-> legs[c].call4]

\* GetAnswerType: a Call-ID of dialog 2 or 3 selects the stream's first leg.
StreamInfo(e) == PlayInfo(e, FirstCall(e))

\* Mutant: every Call-ID selects the first leg.
LegInfoFirst(c) == StreamInfo(StreamOf(c))

\* A Call-ID of dialog 1 or 4 selects its own leg.
LegInfo(c) == PlayInfo(StreamOf(c), c)

Knows2(e) == e \in Live /\ dialogs[e].msg2
Knows3(e, k) == e \in Live /\ dialogs[e].call3 = k
Knows4(c, k) == InTable(c) /\ legs[c].call4 = k

Idle == [step |-> "idle"]

IsIdle(t) == job[t].step = "idle"

Begin(t, step, info) == job' = [job EXCEPT ![t] = [step |-> step, info |-> info]]

Finish(t) == job' = [job EXCEPT ![t] = Idle]

(***************************************************************************)
(* InviteMsgRecv, the client's INVITE: first it finds the call a place in  *)
(* the table, then it records and sends the next INVITE.                   *)
(***************************************************************************)

\* A repeated INVITE of a call in the table gets 100, or its 200 again.
InviteRepeated(c) ==
    /\ IsIdle("worker")
    /\ client[c] = "invited"
    /\ InTable(c)
    /\ sent' = IF legs[c].told THEN sent \cup {<<"ok", c>>} ELSE sent
    /\ UNCHANGED <<tableVars, born, dialogs, legs, client, said, sweeping, faults, job>>

\* A client calls, or repeats what it did before it left.
Calls(c, state) ==
    client' = [client EXCEPT ![c] = IF @ = "gone" THEN @ ELSE state]

\* GetDeviceAddr finds no camera, or no decoder channel.
InviteRefused(c) ==
    /\ "absent" \in faults
    /\ sent' = sent \cup {<<"fail", c>>}
    /\ Calls(c, "invited")
    /\ UNCHANGED <<tableVars, born, dialogs, legs, job>>

\* GetPracticableRTPServer finds no server: the handler just returns, and the
\* client is left with its 100.
InviteDropped(c) ==
    /\ Practicable = {}
    /\ Calls(c, "trying")
    /\ UNCHANGED <<tableVars, born, dialogs, legs, sent, job>>

InviteJoins(c) ==
    /\ TypeOf[c] = "play"
    /\ \E e \in Forwarding(CamOf[c]) :
          /\ JoinStream(c, CamOf[c], e)
          /\ Begin("worker", "transmit", [entry |-> e, call |-> c])
    /\ legs' = [legs EXCEPT ![c] = NoLeg]
    /\ Calls(c, "invited")
    /\ UNCHANGED <<born, dialogs, sent>>

InvitePlaced(c) ==
    \E s \in LeastLoaded, e \in Entry \ born :
        /\ PlaceStream(c, CamOf[c], TypeOf[c], s, e)
        /\ born' = born \cup {e}
        /\ dialogs' = [dialogs EXCEPT ![e] = NoDialog]
        /\ legs' = [legs EXCEPT ![c] = NoLeg]
        /\ Begin("worker", "request", [entry |-> e, call |-> c])
        /\ Calls(c, "invited")
        /\ UNCHANGED sent

InviteMsgRecv(c) ==
    /\ IsIdle("worker")
    /\ \/ client[c] = "idle"
       \/ /\ "repeat" \in faults
          /\ FreshCall4(c) < MaxInvite
    /\ ~ InTable(c)
    /\ InviteRefused(c) \/ InviteDropped(c) \/ InviteJoins(c) \/ InvitePlaced(c)
    /\ UNCHANGED <<said, sweeping, faults>>

\* PushRTPInfo and the INVITE, sent whether or not PushRTPInfo found the call:
\* Invite4 to a server that already has the stream or opens the camera itself,
\* Invite2 to a server that has yet to receive the stream.
InviteSend ==
    /\ job["worker"].step \in {"transmit", "request"}
    /\ LET e == job["worker"].info.entry
           c == job["worker"].info.call
           k == FreshCall4(c)
           direct == job["worker"].step = "transmit" \/ CamOf[c] \in SdkCamera
       IN  /\ k <= MaxInvite
           /\ legs' = IF direct /\ InTable(c)
                        THEN [legs EXCEPT ![c] = Inviting(@, k)]
                        ELSE legs
           /\ dialogs' = IF ~ direct /\ InTable(c)
                           THEN [dialogs EXCEPT ![e].msg2 = TRUE]
                           ELSE dialogs
           /\ sent' = sent \cup {<<"invite", IF direct THEN Dialog4(c, k) ELSE Dialog2(e)>>}
    /\ Finish("worker")
    /\ UNCHANGED <<tableVars, born, client, said, sweeping, faults>>

(***************************************************************************)
(* InviteAnswerRecv, the 200 of an INVITE the server sent: the handler     *)
(* copies the stream or leg of its Call-ID, drops what it does not know or *)
(* has seen, and goes on from the copy.                                    *)
(***************************************************************************)
Received == UNCHANGED <<tableVars, born, dialogs, legs, client, sent, sweeping, faults>>

\* Mutant: a repeated answer is not recognised.
InviteAnswer2Again(e) ==
    /\ IsIdle("worker")
    /\ Reply("ok", Dialog2(e))
    /\ IF Knows2(e) THEN Begin("worker", "answer2", StreamInfo(e)) ELSE UNCHANGED job
    /\ Received

InviteAnswer2(e) ==
    /\ IsIdle("worker")
    /\ Reply("ok", Dialog2(e))
    /\ IF Knows2(e) /\ ~ dialogs[e].answer2
         THEN Begin("worker", "answer2", StreamInfo(e))
         ELSE UNCHANGED job
    /\ Received

\* The camera's repeated answer is acknowledged again.
InviteAnswer3(e, k) ==
    /\ IsIdle("worker")
    /\ Reply("ok", Dialog3(e, k))
    /\ IF Knows3(e, k) /\ ~ dialogs[e].answer3
         THEN Begin("worker", "answer3", StreamInfo(e))
         ELSE UNCHANGED job
    /\ Received

InviteAnswer4(c, k) ==
    /\ IsIdle("worker")
    /\ Reply("ok", Dialog4(c, k))
    /\ IF Knows4(c, k) /\ legs[c].answer = 0
         THEN Begin("worker", "answer4", LegInfo(c))
         ELSE UNCHANGED job
    /\ Received

\* PushDecodeInfo records nothing, so the answer of a decoder finds no call.
InviteAnswer5(c) ==
    /\ IsIdle("worker")
    /\ Reply("ok", Dialog5(c))
    /\ UNCHANGED job
    /\ Received

\* Call-ID 3 is made and the camera is invited, known or not.
InviteCamera ==
    /\ job["worker"].step = "answer2"
    /\ LET e == job["worker"].info.entry
           k == FreshCall3(e)
       IN  /\ k <= MaxInvite
           /\ dialogs' = IF e \in Live
                           THEN [dialogs EXCEPT ![e].answer2 = TRUE, ![e].call3 = k]
                           ELSE dialogs
           /\ sent' = sent \cup {<<"invite", Dialog3(e, k)>>}
    /\ Finish("worker")
    /\ UNCHANGED <<tableVars, born, legs, client, said, sweeping, faults>>

\* PushCameraAnswer, then the ACKs of dialogs 3 and 2.
AckCamera ==
    /\ job["worker"].step = "answer3"
    /\ LET i == job["worker"].info
       IN  /\ dialogs' = IF Knows3(i.entry, i.call3)
                           THEN [dialogs EXCEPT ![i.entry].answer3 = TRUE]
                           ELSE dialogs
           /\ sent' = sent \cup {<<"ack", Dialog3(i.entry, i.call3)>>,
                                 <<"ack", Dialog2(i.entry)>>}
           /\ Begin("worker", "forward", i)
    /\ UNCHANGED <<tableVars, born, legs, client, said, sweeping, faults>>

\* Mutant: the new Call-ID is not recorded.
ForwardStreamUnrecorded ==
    /\ job["worker"].step = "forward"
    /\ LET c == job["worker"].info.call
       IN  sent' = sent \cup {<<"invite", Dialog4(c, FreshCall4(c))>>}
    /\ Finish("worker")
    /\ UNCHANGED <<tableVars, born, dialogs, legs, client, said, sweeping, faults>>

\* PushRTPSendInfo and Invite4 for the first call of the copy, or Invite5.
ForwardStream ==
    /\ job["worker"].step = "forward"
    /\ LET c == job["worker"].info.call
           k == FreshCall4(c)
       IN  IF c \in Monitor
             THEN /\ sent' = sent \cup {<<"invite", Dialog5(c)>>}
                  /\ UNCHANGED legs
             ELSE /\ k <= MaxInvite
                  /\ legs' = IF InTable(c)
                               THEN [legs EXCEPT ![c] = Inviting(@, k)]
                               ELSE legs
                  /\ sent' = sent \cup {<<"invite", Dialog4(c, k)>>}
    /\ Finish("worker")
    /\ UNCHANGED <<tableVars, born, dialogs, client, said, sweeping, faults>>

\* PushRTPSendAnswer, PushClientAnswer and the 200 of the client's INVITE.
AnswerClient ==
    /\ job["worker"].step = "answer4"
    /\ LET c == job["worker"].info.call
       IN  /\ legs' = IF InTable(c)
                        THEN [legs EXCEPT ![c] = Answered(@, c \notin Monitor)]
                        ELSE legs
           /\ sent' = IF c \in Monitor THEN sent ELSE sent \cup {<<"ok", c>>}
    /\ Finish("worker")
    /\ UNCHANGED <<tableVars, born, dialogs, client, said, sweeping, faults>>

\* InviteAckRecv: the ACK goes on to the media server in the dialog of its
\* answer.
InviteAckRecv(c) ==
    /\ IsIdle("worker")
    /\ client[c] = "invited"
    /\ <<"ok", c>> \in sent
    /\ InTable(c)
    /\ sent' = sent \cup {<<"ack", Dialog4(c, legs[c].answer)>>}
    /\ UNCHANGED <<tableVars, born, dialogs, legs, client, said, sweeping, faults, job>>

(***************************************************************************)
(* The ends of a call.  Each copies the stream and a leg and then calls    *)
(* ReduceRTPTotal and SendByeMsg.                                          *)
(***************************************************************************)
\* Mutant: one leg takes the whole stream with it.
ReduceWhole(c, deleteCamera) ==
    \/ ~ InTable(c) /\ UNCHANGED tableVars
    \/ \E e \in Live : DeleteStream(e, c, TRUE)

Reduce(c, deleteCamera) ==
    \/ ~ InTable(c) /\ UNCHANGED tableVars
    \/ \E e \in Live :
          \/ DeleteStream(e, c, deleteCamera)
          \/ ~ deleteCamera /\ DeleteLeg(e, c)

\* Mutant: CANCEL and BYE are swapped.
CameraByeSwapped(i) ==
    IF i.call3 = 0 THEN {}
    ELSE IF i.answer3 THEN {<<"cancel", Dialog3(i.entry, i.call3)>>}
    ELSE {<<"bye", Dialog3(i.entry, i.call3)>>}

\* The BYE or CANCEL of dialog 3.  After an Invite4 the code takes Answer3 for
\* granted; a BYE built from an empty answer belongs to no dialog.
CameraBye(i) ==
    IF i.call3 = 0 THEN {}
    ELSE IF i.answer3 THEN {<<"bye", Dialog3(i.entry, i.call3)>>}
    ELSE IF i.call4 # 0 THEN {<<"emptybye", i.entry>>}
    ELSE {<<"cancel", Dialog3(i.entry, i.call3)>>}

StreamBye(i) ==
    CameraBye(i) \cup {<<"bye", Dialog2(e)>> : e \in {f \in {i.entry} : i.msg2}}

\* Mutant: the stream is closed with any of its legs.
SendByeMsgAlways(i, fromClient, deleteCam) ==
    StreamBye(i)
    \cup (IF i.call4 # 0 THEN {<<"bye", Dialog4(i.call, i.call4)>>} ELSE {})
    \cup (IF fromClient THEN {} ELSE {<<"bye", Dialog1(i.call)>>})

SendByeMsg(i, fromClient, deleteCam) ==
    (IF i.nTranmit = 1 \/ deleteCam THEN StreamBye(i) ELSE {})
    \cup (IF i.call4 # 0 THEN {<<"bye", Dialog4(i.call, i.call4)>>} ELSE {})
    \cup (IF fromClient THEN {} ELSE {<<"bye", Dialog1(i.call)>>})

\* The ends of a call differ in the flags they pass: a failure answer deletes
\* the whole stream but says BYE as if one leg had ended; a BYE of dialog 2
\* does both for the stream; only a BYE of the client is not sent back to it.
Releases == {"failure", "cancel", "bye", "hangup", "hangup2", "sweep", "mediaend"}

Release(t) ==
    /\ job[t].step \in Releases
    /\ LET i == job[t].info
           step == job[t].step
       IN  /\ Reduce(i.call, step \in {"failure", "hangup2"})
           /\ sent' = sent \cup SendByeMsg(i, step = "bye", step = "hangup2")
                           \cup (IF step = "failure" THEN {<<"fail", i.call>>} ELSE {})
    /\ Finish(t)
    /\ UNCHANGED <<born, dialogs, legs, client, said, sweeping, faults>>

\* InviteFailure; the camera's failure answer serves as its answer.
InviteFailure ==
    /\ "reject" \in faults
    /\ IsIdle("worker")
    /\ \/ \E e \in Entry :
             /\ Reply("reject", Dialog2(e))
             /\ IF Knows2(e) THEN Begin("worker", "failure", StreamInfo(e))
                             ELSE UNCHANGED job
       \/ \E e \in Entry, k \in 1 .. MaxInvite :
             /\ Reply("reject", Dialog3(e, k))
             /\ IF Knows3(e, k)
                  THEN Begin("worker", "failure", [StreamInfo(e) EXCEPT !.answer3 = TRUE])
                  ELSE UNCHANGED job
       \/ \E c \in Call, k \in 1 .. MaxInvite :
             /\ Reply("reject", Dialog4(c, k))
             /\ IF Knows4(c, k) THEN Begin("worker", "failure", LegInfo(c))
                                ELSE UNCHANGED job
    /\ Received

\* Mutant: a client that was not answered yet is ignored.
ClientLeavesAnswered(c, step) ==
    /\ IsIdle("worker")
    /\ client[c] \in {"invited", "trying"}
    /\ client' = [client EXCEPT ![c] = "gone"]
    /\ IF InTable(c) /\ legs[c].told THEN Begin("worker", step, LegInfo(c)) ELSE UNCHANGED job
    /\ UNCHANGED <<tableVars, born, dialogs, legs, sent, said, sweeping, faults>>

\* The client leaves, by CANCEL or by BYE; of a call that is not in the table
\* the message is only answered.
ClientLeaves(c, step) ==
    /\ IsIdle("worker")
    /\ client[c] \in {"invited", "trying"}
    /\ client' = [client EXCEPT ![c] = "gone"]
    /\ IF InTable(c) THEN Begin("worker", step, LegInfo(c)) ELSE UNCHANGED job
    /\ UNCHANGED <<tableVars, born, dialogs, legs, sent, said, sweeping, faults>>

CancelMsgRecv(c) == ClientLeaves(c, "cancel")

ByeMsgRecv(c) == ClientLeaves(c, "bye")

\* ByeMsgRecv of a peer that had accepted the INVITE of the dialog.
PeerByeMsgRecv ==
    /\ IsIdle("worker")
    /\ \/ /\ "hangup" \in faults
          /\ \E c \in Call, k \in 1 .. MaxInvite :
                /\ <<"ok", Dialog4(c, k)>> \in said
                /\ Knows4(c, k)
                /\ Begin("worker", "hangup", LegInfo(c))
       \/ /\ "hangup" \in faults
          /\ \E e \in Entry, k \in 1 .. MaxInvite :
                /\ <<"ok", Dialog3(e, k)>> \in said
                /\ Knows3(e, k)
                /\ Begin("worker", "hangup", StreamInfo(e))
       \/ /\ "hangup2" \in faults
          /\ \E e \in Entry :
                /\ <<"ok", Dialog2(e)>> \in said
                /\ Knows2(e)
                /\ Begin("worker", "hangup2", StreamInfo(e))
    /\ UNCHANGED said
    /\ Received

\* ReplayMediaStatusRecv, in an IO thread that does not hold m_csLock.
ReplayMediaStatusRecv(e, k) ==
    /\ "mediaend" \in faults
    /\ IsIdle("media")
    /\ <<"ok", Dialog3(e, k)>> \in said
    /\ Knows3(e, k)
    /\ Begin("media", "mediaend", StreamInfo(e))
    /\ UNCHANGED said
    /\ Received

(***************************************************************************)
(* CheckRTPStreamThread and ReadDBThread: media servers come and go.       *)
(***************************************************************************)
CheckRTPStreamAction(s) ==
    /\ "outage" \in faults
    /\ sweeping = {}
    /\ SetOffline(s)
    /\ sweeping' = {s}
    /\ UNCHANGED <<born, dialogs, legs, client, sent, said, faults, job>>

\* GetPlayInfo: the first leg of any stream of the silent server, until none
\* is left.
SweepNext ==
    /\ IsIdle("sweeper")
    /\ \E s \in sweeping :
          IF OnServer(s) = {}
            THEN /\ sweeping' = {}
                 /\ UNCHANGED job
            ELSE /\ \E e \in OnServer(s) : Begin("sweeper", "sweep", StreamInfo(e))
                 /\ UNCHANGED sweeping
    /\ UNCHANGED <<tableVars, born, dialogs, legs, client, sent, said, faults>>

SetRTPServerStatus(s) ==
    /\ "outage" \in faults
    /\ SetOnline(s)
    /\ UNCHANGED flowVars

GetRTPStreamInfo(s) ==
    /\ "withdraw" \in faults
    /\ InsertRTPInfo(s) \/ EraseRTPInfo(s)
    /\ UNCHANGED flowVars

(***************************************************************************)
(* The system.  ReadDBThread has loaded the servers and each has answered a *)
(* poll.                                                                   *)
(***************************************************************************)
Init ==
    /\ listed = Server
    /\ online = Server
    /\ nTotal = [s \in Server |-> 0]
    /\ cams = [e \in Entry |-> NoCam]
    /\ born = {}
    /\ dialogs = [e \in Entry |-> NoDialog]
    /\ legs = [c \in Call |-> NoLeg]
    /\ client = [c \in Call |-> "idle"]
    /\ sent = {}
    /\ said = {}
    /\ sweeping = {}
    /\ faults \in FaultSets
    /\ job = [t \in Thread |-> Idle]

\* The rest of a handler that has begun.
Continue ==
    \/ InviteSend
    \/ InviteCamera
    \/ AckCamera
    \/ ForwardStream
    \/ AnswerClient
    \/ \E t \in Thread : Release(t)

Next ==
    \/ Continue
    \/ \E c \in Call : InviteMsgRecv(c)
    \/ \E c \in Call : InviteRepeated(c)
    \/ \E e \in Entry : InviteAnswer2(e)
    \/ \E e \in Entry, k \in 1 .. MaxInvite : InviteAnswer3(e, k)
    \/ \E c \in Call, k \in 1 .. MaxInvite : InviteAnswer4(c, k)
    \/ \E c \in Call : InviteAnswer5(c)
    \/ \E c \in Call : InviteAckRecv(c)
    \/ InviteFailure
    \/ \E c \in Call : CancelMsgRecv(c)
    \/ \E c \in Call : ByeMsgRecv(c)
    \/ PeerByeMsgRecv
    \/ \E e \in Entry, k \in 1 .. MaxInvite : ReplayMediaStatusRecv(e, k)
    \/ \E s \in Server : CheckRTPStreamAction(s)
    \/ SweepNext
    \/ \E s \in Server : SetRTPServerStatus(s)
    \/ \E s \in Server : GetRTPStreamInfo(s)

Spec == Init /\ [][Next]_vars

(***************************************************************************)
(* Correctness under every fault.                                          *)
(***************************************************************************)

LegRec == [call4  : 0 .. MaxInvite,
           answer : 0 .. MaxInvite,
           told   : BOOLEAN]

\* Types; a stream in the table, and one a thread works on, has been made.
FlowTypeOK ==
    /\ TableTypeOK
    /\ Live \subseteq born
    /\ born \subseteq Entry
    /\ dialogs \in [Entry -> [msg2 : BOOLEAN, answer2 : BOOLEAN,
                              call3 : 0 .. MaxInvite, answer3 : BOOLEAN]]
    /\ legs \in [Call -> LegRec]
    /\ client \in [Call -> {"idle", "invited", "trying", "gone"}]
    /\ sweeping \subseteq Server
    /\ \A t \in Thread : IsIdle(t) \/ job[t].info.entry \in born

\* A media server that has stopped answering relays nothing once the sweeper is
\* done with it: the loop of CheckRTPStreamAction misses no call, although it
\* works from copies and the worker joins, places and ends calls beside it, and
\* none is placed there until the server answers again.
SilentServerEmptied ==
    \A s \in listed \ online : s \in sweeping \/ OnServer(s) = {}

\* The media server has accepted an Invite4 made for the call.
Accepted(c) == \E k \in 1 .. MaxInvite : <<"ok", Dialog4(c, k)>> \in said

\* A client is only told 200 when the media server has accepted an Invite4
\* made for its own call, whoever shares the stream and whoever left it.
OkMeansOwnStream == \A c \in Call : <<"ok", c>> \in sent => Accepted(c)

\* A camera is invited once for a stream, and never before the media server
\* has accepted to receive it, although answers repeat and calls join and
\* leave meanwhile.
OneCameraSession ==
    \A e \in Entry :
        /\ Cardinality({k \in 1 .. MaxInvite : Invited(Dialog3(e, k))}) <= 1
        /\ \A k \in 1 .. MaxInvite :
              Invited(Dialog3(e, k)) => <<"ok", Dialog2(e)>> \in said

\* A peer was asked and has yet to reply.
Pending(d) == Invited(d) /\ <<"ok", d>> \notin said /\ <<"reject", d>> \notin said

AwaitsServer(c) ==
    legs[c].call4 # 0 /\ legs[c].answer = 0 /\ Pending(Dialog4(c, legs[c].call4))

AwaitsCamera(c, e) ==
    /\ FirstCall(e) = c
    /\ legs[c].call4 = 0
    /\ \/ dialogs[e].msg2 /\ ~ dialogs[e].answer2 /\ Pending(Dialog2(e))
       \/ dialogs[e].call3 # 0 /\ ~ dialogs[e].answer3 /\ Pending(Dialog3(e, dialogs[e].call3))

\* A call in the table that was not answered always has its next move: the
\* worker is at it, or a reply is to come that will be known for it, whoever
\* has taken what out of the stream or its answers meanwhile.
ChainUnbroken ==
    \A c \in Call \ Monitor : \A e \in Live : Holds(e, c) =>
        \/ legs[c].told
        \/ ~ IsIdle("worker") /\ job["worker"].info.call = c
        \/ AwaitsServer(c)
        \/ AwaitsCamera(c, e)

(***************************************************************************)
(* Correctness while calls end one by one: clients leave at any time, the  *)
(* camera and the media server hang up.                                    *)
(***************************************************************************)

\* Told that its call is over.
ToldOver(c) == <<"fail", c>> \in sent \/ <<"bye", Dialog1(c)>> \in sent

Quiet == \A t \in Thread : IsIdle(t)

\* A stream has left the table, with every thread done.
Ended(e) == e \in born \ Live /\ Quiet

\* The handlers of one call never contradict themselves: a client that was
\* told its call is over is not told 200 by an answer that comes later.
NoAnswerAfterEnd ==
    [][\A c \in Call : ToldOver(c) /\ <<"ok", c>> \in sent' => <<"ok", c>> \in sent]_vars

\* Whoever leaves, the camera session and the receiving leg of a stream that
\* still has calls are not closed.
SharedStreamKept ==
    \A e \in Live : \A k \in 1 .. MaxInvite :
        /\ <<"bye", Dialog2(e)>> \notin sent
        /\ <<"bye", Dialog3(e, k)>> \notin sent
        /\ <<"cancel", Dialog3(e, k)>> \notin sent

\* When its last call has left, the receiving leg of a stream is closed, and so
\* is its camera session, if the server has had the camera's answer.
CameraReleased ==
    \A e \in Entry : Ended(e) =>
        /\ dialogs[e].msg2 => <<"bye", Dialog2(e)>> \in sent
        /\ dialogs[e].answer3 => <<"bye", Dialog3(e, dialogs[e].call3)>> \in sent

\* The media server is told to stop sending to a call that is over.
LastInvite4Closed ==
    \A c \in Call : Quiet /\ ~ InTable(c) /\ legs[c].call4 # 0 =>
        <<"bye", Dialog4(c, legs[c].call4)>> \in sent

\* Faults that end calls one by one.
OneByOne == {"absent", "hangup", "mediaend", "outage"}

\* Everything that was opened for a call that is over is closed.
NothingLeftOpen == CameraReleased /\ LastInvite4Closed

\* A call is not dropped behind the back of its client, even when the sweeper
\* and the media thread end calls beside the worker.
EveryEndTold ==
    faults \subseteq OneByOne =>
        \A c \in Call :
            Quiet /\ client[c] = "invited" /\ ~ InTable(c) => ToldOver(c)

(***************************************************************************)
(* Progress.  IO threads run, and the media server and the camera answer   *)
(* what they are asked.  A handler waits for nothing but m_csLock, which   *)
(* every handler releases, so weak fairness of its steps is justified; the *)
(* answers of the peers are an assumption about the peers.                 *)
(***************************************************************************)
Cooperation ==
    /\ \A e \in Entry : WF_vars(InviteAnswer2(e))
    /\ \A e \in Entry, k \in 1 .. MaxInvite : WF_vars(InviteAnswer3(e, k))
    /\ \A c \in Call, k \in 1 .. MaxInvite : WF_vars(InviteAnswer4(c, k))

FairSpec == Spec /\ WF_vars(Continue) /\ Cooperation

\* A client that asks to play gets 200 or is told that its call is over,
\* unless it leaves itself: no order of answers, joins, leaves and hang-ups
\* makes the chain of INVITEs stop half way.  A decoder's chain does stop, since
\* its Call-ID is not recorded.
CallConcludes ==
    \A c \in Call \ Monitor : client[c] \in {"invited", "trying"} ~>
        (<<"ok", c>> \in sent \/ ToldOver(c) \/ client[c] = "gone")

\* After a client has left, the media server stops sending to it and its place
\* in the table is free.
LeaverReleased ==
    \A c \in Call : client[c] = "gone" ~>
        /\ ~ InTable(c)
        /\ legs[c].call4 # 0 => <<"bye", Dialog4(c, legs[c].call4)>> \in sent

(***************************************************************************)
(* What a comment of the source says.                                      *)
(***************************************************************************)

\* SendByeMsg: once an Invite4 has been sent, the session with the camera is
\* complete, so the BYE made from its answer ends it.
Invite4MeansCameraAnswered == \A e \in Entry : <<"emptybye", e>> \notin sent
==============================================================================

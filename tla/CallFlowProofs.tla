--------------------------- MODULE CallFlowProofs ---------------------------
(***************************************************************************)
(* The call handling changes the table of media servers only by the        *)
(* operations of StreamTable, for any number of calls, cameras, servers    *)
(* and streams, under every fault and every interleaving of the worker,    *)
(* the media thread and the sweeper.  The invariants proved of StreamTable *)
(* therefore hold of the whole, and so does its refinement.  Of the        *)
(* handlers themselves: a client is told 200 for its own stream only, a    *)
(* camera is invited once, the types; no call ends unnoticed by its        *)
(* client, whoever ends it; while the worker is alone, what calls share is *)
(* kept for the last of them and closed with it; nothing is answered after *)
(* its end as long as only the worker ends calls; only a call that joins   *)
(* early makes a BYE without the answer it needs; and a call not answered  *)
(* yet always has a reply to come, or the worker at it.                    *)
(***************************************************************************)
EXTENDS CallFlow, StreamTableProofs

LEMMA ReduceSteps ==
    ASSUME TableTypeOK, NEW c, NEW d \in BOOLEAN, Reduce(c, d)
    PROVE  [TableNext]_tableVars
<1>1. CASE UNCHANGED tableVars
  BY <1>1
<1>2. ASSUME NEW e \in Live, DeleteStream(e, c, d) \/ DeleteLeg(e, c)
      PROVE  TableNext
  <2>1. cams[e] \in CamRec
    BY LiveFacts
  <2>2. Holds(e, c)
    BY <1>2 DEF DeleteStream, DeleteLeg
  <2>3. c \in Call
    BY <2>1, <2>2 DEF Holds, ToSet, CamRec
  <2>4. ReduceRTPTotal(c)
    BY <1>2 DEF ReduceRTPTotal
  <2> QED
    BY <2>3, <2>4 DEF TableNext
<1> QED
  BY <1>1, <1>2 DEF Reduce

LEMMA InvitePlaces ==
    ASSUME NEW c \in Call, InviteMsgRecv(c)
    PROVE  GetPracticableRTPServer(c) \/ UNCHANGED tableVars
<1>1. CASE InviteRefused(c) \/ InviteDropped(c)
  BY <1>1 DEF InviteRefused, InviteDropped
<1>2. CASE InviteJoins(c) \/ InvitePlaced(c)
  <2>1. CamOf[c] \in Camera /\ TypeOf[c] \in InviteType
    BY FlowAssumption DEF InviteType
  <2>2. ~ InTable(c)
    BY DEF InviteMsgRecv
  <2>3. GetPracticableRTPServer(c)
    <3>1. CASE InviteJoins(c)
      <4>1. PICK e \in Forwarding(CamOf[c]) : JoinStream(c, CamOf[c], e)
        BY <3>1 DEF InviteJoins
      <4> QED
        BY <4>1, <2>1, <2>2, <3>1 DEF GetPracticableRTPServer, InviteJoins
    <3>2. CASE InvitePlaced(c)
      <4>1. PICK s \in LeastLoaded, e \in Entry \ born :
                    PlaceStream(c, CamOf[c], TypeOf[c], s, e)
        BY <3>2 DEF InvitePlaced
      <4> QED
        BY <4>1, <2>1, <2>2 DEF GetPracticableRTPServer
    <3> QED
      BY <1>2, <3>1, <3>2
  <2> QED
    BY <2>3
<1> QED
  BY <1>1, <1>2 DEF InviteMsgRecv

\* Every step of the call handling is a step of the table or leaves it alone.
LEMMA NextSteps ==
    ASSUME TableTypeOK, [Next]_vars
    PROVE  [TableNext]_tableVars
<1>1. CASE UNCHANGED vars
  BY <1>1 DEF vars
<1>2. CASE InviteSend \/ InviteCamera \/ AckCamera \/ ForwardStream \/ AnswerClient
  BY <1>2 DEF InviteSend, InviteCamera, AckCamera, ForwardStream, AnswerClient
<1>3. ASSUME NEW t \in Thread, Release(t)
      PROVE  [TableNext]_tableVars
  <2> DEFINE d == job[t].step \in {"failure", "hangup2"}
  <2>1. Reduce(job[t].info.call, d)
    BY <1>3, Zenon DEF Release
  <2>2. d \in BOOLEAN
    OBVIOUS
  <2> QED
    BY <2>1, <2>2, ReduceSteps
<1>4. ASSUME NEW c \in Call, InviteMsgRecv(c)
      PROVE  [TableNext]_tableVars
  BY <1>4, InvitePlaces DEF TableNext
<1>5. ASSUME NEW c \in Call, \/ InviteRepeated(c) \/ InviteAckRecv(c)
                             \/ CancelMsgRecv(c) \/ ByeMsgRecv(c)
      PROVE  [TableNext]_tableVars
  BY <1>5 DEF InviteRepeated, InviteAckRecv, CancelMsgRecv, ByeMsgRecv, ClientLeaves
<1>6. ASSUME NEW e \in Entry, InviteAnswer2(e)
      PROVE  [TableNext]_tableVars
  BY <1>6 DEF InviteAnswer2, Received
<1>7. ASSUME NEW e \in Entry, NEW k \in 1 .. MaxInvite,
             InviteAnswer3(e, k) \/ ReplayMediaStatusRecv(e, k)
      PROVE  [TableNext]_tableVars
  BY <1>7 DEF InviteAnswer3, ReplayMediaStatusRecv, Received
<1>8. ASSUME NEW c \in Call, InviteAnswer5(c) \/ (\E k \in 1 .. MaxInvite : InviteAnswer4(c, k))
      PROVE  [TableNext]_tableVars
  BY <1>8 DEF InviteAnswer4, InviteAnswer5, Received
<1>9. CASE InviteFailure \/ PeerByeMsgRecv \/ SweepNext
  BY <1>9 DEF InviteFailure, PeerByeMsgRecv, SweepNext, Received
<1>10. ASSUME NEW s \in Server,
              \/ CheckRTPStreamAction(s) \/ SetRTPServerStatus(s) \/ GetRTPStreamInfo(s)
       PROVE  [TableNext]_tableVars
  BY <1>10 DEF CheckRTPStreamAction, SetRTPServerStatus, GetRTPStreamInfo, TableNext
<1> QED
  BY <1>1, <1>2, <1>3, <1>4, <1>5, <1>6, <1>7, <1>8, <1>9, <1>10 DEF Next, Continue

(***************************************************************************)
(* The table within the call handling.                                     *)
(***************************************************************************)
TableInv == TableTypeOK /\ NTranmitExact

LEMMA InitTable == Init => /\ TableInv
                           /\ LegsCounted
                           /\ OneLegPerCall
                           /\ OneLiveStreamPerServer
<1> SUFFICES ASSUME Init
             PROVE  TableInv /\ LegsCounted /\ OneLegPerCall /\ OneLiveStreamPerServer
  OBVIOUS
<1>1. Live = {}
  BY DEF Init, Live
<1>2. TableInv /\ OneLegPerCall /\ OneLiveStreamPerServer
  BY <1>1 DEF Init, TableInv, TableTypeOK, NTranmitExact, OneLegPerCall,
              OneLiveStreamPerServer
<1>3. ASSUME NEW s \in Server
      PROVE  IsFiniteSet(Legs(s)) /\ nTotal[s] = Cardinality(Legs(s))
  <2>1. Legs(s) = {}
    BY <1>1, LegsMember
  <2> QED
    BY <2>1, FS_EmptySet DEF Init
<1> QED
  BY <1>2, <1>3 DEF LegsCounted

\* The worker, the media thread and the sweeper change the table only by its
\* operations, whatever stale copy they work from.
LEMMA CallsKeepToTable == Spec => [][TableNext]_tableVars
<1>1. TableInv /\ [Next]_vars => [TableNext]_tableVars
  BY NextSteps DEF TableInv
<1>2. TableInv /\ [TableNext]_tableVars => TableInv'
  BY StepType DEF TableInv
<1> QED
  BY <1>1, <1>2, InitTable, PTL DEF Spec

\* So the counters stay exact, a call has one leg and a camera one live stream
\* per server under every interleaving of the threads.
THEOREM CallTableCorrect ==
    Spec => [](NTranmitExact /\ NTotalExact /\ OneLegPerCall /\ OneLiveStreamPerServer)
<1> DEFINE Inv == TableInv /\ LegsCounted /\ OneLegPerCall /\ OneLiveStreamPerServer
<1>1. Init => Inv
  BY InitTable
<1>2. Inv /\ [Next]_vars => Inv'
  <2> SUFFICES ASSUME Inv, [Next]_vars PROVE Inv'
    OBVIOUS
  <2>1. [TableNext]_tableVars
    BY NextSteps DEF TableInv
  <2> QED
    BY <2>1, StepType, StepCounted, StepOneLeg, StepOneStream DEF TableInv
<1>3. Inv => NTranmitExact /\ NTotalExact /\ OneLegPerCall /\ OneLiveStreamPerServer
  BY DEF TableInv, LegsCounted, NTotalExact
<1> QED
  BY <1>1, <1>2, <1>3, PTL DEF Spec

\* The servers are up when the calls begin.
LEMMA InitRunning == Init => Abstract!Running
<1> SUFFICES ASSUME Init PROVE Abstract!Running
  OBVIOUS
<1>1. Practicable \in SUBSET Server
  BY DEF Init, Practicable
<1>2. \A c : ~ InTable(c)
  BY DEF Init, InTable, Live
<1>3. Placement = [c \in Call |-> NoPlace]
  BY <1>2 DEF Placement
<1> QED
  BY <1>1, <1>3 DEF Abstract!Running

\* Under every fault, the handlers and the threads beside them place, release
\* and withdraw calls as StreamPlacement promises, from the loads there are.
THEOREM CallsArePlacedAsPromised == Spec => ImplementsRunning
<1>1. Init => PlaceInv
  BY InitTable DEF TableInv, PlaceInv
<1>2. PlaceInv /\ [Next]_vars => PlaceInv' /\ [Abstract!Next]_<<Practicable, Placement>>
  <2> SUFFICES ASSUME PlaceInv, [Next]_vars
               PROVE  PlaceInv' /\ [Abstract!Next]_<<Practicable, Placement>>
    OBVIOUS
  <2>1. [TableNext]_tableVars
    BY NextSteps DEF PlaceInv
  <2>2. PlaceInv'
    BY <2>1, StepPlaceInv
  <2> QED
    BY <2>1, <2>2, TableStepsPlace
<1> QED
  BY <1>1, <1>2, InitRunning, PTL DEF Spec, ImplementsRunning, Abstract!RunningSpec

(***************************************************************************)
(* SilentServerEmptied.  One server is swept at a time, and the sweeper is *)
(* only done when it finds no stream of it.                                *)
(***************************************************************************)
SilentInv ==
    /\ TableInv
    /\ \A s, t \in sweeping : s = t
    /\ SilentServerEmptied

\* What the worker and the database do to the streams of a silent server.
LEMMA SilentKept ==
    ASSUME TableTypeOK, NEW s \in listed' \ online',
           s \in listed \ online => OnServer(s) = {},
           \/ \E t \in Server : InsertRTPInfo(t) \/ EraseRTPInfo(t) \/ SetOnline(t)
           \/ \E c \in Call : GetPracticableRTPServer(c)
    PROVE  OnServer(s)' = {}
<1>1. \A e \in Live : cams[e].server \in listed
  BY DEF TableTypeOK
<1>2. ASSUME NEW t \in Server, InsertRTPInfo(t)
      PROVE  OnServer(s)' = {}
  <2>1. cams' = cams /\ online' = online
    BY <1>2 DEF InsertRTPInfo
  <2>2. OnServer(s) = {}
    <3>1. CASE s \in listed
      BY <2>1, <3>1
    <3>2. CASE s \notin listed
      BY <1>1, <3>2 DEF OnServer
    <3> QED
      BY <3>1, <3>2
  <2> QED
    BY <2>1, <2>2 DEF OnServer, Live
<1>3. ASSUME NEW t \in Server, EraseRTPInfo(t)
      PROVE  OnServer(s)' = {}
  <2>1. s # t /\ s \in listed \ online
    BY <1>3 DEF EraseRTPInfo
  <2>2. \A e \in Entry : cams'[e] # NoCam => cams'[e] = cams[e]
    BY <1>3 DEF EraseRTPInfo
  <2>3. OnServer(s)' \subseteq OnServer(s)
    BY <2>2 DEF OnServer, Live
  <2> QED
    BY <2>1, <2>3
<1>4. ASSUME NEW t \in Server, SetOnline(t)
      PROVE  OnServer(s)' = {}
  <2>1. cams' = cams /\ s \in listed \ online
    BY <1>4 DEF SetOnline
  <2> QED
    BY <2>1 DEF OnServer, Live
<1>5. ASSUME NEW c \in Call, NEW cam \in Camera, NEW e \in Forwarding(cam), JoinStream(c, cam, e)
      PROVE  OnServer(s)' = {}
  <2>1. /\ e \in Live /\ cams[e].server \in online
        /\ listed' = listed /\ online' = online
    BY <1>5 DEF Forwarding, Practicable, JoinStream
  <2>2. \A f \in Entry : f # e => cams'[f] = cams[f]
    BY <1>5, <2>1 DEF JoinStream, TableTypeOK
  <2>3. cams'[e].server = cams[e].server
    <3>1. e \in Entry /\ cams \in [Entry -> CamRec \cup {NoCam}]
      BY <2>1 DEF Live, TableTypeOK
    <3> QED
      BY <1>5, <3>1 DEF JoinStream, Sending
  <2>4. OnServer(s) = {} /\ cams[e].server # s
    BY <2>1
  <2> QED
    BY <2>2, <2>3, <2>4 DEF OnServer, Live
<1>6. ASSUME NEW c \in Call, NEW cam \in Camera, NEW type \in InviteType,
             NEW t \in LeastLoaded, NEW e \in Entry, PlaceStream(c, cam, type, t, e)
      PROVE  OnServer(s)' = {}
  <2>1. t \in online /\ listed' = listed /\ online' = online
    BY <1>6 DEF LeastLoaded, Practicable, PlaceStream
  <2>2. cams \in [Entry -> CamRec \cup {NoCam}]
    BY DEF TableTypeOK
  <2>3. \A f \in Entry : f # e => cams'[f] = cams[f]
    BY <1>6, <2>2 DEF PlaceStream
  <2>4. cams'[e].server = t
    BY <1>6, <2>2 DEF PlaceStream
  <2>5. OnServer(s) = {} /\ t # s
    BY <2>1
  <2> QED
    BY <2>3, <2>4, <2>5 DEF OnServer, Live
<1> QED
  BY <1>2, <1>3, <1>4, <1>5, <1>6 DEF GetPracticableRTPServer

\* Calls that end leave a silent server with fewer streams.
LEMMA ReduceEmpties ==
    ASSUME TableTypeOK, NEW c, NEW d \in BOOLEAN, Reduce(c, d), NEW s,
           OnServer(s) = {}
    PROVE  OnServer(s)' = {} /\ UNCHANGED <<listed, online>>
<1>1. CASE UNCHANGED tableVars
  BY <1>1 DEF tableVars, OnServer, Live
<1>2. ASSUME NEW e \in Live, DeleteStream(e, c, d) \/ DeleteLeg(e, c)
      PROVE  OnServer(s)' = {} /\ UNCHANGED <<listed, online>>
  <2>1. cams \in [Entry -> CamRec \cup {NoCam}] /\ e \in Entry
    BY <1>2 DEF TableTypeOK, Live
  <2>2. \A f \in Entry : f # e => cams'[f] = cams[f]
    BY <1>2, <2>1 DEF DeleteStream, DeleteLeg
  <2>3. cams'[e] = NoCam \/ cams'[e].server = cams[e].server
    BY <1>2, <2>1 DEF DeleteStream, DeleteLeg, Sending
  <2>4. \A f \in Live : cams[f].server # s
    BY DEF OnServer
  <2>5. OnServer(s)' = {}
    BY <1>2, <2>2, <2>3, <2>4 DEF OnServer, Live
  <2> QED
    BY <1>2, <2>5 DEF DeleteStream, DeleteLeg
<1> QED
  BY <1>1, <1>2 DEF Reduce

\* The steps that leave servers and streams alone, and those that change them.
LEMMA SilentSteps ==
    ASSUME [Next]_vars
    PROVE  \/ UNCHANGED <<tableVars, sweeping>>
           \/ \E t \in Thread : Release(t)
           \/ \E c \in Call : InviteMsgRecv(c)
           \/ \E s \in Server : \/ CheckRTPStreamAction(s)
                               \/ SetRTPServerStatus(s)
                               \/ GetRTPStreamInfo(s)
           \/ SweepNext
<1> DEFINE Still == UNCHANGED <<tableVars, sweeping>>
<1>1. CASE UNCHANGED vars
  BY <1>1 DEF vars, flowVars
<1>2. CASE InviteSend \/ InviteCamera \/ AckCamera \/ ForwardStream \/ AnswerClient
  BY <1>2 DEF InviteSend, InviteCamera, AckCamera, ForwardStream, AnswerClient
<1>3. ASSUME NEW c \in Call, \/ InviteRepeated(c) \/ InviteAckRecv(c)
                             \/ CancelMsgRecv(c) \/ ByeMsgRecv(c)
      PROVE  Still
  BY <1>3 DEF InviteRepeated, InviteAckRecv, CancelMsgRecv, ByeMsgRecv, ClientLeaves
<1>4. ASSUME NEW e \in Entry, InviteAnswer2(e)
      PROVE  Still
  BY <1>4 DEF InviteAnswer2, Received
<1>5. ASSUME NEW e \in Entry, NEW k \in 1 .. MaxInvite,
             InviteAnswer3(e, k) \/ ReplayMediaStatusRecv(e, k)
      PROVE  Still
  BY <1>5 DEF InviteAnswer3, ReplayMediaStatusRecv, Received
<1>6. ASSUME NEW c \in Call, InviteAnswer5(c) \/ (\E k \in 1 .. MaxInvite : InviteAnswer4(c, k))
      PROVE  Still
  BY <1>6 DEF InviteAnswer4, InviteAnswer5, Received
<1>7. CASE InviteFailure \/ PeerByeMsgRecv
  BY <1>7 DEF InviteFailure, PeerByeMsgRecv, Received
<1> QED
  BY <1>1, <1>2, <1>3, <1>4, <1>5, <1>6, <1>7 DEF Next, Continue

LEMMA StepSilent ==
    ASSUME SilentInv, [Next]_vars
    PROVE  SilentInv'
<1> DEFINE One == \A s, t \in sweeping : s = t
<1>1. TableTypeOK /\ One /\ SilentServerEmptied
  BY DEF SilentInv, TableInv
<1>2. ASSUME UNCHANGED <<tableVars, sweeping>>
      PROVE  One' /\ SilentServerEmptied'
  BY <1>1, <1>2 DEF tableVars, SilentServerEmptied, OnServer, Live
<1>3. ASSUME NEW t \in Thread, Release(t)
      PROVE  One' /\ SilentServerEmptied'
  <2> DEFINE d == job[t].step \in {"failure", "hangup2"}
  <2>1. Reduce(job[t].info.call, d)
    BY <1>3, Zenon DEF Release
  <2>2. d \in BOOLEAN /\ sweeping' = sweeping
    BY <1>3 DEF Release
  <2>3. UNCHANGED <<listed, online>>
    BY <2>1 DEF Reduce, DeleteStream, DeleteLeg, tableVars
  <2>4. ASSUME NEW s \in listed' \ online', s \notin sweeping'
        PROVE  OnServer(s)' = {}
    <3>1. OnServer(s) = {}
      BY <1>1, <2>2, <2>3, <2>4 DEF SilentServerEmptied
    <3> QED
      BY <1>1, <2>1, <2>2, <3>1, ReduceEmpties
  <2>5. SilentServerEmptied'
    BY <2>4 DEF SilentServerEmptied
  <2> QED
    BY <1>1, <2>2, <2>5
<1>4. ASSUME \/ \E c \in Call : InviteMsgRecv(c)
             \/ \E s \in Server : SetRTPServerStatus(s) \/ GetRTPStreamInfo(s)
      PROVE  One' /\ SilentServerEmptied'
  <2>1. sweeping' = sweeping
    BY <1>4 DEF InviteMsgRecv, SetRTPServerStatus, GetRTPStreamInfo, flowVars
  <2>2. \/ \E t \in Server : InsertRTPInfo(t) \/ EraseRTPInfo(t) \/ SetOnline(t)
        \/ \E c \in Call : GetPracticableRTPServer(c)
        \/ UNCHANGED tableVars
    <3>1. ASSUME NEW c \in Call, InviteMsgRecv(c)
          PROVE  GetPracticableRTPServer(c) \/ UNCHANGED tableVars
      BY <3>1, InvitePlaces
    <3>2. ASSUME NEW s \in Server, SetRTPServerStatus(s) \/ GetRTPStreamInfo(s)
          PROVE  InsertRTPInfo(s) \/ EraseRTPInfo(s) \/ SetOnline(s)
      BY <3>2 DEF SetRTPServerStatus, GetRTPStreamInfo
    <3> QED
      BY <1>4, <3>1, <3>2
  <2>3. CASE UNCHANGED tableVars
    BY <1>2, <2>1, <2>3
  <2>4. CASE ~ UNCHANGED tableVars
    <3>1. ASSUME NEW s \in listed' \ online', s \notin sweeping'
          PROVE  OnServer(s)' = {}
      <4>1. s \in listed \ online => OnServer(s) = {}
        BY <1>1, <2>1, <3>1 DEF SilentServerEmptied
      <4> QED
        BY <1>1, <2>2, <2>4, <3>1, <4>1, SilentKept
    <3>2. SilentServerEmptied'
      BY <3>1 DEF SilentServerEmptied
    <3> QED
      BY <1>1, <2>1, <3>2
  <2> QED
    BY <2>3, <2>4
<1>5. ASSUME NEW s \in Server, CheckRTPStreamAction(s)
      PROVE  One' /\ SilentServerEmptied'
  <2>1. /\ sweeping = {} /\ sweeping' = {s}
        /\ online' = online \ {s} /\ listed' = listed /\ cams' = cams
    BY <1>5 DEF CheckRTPStreamAction, SetOffline
  <2> QED
    BY <1>1, <2>1 DEF SilentServerEmptied, OnServer, Live
<1>6. ASSUME SweepNext
      PROVE  One' /\ SilentServerEmptied'
  <2>1. PICK s \in sweeping : \/ OnServer(s) = {} /\ sweeping' = {}
                              \/ sweeping' = sweeping
    BY <1>6 DEF SweepNext
  <2>2. UNCHANGED tableVars
    BY <1>6 DEF SweepNext
  <2>3. \A t \in listed \ online : t \in sweeping' \/ OnServer(t) = {}
    BY <1>1, <2>1 DEF SilentServerEmptied
  <2>4. SilentServerEmptied'
    BY <2>2, <2>3 DEF tableVars, SilentServerEmptied, OnServer, Live
  <2> QED
    BY <1>1, <2>1, <2>4
<1>7. TableInv'
  BY NextSteps, StepType DEF SilentInv, TableInv
<1>8. One' /\ SilentServerEmptied'
  BY <1>1, <1>2, <1>3, <1>4, <1>5, <1>6, SilentSteps
<1> QED
  BY <1>7, <1>8 DEF SilentInv

\* A media server that stopped answering and was swept relays nothing, until it
\* answers again (CheckRTPStreamAction), for any calls, servers and streams.
THEOREM SilentEmptied == Spec => []SilentServerEmptied
<1>1. Init => SilentInv
  <2> SUFFICES ASSUME Init PROVE SilentInv
    OBVIOUS
  <2>1. listed \ online = {} /\ sweeping = {}
    BY DEF Init
  <2> QED
    BY <2>1, InitTable DEF SilentInv, SilentServerEmptied
<1>2. SilentInv /\ [Next]_vars => SilentInv'
  BY StepSilent
<1>3. SilentInv => SilentServerEmptied
  BY DEF SilentInv
<1> QED
  BY <1>1, <1>2, <1>3, PTL DEF Spec

(***************************************************************************)
(* OkMeansOwnStream.  The worker reaches the 200 of a client only through  *)
(* its copy of the leg that the answer of Invite4 named, and the accepted  *)
(* INVITEs of the peers are never forgotten.                               *)
(***************************************************************************)
OkInv ==
    /\ legs = [c \in Call |-> legs[c]]
    /\ job = [t \in Thread |-> job[t]]
    /\ \A c \in Call : legs[c].told \in BOOLEAN
    /\ \A c \in Call : legs[c].told => Accepted(c)
    /\ \A c \in Call : job["worker"].step = "answer4" /\ job["worker"].info.call = c => Accepted(c)
    /\ OkMeansOwnStream

\* Nothing new to vouch for.
NoNewOk ==
    /\ legs' = [c \in Call |-> legs'[c]]
    /\ \A c \in Call : legs'[c].told \in BOOLEAN
    /\ \A c \in Call : legs'[c].told => legs[c].told
    /\ \A c \in Call : <<"ok", c>> \in sent' => <<"ok", c>> \in sent
    /\ said \subseteq said'

LEMMA AcceptedStays ==
    ASSUME said \subseteq said', NEW c, Accepted(c)
    PROVE  Accepted(c)'
  BY DEF Accepted, Dialog4

\* What a thread begins.
LEMMA BeginFacts ==
    ASSUME job = [t \in Thread |-> job[t]], NEW t \in Thread, NEW step, NEW info,
           Begin(t, step, info)
    PROVE  /\ job' = [u \in Thread |-> job'[u]]
           /\ job'[t].step = step
           /\ job'[t].info = info
           /\ \A u \in Thread \ {t} : job'[u] = job[u]
  BY DEF Begin

LEMMA FinishFacts ==
    ASSUME job = [t \in Thread |-> job[t]], NEW t \in Thread, Finish(t)
    PROVE  /\ job' = [u \in Thread |-> job'[u]]
           /\ job'[t].step = "idle"
           /\ \A u \in Thread \ {t} : job'[u] = job[u]
  BY DEF Finish, Idle

LEMMA ByeFacts ==
    ASSUME NEW i, NEW f, NEW d, NEW m \in SendByeMsg(i, f, d)
    PROVE  m[1] \in {"bye", "cancel", "emptybye"}
<1>1. \A n \in CameraBye(i) : n[1] \in {"bye", "cancel", "emptybye"}
  BY DEF CameraBye
<1>2. \A n \in StreamBye(i) : n[1] \in {"bye", "cancel", "emptybye"}
  BY <1>1 DEF StreamBye
<1> QED
  BY <1>2 DEF SendByeMsg

\* A step that vouches for nothing new keeps the invariant, if the worker does
\* not come to hold an answer of Invite4.
LEMMA OkKept ==
    ASSUME OkInv, NoNewOk, job' = [t \in Thread |-> job'[t]],
           job'["worker"].step = "answer4" => job'["worker"] = job["worker"]
    PROVE  OkInv'
<1>1. \A c \in Call : Accepted(c) => Accepted(c)'
  BY AcceptedStays DEF NoNewOk
<1>2. \A c \in Call : legs'[c].told => Accepted(c)'
  BY <1>1, Zenon DEF OkInv, NoNewOk
<1>3. OkMeansOwnStream'
  BY <1>1, Zenon DEF OkInv, NoNewOk, OkMeansOwnStream
<1>4. \A c \in Call : job'["worker"].step = "answer4" /\ job'["worker"].info.call = c => Accepted(c)'
  BY <1>1 DEF OkInv
<1> QED
  BY <1>2, <1>3, <1>4 DEF OkInv, NoNewOk

\* The handlers that only copy what a message selects.
LEMMA OkReceived ==
    ASSUME OkInv, Received, said \subseteq said',
           NEW t \in Thread, NEW step, step # "answer4",
           \/ UNCHANGED job
           \/ \E info : Begin(t, step, info)
    PROVE  OkInv'
<1>1. NoNewOk
  BY DEF OkInv, NoNewOk, Received
<1>2. CASE UNCHANGED job
  BY <1>1, <1>2, OkKept DEF OkInv
<1>3. ASSUME NEW info, Begin(t, step, info)
      PROVE  OkInv'
  <2>1. /\ job' = [u \in Thread |-> job'[u]]
        /\ job'[t].step = step
        /\ \A u \in Thread \ {t} : job'[u] = job[u]
    BY <1>3, BeginFacts DEF OkInv
  <2>2. "worker" \in Thread
    BY DEF Thread
  <2>3. job'["worker"].step = "answer4" => job'["worker"] = job["worker"]
    BY <2>1, <2>2
  <2> QED
    BY <1>1, <2>1, <2>3, OkKept
<1> QED
  BY <1>2, <1>3

\* The steps that end a handler and send anything but a 200.
LEMMA OkFinished ==
    ASSUME OkInv, NoNewOk, NEW t \in Thread, Finish(t)
    PROVE  OkInv'
<1>1. /\ job' = [u \in Thread |-> job'[u]]
      /\ job'[t].step = "idle"
      /\ \A u \in Thread \ {t} : job'[u] = job[u]
  BY FinishFacts DEF OkInv
<1>2. "worker" \in Thread
  BY DEF Thread
<1>3. job'["worker"].step = "answer4" => job'["worker"] = job["worker"]
  BY <1>1, <1>2
<1> QED
  BY <1>1, <1>3, OkKept

LEMMA OkContinue ==
    ASSUME OkInv, Continue
    PROVE  OkInv'
<1> USE DEF OkInv
<1>1. CASE InviteSend
  <2>1. NoNewOk
    BY <1>1 DEF InviteSend, NoNewOk, Inviting
  <2> QED
    BY <1>1, <2>1, OkFinished DEF InviteSend, Thread
<1>2. CASE InviteCamera
  <2>1. NoNewOk
    BY <1>2 DEF InviteCamera, NoNewOk
  <2> QED
    BY <1>2, <2>1, OkFinished DEF InviteCamera, Thread
<1>3. CASE AckCamera
  <2>1. NoNewOk
    BY <1>3 DEF AckCamera, NoNewOk
  <2>2. "worker" \in Thread
    BY DEF Thread
  <2>3. Begin("worker", "forward", job["worker"].info)
    BY <1>3 DEF AckCamera
  <2>4. job' = [u \in Thread |-> job'[u]] /\ job'["worker"].step = "forward"
    BY <2>2, <2>3, BeginFacts
  <2> QED
    BY <2>1, <2>4, OkKept
<1>4. CASE ForwardStream
  <2>1. NoNewOk
    BY <1>4 DEF ForwardStream, NoNewOk, Inviting
  <2> QED
    BY <1>4, <2>1, OkFinished DEF ForwardStream, Thread
<1>5. CASE AnswerClient
  <2> DEFINE c == job["worker"].info.call
  <2>1. c \in Call => Accepted(c)
    BY <1>5 DEF AnswerClient
  <2>2. said' = said
    BY <1>5 DEF AnswerClient
  <2>3. \A d \in Call : Accepted(d) => Accepted(d)'
    BY <2>2, AcceptedStays
  <2>4. /\ legs' = [d \in Call |-> legs'[d]]
        /\ \A d \in Call : legs'[d].told \in BOOLEAN
        /\ \A d \in Call : legs'[d].told => legs[d].told \/ d = c
    BY <1>5 DEF AnswerClient, Answered
  <2>5. \A d \in Call : <<"ok", d>> \in sent' => <<"ok", d>> \in sent \/ d = c
    BY <1>5 DEF AnswerClient
  <2>6. /\ job' = [u \in Thread |-> job'[u]]
        /\ job'["worker"].step = "idle"
    BY <1>5, FinishFacts DEF AnswerClient, Thread
  <2>7. \A d \in Call : legs'[d].told => Accepted(d)'
    BY <2>1, <2>3, <2>4, Zenon
  <2>8. OkMeansOwnStream'
    BY <2>1, <2>3, <2>5, Zenon DEF OkMeansOwnStream
  <2> QED
    BY <2>4, <2>6, <2>7, <2>8
<1>6. ASSUME NEW t \in Thread, Release(t)
      PROVE  OkInv'
  <2>1. NoNewOk
    <3>1. legs' = legs /\ said' = said
      BY <1>6 DEF Release
    <3>2. ASSUME NEW c \in Call, <<"ok", c>> \in sent'
          PROVE  <<"ok", c>> \in sent
      <4> DEFINE m == <<"ok", c>>
                 i == job[t].info
                 step == job[t].step
      <4>1. sent' = sent \cup SendByeMsg(i, step = "bye", step = "hangup2")
                         \cup (IF step = "failure" THEN {<<"fail", i.call>>} ELSE {})
        BY <1>6, Zenon DEF Release
      <4>2. m[1] = "ok"
        OBVIOUS
      <4>3. m \notin SendByeMsg(i, step = "bye", step = "hangup2")
        BY <4>2, ByeFacts
      <4>4. m # <<"fail", i.call>>
        OBVIOUS
      <4> QED
        BY <3>2, <4>1, <4>3, <4>4
    <3> QED
      BY <3>1, <3>2 DEF NoNewOk
  <2> QED
    BY <1>6, <2>1, OkFinished DEF Release
<1> QED
  BY <1>1, <1>2, <1>3, <1>4, <1>5, <1>6 DEF Continue

LEMMA OkInvite ==
    ASSUME OkInv, NEW c \in Call, InviteMsgRecv(c)
    PROVE  OkInv'
<1>1. said' = said /\ "worker" \in Thread
  BY DEF InviteMsgRecv, Thread
<1>2. CASE InviteRefused(c) \/ InviteDropped(c)
  <2>1. NoNewOk
    BY <1>1, <1>2 DEF InviteRefused, InviteDropped, NoNewOk, OkInv
  <2>2. UNCHANGED job
    BY <1>2 DEF InviteRefused, InviteDropped
  <2> QED
    BY <2>1, <2>2, OkKept DEF OkInv
<1>3. CASE InviteJoins(c) \/ InvitePlaced(c)
  <2>1. legs' = [legs EXCEPT ![c] = NoLeg] /\ sent' = sent
    BY <1>3 DEF InviteJoins, InvitePlaced
  <2>2. NoNewOk
    BY <1>1, <2>1 DEF NoNewOk, NoLeg, OkInv
  <2>3. PICK step \in {"transmit", "request"}, e \in Entry : Begin("worker", step, [entry |-> e, call |-> c])
    <3>1. CASE InviteJoins(c)
      BY <3>1, Zenon DEF InviteJoins, Forwarding, Live
    <3>2. CASE InvitePlaced(c)
      BY <3>2, Zenon DEF InvitePlaced
    <3> QED
      BY <1>3, <3>1, <3>2
  <2>4. job' = [u \in Thread |-> job'[u]] /\ job'["worker"].step = step
    BY <1>1, <2>3, BeginFacts DEF OkInv
  <2> QED
    BY <2>2, <2>4, OkKept
<1> QED
  BY <1>2, <1>3 DEF InviteMsgRecv

\* An accepted Invite4 is what the worker then holds.
LEMMA OkAnswer4 ==
    ASSUME OkInv, NEW c \in Call, NEW k \in 1 .. MaxInvite, InviteAnswer4(c, k)
    PROVE  OkInv'
<1> USE DEF OkInv
<1>1. said \subseteq said' /\ <<"ok", Dialog4(c, k)>> \in said'
  BY DEF InviteAnswer4, Reply
<1>2. NoNewOk
  BY <1>1 DEF NoNewOk, InviteAnswer4, Received
<1>3. CASE UNCHANGED job
  BY <1>2, <1>3, OkKept
<1>4. CASE Begin("worker", "answer4", LegInfo(c))
  <2>1. /\ job' = [u \in Thread |-> job'[u]]
        /\ job'["worker"].info = LegInfo(c)
    BY <1>4, BeginFacts DEF Thread
  <2>2. LegInfo(c).call = c
    BY DEF LegInfo, PlayInfo
  <2>3. Accepted(c)'
    BY <1>1 DEF Accepted
  <2>4. \A d \in Call : Accepted(d) => Accepted(d)'
    BY <1>1, AcceptedStays
  <2>5. \A d \in Call : legs'[d].told => Accepted(d)'
    BY <1>2, <2>4, Zenon DEF NoNewOk
  <2>6. OkMeansOwnStream'
    BY <1>2, <2>4, Zenon DEF NoNewOk, OkMeansOwnStream
  <2>7. \A d \in Call : job'["worker"].step = "answer4" /\ job'["worker"].info.call = d => Accepted(d)'
    BY <2>1, <2>2, <2>3
  <2> QED
    BY <1>2, <2>1, <2>5, <2>6, <2>7 DEF NoNewOk
<1> QED
  BY <1>3, <1>4 DEF InviteAnswer4

LEMMA OkStep ==
    ASSUME OkInv, [Next]_vars
    PROVE  OkInv'
<1>1. CASE UNCHANGED vars
  BY <1>1 DEF vars, flowVars, OkInv, OkMeansOwnStream, Accepted
<1>2. CASE Continue
  BY <1>2, OkContinue
<1>3. ASSUME NEW c \in Call, InviteMsgRecv(c)
      PROVE  OkInv'
  BY <1>3, OkInvite
<1>4. ASSUME NEW c \in Call, InviteRepeated(c) \/ InviteAckRecv(c)
      PROVE  OkInv'
  <2>1. /\ legs' = legs /\ said' = said /\ job' = job
        /\ \A d \in Call : <<"ok", d>> \in sent' => <<"ok", d>> \in sent \/ legs[d].told
    BY <1>4 DEF InviteRepeated, InviteAckRecv
  <2>2. \A d \in Call : Accepted(d)' = Accepted(d)
    BY <2>1 DEF Accepted
  <2>3. OkMeansOwnStream'
    BY <2>1, <2>2, Zenon DEF OkInv, OkMeansOwnStream
  <2> QED
    BY <2>1, <2>2, <2>3 DEF OkInv
<1>5. ASSUME NEW c \in Call, CancelMsgRecv(c) \/ ByeMsgRecv(c)
      PROVE  OkInv'
  <2>1. PICK step \in {"cancel", "bye"} : ClientLeaves(c, step)
    BY <1>5 DEF CancelMsgRecv, ByeMsgRecv
  <2>2. NoNewOk
    BY <2>1 DEF ClientLeaves, NoNewOk, OkInv
  <2>3. CASE UNCHANGED job
    BY <2>2, <2>3, OkKept DEF OkInv
  <2>4. CASE Begin("worker", step, LegInfo(c))
    <3>1. job' = [u \in Thread |-> job'[u]] /\ job'["worker"].step = step
      BY <2>4, BeginFacts DEF OkInv, Thread
    <3> QED
      BY <2>2, <3>1, OkKept
  <2> QED
    BY <2>1, <2>3, <2>4 DEF ClientLeaves
<1>6. ASSUME NEW e \in Entry, InviteAnswer2(e)
      PROVE  OkInv'
  BY <1>6, OkReceived DEF InviteAnswer2, Reply, Thread
<1>7. ASSUME NEW e \in Entry, NEW k \in 1 .. MaxInvite, InviteAnswer3(e, k)
      PROVE  OkInv'
  BY <1>7, OkReceived DEF InviteAnswer3, Reply, Thread
<1>8. ASSUME NEW e \in Entry, NEW k \in 1 .. MaxInvite, ReplayMediaStatusRecv(e, k)
      PROVE  OkInv'
  BY <1>8, OkReceived DEF ReplayMediaStatusRecv, Thread
<1>9. ASSUME NEW c \in Call, NEW k \in 1 .. MaxInvite, InviteAnswer4(c, k)
      PROVE  OkInv'
  BY <1>9, OkAnswer4
<1>10. ASSUME NEW c \in Call, InviteAnswer5(c)
       PROVE  OkInv'
  BY <1>10, OkReceived DEF InviteAnswer5, Reply, Thread
<1>11. CASE InviteFailure
  <2>1. Received /\ said \subseteq said'
    BY <1>11 DEF InviteFailure, Reply
  <2>2. UNCHANGED job \/ \E info : Begin("worker", "failure", info)
    BY <1>11, Zenon DEF InviteFailure
  <2> QED
    BY <2>1, <2>2, OkReceived DEF Thread
<1>12. CASE PeerByeMsgRecv
  BY <1>12, OkReceived DEF PeerByeMsgRecv, Thread
<1>13. CASE SweepNext
  <2>1. NoNewOk
    BY <1>13 DEF SweepNext, NoNewOk, OkInv
  <2>2. CASE UNCHANGED job
    BY <2>1, <2>2, OkKept DEF OkInv
  <2>3. ASSUME NEW info, Begin("sweeper", "sweep", info)
        PROVE  OkInv'
    <3>1. job' = [u \in Thread |-> job'[u]] /\ job'["worker"] = job["worker"]
      BY <2>3, BeginFacts DEF OkInv, Thread
    <3> QED
      BY <2>1, <3>1, OkKept
  <2> QED
    BY <1>13, <2>2, <2>3 DEF SweepNext
<1>14. ASSUME NEW s \in Server,
              \/ CheckRTPStreamAction(s) \/ SetRTPServerStatus(s) \/ GetRTPStreamInfo(s)
       PROVE  OkInv'
  BY <1>14 DEF CheckRTPStreamAction, SetRTPServerStatus, GetRTPStreamInfo, flowVars,
               OkInv, OkMeansOwnStream, Accepted
<1> QED
  BY <1>1, <1>2, <1>3, <1>4, <1>5, <1>6, <1>7, <1>8, <1>9, <1>10, <1>11, <1>12, <1>13, <1>14
  DEF Next

\* A client is told 200 only for a stream that the media server agreed to send
\* to it, for any number of calls that share streams, answers that repeat and
\* threads that end calls meanwhile.
THEOREM OkIsOwnStream == Spec => []OkMeansOwnStream
<1>1. Init => OkInv
  <2> SUFFICES ASSUME Init PROVE OkInv
    OBVIOUS
  <2>1. /\ legs = [c \in Call |-> NoLeg]
        /\ job = [t \in Thread |-> Idle]
        /\ sent = {}
    BY DEF Init
  <2>2. \A c \in Call : legs[c].told = FALSE
    BY <2>1 DEF NoLeg
  <2>3. job["worker"].step # "answer4"
    BY <2>1 DEF Idle, Thread
  <2>4. /\ legs = [c \in Call |-> legs[c]]
        /\ job = [t \in Thread |-> job[t]]
    BY <2>1, Zenon
  <2>5. OkMeansOwnStream
    BY <2>1 DEF OkMeansOwnStream
  <2> QED
    BY <2>2, <2>3, <2>4, <2>5 DEF OkInv
<1>2. OkInv /\ [Next]_vars => OkInv'
  BY OkStep
<1>3. OkInv => OkMeansOwnStream
  BY DEF OkInv
<1> QED
  BY <1>1, <1>2, <1>3, PTL DEF Spec

(***************************************************************************)
(* OneCameraSession.  The worker reaches the INVITE of a camera only from  *)
(* an answer to dialog 2 that the stream had not seen, and records it      *)
(* there; a stream that has left the table does not come back.             *)
(***************************************************************************)
DialogRec == [msg2 : BOOLEAN, answer2 : BOOLEAN, call3 : Nat, answer3 : BOOLEAN]

Dialogs == [Entry -> DialogRec]

CameraAsked(e) == \E k \in 1 .. MaxInvite : Invited(Dialog3(e, k))

\* What is true of a stream whose camera was invited.
AskedOnce(e) ==
    /\ e \in born
    /\ e \in Live => dialogs[e].answer2
    /\ <<"ok", Dialog2(e)>> \in said
    /\ \A k \in 1 .. MaxInvite : Invited(Dialog3(e, k)) => k = 1

\* The worker is about to invite a camera.
MayAsk(e) == e \in born /\ <<"ok", Dialog2(e)>> \in said /\ ~ CameraAsked(e)

CamInv ==
    /\ TableInv
    /\ Live \subseteq born
    /\ born \subseteq Entry
    /\ dialogs \in Dialogs
    /\ job = [t \in Thread |-> job[t]]
    /\ \A e \in Entry : CameraAsked(e) => AskedOnce(e)
    /\ \A e \in Entry : job["worker"].step = "answer2" /\ job["worker"].info.entry = e => MayAsk(e)

\* No camera is invited, no answer forgotten, and no stream comes back.
NoNewCamera ==
    /\ Live' \cap born \subseteq Live
    /\ Live' \subseteq born'
    /\ born \subseteq born' /\ born' \subseteq Entry
    /\ dialogs' \in Dialogs
    /\ \A e \in born : dialogs[e].answer2 => dialogs'[e].answer2
    /\ \A e \in Entry, k \in 1 .. MaxInvite :
          <<"invite", Dialog3(e, k)>> \in sent' => <<"invite", Dialog3(e, k)>> \in sent
    /\ said \subseteq said'

LEMMA CamKept ==
    ASSUME CamInv, TableInv', NoNewCamera, job' = [t \in Thread |-> job'[t]],
           job'["worker"].step = "answer2" => job'["worker"] = job["worker"]
    PROVE  CamInv'
<1>1. \A e \in Entry : CameraAsked(e)' => CameraAsked(e)
  BY DEF NoNewCamera, CameraAsked, Invited, Dialog3
<1>2. \A e \in Entry : AskedOnce(e) => AskedOnce(e)'
  BY DEF NoNewCamera, AskedOnce, Invited, Dialog2, Dialog3
<1>3. \A e \in Entry : MayAsk(e) => MayAsk(e)'
  BY <1>1 DEF NoNewCamera, MayAsk, Dialog2
<1>4. \A e \in Entry : CameraAsked(e)' => AskedOnce(e)'
  BY <1>1, <1>2 DEF CamInv
<1>5. \A e \in Entry : job'["worker"].step = "answer2" /\ job'["worker"].info.entry = e => MayAsk(e)'
  BY <1>3 DEF CamInv
<1> QED
  BY <1>4, <1>5 DEF CamInv, NoNewCamera

\* No step brings a stream back, and only GetPracticableRTPServer makes one.
LEMMA ReduceLive ==
    ASSUME TableTypeOK, NEW c, NEW d \in BOOLEAN, Reduce(c, d)
    PROVE  Live' \subseteq Live
<1>1. CASE UNCHANGED tableVars
  BY <1>1 DEF tableVars, Live
<1>2. ASSUME NEW e \in Live, DeleteStream(e, c, d) \/ DeleteLeg(e, c)
      PROVE  Live' \subseteq Live
  <2>1. cams[e] \in CamRec
    BY LiveFacts
  <2>2. Holds(e, c)
    BY <1>2 DEF DeleteStream, DeleteLeg
  <2>3. c \in Call
    BY <2>1, <2>2 DEF Holds, ToSet, CamRec
  <2> QED
    BY <1>2, <2>3, DeleteStreamFacts, DeleteLegFacts
<1> QED
  BY <1>1, <1>2 DEF Reduce

\* The steps that end a handler and invite no camera.
LEMMA CamFinished ==
    ASSUME CamInv, TableInv', NoNewCamera, NEW t \in Thread, Finish(t)
    PROVE  CamInv'
<1>1. /\ job' = [u \in Thread |-> job'[u]]
      /\ job'[t].step = "idle"
      /\ \A u \in Thread \ {t} : job'[u] = job[u]
  BY FinishFacts DEF CamInv
<1>2. "worker" \in Thread
  BY DEF Thread
<1>3. job'["worker"].step = "answer2" => job'["worker"] = job["worker"]
  BY <1>1, <1>2
<1> QED
  BY <1>1, <1>3, CamKept

\* The handlers that only copy what a message selects.
LEMMA CamReceived ==
    ASSUME CamInv, TableInv', Received, said \subseteq said',
           NEW t \in Thread, NEW step, step # "answer2",
           \/ UNCHANGED job
           \/ \E info : Begin(t, step, info)
    PROVE  CamInv'
<1>1. NoNewCamera
  BY DEF CamInv, NoNewCamera, Received, tableVars, Live
<1>2. CASE UNCHANGED job
  BY <1>1, <1>2, CamKept DEF CamInv
<1>3. ASSUME NEW info, Begin(t, step, info)
      PROVE  CamInv'
  <2>1. /\ job' = [u \in Thread |-> job'[u]]
        /\ job'[t].step = step
        /\ \A u \in Thread \ {t} : job'[u] = job[u]
    BY <1>3, BeginFacts DEF CamInv
  <2>2. "worker" \in Thread
    BY DEF Thread
  <2>3. job'["worker"].step = "answer2" => job'["worker"] = job["worker"]
    BY <2>1, <2>2
  <2> QED
    BY <1>1, <2>1, <2>3, CamKept
<1> QED
  BY <1>2, <1>3

\* The answer of the media server to dialog 2 is taken once.
LEMMA CamAnswer2 ==
    ASSUME CamInv, TableInv', NEW e \in Entry, InviteAnswer2(e)
    PROVE  CamInv'
<1>1. said \subseteq said' /\ <<"ok", Dialog2(e)>> \in said' /\ Received
  BY DEF InviteAnswer2, Reply
<1>2. CASE UNCHANGED job
  BY <1>1, <1>2, CamReceived DEF Thread
<1>3. CASE Knows2(e) /\ ~ dialogs[e].answer2 /\ Begin("worker", "answer2", StreamInfo(e))
  <2>1. NoNewCamera /\ born' = born /\ sent' = sent
    BY <1>1 DEF CamInv, NoNewCamera, Received, tableVars, Live
  <2>2. /\ job' = [u \in Thread |-> job'[u]]
        /\ job'["worker"].info = StreamInfo(e)
    BY <1>3, BeginFacts DEF CamInv, Thread
  <2>3. StreamInfo(e).entry = e
    BY DEF StreamInfo, PlayInfo
  <2>4. e \in born /\ ~ CameraAsked(e)
    BY <1>3 DEF CamInv, AskedOnce, Knows2
  <2>5. \A f \in Entry : /\ CameraAsked(f)' = CameraAsked(f)
                         /\ AskedOnce(f) => AskedOnce(f)'
    BY <2>1 DEF NoNewCamera, CamInv, CameraAsked, AskedOnce, Invited, Dialog2, Dialog3
  <2>6. MayAsk(e)'
    BY <1>1, <2>1, <2>4, <2>5 DEF MayAsk, Dialog2
  <2>7. \A f \in Entry : CameraAsked(f)' => AskedOnce(f)'
    BY <2>5 DEF CamInv
  <2>8. \A f \in Entry : job'["worker"].step = "answer2" /\ job'["worker"].info.entry = f => MayAsk(f)'
    BY <2>2, <2>3, <2>6
  <2> QED
    BY <2>1, <2>2, <2>7, <2>8 DEF CamInv, NoNewCamera
<1> QED
  BY <1>2, <1>3 DEF InviteAnswer2

\* The one step that invites a camera.
LEMMA CamInvite ==
    ASSUME CamInv, TableInv', InviteCamera
    PROVE  CamInv'
<1> DEFINE e == job["worker"].info.entry
<1>1. PICK k : k = FreshCall3(e) /\ k <= MaxInvite
               /\ sent' = sent \cup {<<"invite", Dialog3(e, k)>>}
               /\ dialogs' = IF e \in Live
                               THEN [dialogs EXCEPT ![e].answer2 = TRUE, ![e].call3 = k]
                               ELSE dialogs
  BY DEF InviteCamera
<1>2. /\ UNCHANGED <<tableVars, born, said>>
      /\ job["worker"].step = "answer2"
      /\ Live' = Live
  BY DEF InviteCamera, tableVars, Live
<1>3. CASE e \notin Entry
  <2>1. e \notin Live
    BY <1>3 DEF Live
  <2>2. NoNewCamera
    BY <1>1, <1>2, <1>3, <2>1 DEF CamInv, NoNewCamera, Dialog3
  <2> QED
    BY <2>2, CamFinished DEF InviteCamera, Thread
<1>4. CASE e \in Entry
  <2>1. MayAsk(e)
    BY <1>2, <1>4 DEF CamInv
  <2>2. k = 1
    <3>1. {j \in 1 .. MaxInvite : Invited(Dialog3(e, j))} = {}
      BY <2>1 DEF MayAsk, CameraAsked
    <3>2. Cardinality({j \in 1 .. MaxInvite : Invited(Dialog3(e, j))}) = 0
      BY <3>1, FS_EmptySet
    <3>3. FreshCall3(e) = 1 + 0
      BY <3>2 DEF FreshCall3
    <3> QED
      BY <1>1, <3>3
  <2>3. /\ job' = [u \in Thread |-> job'[u]]
        /\ job'["worker"].step = "idle"
    BY FinishFacts DEF InviteCamera, CamInv, Thread
  <2>4. /\ dialogs' \in Dialogs
        /\ e \in Live => dialogs'[e].answer2
        /\ \A f \in Entry \ {e} : dialogs'[f] = dialogs[f]
    <3>1. dialogs \in Dialogs /\ dialogs[e] \in DialogRec
      BY <1>4 DEF CamInv, Dialogs, DialogRec
    <3> HIDE DEF e
    <3>2. CASE e \notin Live
      BY <1>1, <3>1, <3>2
    <3>3. CASE e \in Live
      <4> DEFINE r == [dialogs[e] EXCEPT !.answer2 = TRUE, !.call3 = 1]
      <4>1. dialogs' = [dialogs EXCEPT ![e] = r]
        BY <1>1, <2>2, <3>3
      <4>2. r \in DialogRec /\ r.answer2
        BY <3>1 DEF DialogRec
      <4> HIDE DEF r
      <4> QED
        BY <1>4, <3>1, <4>1, <4>2 DEF Dialogs, DialogRec
    <3> QED
      BY <3>2, <3>3
  <2>5. \A f \in Entry, j \in 1 .. MaxInvite :
           Invited(Dialog3(f, j))' => Invited(Dialog3(f, j)) \/ (f = e /\ j = 1)
    <3>1. sent' = sent \cup {<<"invite", Dialog3(e, 1)>>}
      BY <1>1, <2>2
    <3>2. \A f, j : Dialog3(f, j) = Dialog3(e, 1) => f = e /\ j = 1
      BY DEF Dialog3
    <3>3. \A f, j : Dialog3(f, j)' = Dialog3(f, j)
      BY DEF Dialog3
    <3> HIDE DEF e
    <3> QED
      BY <3>1, <3>2, <3>3 DEF Invited
  <2>6. ASSUME NEW f \in Entry, CameraAsked(f)'
        PROVE  AskedOnce(f)'
    <3>1. CASE f = e
      <4>1. MayAsk(f)
        BY <2>1, <3>1
      <4>2. \A j \in 1 .. MaxInvite : Invited(Dialog3(f, j))' => j = 1
        BY <2>5, <4>1 DEF MayAsk, CameraAsked
      <4>3. f \in Live => dialogs'[f].answer2
        BY <2>4, <3>1
      <4> QED
        BY <1>2, <4>1, <4>2, <4>3 DEF AskedOnce, MayAsk, Dialog2, Dialog3, Invited
    <3>2. CASE f # e
      <4>1. \A j \in 1 .. MaxInvite : Invited(Dialog3(f, j))' => Invited(Dialog3(f, j))
        BY <2>5, <3>2
      <4>2. AskedOnce(f)
        BY <2>6, <4>1 DEF CameraAsked, CamInv, Invited, Dialog3
      <4> QED
        BY <1>2, <2>4, <3>2, <4>1, <4>2 DEF AskedOnce, Dialog2, Dialog3, Invited
    <3> QED
      BY <3>1, <3>2
  <2> QED
    BY <1>2, <2>3, <2>4, <2>6 DEF CamInv
<1> QED
  BY <1>3, <1>4

LEMMA CamRelease ==
    ASSUME CamInv, TableInv', NEW t \in Thread, Release(t)
    PROVE  CamInv'
<1> DEFINE i == job[t].info
           step == job[t].step
           m(e, k) == <<"invite", Dialog3(e, k)>>
<1>1. /\ Reduce(i.call, step \in {"failure", "hangup2"})
      /\ sent' = sent \cup SendByeMsg(i, step = "bye", step = "hangup2")
                      \cup (IF step = "failure" THEN {<<"fail", i.call>>} ELSE {})
      /\ UNCHANGED <<born, dialogs, said>>
  BY Zenon DEF Release
<1>2. Live' \subseteq Live
  <2> DEFINE d == step \in {"failure", "hangup2"}
  <2>1. Reduce(i.call, d) /\ d \in BOOLEAN
    BY <1>1
  <2> HIDE DEF d
  <2> QED
    BY <2>1, ReduceLive DEF CamInv, TableInv
<1>3. ASSUME NEW e \in Entry, NEW k \in 1 .. MaxInvite, m(e, k) \in sent'
      PROVE  m(e, k) \in sent
  <2>1. m(e, k)[1] = "invite"
    OBVIOUS
  <2>2. m(e, k) \notin SendByeMsg(i, step = "bye", step = "hangup2")
    BY <2>1, ByeFacts
  <2>3. m(e, k) # <<"fail", i.call>>
    OBVIOUS
  <2> QED
    BY <1>1, <1>3, <2>2, <2>3
<1>4. NoNewCamera
  BY <1>1, <1>2, <1>3 DEF CamInv, NoNewCamera
<1> QED
  BY <1>4, CamFinished DEF Release

\* Dialog 3 is no other dialog.
LEMMA DialogsDiffer ==
    ASSUME NEW e, NEW k
    PROVE  /\ \A f : Dialog3(e, k) # Dialog2(f)
           /\ \A c, j : Dialog3(e, k) # Dialog4(c, j)
           /\ \A c : Dialog3(e, k) # Dialog5(c)
<1>1. Dialog3(e, k)[1] = 3
  BY DEF Dialog3
<1>2. \A f : Dialog2(f)[1] = 2
  BY DEF Dialog2
<1>3. \A c, j : Dialog4(c, j)[1] = 4
  BY DEF Dialog4
<1>4. \A c : Dialog5(c)[1] = 5
  BY DEF Dialog5
<1> QED
  BY <1>1, <1>2, <1>3, <1>4

\* Recording a message or an answer of a stream.
LEMMA DialogSet ==
    ASSUME dialogs \in Dialogs, NEW e,
           \/ dialogs' = dialogs
           \/ dialogs' = [dialogs EXCEPT ![e].msg2 = TRUE]
           \/ dialogs' = [dialogs EXCEPT ![e].answer3 = TRUE]
    PROVE  /\ dialogs' \in Dialogs
           /\ \A f \in Entry : dialogs'[f].answer2 = dialogs[f].answer2
<1>1. CASE dialogs' = dialogs
  BY <1>1
<1>2. CASE dialogs' = [dialogs EXCEPT ![e].msg2 = TRUE]
  BY <1>2 DEF Dialogs, DialogRec
<1>3. CASE dialogs' = [dialogs EXCEPT ![e].answer3 = TRUE]
  BY <1>3 DEF Dialogs, DialogRec
<1> QED
  BY <1>1, <1>2, <1>3

LEMMA CamContinue ==
    ASSUME CamInv, TableInv', Continue
    PROVE  CamInv'
<1>1. "worker" \in Thread
  BY DEF Thread
<1>2. CASE InviteSend
  <2> DEFINE e == job["worker"].info.entry
             c == job["worker"].info.call
             k == FreshCall4(c)
  <2>1. \/ sent' = sent \cup {<<"invite", Dialog4(c, k)>>}
        \/ sent' = sent \cup {<<"invite", Dialog2(e)>>}
    BY <1>2 DEF InviteSend
  <2>2. /\ dialogs' = dialogs \/ dialogs' = [dialogs EXCEPT ![e].msg2 = TRUE]
        /\ UNCHANGED <<tableVars, born, said>>
    BY <1>2 DEF InviteSend
  <2>3. /\ dialogs' \in Dialogs
        /\ \A f \in Entry : dialogs'[f].answer2 = dialogs[f].answer2
    BY <2>2, DialogSet DEF CamInv
  <2>4. \A f \in Entry, j \in 1 .. MaxInvite :
           <<"invite", Dialog3(f, j)>> \in sent' => <<"invite", Dialog3(f, j)>> \in sent
    BY <2>1, DialogsDiffer
  <2>5. NoNewCamera
    BY <2>2, <2>3, <2>4 DEF CamInv, NoNewCamera, tableVars, Live
  <2> QED
    BY <1>1, <1>2, <2>5, CamFinished DEF InviteSend
<1>3. CASE InviteCamera
  BY <1>3, CamInvite
<1>4. CASE AckCamera
  <2> DEFINE i == job["worker"].info
  <2>1. /\ sent' = sent \cup {<<"ack", Dialog3(i.entry, i.call3)>>, <<"ack", Dialog2(i.entry)>>}
        /\ dialogs' = dialogs \/ dialogs' = [dialogs EXCEPT ![i.entry].answer3 = TRUE]
        /\ UNCHANGED <<tableVars, born, said>>
        /\ Begin("worker", "forward", i)
    BY <1>4 DEF AckCamera
  <2>2. /\ dialogs' \in Dialogs
        /\ \A f \in Entry : dialogs'[f].answer2 = dialogs[f].answer2
    BY <2>1, DialogSet DEF CamInv
  <2>3. NoNewCamera
    BY <2>1, <2>2 DEF CamInv, NoNewCamera, tableVars, Live
  <2>4. job' = [u \in Thread |-> job'[u]] /\ job'["worker"].step = "forward"
    BY <1>1, <2>1, BeginFacts DEF CamInv
  <2> QED
    BY <2>3, <2>4, CamKept
<1>5. CASE ForwardStream
  <2> DEFINE c == job["worker"].info.call
             k == FreshCall4(c)
  <2>1. \/ sent' = sent \cup {<<"invite", Dialog4(c, k)>>}
        \/ sent' = sent \cup {<<"invite", Dialog5(c)>>}
    BY <1>5 DEF ForwardStream
  <2>2. \A f \in Entry, j \in 1 .. MaxInvite :
           <<"invite", Dialog3(f, j)>> \in sent' => <<"invite", Dialog3(f, j)>> \in sent
    BY <2>1, DialogsDiffer
  <2>3. NoNewCamera
    BY <1>5, <2>2 DEF CamInv, NoNewCamera, tableVars, Live, ForwardStream
  <2> QED
    BY <1>1, <1>5, <2>3, CamFinished DEF ForwardStream
<1>6. CASE AnswerClient
  <2>1. NoNewCamera
    BY <1>6 DEF CamInv, NoNewCamera, tableVars, Live, AnswerClient
  <2> QED
    BY <1>1, <1>6, <2>1, CamFinished DEF AnswerClient
<1>7. ASSUME NEW t \in Thread, Release(t)
      PROVE  CamInv'
  BY <1>7, CamRelease
<1> QED
  BY <1>2, <1>3, <1>4, <1>5, <1>6, <1>7 DEF Continue

LEMMA CamInviteMsg ==
    ASSUME CamInv, TableInv', NEW c \in Call, InviteMsgRecv(c)
    PROVE  CamInv'
<1>1. said' = said /\ "worker" \in Thread
  BY DEF InviteMsgRecv, Thread
<1>2. CASE InviteRefused(c) \/ InviteDropped(c)
  <2>1. NoNewCamera /\ UNCHANGED job
    BY <1>1, <1>2 DEF InviteRefused, InviteDropped, CamInv, NoNewCamera, tableVars, Live
  <2> QED
    BY <2>1, CamKept DEF CamInv
<1>3. CASE InviteJoins(c)
  <2>1. PICK e \in Forwarding(CamOf[c]) :
               /\ JoinStream(c, CamOf[c], e)
               /\ Begin("worker", "transmit", [entry |-> e, call |-> c])
    BY <1>3 DEF InviteJoins
  <2>2. UNCHANGED <<born, dialogs, sent>>
    BY <1>3 DEF InviteJoins
  <2>3. Live' = Live
    BY <2>1, JoinFacts, FlowAssumption DEF CamInv, TableInv
  <2>4. NoNewCamera
    BY <1>1, <2>2, <2>3 DEF CamInv, NoNewCamera
  <2>5. job' = [u \in Thread |-> job'[u]] /\ job'["worker"].step = "transmit"
    BY <1>1, <2>1, BeginFacts DEF CamInv
  <2> QED
    BY <2>4, <2>5, CamKept
<1>4. CASE InvitePlaced(c)
  <2>1. PICK s \in LeastLoaded, e \in Entry \ born :
               /\ PlaceStream(c, CamOf[c], TypeOf[c], s, e)
               /\ born' = born \cup {e}
               /\ dialogs' = [dialogs EXCEPT ![e] = NoDialog]
               /\ Begin("worker", "request", [entry |-> e, call |-> c])
               /\ UNCHANGED sent
    BY <1>4 DEF InvitePlaced
  <2>2. Live' = Live \cup {e}
    BY <2>1, PlaceFacts, FlowAssumption DEF CamInv, TableInv, InviteType
  <2>3. /\ dialogs' \in Dialogs
        /\ \A f \in Entry \ {e} : dialogs'[f] = dialogs[f]
    BY <2>1 DEF CamInv, Dialogs, DialogRec, NoDialog
  <2>4. NoNewCamera
    BY <1>1, <2>1, <2>2, <2>3 DEF CamInv, NoNewCamera
  <2>5. job' = [u \in Thread |-> job'[u]] /\ job'["worker"].step = "request"
    BY <1>1, <2>1, BeginFacts DEF CamInv
  <2> QED
    BY <2>4, <2>5, CamKept
<1> QED
  BY <1>2, <1>3, <1>4 DEF InviteMsgRecv

\* Steps that touch neither the dialogs nor the worker.
LEMMA CamBeside ==
    ASSUME CamInv, TableInv', Live' \subseteq Live, job' = [u \in Thread |-> job'[u]],
           job'["worker"] = job["worker"], UNCHANGED <<born, dialogs, said>>,
           \A e \in Entry, k \in 1 .. MaxInvite :
              <<"invite", Dialog3(e, k)>> \in sent' => <<"invite", Dialog3(e, k)>> \in sent
    PROVE  CamInv'
<1>1. NoNewCamera
  BY DEF CamInv, NoNewCamera
<1> QED
  BY <1>1, CamKept

LEMMA CamStep ==
    ASSUME CamInv, [Next]_vars
    PROVE  CamInv'
<1> USE DEF CamInv
<1>0. TableInv'
  BY NextSteps, StepType DEF TableInv
<1>1. CASE UNCHANGED vars
  BY <1>0, <1>1, CamBeside DEF vars, flowVars, tableVars, Live
<1>2. CASE Continue
  BY <1>0, <1>2, CamContinue
<1>3. ASSUME NEW c \in Call, InviteMsgRecv(c)
      PROVE  CamInv'
  BY <1>0, <1>3, CamInviteMsg
<1>4. ASSUME NEW c \in Call, InviteRepeated(c) \/ InviteAckRecv(c)
      PROVE  CamInv'
  <2>1. /\ UNCHANGED <<tableVars, born, dialogs, said, job>>
        /\ \A d : <<"invite", d>> \in sent' => <<"invite", d>> \in sent
    BY <1>4 DEF InviteRepeated, InviteAckRecv
  <2> QED
    BY <1>0, <2>1, CamBeside DEF tableVars, Live
<1>5. ASSUME NEW c \in Call, CancelMsgRecv(c) \/ ByeMsgRecv(c)
      PROVE  CamInv'
  <2>1. PICK step \in {"cancel", "bye"} : ClientLeaves(c, step)
    BY <1>5 DEF CancelMsgRecv, ByeMsgRecv
  <2>2. NoNewCamera
    BY <2>1 DEF ClientLeaves, NoNewCamera, tableVars, Live
  <2>3. CASE UNCHANGED job
    BY <1>0, <2>2, <2>3, CamKept
  <2>4. CASE Begin("worker", step, LegInfo(c))
    <3>1. job' = [u \in Thread |-> job'[u]] /\ job'["worker"].step = step
      BY <2>4, BeginFacts DEF Thread
    <3> QED
      BY <1>0, <2>2, <3>1, CamKept
  <2> QED
    BY <2>1, <2>3, <2>4 DEF ClientLeaves
<1>6. ASSUME NEW e \in Entry, InviteAnswer2(e)
      PROVE  CamInv'
  BY <1>0, <1>6, CamAnswer2
<1>7. ASSUME NEW e \in Entry, NEW k \in 1 .. MaxInvite, InviteAnswer3(e, k)
      PROVE  CamInv'
  BY <1>0, <1>7, CamReceived DEF InviteAnswer3, Reply, Thread
<1>8. ASSUME NEW e \in Entry, NEW k \in 1 .. MaxInvite, ReplayMediaStatusRecv(e, k)
      PROVE  CamInv'
  BY <1>0, <1>8, CamReceived DEF ReplayMediaStatusRecv, Thread
<1>9. ASSUME NEW c \in Call, NEW k \in 1 .. MaxInvite, InviteAnswer4(c, k)
      PROVE  CamInv'
  BY <1>0, <1>9, CamReceived DEF InviteAnswer4, Reply, Thread
<1>10. ASSUME NEW c \in Call, InviteAnswer5(c)
       PROVE  CamInv'
  BY <1>0, <1>10, CamReceived DEF InviteAnswer5, Reply, Thread
<1>11. CASE InviteFailure
  <2>1. Received /\ said \subseteq said'
    BY <1>11 DEF InviteFailure, Reply
  <2>2. UNCHANGED job \/ \E info : Begin("worker", "failure", info)
    BY <1>11, Zenon DEF InviteFailure
  <2> QED
    BY <1>0, <2>1, <2>2, CamReceived DEF Thread
<1>12. CASE PeerByeMsgRecv
  BY <1>0, <1>12, CamReceived DEF PeerByeMsgRecv, Thread
<1>13. CASE SweepNext
  <2>1. UNCHANGED <<tableVars, born, dialogs, said, sent>>
    BY <1>13 DEF SweepNext
  <2>2. job' = [u \in Thread |-> job'[u]] /\ job'["worker"] = job["worker"]
    BY <1>13, BeginFacts DEF SweepNext, Thread
  <2> QED
    BY <1>0, <2>1, <2>2, CamBeside DEF tableVars, Live
<1>14. ASSUME NEW s \in Server, CheckRTPStreamAction(s) \/ SetRTPServerStatus(s)
       PROVE  CamInv'
  BY <1>0, <1>14, CamBeside DEF CheckRTPStreamAction, SetRTPServerStatus, SetOnline,
                                SetOffline, flowVars, Live
<1>15. ASSUME NEW s \in Server, GetRTPStreamInfo(s)
       PROVE  CamInv'
  <2>1. Live' \subseteq Live
    BY <1>15, EraseFacts DEF GetRTPStreamInfo, InsertRTPInfo, TableInv, Live
  <2>2. UNCHANGED flowVars
    BY <1>15 DEF GetRTPStreamInfo
  <2> QED
    BY <1>0, <2>1, <2>2, CamBeside DEF flowVars
<1> QED
  BY <1>1, <1>2, <1>3, <1>4, <1>5, <1>6, <1>7, <1>8, <1>9, <1>10, <1>11, <1>12, <1>13,
     <1>14, <1>15 DEF Next

\* A camera is invited once for a stream, and only after the media server has
\* accepted to receive it, for any number of calls, streams and servers and
\* all faults together.
THEOREM CameraInvitedOnce == Spec => []OneCameraSession
<1>1. Init => CamInv
  <2> SUFFICES ASSUME Init PROVE CamInv
    OBVIOUS
  <2>1. TableInv /\ Live = {}
    BY InitTable DEF Init, Live
  <2>2. /\ \A e \in Entry : ~ CameraAsked(e)
        /\ dialogs \in Dialogs
    BY DEF Init, CameraAsked, Invited, Dialogs, DialogRec, NoDialog
  <2>3. job = [t \in Thread |-> job[t]] /\ job["worker"].step = "idle"
    BY DEF Init, Idle, Thread
  <2> QED
    BY <2>1, <2>2, <2>3 DEF CamInv, Init
<1>2. CamInv /\ [Next]_vars => CamInv'
  BY CamStep
<1>3. CamInv => OneCameraSession
  <2> SUFFICES ASSUME CamInv, NEW e \in Entry
               PROVE  /\ Cardinality({k \in 1 .. MaxInvite : Invited(Dialog3(e, k))}) <= 1
                      /\ \A k \in 1 .. MaxInvite :
                            Invited(Dialog3(e, k)) => <<"ok", Dialog2(e)>> \in said
    BY DEF OneCameraSession
  <2> DEFINE K == {k \in 1 .. MaxInvite : Invited(Dialog3(e, k))}
  <2>1. CameraAsked(e) => AskedOnce(e)
    BY DEF CamInv
  <2>2. K \subseteq {1}
    BY <2>1 DEF CameraAsked, AskedOnce
  <2>3. Cardinality(K) <= 1
    <3>1. K = {} \/ K = {1}
      BY <2>2
    <3>2. Cardinality({}) = 0 /\ Cardinality({1}) = 1
      BY FS_EmptySet, FS_Singleton
    <3> QED
      BY <3>1, <3>2
  <2> QED
    BY <2>1, <2>3 DEF CameraAsked, AskedOnce
<1> QED
  BY <1>1, <1>2, <1>3, PTL DEF Spec

(***************************************************************************)
(* FlowTypeOK.  What a thread works on was in the table when it was        *)
(* copied, so its address has been made, and a Call-ID is only recorded    *)
(* below the bound.                                                        *)
(***************************************************************************)
FlowRec == [msg2 : BOOLEAN, answer2 : BOOLEAN, call3 : 0 .. MaxInvite, answer3 : BOOLEAN]

\* The types of the call handling, and no thread but the known ones.
FlowInv ==
    /\ TableInv
    /\ Live \subseteq born
    /\ born \subseteq Entry
    /\ dialogs \in [Entry -> FlowRec]
    /\ legs \in [Call -> LegRec]
    /\ client \in [Call -> {"idle", "invited", "trying", "gone"}]
    /\ sweeping \subseteq Server
    /\ job = [t \in Thread |-> job[t]]
    /\ \A t \in Thread : IsIdle(t) \/ job[t].info.entry \in born

\* A thread goes on with what it had, ends, or begins with a stream that has
\* been made.
JobKept ==
    /\ job' = [t \in Thread |-> job'[t]]
    /\ \A t \in Thread : \/ job'[t].step = "idle"
                         \/ job'[t] = job[t]
                         \/ job'[t].info.entry \in born'

LEMMA JobTypes ==
    ASSUME FlowInv, JobKept, born \subseteq born'
    PROVE  \A t \in Thread : IsIdle(t)' \/ job'[t].info.entry \in born'
  BY DEF FlowInv, JobKept, IsIdle

LEMMA FreshFacts ==
    ASSUME NEW e, NEW c
    PROVE  FreshCall3(e) \in Nat /\ FreshCall4(c) \in Nat
<1>1. IsFiniteSet(1 .. MaxInvite)
  BY FS_Interval, FlowAssumption
<1>2. /\ IsFiniteSet({k \in 1 .. MaxInvite : Invited(Dialog3(e, k))})
      /\ IsFiniteSet({k \in 1 .. MaxInvite : Invited(Dialog4(c, k))})
  BY <1>1, FS_Subset
<1> QED
  BY <1>2, FS_CardinalityType DEF FreshCall3, FreshCall4

\* What a message selects is a stream of the table.
LEMMA InfoFacts ==
    ASSUME FlowInv
    PROVE  /\ \A e \in Live : /\ StreamInfo(e).entry \in born
                              /\ [StreamInfo(e) EXCEPT !.answer3 = TRUE].entry \in born
           /\ \A e, k : (Knows2(e) \/ Knows3(e, k)) => e \in Live
           /\ \A c, k : InTable(c) \/ Knows4(c, k) => LegInfo(c).entry \in born
<1>1. \A c : InTable(c) => StreamOf(c) \in Live
  BY DEF InTable, StreamOf
<1> QED
  BY <1>1 DEF StreamInfo, LegInfo, PlayInfo, FlowInv, Knows2, Knows3, Knows4

LEMMA BeginKept ==
    ASSUME FlowInv, NEW t \in Thread, NEW step, NEW info, Begin(t, step, info),
           info.entry \in born'
    PROVE  JobKept
  BY BeginFacts DEF FlowInv, JobKept

LEMMA FinishKept ==
    ASSUME FlowInv, NEW t \in Thread, Finish(t)
    PROVE  JobKept
  BY FinishFacts DEF FlowInv, JobKept

\* The handlers that only copy what a message selects.
LEMMA TypesReceived ==
    ASSUME FlowInv, TableInv', Received, JobKept
    PROVE  FlowInv'
<1>1. Live' = Live /\ born' = born
  BY DEF Received, tableVars, Live
<1> QED
  BY <1>1, JobTypes DEF FlowInv, Received, JobKept

LEMMA TypesInviteSend ==
    ASSUME FlowInv, TableInv', InviteSend
    PROVE  FlowInv'
<1> DEFINE e == job["worker"].info.entry
           c == job["worker"].info.call
           k == FreshCall4(c)
<1>1. /\ legs' = legs \/ legs' = [legs EXCEPT ![c] = Inviting(@, k)]
      /\ dialogs' = dialogs \/ dialogs' = [dialogs EXCEPT ![e].msg2 = TRUE]
      /\ k <= MaxInvite
  BY DEF InviteSend
<1>2. k \in 0 .. MaxInvite
  BY <1>1, FreshFacts, FlowAssumption
<1>3. dialogs' \in [Entry -> FlowRec]
  <2>1. CASE dialogs' = dialogs
    BY <2>1 DEF FlowInv
  <2>2. CASE dialogs' = [dialogs EXCEPT ![e].msg2 = TRUE]
    BY <2>2 DEF FlowInv, FlowRec
  <2> QED
    BY <1>1, <2>1, <2>2
<1>4. legs' \in [Call -> LegRec]
  <2> HIDE DEF k
  <2> QED
    BY <1>1, <1>2 DEF FlowInv, LegRec, Inviting
<1>5. JobKept /\ UNCHANGED <<tableVars, born, client, sweeping>>
  BY FinishKept DEF InviteSend, Thread
<1> QED
  BY <1>3, <1>4, <1>5, JobTypes DEF FlowInv, JobKept, tableVars, Live

LEMMA TypesInviteCamera ==
    ASSUME FlowInv, TableInv', InviteCamera
    PROVE  FlowInv'
<1> DEFINE e == job["worker"].info.entry
           k == FreshCall3(e)
<1>1. /\ \/ dialogs' = dialogs
         \/ dialogs' = [dialogs EXCEPT ![e].answer2 = TRUE, ![e].call3 = k]
      /\ k <= MaxInvite
  BY DEF InviteCamera
<1>2. k \in 0 .. MaxInvite
  BY <1>1, FreshFacts, FlowAssumption
<1>3. dialogs' \in [Entry -> FlowRec]
  <2> HIDE DEF k
  <2>1. CASE dialogs' = dialogs
    BY <2>1 DEF FlowInv
  <2>2. CASE dialogs' = [dialogs EXCEPT ![e].answer2 = TRUE, ![e].call3 = k]
    <3>1. \A r \in FlowRec : [r EXCEPT !.answer2 = TRUE, !.call3 = k] \in FlowRec
      BY <1>2 DEF FlowRec
    <3>2. dialogs' = [dialogs EXCEPT ![e] = [@ EXCEPT !.answer2 = TRUE, !.call3 = k]]
      BY <2>2 DEF FlowInv
    <3>3. dialogs \in [Entry -> FlowRec]
      BY DEF FlowInv
    <3> HIDE DEF e
    <3> QED
      BY <3>1, <3>2, <3>3
  <2> QED
    BY <1>1, <2>1, <2>2
<1>4. JobKept /\ UNCHANGED <<tableVars, born, client, legs, sweeping>>
  BY FinishKept DEF InviteCamera, Thread
<1> QED
  BY <1>3, <1>4, JobTypes DEF FlowInv, JobKept, tableVars, Live

LEMMA TypesContinue ==
    ASSUME FlowInv, TableInv', Continue
    PROVE  FlowInv'
<1>1. "worker" \in Thread
  BY DEF Thread
<1>2. CASE InviteSend
  BY <1>2, TypesInviteSend
<1>3. CASE InviteCamera
  BY <1>3, TypesInviteCamera
<1>4. CASE AckCamera
  <2> DEFINE i == job["worker"].info
  <2>1. /\ dialogs' = dialogs \/ dialogs' = [dialogs EXCEPT ![i.entry].answer3 = TRUE]
        /\ UNCHANGED <<tableVars, born, legs, client, sweeping>>
        /\ Begin("worker", "forward", i)
        /\ ~ IsIdle("worker")
    BY <1>4 DEF AckCamera, IsIdle
  <2>2. dialogs' \in [Entry -> FlowRec]
    <3>1. CASE dialogs' = dialogs
      BY <3>1 DEF FlowInv
    <3>2. CASE dialogs' = [dialogs EXCEPT ![i.entry].answer3 = TRUE]
      BY <3>2 DEF FlowInv, FlowRec
    <3> QED
      BY <2>1, <3>1, <3>2
  <2>3. JobKept
    BY <1>1, <2>1, BeginKept DEF FlowInv
  <2> QED
    BY <2>1, <2>2, <2>3, JobTypes DEF FlowInv, JobKept, tableVars, Live
<1>5. CASE ForwardStream
  <2> DEFINE c == job["worker"].info.call
             k == FreshCall4(c)
  <2>1. \/ legs' = legs
        \/ legs' = [legs EXCEPT ![c] = Inviting(@, k)] /\ k <= MaxInvite
    BY <1>5 DEF ForwardStream
  <2>2. k \in Nat
    BY FreshFacts
  <2>3. legs' \in [Call -> LegRec]
    <3> HIDE DEF k
    <3> QED
      BY <2>1, <2>2, FlowAssumption DEF FlowInv, LegRec, Inviting
  <2>4. JobKept /\ UNCHANGED <<tableVars, born, dialogs, client, sweeping>>
    BY <1>1, <1>5, FinishKept DEF ForwardStream
  <2> QED
    BY <2>3, <2>4, JobTypes DEF FlowInv, JobKept, tableVars, Live
<1>6. CASE AnswerClient
  <2> DEFINE c == job["worker"].info.call
  <2>1. \/ legs' = legs
        \/ legs' = [legs EXCEPT ![c] = Answered(@, c \notin Monitor)]
    BY <1>6 DEF AnswerClient
  <2>2. legs' \in [Call -> LegRec]
    <3>1. CASE c \in Call
      <4>1. Answered(legs[c], c \notin Monitor) \in LegRec
        BY <3>1 DEF FlowInv, LegRec, Answered
      <4> QED
        BY <2>1, <3>1, <4>1 DEF FlowInv
    <3>2. CASE c \notin Call
      BY <2>1, <3>2 DEF FlowInv
    <3> QED
      BY <3>1, <3>2
  <2>3. JobKept /\ UNCHANGED <<tableVars, born, dialogs, client, sweeping>>
    BY <1>1, <1>6, FinishKept DEF AnswerClient
  <2> QED
    BY <2>2, <2>3, JobTypes DEF FlowInv, JobKept, tableVars, Live
<1>7. ASSUME NEW t \in Thread, Release(t)
      PROVE  FlowInv'
  <2> DEFINE d == job[t].step \in {"failure", "hangup2"}
  <2>1. Reduce(job[t].info.call, d)
    BY <1>7, Zenon DEF Release
  <2>2. Live' \subseteq Live
    <3>1. d \in BOOLEAN
      OBVIOUS
    <3> HIDE DEF d
    <3> QED
      BY <2>1, <3>1, ReduceLive DEF FlowInv, TableInv
  <2>3. JobKept /\ UNCHANGED <<born, dialogs, legs, client, sweeping>>
    BY <1>7, FinishKept DEF Release
  <2> QED
    BY <2>2, <2>3, JobTypes DEF FlowInv, JobKept
<1> QED
  BY <1>2, <1>3, <1>4, <1>5, <1>6, <1>7 DEF Continue

LEMMA TypesInviteMsg ==
    ASSUME FlowInv, TableInv', NEW c \in Call, InviteMsgRecv(c)
    PROVE  FlowInv'
<1>1. sweeping' = sweeping /\ "worker" \in Thread
  BY DEF InviteMsgRecv, Thread
<1>2. client' \in [Call -> {"idle", "invited", "trying", "gone"}]
  <2>1. PICK state \in {"invited", "trying"} : Calls(c, state)
    BY DEF InviteMsgRecv, InviteRefused, InviteDropped, InviteJoins, InvitePlaced
  <2> QED
    BY <2>1 DEF Calls, FlowInv
<1>3. CASE InviteRefused(c) \/ InviteDropped(c)
  <2>1. UNCHANGED <<tableVars, born, dialogs, legs, job>>
    BY <1>3 DEF InviteRefused, InviteDropped
  <2> QED
    BY <1>1, <1>2, <2>1 DEF FlowInv, IsIdle, tableVars, Live
<1>4. CASE InviteJoins(c) \/ InvitePlaced(c)
  <2>1. legs' = [legs EXCEPT ![c] = NoLeg]
    BY <1>4 DEF InviteJoins, InvitePlaced
  <2>2. legs' \in [Call -> LegRec]
    BY <2>1, FlowAssumption DEF FlowInv, LegRec, NoLeg
  <2>3. CASE InviteJoins(c)
    <3>1. PICK e \in Forwarding(CamOf[c]) :
                 /\ JoinStream(c, CamOf[c], e)
                 /\ Begin("worker", "transmit", [entry |-> e, call |-> c])
      BY <2>3 DEF InviteJoins
    <3>2. UNCHANGED <<born, dialogs>>
      BY <2>3 DEF InviteJoins
    <3>3. Live' = Live /\ e \in Live
      BY <3>1, JoinFacts, FlowAssumption DEF FlowInv, TableInv
    <3>4. JobKept
      BY <1>1, <3>1, <3>2, <3>3, BeginKept DEF FlowInv
    <3> QED
      BY <1>1, <1>2, <2>2, <3>2, <3>3, <3>4, JobTypes DEF FlowInv, JobKept
  <2>4. CASE InvitePlaced(c)
    <3>1. PICK s \in LeastLoaded, e \in Entry \ born :
                 /\ PlaceStream(c, CamOf[c], TypeOf[c], s, e)
                 /\ born' = born \cup {e}
                 /\ dialogs' = [dialogs EXCEPT ![e] = NoDialog]
                 /\ Begin("worker", "request", [entry |-> e, call |-> c])
      BY <2>4 DEF InvitePlaced
    <3>2. Live' = Live \cup {e}
      BY <3>1, PlaceFacts, FlowAssumption DEF FlowInv, TableInv, InviteType
    <3>3. dialogs' \in [Entry -> FlowRec]
      BY <3>1, FlowAssumption DEF FlowInv, FlowRec, NoDialog
    <3>4. JobKept
      BY <1>1, <3>1, BeginKept
    <3> QED
      BY <1>1, <1>2, <2>2, <3>1, <3>2, <3>3, <3>4, JobTypes DEF FlowInv, JobKept
  <2> QED
    BY <1>4, <2>3, <2>4
<1> QED
  BY <1>3, <1>4 DEF InviteMsgRecv

\* The handlers of answers, failures and BYEs, and of MediaStatus.
LEMMA TypesCopy ==
    ASSUME FlowInv, TableInv', Received, NEW t \in Thread, NEW step, NEW info,
           \/ UNCHANGED job
           \/ Begin(t, step, info) /\ info.entry \in born
    PROVE  FlowInv'
<1>1. JobKept
  <2>1. CASE UNCHANGED job
    BY <2>1 DEF FlowInv, JobKept
  <2>2. CASE Begin(t, step, info) /\ info.entry \in born
    BY <2>2, BeginKept DEF Received
  <2> QED
    BY <2>1, <2>2
<1> QED
  BY <1>1, TypesReceived

LEMMA TypesFailure ==
    ASSUME FlowInv, TableInv', InviteFailure
    PROVE  FlowInv'
<1>1. Received /\ "worker" \in Thread
  BY DEF InviteFailure, Thread
<1>2. ASSUME NEW e \in Entry,
             IF Knows2(e) THEN Begin("worker", "failure", StreamInfo(e)) ELSE UNCHANGED job
      PROVE  FlowInv'
  BY <1>1, <1>2, InfoFacts, TypesCopy
<1>3. ASSUME NEW e \in Entry, NEW k \in 1 .. MaxInvite,
             IF Knows3(e, k)
               THEN Begin("worker", "failure", [StreamInfo(e) EXCEPT !.answer3 = TRUE])
               ELSE UNCHANGED job
      PROVE  FlowInv'
  <2> DEFINE info == [StreamInfo(e) EXCEPT !.answer3 = TRUE]
  <2>1. Knows3(e, k) => info.entry \in born
    BY InfoFacts
  <2> HIDE DEF info
  <2> QED
    BY <1>1, <1>3, <2>1, TypesCopy DEF info
<1>4. ASSUME NEW c \in Call, NEW k \in 1 .. MaxInvite,
             IF Knows4(c, k) THEN Begin("worker", "failure", LegInfo(c)) ELSE UNCHANGED job
      PROVE  FlowInv'
  BY <1>1, <1>4, InfoFacts, TypesCopy
<1> QED
  BY <1>2, <1>3, <1>4, Zenon DEF InviteFailure

LEMMA TypesPeerBye ==
    ASSUME FlowInv, TableInv', PeerByeMsgRecv
    PROVE  FlowInv'
<1>1. Received /\ "worker" \in Thread
  BY DEF PeerByeMsgRecv, Thread
<1>2. ASSUME NEW c \in Call, NEW k \in 1 .. MaxInvite, Knows4(c, k),
             Begin("worker", "hangup", LegInfo(c))
      PROVE  FlowInv'
  BY <1>1, <1>2, InfoFacts, TypesCopy
<1>3. ASSUME NEW e \in Entry, NEW step, Begin("worker", step, StreamInfo(e)),
             Knows2(e) \/ \E k \in 1 .. MaxInvite : Knows3(e, k)
      PROVE  FlowInv'
  BY <1>1, <1>3, InfoFacts, TypesCopy
<1> QED
  BY <1>2, <1>3, Zenon DEF PeerByeMsgRecv

LEMMA TypesStep ==
    ASSUME FlowInv, [Next]_vars
    PROVE  FlowInv'
<1>0. TableInv'
  BY NextSteps, StepType DEF TableInv, FlowInv
<1> "worker" \in Thread /\ "media" \in Thread /\ "sweeper" \in Thread
  BY DEF Thread
<1>1. CASE UNCHANGED vars
  BY <1>0, <1>1 DEF FlowInv, IsIdle, vars, flowVars, tableVars, Live
<1>2. CASE Continue
  BY <1>0, <1>2, TypesContinue
<1>3. ASSUME NEW c \in Call, InviteMsgRecv(c)
      PROVE  FlowInv'
  BY <1>0, <1>3, TypesInviteMsg
<1>4. ASSUME NEW c \in Call, InviteRepeated(c) \/ InviteAckRecv(c)
      PROVE  FlowInv'
  BY <1>0, <1>4 DEF InviteRepeated, InviteAckRecv, FlowInv, IsIdle, tableVars, Live
<1>5. ASSUME NEW c \in Call, CancelMsgRecv(c) \/ ByeMsgRecv(c)
      PROVE  FlowInv'
  <2>1. PICK step \in {"cancel", "bye"} : ClientLeaves(c, step)
    BY <1>5 DEF CancelMsgRecv, ByeMsgRecv
  <2>2. /\ UNCHANGED <<tableVars, born, dialogs, legs, sweeping>>
        /\ client' = [client EXCEPT ![c] = "gone"]
    BY <2>1 DEF ClientLeaves
  <2>3. JobKept
    <3>1. CASE UNCHANGED job
      BY <3>1 DEF FlowInv, JobKept
    <3>2. CASE InTable(c) /\ Begin("worker", step, LegInfo(c))
      BY <2>2, <3>2, InfoFacts, BeginKept
    <3> QED
      BY <2>1, <3>1, <3>2 DEF ClientLeaves
  <2> QED
    BY <1>0, <2>2, <2>3, JobTypes DEF FlowInv, JobKept, tableVars, Live
<1>6. ASSUME NEW e \in Entry, InviteAnswer2(e)
      PROVE  FlowInv'
  <2>1. Received /\ (UNCHANGED job \/ (Knows2(e) /\ Begin("worker", "answer2", StreamInfo(e))))
    BY <1>6 DEF InviteAnswer2
  <2>2. UNCHANGED job \/ (Begin("worker", "answer2", StreamInfo(e)) /\ StreamInfo(e).entry \in born)
    BY <2>1, InfoFacts
  <2> QED
    BY <1>0, <2>1, <2>2, TypesCopy
<1>7. ASSUME NEW e \in Entry, NEW k \in 1 .. MaxInvite, InviteAnswer3(e, k)
      PROVE  FlowInv'
  <2>1. Received /\ (UNCHANGED job \/ (Knows3(e, k) /\ Begin("worker", "answer3", StreamInfo(e))))
    BY <1>7 DEF InviteAnswer3
  <2>2. UNCHANGED job \/ (Begin("worker", "answer3", StreamInfo(e)) /\ StreamInfo(e).entry \in born)
    BY <2>1, InfoFacts
  <2> QED
    BY <1>0, <2>1, <2>2, TypesCopy
<1>8. ASSUME NEW e \in Entry, NEW k \in 1 .. MaxInvite, ReplayMediaStatusRecv(e, k)
      PROVE  FlowInv'
  <2>1. Received /\ Knows3(e, k) /\ Begin("media", "mediaend", StreamInfo(e))
    BY <1>8 DEF ReplayMediaStatusRecv
  <2> QED
    BY <1>0, <2>1, InfoFacts, TypesCopy
<1>9. ASSUME NEW c \in Call, NEW k \in 1 .. MaxInvite, InviteAnswer4(c, k)
      PROVE  FlowInv'
  <2>1. Received /\ (UNCHANGED job \/ (Knows4(c, k) /\ Begin("worker", "answer4", LegInfo(c))))
    BY <1>9 DEF InviteAnswer4
  <2>2. UNCHANGED job \/ (Begin("worker", "answer4", LegInfo(c)) /\ LegInfo(c).entry \in born)
    BY <2>1, InfoFacts
  <2> QED
    BY <1>0, <2>1, <2>2, TypesCopy
<1>10. ASSUME NEW c \in Call, InviteAnswer5(c)
       PROVE  FlowInv'
  <2>1. Received /\ UNCHANGED job
    BY <1>10 DEF InviteAnswer5
  <2> QED
    BY <1>0, <2>1, TypesCopy
<1>11. CASE InviteFailure
  BY <1>0, <1>11, TypesFailure
<1>12. CASE PeerByeMsgRecv
  BY <1>0, <1>12, TypesPeerBye
<1>13. CASE SweepNext
  <2>1. UNCHANGED <<tableVars, born, dialogs, legs, client>> /\ sweeping' \subseteq Server
    BY <1>13 DEF SweepNext, FlowInv
  <2>2. JobKept
    <3>1. CASE UNCHANGED job
      BY <3>1 DEF FlowInv, JobKept
    <3>2. ASSUME NEW e \in Live, Begin("sweeper", "sweep", StreamInfo(e))
          PROVE  JobKept
      <4>1. StreamInfo(e).entry \in born'
        BY <2>1, InfoFacts
      <4> QED
        BY <3>2, <4>1, BeginKept
    <3> QED
      BY <1>13, <3>1, <3>2 DEF SweepNext, OnServer
  <2> QED
    BY <1>0, <2>1, <2>2, JobTypes DEF FlowInv, JobKept, tableVars, Live
<1>14. ASSUME NEW s \in Server, CheckRTPStreamAction(s) \/ SetRTPServerStatus(s)
       PROVE  FlowInv'
  BY <1>0, <1>14 DEF CheckRTPStreamAction, SetRTPServerStatus, SetOnline,
                     SetOffline, flowVars, FlowInv, IsIdle, Live
<1>15. ASSUME NEW s \in Server, GetRTPStreamInfo(s)
       PROVE  FlowInv'
  <2>1. Live' \subseteq Live
    BY <1>15, EraseFacts DEF GetRTPStreamInfo, InsertRTPInfo, FlowInv, TableInv, Live
  <2>2. UNCHANGED flowVars
    BY <1>15 DEF GetRTPStreamInfo
  <2> QED
    BY <1>0, <2>1, <2>2 DEF FlowInv, IsIdle, flowVars
<1> QED
  BY <1>1, <1>2, <1>3, <1>4, <1>5, <1>6, <1>7, <1>8, <1>9, <1>10, <1>11, <1>12, <1>13,
     <1>14, <1>15 DEF Next

\* The call handling is well typed, and every stream in the table or in the
\* hands of a thread was made by GetPracticableRTPServer.
THEOREM FlowTypes == Spec => []FlowTypeOK
<1>1. Init => FlowInv
  <2> SUFFICES ASSUME Init PROVE FlowInv
    OBVIOUS
  <2>1. TableInv /\ Live = {}
    BY InitTable DEF Init, Live
  <2>2. dialogs \in [Entry -> FlowRec] /\ legs \in [Call -> LegRec]
    BY FlowAssumption DEF Init, FlowRec, NoDialog, LegRec, NoLeg
  <2> QED
    BY <2>1, <2>2 DEF FlowInv, Init, Idle, IsIdle
<1>2. FlowInv /\ [Next]_vars => FlowInv'
  BY TypesStep
<1>3. FlowInv => FlowTypeOK
  BY DEF FlowInv, FlowRec, TableInv, FlowTypeOK
<1> QED
  BY <1>1, <1>2, <1>3, PTL DEF Spec

\* ReduceRTPTotal without its flag, as the handlers call it.
LEMMA ReduceSpares ==
    ASSUME TableInv, NEW c, Reduce(c, FALSE), NEW x \in Call, x # c, InTable(x)
    PROVE  InTable(x)'
<1>1. CASE UNCHANGED tableVars
  BY <1>1 DEF tableVars, InTable, Live, Holds
<1>2. ASSUME NEW e \in Live, DeleteStream(e, c, FALSE) \/ DeleteLeg(e, c)
      PROVE  InTable(x)'
  <2>1. c \in Call
    <3>1. cams[e].invites \in Seq(Call) /\ Holds(e, c)
      BY <1>2, LiveFacts DEF TableInv, DeleteStream, DeleteLeg
    <3> QED
      BY <3>1 DEF Holds, ToSet
  <2> QED
    BY <1>2, <2>1, DeletesOne DEF TableInv
<1> QED
  BY <1>1, <1>2, Zenon DEF Reduce

(***************************************************************************)
(* EveryEndTold.                                                           *)
(***************************************************************************)
\* A handler that was begun by a BYE of the client does not tell it; no other
\* end takes a whole stream with several calls out of the table.
EndsOne ==
    \A t \in Thread :
        /\ job[t].step \notin {"failure", "hangup2"}
        /\ job[t].step = "bye" => client[job[t].info.call] = "gone"

\* Told, whether or not a thread is still at work.
Told == \A c \in Call : client[c] = "invited" /\ ~ InTable(c) => ToldOver(c)

EndInv ==
    /\ TableInv
    /\ job = [t \in Thread |-> job[t]]
    /\ client = [c \in Call |-> client[c]]
    /\ faults \subseteq OneByOne => EndsOne /\ Told

\* A step that tells of nothing and drops no call.
NoNewEnd ==
    /\ client' = [c \in Call |-> client'[c]]
    /\ \A c : client[c] = "gone" => client'[c] = "gone"
    /\ \A c \in Call : client'[c] = "invited" => client[c] = "invited"
    /\ \A c \in Call : InTable(c) => InTable(c)'
    /\ sent \subseteq sent'
    /\ faults' = faults

LEMMA ToldKept ==
    ASSUME sent \subseteq sent', NEW c, ToldOver(c)
    PROVE  ToldOver(c)'
  BY DEF ToldOver, Dialog1

\* What a thread may do while it neither drops a call nor tells of its end.
LEMMA EndKept ==
    ASSUME EndInv, TableInv', NoNewEnd,
           job' = [t \in Thread |-> job'[t]],
           NEW u \in Thread, \A t \in Thread \ {u} : job'[t] = job[t],
           faults \subseteq OneByOne =>
              \/ job'[u] = job[u]
              \/ /\ job'[u].step \notin {"failure", "hangup2"}
                 /\ job'[u].step = "bye" => client'[job'[u].info.call] = "gone"
    PROVE  EndInv'
<1> SUFFICES ASSUME faults \subseteq OneByOne
             PROVE  EndsOne' /\ Told'
  BY DEF EndInv, NoNewEnd, OneByOne
<1>1. EndsOne /\ Told
  BY DEF EndInv
<1>2. EndsOne'
  <2> SUFFICES ASSUME NEW t \in Thread
               PROVE  /\ job'[t].step \notin {"failure", "hangup2"}
                      /\ job'[t].step = "bye" => client'[job'[t].info.call] = "gone"
    BY DEF EndsOne
  <2>1. CASE job'[t] = job[t]
    BY <1>1, <2>1 DEF EndsOne, NoNewEnd
  <2>2. CASE job'[t] # job[t]
    BY <2>2
  <2> QED
    BY <2>1, <2>2
<1>3. Told'
  <2> SUFFICES ASSUME NEW c \in Call, client'[c] = "invited", ~ InTable(c)'
               PROVE  ToldOver(c)'
    BY DEF Told
  <2>1. client[c] = "invited" /\ ~ InTable(c) /\ sent \subseteq sent'
    BY DEF NoNewEnd
  <2>2. ToldOver(c)
    BY <1>1, <2>1 DEF Told
  <2> QED
    BY <2>1, <2>2, ToldKept
<1> QED
  BY <1>2, <1>3

LEMMA EndFinish ==
    ASSUME EndInv, TableInv', NoNewEnd, NEW t \in Thread, Finish(t)
    PROVE  EndInv'
<1>1. /\ job' = [u \in Thread |-> job'[u]]
      /\ job'[t].step = "idle"
      /\ \A u \in Thread \ {t} : job'[u] = job[u]
  BY FinishFacts DEF EndInv
<1> QED
  BY <1>1, EndKept

LEMMA EndBegin ==
    ASSUME EndInv, TableInv', NoNewEnd, NEW t \in Thread, NEW step, NEW info,
           \/ UNCHANGED job
           \/ Begin(t, step, info),
           faults \subseteq OneByOne => step \notin {"failure", "hangup2"},
           step = "bye" => client'[info.call] = "gone"
    PROVE  EndInv'
<1>1. CASE UNCHANGED job
  BY <1>1, EndKept DEF EndInv
<1>2. CASE Begin(t, step, info)
  <2>1. /\ job' = [u \in Thread |-> job'[u]]
        /\ job'[t].step = step
        /\ job'[t].info = info
        /\ \A u \in Thread \ {t} : job'[u] = job[u]
    BY <1>2, BeginFacts DEF EndInv
  <2> QED
    BY <2>1, EndKept
<1> QED
  BY <1>1, <1>2

\* The table and the clients stay as they are.
LEMMA QuietTable ==
    ASSUME EndInv, UNCHANGED <<cams, client, faults>>, sent \subseteq sent'
    PROVE  NoNewEnd
  BY DEF EndInv, NoNewEnd, InTable, Live, Holds

\* The one step by which a call leaves: unless the client said BYE itself, it
\* is told.
LEMMA EndRelease ==
    ASSUME EndInv, TableInv', NEW t \in Thread, Release(t)
    PROVE  EndInv'
<1> DEFINE i == job[t].info
           step == job[t].step
           d == step \in {"failure", "hangup2"}
<1>1. /\ Reduce(i.call, d)
      /\ sent \cup SendByeMsg(i, step = "bye", step = "hangup2") \subseteq sent'
      /\ UNCHANGED <<client, faults>>
      /\ Finish(t)
  BY Zenon DEF Release
<1>2. /\ job' = [u \in Thread |-> job'[u]]
      /\ job'[t].step = "idle"
      /\ \A u \in Thread \ {t} : job'[u] = job[u]
  BY <1>1, FinishFacts DEF EndInv
<1> SUFFICES ASSUME faults \subseteq OneByOne
             PROVE  EndsOne' /\ Told'
  BY <1>1, <1>2 DEF EndInv, OneByOne
<1>3. EndsOne /\ Told
  BY DEF EndInv
<1>4. EndsOne'
  BY <1>1, <1>2, <1>3 DEF EndsOne
<1>5. Reduce(i.call, FALSE)
  <2>1. d = FALSE
    BY <1>3 DEF EndsOne
  <2> QED
    BY <1>1, <2>1
<1>6. step = "bye" \/ <<"bye", Dialog1(i.call)>> \in sent'
  BY <1>1 DEF SendByeMsg
<1>7. ASSUME NEW c \in Call, client'[c] = "invited", ~ InTable(c)'
      PROVE  ToldOver(c)'
  <2>1. client[c] = "invited"
    BY <1>1, <1>7
  <2>2. CASE c = i.call
    <3>1. step # "bye"
      BY <1>3, <2>1, <2>2 DEF EndsOne
    <3> QED
      BY <1>6, <2>2, <3>1 DEF ToldOver, Dialog1
  <2>3. CASE c # i.call
    <3>1. ~ InTable(c)
      BY <1>5, <1>7, <2>3, ReduceSpares DEF EndInv
    <3>2. ToldOver(c)
      BY <1>3, <2>1, <3>1 DEF Told
    <3> QED
      BY <1>1, <3>2, ToldKept
  <2> QED
    BY <2>2, <2>3
<1> QED
  BY <1>4, <1>7 DEF Told

\* A new call is refused, or left with its 100, or in the table.
LEMMA EndInvite ==
    ASSUME EndInv, TableInv', NEW c \in Call, InviteMsgRecv(c)
    PROVE  EndInv'
<1>1. faults' = faults /\ ~ InTable(c) /\ "worker" \in Thread
  BY DEF InviteMsgRecv, Thread
<1>2. PICK state \in {"invited", "trying"} : Calls(c, state)
  BY DEF InviteMsgRecv, InviteRefused, InviteDropped, InviteJoins, InvitePlaced
<1>3. /\ client' = [x \in Call |-> client'[x]]
      /\ \A x \in Call \ {c} : client'[x] = client[x]
      /\ \A x : client[x] = "gone" => client'[x] = "gone"
  BY <1>2 DEF EndInv, Calls
<1>4. sent \subseteq sent'
  BY DEF InviteMsgRecv, InviteRefused, InviteDropped, InviteJoins, InvitePlaced
<1>5. /\ job' = [t \in Thread |-> job'[t]]
      /\ \A t \in Thread \ {"worker"} : job'[t] = job[t]
      /\ job'["worker"] = job["worker"] \/ job'["worker"].step \in {"transmit", "request"}
  <2>1. CASE UNCHANGED job
    BY <2>1 DEF EndInv
  <2>2. ASSUME NEW step \in {"transmit", "request"}, NEW info, Begin("worker", step, info)
        PROVE  /\ job' = [t \in Thread |-> job'[t]]
               /\ \A t \in Thread \ {"worker"} : job'[t] = job[t]
               /\ job'["worker"].step \in {"transmit", "request"}
    BY <1>1, <2>2, BeginFacts DEF EndInv
  <2> QED
    BY <2>1, <2>2, Zenon
       DEF InviteMsgRecv, InviteRefused, InviteDropped, InviteJoins, InvitePlaced
<1>6. /\ \A x \in Call : InTable(x) => InTable(x)'
      /\ client'[c] = "invited" => ToldOver(c)' \/ InTable(c)' \/ client[c] = "gone"
  <2>1. CASE InviteRefused(c)
    <3>1. UNCHANGED cams /\ <<"fail", c>> \in sent'
      BY <2>1 DEF InviteRefused, tableVars
    <3> QED
      BY <3>1 DEF ToldOver, InTable, Live, Holds
  <2>2. CASE InviteDropped(c)
    <3>1. UNCHANGED cams /\ client' = [client EXCEPT ![c] = IF @ = "gone" THEN @ ELSE "trying"]
      BY <2>2 DEF InviteDropped, tableVars, Calls
    <3>2. client'[c] # "invited"
      BY <3>1 DEF EndInv
    <3> QED
      BY <3>1, <3>2 DEF InTable, Live, Holds
  <2>3. CASE InviteJoins(c)
    <3>1. PICK e \in Forwarding(CamOf[c]) : JoinStream(c, CamOf[c], e)
      BY <2>3 DEF InviteJoins
    <3> QED
      BY <3>1, JoinKeeps, FlowAssumption DEF EndInv, TableInv
  <2>4. CASE InvitePlaced(c)
    <3>1. PICK s \in LeastLoaded, e \in Entry \ born :
                  PlaceStream(c, CamOf[c], TypeOf[c], s, e)
      BY <2>4 DEF InvitePlaced
    <3>2. CamOf[c] \in Camera /\ TypeOf[c] \in InviteType
      BY FlowAssumption DEF InviteType
    <3> QED
      BY <3>1, <3>2, PlaceKeeps DEF EndInv, TableInv
  <2> QED
    BY <2>1, <2>2, <2>3, <2>4 DEF InviteMsgRecv
<1> SUFFICES ASSUME faults \subseteq OneByOne
             PROVE  EndsOne' /\ Told'
  BY <1>1, <1>3, <1>5 DEF EndInv, OneByOne
<1>7. EndsOne /\ Told
  BY DEF EndInv
<1>8. client[c] # "gone"
  BY DEF InviteMsgRecv, OneByOne
<1>9. EndsOne'
  <2> SUFFICES ASSUME NEW t \in Thread
               PROVE  /\ job'[t].step \notin {"failure", "hangup2"}
                      /\ job'[t].step = "bye" => client'[job'[t].info.call] = "gone"
    BY DEF EndsOne
  <2>1. CASE job'[t] = job[t]
    BY <1>3, <1>7, <2>1 DEF EndsOne
  <2>2. CASE job'[t].step \in {"transmit", "request"}
    BY <2>2
  <2> QED
    BY <1>5, <2>1, <2>2
<1>10. ASSUME NEW x \in Call, client'[x] = "invited", ~ InTable(x)'
       PROVE  ToldOver(x)'
  <2>1. CASE x = c
    BY <1>6, <1>8, <1>10, <2>1
  <2>2. CASE x # c
    <3>1. ToldOver(x)
      BY <1>3, <1>6, <1>7, <1>10, <2>2 DEF Told
    <3> QED
      BY <1>4, <3>1, ToldKept
  <2> QED
    BY <2>1, <2>2
<1> QED
  BY <1>9, <1>10 DEF Told

LEMMA EndStep ==
    ASSUME EndInv, [Next]_vars
    PROVE  EndInv'
<1>0. TableInv'
  BY NextSteps, StepType DEF TableInv, EndInv
<1> "worker" \in Thread /\ "media" \in Thread /\ "sweeper" \in Thread
  BY DEF Thread
<1>1. CASE UNCHANGED vars
  BY <1>0, <1>1, Zenon DEF EndInv, vars, flowVars, EndsOne, Told, ToldOver, tableVars, InTable, Live, Holds
<1>2. CASE InviteSend \/ InviteCamera \/ ForwardStream \/ AnswerClient
  <2>1. /\ UNCHANGED <<cams, client, faults>>
        /\ sent \subseteq sent'
        /\ Finish("worker")
    BY <1>2 DEF InviteSend, InviteCamera, ForwardStream, AnswerClient, tableVars
  <2> QED
    BY <1>0, <2>1, QuietTable, EndFinish
<1>3. CASE AckCamera
  <2>1. /\ UNCHANGED <<cams, client, faults>>
        /\ sent \subseteq sent'
        /\ Begin("worker", "forward", job["worker"].info)
    BY <1>3 DEF AckCamera, tableVars
  <2> QED
    BY <1>0, <2>1, QuietTable, EndBegin
<1>4. ASSUME NEW t \in Thread, Release(t)
      PROVE  EndInv'
  BY <1>0, <1>4, EndRelease
<1>5. ASSUME NEW c \in Call, InviteMsgRecv(c)
      PROVE  EndInv'
  BY <1>0, <1>5, EndInvite
<1>6. ASSUME NEW c \in Call, InviteRepeated(c) \/ InviteAckRecv(c)
      PROVE  EndInv'
  <2>1. UNCHANGED <<cams, client, faults, job>> /\ sent \subseteq sent'
    BY <1>6 DEF InviteRepeated, InviteAckRecv, tableVars
  <2> QED
    BY <1>0, <2>1, QuietTable, EndBegin
<1>7. ASSUME NEW c \in Call, CancelMsgRecv(c) \/ ByeMsgRecv(c)
      PROVE  EndInv'
  <2>1. PICK step \in {"cancel", "bye"} : ClientLeaves(c, step)
    BY <1>7 DEF CancelMsgRecv, ByeMsgRecv
  <2>2. /\ client' = [client EXCEPT ![c] = "gone"]
        /\ UNCHANGED <<cams, faults>>
        /\ sent' = sent
    BY <2>1 DEF ClientLeaves, tableVars
  <2>3. NoNewEnd
    BY <2>2 DEF EndInv, NoNewEnd, InTable, Live, Holds
  <2>4. client'[c] = "gone" /\ LegInfo(c).call = c
    BY <2>2 DEF EndInv, LegInfo, PlayInfo
  <2>5. UNCHANGED job \/ Begin("worker", step, LegInfo(c))
    BY <2>1, Zenon DEF ClientLeaves
  <2> QED
    BY <1>0, <2>3, <2>4, <2>5, EndBegin
<1>8. ASSUME Received, NEW t \in Thread, NEW step, NEW info,
             UNCHANGED job \/ Begin(t, step, info),
             step # "bye",
             faults \subseteq OneByOne => step \notin {"failure", "hangup2"}
      PROVE  EndInv'
  <2>1. NoNewEnd
    BY <1>8, QuietTable DEF Received, tableVars
  <2> QED
    BY <1>0, <1>8, <2>1, EndBegin
<1>9. ASSUME NEW e \in Entry, InviteAnswer2(e)
      PROVE  EndInv'
  <2>1. Received /\ (UNCHANGED job \/ Begin("worker", "answer2", StreamInfo(e)))
    BY <1>9, Zenon DEF InviteAnswer2
  <2> QED
    BY <1>8, <2>1
<1>10. ASSUME NEW e \in Entry, NEW k \in 1 .. MaxInvite, InviteAnswer3(e, k)
       PROVE  EndInv'
  <2>1. Received /\ (UNCHANGED job \/ Begin("worker", "answer3", StreamInfo(e)))
    BY <1>10, Zenon DEF InviteAnswer3
  <2> QED
    BY <1>8, <2>1
<1>11. ASSUME NEW e \in Entry, NEW k \in 1 .. MaxInvite, ReplayMediaStatusRecv(e, k)
       PROVE  EndInv'
  <2>1. Received /\ Begin("media", "mediaend", StreamInfo(e))
    BY <1>11, Zenon DEF ReplayMediaStatusRecv
  <2> QED
    BY <1>8, <2>1
<1>12. ASSUME NEW c \in Call, NEW k \in 1 .. MaxInvite, InviteAnswer4(c, k)
       PROVE  EndInv'
  <2>1. Received /\ (UNCHANGED job \/ Begin("worker", "answer4", LegInfo(c)))
    BY <1>12, Zenon DEF InviteAnswer4
  <2> QED
    BY <1>8, <2>1
<1>13. ASSUME NEW c \in Call, InviteAnswer5(c)
       PROVE  EndInv'
  <2>1. Received /\ UNCHANGED job
    BY <1>13 DEF InviteAnswer5
  <2>2. UNCHANGED <<cams, client, faults>> /\ sent \subseteq sent'
    BY <2>1 DEF Received, tableVars
  <2>3. NoNewEnd
    BY <2>2, QuietTable
  <2> QED
    BY <1>0, <2>1, <2>3, EndKept DEF EndInv
<1>14. CASE InviteFailure
  <2>1. Received /\ ~ (faults \subseteq OneByOne)
    BY <1>14 DEF InviteFailure, OneByOne
  <2>2. PICK info : UNCHANGED job \/ Begin("worker", "failure", info)
    BY <1>14, Zenon DEF InviteFailure
  <2> QED
    BY <1>8, <2>1, <2>2
<1>15. CASE PeerByeMsgRecv
  <2>1. Received
    BY <1>15 DEF PeerByeMsgRecv
  <2>2. PICK step, info :
               /\ step \in {"hangup", "hangup2"}
               /\ Begin("worker", step, info)
               /\ step = "hangup2" => "hangup2" \in faults
    <3>1. (\E info : Begin("worker", "hangup", info))
          \/ ("hangup2" \in faults /\ \E info : Begin("worker", "hangup2", info))
      BY <1>15, Zenon DEF PeerByeMsgRecv
    <3> QED
      BY <3>1
  <2>3. faults \subseteq OneByOne => step # "hangup2"
    BY <2>2 DEF OneByOne
  <2> QED
    BY <1>8, <2>1, <2>2, <2>3
<1>16. CASE SweepNext
  <2>1. /\ UNCHANGED <<cams, client, faults>>
        /\ sent \subseteq sent'
    BY <1>16 DEF SweepNext, tableVars
  <2>2. PICK info : UNCHANGED job \/ Begin("sweeper", "sweep", info)
    BY <1>16, Zenon DEF SweepNext
  <2> QED
    BY <1>0, <2>1, <2>2, QuietTable, EndBegin
<1>17. ASSUME NEW s \in Server, CheckRTPStreamAction(s) \/ SetRTPServerStatus(s)
       PROVE  EndInv'
  <2>1. UNCHANGED <<cams, client, faults, job>> /\ sent \subseteq sent'
    BY <1>17 DEF CheckRTPStreamAction, SetRTPServerStatus, SetOnline, SetOffline, flowVars
  <2> QED
    BY <1>0, <2>1, QuietTable, EndBegin
<1>18. ASSUME NEW s \in Server, GetRTPStreamInfo(s)
       PROVE  EndInv'
  <2>1. UNCHANGED <<client, faults, job>> /\ ~ (faults \subseteq OneByOne)
    BY <1>18 DEF GetRTPStreamInfo, flowVars, OneByOne
  <2> QED
    BY <1>0, <2>1 DEF EndInv
<1> QED
  BY <1>1, <1>2, <1>3, <1>4, <1>5, <1>6, <1>7, <1>9, <1>10, <1>11, <1>12, <1>13,
     <1>14, <1>15, <1>16, <1>17, <1>18 DEF Next, Continue

\* However clients, peers, the media thread and the sweeper end calls, each from
\* a copy that may be stale: a client whose call is gone was told, or left itself.
THEOREM EveryEndIsTold == Spec => []EveryEndTold
<1>1. Init => EndInv
  <2> SUFFICES ASSUME Init PROVE EndInv
    OBVIOUS
  <2>1. TableInv
    BY InitTable
  <2> QED
    BY <2>1 DEF EndInv, Init, EndsOne, Told, Idle
<1>2. EndInv /\ [Next]_vars => EndInv'
  BY EndStep
<1>3. EndInv => EveryEndTold
  BY DEF EndInv, EveryEndTold, Told
<1> QED
  BY <1>1, <1>2, <1>3, PTL DEF Spec

(***************************************************************************)
(* What the worker alone keeps.  While only clients, the camera and dialog *)
(* 4 of the media server end calls, nothing acts beside the worker, so its *)
(* copy is still what the table says when it uses it.                      *)
(***************************************************************************)
WorkerOnly == {"absent", "hangup", "repeat"}

WorkerSteps == {"idle", "transmit", "request", "answer2", "answer3", "forward", "answer4",
                "cancel", "bye", "hangup"}

\* The call and the stream of the copy are in the table, and what ends the call
\* sees the stream as it is.
CopyFresh ==
    LET j == job["worker"]
    IN  /\ j.step \in WorkerSteps
        /\ j.step # "idle" => /\ j.info.entry \in Live
                              /\ j.info.call \in Call
                              /\ Holds(j.info.entry, j.info.call)
        /\ j.step \in {"cancel", "bye", "hangup"} => j.info = PlayInfo(j.info.entry, j.info.call)
        /\ j.step = "answer3" => j.info.call3 # 0

WorkerAlone ==
    /\ \A t \in Thread \ {"worker"} : job[t].step = "idle"
    /\ sweeping = {}
    /\ CopyFresh

AnswerOfCall3 == \A e \in Entry : dialogs[e].answer3 => dialogs[e].call3 # 0

\* CameraReleased and LastInvite4Closed at every step.
GoneClosed ==
    \A e \in born \ Live :
        /\ dialogs[e].msg2 => <<"bye", Dialog2(e)>> \in sent
        /\ dialogs[e].answer3 => <<"bye", Dialog3(e, dialogs[e].call3)>> \in sent

LegsClosed ==
    \A c \in Call : ~ InTable(c) /\ legs[c].call4 # 0 =>
        <<"bye", Dialog4(c, legs[c].call4)>> \in sent

MessagesInv == AnswerOfCall3 /\ GoneClosed /\ LegsClosed

BaseInv == FlowInv /\ PlaceInv

WorkerInv == BaseInv /\ (faults \subseteq WorkerOnly => WorkerAlone /\ MessagesInv)

LEMMA BaseStep ==
    ASSUME BaseInv, [Next]_vars
    PROVE  BaseInv'
<1>1. [TableNext]_tableVars
  BY NextSteps DEF BaseInv, PlaceInv
<1> QED
  BY <1>1, TypesStep, StepPlaceInv DEF BaseInv

\* What is closed stays so, as long as no other stream leaves.
LEMMA GoneKept ==
    ASSUME GoneClosed, sent \subseteq sent',
           \A e \in born' \ Live' : e \in born \ Live /\ dialogs'[e] = dialogs[e]
    PROVE  GoneClosed'
<1> SUFFICES ASSUME NEW e \in born' \ Live'
             PROVE  /\ dialogs'[e].msg2 => <<"bye", Dialog2(e)>> \in sent'
                    /\ dialogs'[e].answer3 => <<"bye", Dialog3(e, dialogs'[e].call3)>> \in sent'
  BY Zenon DEF GoneClosed, Dialog2, Dialog3
<1>1. e \in born \ Live /\ dialogs'[e] = dialogs[e]
  OBVIOUS
<1> QED
  BY <1>1 DEF GoneClosed

\* The steps of the worker within a call, and the handlers that only copy.
LEMMA MessagesKept ==
    ASSUME MessagesInv, UNCHANGED <<cams, born>>, sent \subseteq sent',
           \A e \in Entry : dialogs'[e].answer3 => dialogs'[e].call3 # 0,
           \A e \in Entry \ Live : dialogs'[e] = dialogs[e],
           \A c \in Call : ~ InTable(c) => legs'[c] = legs[c],
           born \subseteq Entry
    PROVE  MessagesInv'
<1>1. /\ Live' = Live
      /\ \A c : InTable(c)' = InTable(c)
  BY DEF Live, InTable, Holds
<1>2. GoneClosed'
  <2>1. \A e \in born' \ Live' : e \in born \ Live /\ dialogs'[e] = dialogs[e]
    BY <1>1
  <2> QED
    BY <2>1, GoneKept DEF MessagesInv
<1>3. LegsClosed'
  BY <1>1 DEF MessagesInv, LegsClosed, Dialog4
<1>4. AnswerOfCall3'
  BY DEF AnswerOfCall3
<1> QED
  BY <1>2, <1>3, <1>4 DEF MessagesInv

\* The worker ends, or goes on with the call it has.
LEMMA AloneFinish ==
    ASSUME BaseInv, WorkerAlone, sweeping' = sweeping, Finish("worker")
    PROVE  WorkerAlone'
<1>1. /\ job'["worker"].step = "idle"
      /\ \A u \in Thread \ {"worker"} : job'[u] = job[u]
  BY FinishFacts DEF Thread, BaseInv, FlowInv
<1> QED
  BY <1>1 DEF WorkerAlone, CopyFresh, WorkerSteps

LEMMA AloneBegin ==
    ASSUME BaseInv, WorkerAlone, sweeping' = sweeping, NEW step, NEW info,
           \/ UNCHANGED <<job, cams, dialogs, legs>>
           \/ /\ Begin("worker", step, info)
              /\ step \in WorkerSteps
              /\ info.entry \in Live'
              /\ info.call \in Call
              /\ Holds(info.entry, info.call)'
              /\ step \in {"cancel", "bye", "hangup"} => info = PlayInfo(info.entry, info.call)'
              /\ step = "answer3" => info.call3 # 0
    PROVE  WorkerAlone'
<1>1. CASE UNCHANGED <<job, cams, dialogs, legs>>
  BY <1>1 DEF WorkerAlone, CopyFresh, Live, Holds, PlayInfo
<1>2. CASE ~ UNCHANGED <<job, cams, dialogs, legs>>
  <2>1. /\ job'["worker"].step = step
        /\ job'["worker"].info = info
        /\ \A u \in Thread \ {"worker"} : job'[u] = job[u]
    BY <1>2, BeginFacts DEF Thread, BaseInv, FlowInv
  <2>2. \A t \in Thread \ {"worker"} : job'[t].step = "idle"
    BY <2>1 DEF WorkerAlone
  <2>3. CopyFresh'
    BY <1>2, <2>1 DEF CopyFresh
  <2> QED
    BY <2>2, <2>3 DEF WorkerAlone
<1> QED
  BY <1>1, <1>2
(***************************************************************************)
(* The steps of a handler that has begun.                                  *)
(***************************************************************************)
LEMMA WorkerWorks ==
    ASSUME BaseInv, WorkerAlone, job["worker"].step # "idle"
    PROVE  LET i == job["worker"].info
           IN  /\ i.entry \in Live /\ i.entry \in Entry
               /\ i.call \in Call
               /\ Holds(i.entry, i.call)
               /\ InTable(i.call)
  BY DEF WorkerAlone, CopyFresh, InTable, Live

LEMMA FreshPositive ==
    ASSUME NEW e
    PROVE  FreshCall3(e) # 0
<1>1. IsFiniteSet(1 .. MaxInvite)
  BY FS_Interval, FlowAssumption
<1>2. IsFiniteSet({k \in 1 .. MaxInvite : Invited(Dialog3(e, k))})
  BY <1>1, FS_Subset
<1> QED
  BY <1>2, FS_CardinalityType DEF FreshCall3

LEMMA WorkInviteSend ==
    ASSUME BaseInv, WorkerAlone, MessagesInv, InviteSend
    PROVE  WorkerAlone' /\ MessagesInv'
<1> DEFINE e == job["worker"].info.entry
           c == job["worker"].info.call
           k == FreshCall4(c)
<1>1. e \in Live
  BY WorkerWorks DEF InviteSend
<1>2. /\ sent \subseteq sent'
      /\ Finish("worker")
      /\ UNCHANGED <<cams, born, sweeping>>
      /\ legs' = legs \/ (InTable(c) /\ legs' = [legs EXCEPT ![c] = Inviting(@, k)])
      /\ dialogs' = dialogs \/ dialogs' = [dialogs EXCEPT ![e].msg2 = TRUE]
  BY DEF InviteSend, tableVars
<1>3. /\ \A f \in Entry \ Live : dialogs'[f] = dialogs[f]
      /\ \A f \in Entry : dialogs'[f].answer3 = dialogs[f].answer3 /\ dialogs'[f].call3 = dialogs[f].call3
  <2>1. e \notin Entry \ Live /\ dialogs \in [Entry -> FlowRec]
    BY <1>1 DEF BaseInv, FlowInv
  <2> HIDE DEF e
  <2>2. CASE dialogs' = dialogs
    BY <2>2
  <2>3. CASE dialogs' = [dialogs EXCEPT ![e].msg2 = TRUE]
    BY <2>1, <2>3 DEF FlowRec
  <2> QED
    BY <1>2, <2>2, <2>3
<1>4. \A x \in Call : ~ InTable(x) => legs'[x] = legs[x]
  BY <1>2 DEF BaseInv, FlowInv
<1>5. \A f \in Entry : dialogs'[f].answer3 => dialogs'[f].call3 # 0
  BY <1>3 DEF MessagesInv, AnswerOfCall3
<1>6. born \subseteq Entry
  BY DEF BaseInv, FlowInv
<1>7. MessagesInv'
  BY <1>2, <1>3, <1>4, <1>5, <1>6, MessagesKept
<1> QED
  BY <1>2, <1>7, AloneFinish

LEMMA WorkInviteCamera ==
    ASSUME BaseInv, WorkerAlone, MessagesInv, InviteCamera
    PROVE  WorkerAlone' /\ MessagesInv'
<1> DEFINE e == job["worker"].info.entry
           k == FreshCall3(e)
<1>1. e \in Live /\ e \in Entry
  BY WorkerWorks DEF InviteCamera
<1>2. /\ sent \subseteq sent'
      /\ Finish("worker")
      /\ UNCHANGED <<cams, born, legs, sweeping>>
      /\ dialogs' = [dialogs EXCEPT ![e].answer2 = TRUE, ![e].call3 = k]
  BY <1>1 DEF InviteCamera, tableVars
<1>3. k # 0
  BY FreshPositive
<1>4. /\ \A f \in Entry \ Live : dialogs'[f] = dialogs[f]
      /\ \A f \in Entry : dialogs'[f].answer3 => dialogs'[f].call3 # 0
  <2> HIDE DEF k
  <2> QED
    BY <1>1, <1>2, <1>3 DEF BaseInv, FlowInv, FlowRec, MessagesInv, AnswerOfCall3
<1>5. born \subseteq Entry
  BY DEF BaseInv, FlowInv
<1>6. MessagesInv'
  BY <1>2, <1>4, <1>5, MessagesKept
<1> QED
  BY <1>2, <1>6, AloneFinish

LEMMA WorkAckCamera ==
    ASSUME BaseInv, WorkerAlone, MessagesInv, AckCamera
    PROVE  WorkerAlone' /\ MessagesInv'
<1> DEFINE i == job["worker"].info
           e == i.entry
<1>1. e \in Live /\ e \in Entry /\ i.call \in Call /\ Holds(e, i.call)
  BY WorkerWorks DEF AckCamera
<1>2. /\ sent \subseteq sent'
      /\ Begin("worker", "forward", i)
      /\ UNCHANGED <<cams, born, legs, sweeping>>
      /\ \/ dialogs' = dialogs
         \/ /\ dialogs[e].call3 = i.call3
            /\ dialogs' = [dialogs EXCEPT ![e].answer3 = TRUE]
  BY DEF AckCamera, tableVars, Knows3
<1>3. i.call3 # 0
  BY DEF WorkerAlone, CopyFresh, AckCamera
<1>4. /\ \A f \in Entry \ Live : dialogs'[f] = dialogs[f]
      /\ \A f \in Entry : dialogs'[f].answer3 => dialogs'[f].call3 # 0
  <2>1. /\ dialogs \in [Entry -> FlowRec]
        /\ \A f \in Entry : dialogs[f].answer3 => dialogs[f].call3 # 0
    BY DEF BaseInv, FlowInv, MessagesInv, AnswerOfCall3
  <2> HIDE DEF e, i
  <2>2. CASE dialogs' = dialogs
    BY <2>1, <2>2
  <2>3. CASE dialogs[e].call3 = i.call3 /\ dialogs' = [dialogs EXCEPT ![e].answer3 = TRUE]
    <3>1. dialogs'[e].call3 = dialogs[e].call3 /\ \A f \in Entry \ {e} : dialogs'[f] = dialogs[f]
      BY <1>1, <2>1, <2>3 DEF FlowRec
    <3> QED
      BY <1>1, <1>3, <2>1, <2>3, <3>1
  <2> QED
    BY <1>2, <2>2, <2>3
<1>5. born \subseteq Entry
  BY DEF BaseInv, FlowInv
<1>6. \A f, x : f \in Live /\ Holds(f, x) => f \in Live' /\ Holds(f, x)'
  BY <1>2 DEF Live, Holds
<1>7. MessagesInv'
  BY <1>2, <1>4, <1>5, MessagesKept
<1>8. WorkerAlone'
  <2>1. PICK info : info = i
    OBVIOUS
  <2>2. /\ Begin("worker", "forward", info)
        /\ info.entry \in Live' /\ info.call \in Call
        /\ Holds(info.entry, info.call)'
    BY <1>1, <1>2, <1>6, <2>1
  <2> QED
    BY <1>2, <2>2, AloneBegin DEF WorkerSteps
<1> QED
  BY <1>7, <1>8

\* The last steps of a handler change nothing but the leg of a call in the
\* table.
LEMMA WorkAnswers ==
    ASSUME BaseInv, WorkerAlone, MessagesInv, ForwardStream \/ AnswerClient
    PROVE  WorkerAlone' /\ MessagesInv'
<1> DEFINE c == job["worker"].info.call
<1>1. /\ sent \subseteq sent'
      /\ Finish("worker")
      /\ UNCHANGED <<cams, born, dialogs, sweeping>>
      /\ legs' = legs \/ (InTable(c) /\ \E l : legs' = [legs EXCEPT ![c] = l])
  BY Zenon DEF ForwardStream, AnswerClient, tableVars
<1>2. \A x \in Call : ~ InTable(x) => legs'[x] = legs[x]
  BY <1>1 DEF BaseInv, FlowInv
<1>3. \A f \in Entry : dialogs'[f].answer3 => dialogs'[f].call3 # 0
  BY <1>1 DEF MessagesInv, AnswerOfCall3
<1>4. born \subseteq Entry
  BY DEF BaseInv, FlowInv
<1>5. MessagesInv'
  BY <1>1, <1>2, <1>3, <1>4, MessagesKept
<1> QED
  BY <1>1, <1>5, AloneFinish

(***************************************************************************)
(* The handlers that copy.                                                 *)
(***************************************************************************)
\* What a message selects is in the table.
LEMMA CopyOfTable ==
    ASSUME BaseInv
    PROVE  /\ \A e \in Live : FirstCall(e) \in Call /\ Holds(e, FirstCall(e))
           /\ \A c : InTable(c) => StreamOf(c) \in Live /\ Holds(StreamOf(c), c)
<1>1. ASSUME NEW e \in Live
      PROVE  FirstCall(e) \in Call /\ Holds(e, FirstCall(e))
  <2>1. cams[e].invites \in Seq(Call) /\ Len(cams[e].invites) \in Nat
    BY LiveFacts DEF BaseInv, PlaceInv
  <2>2. Len(cams[e].invites) >= 1
    BY DEF BaseInv, PlaceInv, NTranmitExact
  <2>3. FirstCall(e) = cams[e].invites[1]
    BY <2>1, <2>2 DEF FirstCall
  <2> QED
    BY <2>1, <2>2, <2>3 DEF Holds, ToSet
<1> QED
  BY <1>1 DEF InTable, StreamOf

LEMMA WorkCopies ==
    ASSUME BaseInv, WorkerAlone, MessagesInv,
           UNCHANGED <<cams, born, dialogs, legs, sent, sweeping>>,
           NEW step \in WorkerSteps, NEW e, NEW c,
           \/ UNCHANGED job
           \/ /\ Begin("worker", step, PlayInfo(e, c))
              /\ e \in Live /\ c \in Call /\ Holds(e, c)
              /\ step = "answer3" => dialogs[e].call3 # 0
    PROVE  WorkerAlone' /\ MessagesInv'
<1>1. MessagesInv'
  <2>1. \A f \in Entry : dialogs'[f].answer3 => dialogs'[f].call3 # 0
    BY DEF MessagesInv, AnswerOfCall3
  <2>2. born \subseteq Entry
    BY DEF BaseInv, FlowInv
  <2> QED
    BY <2>1, <2>2, MessagesKept
<1>2. CASE UNCHANGED job
  BY <1>1, <1>2, AloneBegin
<1>3. CASE ~ UNCHANGED job
  <2>1. PICK info : info = PlayInfo(e, c)
    OBVIOUS
  <2>2. /\ info.entry = e
        /\ info.call = c
        /\ info.call3 = dialogs[e].call3
        /\ PlayInfo(e, c)' = info
    BY <2>1 DEF PlayInfo
  <2>3. e \in Live' /\ Holds(e, c)'
    BY <1>3 DEF Live, Holds
  <2>4. /\ Begin("worker", step, info)
        /\ step \in WorkerSteps
        /\ info.entry \in Live'
        /\ info.call \in Call
        /\ Holds(info.entry, info.call)'
        /\ info = PlayInfo(info.entry, info.call)'
        /\ step = "answer3" => info.call3 # 0
    BY <1>3, <2>1, <2>2, <2>3
  <2> QED
    BY <1>1, <2>4, AloneBegin
<1> QED
  BY <1>2, <1>3

LEMMA WorkLeaves ==
    ASSUME BaseInv, WorkerAlone, MessagesInv, NEW c \in Call, NEW step \in {"cancel", "bye"},
           ClientLeaves(c, step)
    PROVE  WorkerAlone' /\ MessagesInv'
<1>1. /\ UNCHANGED <<cams, born, dialogs, legs, sent, sweeping>>
      /\ UNCHANGED job \/ (InTable(c) /\ Begin("worker", step, PlayInfo(StreamOf(c), c)))
  BY DEF ClientLeaves, tableVars, LegInfo
<1>2. step \in WorkerSteps /\ step # "answer3"
  BY DEF WorkerSteps
<1> QED
  BY <1>1, <1>2, CopyOfTable, WorkCopies

\* Answers of the peers, and their BYEs.
LEMMA WorkReceives ==
    ASSUME BaseInv, WorkerAlone, MessagesInv, Received, NEW step \in WorkerSteps,
           \/ UNCHANGED job
           \/ \E e \in Live : /\ Begin("worker", step, StreamInfo(e))
                              /\ step = "answer3" => dialogs[e].call3 # 0
           \/ \E c \in Call : /\ InTable(c) /\ Begin("worker", step, LegInfo(c))
                              /\ step # "answer3"
    PROVE  WorkerAlone' /\ MessagesInv'
<1>1. UNCHANGED <<cams, born, dialogs, legs, sent, sweeping>>
  BY DEF Received, tableVars
<1>2. ASSUME NEW e, NEW c,
             \/ UNCHANGED job
             \/ /\ Begin("worker", step, PlayInfo(e, c))
                /\ e \in Live /\ c \in Call /\ Holds(e, c)
                /\ step = "answer3" => dialogs[e].call3 # 0
      PROVE  WorkerAlone' /\ MessagesInv'
  BY <1>1, <1>2, WorkCopies
<1>3. CASE UNCHANGED job
  BY <1>2, <1>3
<1>4. ASSUME NEW e \in Live, Begin("worker", step, StreamInfo(e)),
             step = "answer3" => dialogs[e].call3 # 0
      PROVE  WorkerAlone' /\ MessagesInv'
  BY <1>2, <1>4, CopyOfTable DEF StreamInfo
<1>5. ASSUME NEW c \in Call, InTable(c), Begin("worker", step, LegInfo(c)), step # "answer3"
      PROVE  WorkerAlone' /\ MessagesInv'
  BY <1>2, <1>5, CopyOfTable DEF LegInfo
<1> QED
  BY <1>3, <1>4, <1>5

LEMMA WorkRepeats ==
    ASSUME BaseInv, WorkerAlone, MessagesInv, NEW c \in Call,
           InviteRepeated(c) \/ InviteAckRecv(c)
    PROVE  WorkerAlone' /\ MessagesInv'
<1>1. UNCHANGED <<cams, born, dialogs, legs, sweeping, job>> /\ sent \subseteq sent'
  BY DEF InviteRepeated, InviteAckRecv, tableVars
<1>2. MessagesInv'
  <2>1. \A f \in Entry : dialogs'[f].answer3 => dialogs'[f].call3 # 0
    BY <1>1 DEF MessagesInv, AnswerOfCall3
  <2>2. born \subseteq Entry
    BY DEF BaseInv, FlowInv
  <2> QED
    BY <1>1, <2>1, <2>2, MessagesKept
<1> QED
  BY <1>1, <1>2, AloneBegin

(***************************************************************************)
(* The client's INVITE.                                                    *)
(***************************************************************************)
\* A call that comes in with a stream of its own, or joins one.
LEMMA ComesIn ==
    ASSUME MessagesInv, NEW c \in Call,
           \A x \in Call : InTable(x)' <=> InTable(x) \/ x = c,
           sent' = sent, \A x \in Call \ {c} : legs'[x] = legs[x],
           born \ Live = born' \ Live',
           \A e \in born \ Live : dialogs'[e] = dialogs[e],
           \A e \in Entry : dialogs'[e].answer3 => dialogs'[e].call3 # 0
    PROVE  MessagesInv'
<1>1. GoneClosed'
  BY GoneKept DEF MessagesInv
<1>2. LegsClosed'
  BY DEF MessagesInv, LegsClosed, Dialog4
<1>3. AnswerOfCall3'
  BY DEF AnswerOfCall3
<1> QED
  BY <1>1, <1>2, <1>3 DEF MessagesInv

LEMMA WorkJoins ==
    ASSUME BaseInv, WorkerAlone, MessagesInv, NEW c \in Call,
           ~ InTable(c), InviteJoins(c), UNCHANGED <<said, sweeping, faults>>
    PROVE  WorkerAlone' /\ MessagesInv'
<1>1. PICK e \in Forwarding(CamOf[c]) :
         /\ JoinStream(c, CamOf[c], e)
         /\ Begin("worker", "transmit", [entry |-> e, call |-> c])
  BY DEF InviteJoins
<1>2. /\ legs' = [legs EXCEPT ![c] = NoLeg]
      /\ UNCHANGED <<born, dialogs, sent>>
  BY DEF InviteJoins
<1>3. TableTypeOK /\ CamOf[c] \in Camera /\ TypeOf[c] \in InviteType
  BY FlowAssumption DEF BaseInv, PlaceInv, InviteType
<1>4. GetPracticableRTPServer(c)
  BY <1>1, <1>3 DEF GetPracticableRTPServer, InviteJoins
<1>5. \A x \in Call : InTable(x)' <=> InTable(x) \/ x = c
  BY <1>1, <1>3, <1>4, JoinKeeps, PlacesOnly
<1>6. /\ e \in Live /\ Live' = Live
      /\ cams'[e].invites = Append(cams[e].invites, c)
  BY <1>1, <1>3, JoinFacts, JoinFields
<1>7. Holds(e, c)'
  <2>1. cams[e].invites \in Seq(Call)
    BY <1>3, <1>6, LiveFacts
  <2>2. /\ Len(Append(cams[e].invites, c)) = Len(cams[e].invites) + 1
        /\ Append(cams[e].invites, c)[Len(cams[e].invites) + 1] = c
    BY <2>1
  <2>3. c \in ToSet(Append(cams[e].invites, c))
    BY <2>1, <2>2 DEF ToSet
  <2> QED
    BY <1>6, <2>3 DEF Holds
<1>8. MessagesInv'
  <2>1. \A f \in Entry : dialogs'[f].answer3 => dialogs'[f].call3 # 0
    BY <1>2 DEF MessagesInv, AnswerOfCall3
  <2>2. \A x \in Call \ {c} : legs'[x] = legs[x]
    BY <1>2 DEF BaseInv, FlowInv
  <2> QED
    BY <1>2, <1>5, <1>6, <2>1, <2>2, ComesIn
<1>9. WorkerAlone'
  <2>1. PICK info : info = [entry |-> e, call |-> c]
    OBVIOUS
  <2>2. info.entry = e /\ info.call = c
    BY <2>1
  <2> QED
    BY <1>1, <1>6, <1>7, <2>1, <2>2, AloneBegin DEF WorkerSteps
<1> QED
  BY <1>8, <1>9

LEMMA WorkPlaces ==
    ASSUME BaseInv, WorkerAlone, MessagesInv, NEW c \in Call,
           ~ InTable(c), InvitePlaced(c), UNCHANGED <<said, sweeping, faults>>
    PROVE  WorkerAlone' /\ MessagesInv'
<1>1. PICK s \in LeastLoaded, e \in Entry \ born :
         /\ PlaceStream(c, CamOf[c], TypeOf[c], s, e)
         /\ born' = born \cup {e}
         /\ dialogs' = [dialogs EXCEPT ![e] = NoDialog]
         /\ legs' = [legs EXCEPT ![c] = NoLeg]
         /\ Begin("worker", "request", [entry |-> e, call |-> c])
         /\ UNCHANGED sent
  BY DEF InvitePlaced
<1>2. TableTypeOK /\ CamOf[c] \in Camera /\ TypeOf[c] \in InviteType
  BY FlowAssumption DEF BaseInv, PlaceInv, InviteType
<1>3. GetPracticableRTPServer(c)
  BY <1>1, <1>2 DEF GetPracticableRTPServer
<1>4. \A x \in Call : InTable(x)' <=> InTable(x) \/ x = c
  BY <1>1, <1>2, <1>3, PlaceKeeps, PlacesOnly
<1>5. Live' = Live \cup {e} /\ cams'[e].invites = <<c>>
  BY <1>1, <1>2, PlaceFacts, PlaceFields
<1>6. Holds(e, c)'
  BY <1>5 DEF Holds, ToSet
<1>7. MessagesInv'
  <2>1. /\ dialogs \in [Entry -> FlowRec]
        /\ \A f \in Entry : dialogs[f].answer3 => dialogs[f].call3 # 0
    BY DEF BaseInv, FlowInv, MessagesInv, AnswerOfCall3
  <2>2. /\ dialogs'[e].answer3 = FALSE
        /\ \A f \in Entry \ {e} : dialogs'[f] = dialogs[f]
    BY <1>1, <2>1 DEF NoDialog
  <2>3. \A f \in Entry : dialogs'[f].answer3 => dialogs'[f].call3 # 0
    BY <2>1, <2>2
  <2>4. /\ \A x \in Call \ {c} : legs'[x] = legs[x]
        /\ Live \subseteq born
    BY <1>1 DEF BaseInv, FlowInv
  <2>5. born \ Live = born' \ Live' /\ \A f \in born \ Live : dialogs'[f] = dialogs[f]
    BY <1>1, <1>5, <2>2, <2>4
  <2> QED
    BY <1>1, <1>4, <2>3, <2>4, <2>5, ComesIn
<1>8. WorkerAlone'
  <2>1. PICK info : info = [entry |-> e, call |-> c]
    OBVIOUS
  <2>2. info.entry = e /\ info.call = c
    BY <2>1
  <2> QED
    BY <1>1, <1>5, <1>6, <2>1, <2>2, AloneBegin DEF WorkerSteps
<1> QED
  BY <1>7, <1>8

LEMMA WorkInvite ==
    ASSUME BaseInv, WorkerAlone, MessagesInv, NEW c \in Call, InviteMsgRecv(c)
    PROVE  WorkerAlone' /\ MessagesInv'
<1>1. ~ InTable(c) /\ UNCHANGED <<said, sweeping, faults>>
  BY DEF InviteMsgRecv
<1>2. CASE InviteRefused(c) \/ InviteDropped(c)
  <2>1. UNCHANGED <<cams, born, dialogs, legs, job>> /\ sent \subseteq sent'
    BY <1>2 DEF InviteRefused, InviteDropped, tableVars
  <2>2. \A f \in Entry : dialogs'[f].answer3 => dialogs'[f].call3 # 0
    BY <2>1 DEF MessagesInv, AnswerOfCall3
  <2>3. born \subseteq Entry
    BY DEF BaseInv, FlowInv
  <2>4. MessagesInv'
    BY <2>1, <2>2, <2>3, MessagesKept
  <2> QED
    BY <1>1, <2>1, <2>4, AloneBegin
<1> QED
  BY <1>1, <1>2, WorkJoins, WorkPlaces DEF InviteMsgRecv

(***************************************************************************)
(* The end of a call.                                                      *)
(***************************************************************************)
\* A handler that ends a call acts on its stream as it is.
LEMMA ReleaseFacts ==
    ASSUME BaseInv, WorkerAlone, NEW t \in Thread, Release(t)
    PROVE  LET i == job[t].info
               step == job[t].step
           IN  /\ t = "worker" /\ step \in {"cancel", "bye", "hangup"}
               /\ i.entry \in Live /\ i.call \in Call /\ i = PlayInfo(i.entry, i.call)
               /\ Holds(i.entry, i.call)
               /\ DeleteStream(i.entry, i.call, FALSE) \/ DeleteLeg(i.entry, i.call)
               /\ sent' = sent \cup SendByeMsg(i, step = "bye", FALSE)
               /\ Finish("worker")
               /\ UNCHANGED <<born, dialogs, legs, client, sweeping>>
<1> DEFINE i == job[t].info
           step == job[t].step
<1>1. step \in Releases
  BY DEF Release
<1>2. t = "worker"
  BY <1>1 DEF WorkerAlone, Releases
<1>3. step \in {"cancel", "bye", "hangup"}
  BY <1>1, <1>2 DEF WorkerAlone, CopyFresh, WorkerSteps, Releases
<1>4. /\ i.entry \in Live /\ i.call \in Call /\ i = PlayInfo(i.entry, i.call)
      /\ Holds(i.entry, i.call)
  BY <1>2, <1>3 DEF WorkerAlone, CopyFresh
<1>5. /\ Reduce(i.call, step \in {"failure", "hangup2"})
      /\ sent' = sent \cup SendByeMsg(i, step = "bye", step = "hangup2")
                      \cup (IF step = "failure" THEN {<<"fail", i.call>>} ELSE {})
      /\ Finish(t)
      /\ UNCHANGED <<born, dialogs, legs, client, sweeping>>
  BY Zenon DEF Release
<1>6. (step \in {"failure", "hangup2"}) = FALSE /\ (step = "hangup2") = FALSE /\ step # "failure"
  BY <1>3
<1>7. Reduce(i.call, FALSE) /\ sent' = sent \cup SendByeMsg(i, step = "bye", FALSE)
  <2>1. sent' = sent \cup SendByeMsg(i, step = "bye", FALSE) \cup {}
    BY <1>5, <1>6
  <2> QED
    BY <1>5, <1>6, <2>1
<1>8. DeleteStream(i.entry, i.call, FALSE) \/ DeleteLeg(i.entry, i.call)
  <2>1. InTable(i.call)
    BY <1>4 DEF InTable
  <2>2. PICK f \in Live : DeleteStream(f, i.call, FALSE) \/ DeleteLeg(f, i.call)
    BY <1>7, <2>1, Zenon DEF Reduce
  <2>3. Holds(f, i.call)
    BY <2>2 DEF DeleteStream, DeleteLeg
  <2>4. f = i.entry
    BY <1>4, <2>3, OneStream DEF BaseInv
  <2> QED
    BY <2>2, <2>4
<1> HIDE DEF i, step
<1> QED
  BY <1>2, <1>3, <1>4, <1>5, <1>7, <1>8 DEF i, step

LEMMA WorkReleases ==
    ASSUME BaseInv, WorkerAlone, MessagesInv, NEW t \in Thread, Release(t)
    PROVE  WorkerAlone' /\ MessagesInv'
<1>1. PICK i, step :
         /\ step \in {"cancel", "bye", "hangup"}
         /\ i.entry \in Live /\ i.call \in Call /\ i = PlayInfo(i.entry, i.call)
         /\ Holds(i.entry, i.call)
         /\ DeleteStream(i.entry, i.call, FALSE) \/ DeleteLeg(i.entry, i.call)
         /\ sent' = sent \cup SendByeMsg(i, step = "bye", FALSE)
         /\ Finish("worker")
         /\ UNCHANGED <<born, dialogs, legs, client, sweeping>>
  BY ReleaseFacts
<1> DEFINE e == i.entry
           c == i.call
           M == SendByeMsg(i, step = "bye", FALSE)
<1>2. /\ i.nTranmit = cams[e].nTranmit
      /\ i.msg2 = dialogs[e].msg2
      /\ i.call3 = dialogs[e].call3
      /\ i.answer3 = dialogs[e].answer3
      /\ i.call4 = legs[c].call4
  BY <1>1 DEF PlayInfo
<1>3. TableTypeOK /\ PlaceInv /\ TableInv /\ e \in born /\ Live \subseteq born /\ born \subseteq Entry
  BY <1>1 DEF BaseInv, PlaceInv, FlowInv
<1>4. cams[e].nTranmit \in Int /\ cams[e].nTranmit >= 1
  BY <1>1, <1>3, LiveFacts DEF PlaceInv, NTranmitExact
\* The stream leaves with its last call.
<1>5. /\ i.nTranmit = 1 => Live' = Live \ {e}
      /\ i.nTranmit # 1 => Live' = Live
  <2>1. CASE DeleteStream(e, c, FALSE)
    <3>1. i.nTranmit = 1
      BY <1>2, <1>4, <2>1 DEF DeleteStream
    <3> QED
      BY <1>1, <1>3, <2>1, <3>1, DeleteStreamFacts
  <2>2. CASE DeleteLeg(e, c)
    <3>1. i.nTranmit # 1
      BY <1>2, <1>4, <2>2 DEF DeleteLeg
    <3> QED
      BY <1>1, <1>3, <2>2, <3>1, DeleteLegFacts
  <2> QED
    BY <1>1, <2>1, <2>2
<1>6. /\ ~ InTable(c)'
      /\ \A x \in Call : InTable(x)' => InTable(x)
      /\ \A x \in Call \ {c} : InTable(x) => InTable(x)'
  BY <1>1, <1>3, CallGone, DeletesOnly, DeletesOne DEF PlaceInv
<1>7. GoneClosed'
  <2> SUFFICES ASSUME NEW f \in born \ Live'
               PROVE  /\ dialogs[f].msg2 => <<"bye", Dialog2(f)>> \in sent'
                      /\ dialogs[f].answer3 => <<"bye", Dialog3(f, dialogs[f].call3)>> \in sent'
    BY <1>1, Zenon DEF GoneClosed, Dialog2, Dialog3
  <2>1. CASE f \notin Live
    BY <1>1, <2>1 DEF MessagesInv, GoneClosed
  <2>2. CASE f \in Live
    <3>1. f = e /\ i.nTranmit = 1
      BY <1>5, <2>2
    <3>2. StreamBye(i) \subseteq M
      BY <3>1 DEF SendByeMsg
    <3>3. i.msg2 => <<"bye", Dialog2(e)>> \in StreamBye(i)
      BY DEF StreamBye
    <3>4. i.answer3 => <<"bye", Dialog3(e, i.call3)>> \in StreamBye(i)
      <4>1. i.answer3 => i.call3 # 0
        BY <1>2, <1>3 DEF MessagesInv, AnswerOfCall3
      <4> QED
        BY <4>1 DEF StreamBye, CameraBye
    <3> HIDE DEF M
    <3> QED
      BY <1>1, <1>2, <3>1, <3>2, <3>3, <3>4 DEF M
  <2> QED
    BY <2>1, <2>2
<1>8. LegsClosed'
  <2> SUFFICES ASSUME NEW x \in Call, ~ InTable(x)', legs[x].call4 # 0
               PROVE  <<"bye", Dialog4(x, legs[x].call4)>> \in sent'
    BY <1>1 DEF LegsClosed, Dialog4
  <2>1. CASE x = c
    <3>1. <<"bye", Dialog4(c, i.call4)>> \in M
      BY <1>2, <2>1 DEF SendByeMsg
    <3> QED
      BY <1>1, <1>2, <2>1, <3>1
  <2>2. CASE x # c
    BY <1>1, <1>6, <2>2 DEF MessagesInv, LegsClosed
  <2> QED
    BY <2>1, <2>2
<1>9. AnswerOfCall3'
  BY <1>1 DEF MessagesInv, AnswerOfCall3
<1>10. WorkerAlone'
  BY <1>1, AloneFinish
<1> QED
  BY <1>7, <1>8, <1>9, <1>10 DEF MessagesInv

(***************************************************************************)
(* Every step.                                                             *)
(***************************************************************************)
LEMMA WorkContinue ==
    ASSUME BaseInv, WorkerAlone, MessagesInv, Continue
    PROVE  WorkerAlone' /\ MessagesInv'
  BY WorkInviteSend, WorkInviteCamera, WorkAckCamera, WorkAnswers, WorkReleases DEF Continue

\* None of the threads beside the worker, and no message that ends several
\* calls, comes under the faults of WorkerOnly.
LEMMA WorkExcluded ==
    ASSUME WorkerAlone, faults \subseteq WorkerOnly
    PROVE  /\ ~ InviteFailure
           /\ ~ SweepNext
           /\ \A e \in Entry, k \in 1 .. MaxInvite : ~ ReplayMediaStatusRecv(e, k)
           /\ \A s \in Server : /\ ~ CheckRTPStreamAction(s)
                                /\ ~ SetRTPServerStatus(s)
                                /\ ~ GetRTPStreamInfo(s)
  BY DEF WorkerAlone, WorkerOnly, InviteFailure, SweepNext, ReplayMediaStatusRecv,
         CheckRTPStreamAction, SetRTPServerStatus, GetRTPStreamInfo

LEMMA WorkPeers ==
    ASSUME BaseInv, WorkerAlone, MessagesInv, faults \subseteq WorkerOnly,
           \/ \E e \in Entry : InviteAnswer2(e)
           \/ \E e \in Entry, k \in 1 .. MaxInvite : InviteAnswer3(e, k)
           \/ \E c \in Call, k \in 1 .. MaxInvite : InviteAnswer4(c, k)
           \/ \E c \in Call : InviteAnswer5(c)
           \/ PeerByeMsgRecv
    PROVE  WorkerAlone' /\ MessagesInv'
<1>1. ASSUME NEW e \in Entry, InviteAnswer2(e)
      PROVE  WorkerAlone' /\ MessagesInv'
  <2>1. /\ Received
        /\ UNCHANGED job \/ (e \in Live /\ Begin("worker", "answer2", StreamInfo(e)))
    BY <1>1, Zenon DEF InviteAnswer2, Knows2
  <2>2. "answer2" \in WorkerSteps /\ "answer2" # "answer3"
    BY DEF WorkerSteps
  <2> QED
    BY <2>1, <2>2, WorkReceives
<1>2. ASSUME NEW e \in Entry, NEW k \in 1 .. MaxInvite, InviteAnswer3(e, k)
      PROVE  WorkerAlone' /\ MessagesInv'
  <2>1. /\ Received
        /\ \/ UNCHANGED job
           \/ e \in Live /\ dialogs[e].call3 = k /\ Begin("worker", "answer3", StreamInfo(e))
    BY <1>2, Zenon DEF InviteAnswer3, Knows3
  <2>2. "answer3" \in WorkerSteps /\ k # 0
    BY DEF WorkerSteps
  <2> QED
    BY <2>1, <2>2, WorkReceives
<1>3. ASSUME NEW c \in Call, NEW k \in 1 .. MaxInvite, InviteAnswer4(c, k)
      PROVE  WorkerAlone' /\ MessagesInv'
  <2>1. /\ Received
        /\ UNCHANGED job \/ (InTable(c) /\ Begin("worker", "answer4", LegInfo(c)))
    BY <1>3, Zenon DEF InviteAnswer4, Knows4
  <2>2. "answer4" \in WorkerSteps /\ "answer4" # "answer3"
    BY DEF WorkerSteps
  <2> QED
    BY <2>1, <2>2, WorkReceives
<1>4. ASSUME NEW c \in Call, InviteAnswer5(c)
      PROVE  WorkerAlone' /\ MessagesInv'
  <2>1. Received /\ UNCHANGED job
    BY <1>4 DEF InviteAnswer5
  <2>2. "idle" \in WorkerSteps
    BY DEF WorkerSteps
  <2> QED
    BY <2>1, <2>2, WorkReceives
<1>5. CASE PeerByeMsgRecv
  <2>1. "hangup" \in WorkerSteps /\ "hangup" # "answer3" /\ "hangup2" \notin faults
    BY DEF WorkerSteps, WorkerOnly
  <2>2. /\ Received
        /\ \/ \E c \in Call : InTable(c) /\ Begin("worker", "hangup", LegInfo(c))
           \/ \E e \in Live : Begin("worker", "hangup", StreamInfo(e))
    BY <1>5, <2>1, Zenon DEF PeerByeMsgRecv, Knows3, Knows4
  <2> QED
    BY <2>1, <2>2, WorkReceives
<1> QED
  BY <1>1, <1>2, <1>3, <1>4, <1>5

\* Which faults may happen is given once.
LEMMA FaultsStay == [Next]_vars => faults' = faults
  BY ZenonT(60) DEF Next, Continue, vars, flowVars, InviteSend, InviteCamera, AckCamera,
         ForwardStream, AnswerClient, Release, InviteMsgRecv, InviteRepeated, InviteAnswer2, InviteAnswer3,
         InviteAnswer4, InviteAnswer5, InviteAckRecv, InviteFailure, CancelMsgRecv, ByeMsgRecv,
         ClientLeaves, PeerByeMsgRecv, ReplayMediaStatusRecv, CheckRTPStreamAction, SweepNext,
         SetRTPServerStatus, GetRTPStreamInfo, Received

LEMMA WorkStep ==
    ASSUME WorkerInv, [Next]_vars
    PROVE  WorkerInv'
<1>1. BaseInv'
  BY BaseStep DEF WorkerInv
<1>2. faults' = faults
  BY FaultsStay
<1> SUFFICES ASSUME faults \subseteq WorkerOnly
             PROVE  WorkerAlone' /\ MessagesInv'
  BY <1>1, <1>2 DEF WorkerInv, WorkerOnly
<1>3. BaseInv /\ WorkerAlone /\ MessagesInv
  BY DEF WorkerInv
<1>4. CASE UNCHANGED vars
  <2>1. UNCHANGED <<cams, born, dialogs, legs, sent, sweeping, job>>
    BY <1>4 DEF vars, flowVars, tableVars
  <2>2. "idle" \in WorkerSteps
    BY DEF WorkerSteps
  <2> QED
    BY <1>3, <2>1, <2>2, WorkCopies
<1>5. CASE Continue
  BY <1>3, <1>5, WorkContinue
<1>6. ASSUME NEW c \in Call, InviteMsgRecv(c)
      PROVE  WorkerAlone' /\ MessagesInv'
  BY <1>3, <1>6, WorkInvite
<1>7. ASSUME NEW c \in Call, InviteRepeated(c) \/ InviteAckRecv(c)
      PROVE  WorkerAlone' /\ MessagesInv'
  BY <1>3, <1>7, WorkRepeats
<1>8. ASSUME NEW c \in Call, CancelMsgRecv(c) \/ ByeMsgRecv(c)
      PROVE  WorkerAlone' /\ MessagesInv'
  BY <1>3, <1>8, WorkLeaves DEF CancelMsgRecv, ByeMsgRecv
<1> QED
  BY <1>3, <1>4, <1>5, <1>6, <1>7, <1>8, WorkPeers, WorkExcluded DEF Next

LEMMA InitWorker == Init => WorkerInv
<1> SUFFICES ASSUME Init PROVE WorkerInv
  OBVIOUS
<1>1. Live = {}
  BY DEF Init, Live
<1>2. PlaceInv
  BY InitTable DEF TableInv, PlaceInv
<1>3. FlowInv
  <2>1. TableInv
    BY InitTable
  <2>2. dialogs \in [Entry -> FlowRec] /\ legs \in [Call -> LegRec]
    BY FlowAssumption DEF Init, FlowRec, NoDialog, LegRec, NoLeg
  <2> QED
    BY <1>1, <2>1, <2>2 DEF FlowInv, Init, Idle, IsIdle
<1>4. WorkerAlone
  BY DEF Init, WorkerAlone, CopyFresh, WorkerSteps, Idle, Thread
<1>5. GoneClosed
  BY <1>1 DEF Init, GoneClosed
<1>6. AnswerOfCall3 /\ LegsClosed
  BY DEF Init, AnswerOfCall3, NoDialog, LegsClosed, NoLeg
<1> QED
  BY <1>2, <1>3, <1>4, <1>5, <1>6 DEF WorkerInv, BaseInv, MessagesInv

\* Whoever of the calls of a stream leaves, and whatever answers come late or
\* twice, also if a call comes again after its end: what was opened for a call
\* or a stream is closed when it is over.
THEOREM NothingStaysOpen == Spec /\ faults \subseteq WorkerOnly => []NothingLeftOpen
<1>1. WorkerInv /\ faults \subseteq WorkerOnly => NothingLeftOpen
  BY DEF WorkerInv, MessagesInv, GoneClosed, CameraReleased, Ended, LegsClosed,
         LastInvite4Closed, NothingLeftOpen
<1>2. faults \subseteq WorkerOnly /\ [Next]_vars => (faults \subseteq WorkerOnly)'
  BY FaultsStay DEF WorkerOnly
<1> QED
  BY <1>1, <1>2, InitWorker, WorkStep, PTL DEF Spec

(***************************************************************************)
(* What calls share is not closed while one of them is left.  Only the     *)
(* worker ends calls here, and of a stream that is still in the table when *)
(* it does, its copy is not stale: a server that is withdrawn takes the    *)
(* whole stream with it.                                                   *)
(***************************************************************************)
BesideWorker == {"mediaend", "outage"}

\* What the end of a call was begun with still holds of a stream that is there.
EndFresh ==
    LET i == job["worker"].info
    IN  job["worker"].step \in Releases /\ i.entry \in Live =>
           Holds(i.entry, i.call) /\ i.nTranmit = cams[i.entry].nTranmit

KeptAlone ==
    /\ \A t \in Thread \ {"worker"} : job[t].step = "idle"
    /\ sweeping = {}
    /\ EndFresh

\* The receiving leg or the camera session of a stream was closed.
Closed(e) ==
    \/ <<"bye", Dialog2(e)>> \in sent
    \/ \E k : <<"bye", Dialog3(e, k)>> \in sent \/ <<"cancel", Dialog3(e, k)>> \in sent

\* Only of a stream that has left, and an address is not used again.
ClosedGone == \A e \in Entry : Closed(e) => e \in born \ Live

KeptInv == BaseInv /\ (faults \cap BesideWorker = {} => KeptAlone /\ ClosedGone)

\* Messages that neither close anything nor end a call.
Opening(M) == \A m \in M : m[1] \in {"invite", "ack", "ok"}

LEMMA OpeningCloses ==
    ASSUME NEW M, Opening(M), sent' = sent \cup M
    PROVE  \A c : ToldOver(c)' => ToldOver(c)
<1>1. ASSUME NEW d, NEW a \in {"bye", "fail"}, <<a, d>> \in sent'
      PROVE  <<a, d>> \in sent
  <2>1. <<a, d>>[1] = a
    OBVIOUS
  <2>2. <<a, d>> \notin M
    BY <2>1 DEF Opening
  <2> QED
    BY <1>1, <2>2
<1> QED
  BY <1>1 DEF ToldOver, Dialog1

\* What SendByeMsg closes: the stream of the copy, with its last call.
LEMMA ByeCloses ==
    ASSUME NEW i, NEW f, NEW d, NEW x, NEW k,
           NEW m \in {<<"bye", Dialog2(x)>>, <<"bye", Dialog3(x, k)>>, <<"cancel", Dialog3(x, k)>>},
           m \in SendByeMsg(i, f, d)
    PROVE  x = i.entry /\ (i.nTranmit = 1 \/ d)
<1>1. m \in CameraBye(i) => x = i.entry
  BY DEF CameraBye, Dialog2, Dialog3
<1>2. m = <<"bye", Dialog2(i.entry)>> => x = i.entry
  BY DEF Dialog2, Dialog3
<1>3. m \in StreamBye(i) => x = i.entry
  BY <1>1, <1>2 DEF StreamBye
<1>4. m # <<"bye", Dialog4(i.call, i.call4)>> /\ m # <<"bye", Dialog1(i.call)>>
  BY DEF Dialog1, Dialog2, Dialog3, Dialog4
<1> HIDE DEF Dialog2, Dialog3
<1> QED
  BY <1>3, <1>4, Zenon DEF SendByeMsg

\* Nothing but the end of a call sends a BYE, of whatever dialog, or a CANCEL.
LEMMA NoRelease ==
    ASSUME [Next]_vars, \A t \in Thread : ~ Release(t),
           NEW a \in {"bye", "cancel", "emptybye"}, NEW d, <<a, d>> \in sent'
    PROVE  <<a, d>> \in sent
<1> DEFINE m == <<a, d>>
<1>1. \A n : n[1] \in {"invite", "ack", "ok", "fail"} => m # n
  <2>1. m[1] = a
    OBVIOUS
  <2> QED
    BY <2>1
<1>2. \A x : /\ m # <<"invite", x>> /\ m # <<"ack", x>>
             /\ m # <<"ok", x>> /\ m # <<"fail", x>>
  BY <1>1
<1> HIDE DEF m
<1>3. CASE InviteSend \/ InviteCamera \/ AckCamera \/ ForwardStream \/ AnswerClient
  <2>1. CASE InviteSend
    BY <1>2, <2>1 DEF InviteSend, m
  <2>2. CASE InviteCamera
    BY <1>2, <2>2 DEF InviteCamera, m
  <2>3. CASE AckCamera
    BY <1>2, <2>3 DEF AckCamera, m
  <2>4. CASE ForwardStream
    BY <1>2, <2>4 DEF ForwardStream, m
  <2>5. CASE AnswerClient
    BY <1>2, <2>5 DEF AnswerClient, m
  <2> QED
    BY <1>3, <2>1, <2>2, <2>3, <2>4, <2>5
<1>4. ASSUME NEW x \in Call, InviteMsgRecv(x)
      PROVE  m \in sent
  <2>1. sent' \in {sent, sent \cup {<<"fail", x>>}}
    BY <1>4, Zenon DEF InviteMsgRecv, InviteRefused, InviteDropped, InviteJoins, InvitePlaced
  <2> QED
    BY <1>2, <2>1 DEF m
<1>5. ASSUME NEW x \in Call, InviteRepeated(x) \/ InviteAckRecv(x)
      PROVE  m \in sent
  BY <1>2, <1>5 DEF InviteRepeated, InviteAckRecv, m
<1>6. ASSUME NEW x \in Call, CancelMsgRecv(x) \/ ByeMsgRecv(x)
      PROVE  m \in sent
  BY <1>6 DEF CancelMsgRecv, ByeMsgRecv, ClientLeaves, m
<1>7. CASE UNCHANGED vars
  BY <1>7 DEF vars, flowVars, m
<1>8. CASE \/ \E e \in Entry : InviteAnswer2(e)
           \/ \E e \in Entry, k \in 1 .. MaxInvite : InviteAnswer3(e, k)
           \/ \E x \in Call, k \in 1 .. MaxInvite : InviteAnswer4(x, k)
           \/ \E x \in Call : InviteAnswer5(x)
           \/ InviteFailure
           \/ PeerByeMsgRecv
           \/ \E e \in Entry, k \in 1 .. MaxInvite : ReplayMediaStatusRecv(e, k)
  BY <1>8 DEF InviteAnswer2, InviteAnswer3, InviteAnswer4, InviteAnswer5, InviteFailure,
              PeerByeMsgRecv, ReplayMediaStatusRecv, Received, m
<1>9. CASE \/ SweepNext
           \/ \E s \in Server : \/ CheckRTPStreamAction(s)
                                \/ SetRTPServerStatus(s)
                                \/ GetRTPStreamInfo(s)
  BY <1>9 DEF SweepNext, CheckRTPStreamAction, SetRTPServerStatus, GetRTPStreamInfo, flowVars, m
<1> QED
  <2>1. CASE Continue
    BY <1>3, <2>1 DEF Continue, m
  <2>2. CASE Next /\ ~ Continue
    BY <1>4, <1>5, <1>6, <1>8, <1>9, <2>2 DEF Next, m
  <2> QED
    BY <1>7, <2>1, <2>2 DEF m

\* A stream that has left the table does not come back.
LEMMA GoneStays ==
    ASSUME BaseInv, [Next]_vars
    PROVE  born \ Live \subseteq born' \ Live'
<1>1. TableTypeOK /\ TableInv
  BY DEF BaseInv, PlaceInv, FlowInv
<1>2. CASE UNCHANGED <<cams, born>>
  BY <1>2 DEF Live
<1>3. ASSUME NEW t \in Thread, Release(t)
      PROVE  Live' \subseteq Live /\ born' = born
  <2>1. PICK d \in BOOLEAN : Reduce(job[t].info.call, d)
    <3>1. Reduce(job[t].info.call, job[t].step \in {"failure", "hangup2"})
      BY <1>3, Zenon DEF Release
    <3>2. (job[t].step \in {"failure", "hangup2"}) \in BOOLEAN
      OBVIOUS
    <3> QED
      BY <3>1, <3>2, Zenon
  <2>2. born' = born
    BY <1>3, Zenon DEF Release
  <2> QED
    BY <1>1, <2>1, <2>2, ReduceLive
<1>4. ASSUME NEW c \in Call, InviteMsgRecv(c)
      PROVE  born \ Live \subseteq born' \ Live'
  <2>1. CASE InviteRefused(c) \/ InviteDropped(c)
    BY <1>2, <2>1 DEF InviteRefused, InviteDropped, tableVars
  <2>2. CASE InviteJoins(c)
    <3>1. PICK e \in Forwarding(CamOf[c]) : JoinStream(c, CamOf[c], e)
      BY <2>2 DEF InviteJoins
    <3>2. Live' = Live
      BY <1>1, <3>1, JoinFacts, FlowAssumption
    <3> QED
      BY <2>2, <3>2 DEF InviteJoins
  <2>3. CASE InvitePlaced(c)
    <3>1. PICK s \in LeastLoaded, e \in Entry \ born :
             PlaceStream(c, CamOf[c], TypeOf[c], s, e) /\ born' = born \cup {e}
      BY <2>3 DEF InvitePlaced
    <3>2. Live' = Live \cup {e}
      BY <1>1, <3>1, PlaceFacts, FlowAssumption DEF InviteType
    <3> QED
      BY <3>1, <3>2
  <2> QED
    BY <1>4, <2>1, <2>2, <2>3 DEF InviteMsgRecv
<1>5. ASSUME NEW s \in Server, GetRTPStreamInfo(s)
      PROVE  Live' \subseteq Live /\ born' = born
  BY <1>1, <1>5, EraseFacts DEF GetRTPStreamInfo, InsertRTPInfo, TableInv, Live, flowVars
<1>6. CASE \/ UNCHANGED vars
           \/ InviteSend \/ InviteCamera \/ AckCamera \/ ForwardStream \/ AnswerClient
           \/ \E c \in Call : InviteRepeated(c) \/ InviteAckRecv(c)
           \/ \E c \in Call : CancelMsgRecv(c) \/ ByeMsgRecv(c)
  BY <1>2, <1>6 DEF vars, flowVars, tableVars, InviteSend, InviteCamera, AckCamera,
                    ForwardStream, AnswerClient, InviteRepeated, InviteAckRecv,
                    CancelMsgRecv, ByeMsgRecv, ClientLeaves
<1>7. CASE \/ \E e \in Entry : InviteAnswer2(e)
           \/ \E e \in Entry, k \in 1 .. MaxInvite : InviteAnswer3(e, k)
           \/ \E x \in Call, k \in 1 .. MaxInvite : InviteAnswer4(x, k)
           \/ \E x \in Call : InviteAnswer5(x)
           \/ InviteFailure
           \/ PeerByeMsgRecv
           \/ \E e \in Entry, k \in 1 .. MaxInvite : ReplayMediaStatusRecv(e, k)
  BY <1>2, <1>7 DEF InviteAnswer2, InviteAnswer3, InviteAnswer4, InviteAnswer5, InviteFailure,
                    PeerByeMsgRecv, ReplayMediaStatusRecv, Received, tableVars
<1>8. CASE \/ SweepNext
           \/ \E s \in Server : CheckRTPStreamAction(s) \/ SetRTPServerStatus(s)
  BY <1>2, <1>8 DEF SweepNext, CheckRTPStreamAction, SetRTPServerStatus, SetOffline, SetOnline,
                    flowVars, tableVars
<1> QED
  <2>1. CASE Continue
    BY <1>3, <1>6, <2>1 DEF Continue
  <2>2. CASE Next /\ ~ Continue
    BY <1>4, <1>5, <1>6, <1>7, <1>8, <2>2 DEF Next
  <2> QED
    BY <1>6, <2>1, <2>2

\* The end of a call that closes a stream takes it out of the table.
LEMMA ClosesOut ==
    ASSUME BaseInv, KeptAlone, NEW t \in Thread, Release(t),
           job[t].info.nTranmit = 1 \/ job[t].step = "hangup2"
    PROVE  job[t].info.entry \notin Live'
<1>1. t = "worker" /\ job[t].step \in Releases
  BY DEF Release, KeptAlone, Releases
<1>2. PICK i, step : i = job[t].info /\ step = job[t].step
  OBVIOUS
<1>3. PICK d \in BOOLEAN : d = (step \in {"failure", "hangup2"}) /\ Reduce(i.call, d)
  <2>1. Reduce(job[t].info.call, job[t].step \in {"failure", "hangup2"})
    BY Zenon DEF Release
  <2>2. (step \in {"failure", "hangup2"}) \in BOOLEAN
    OBVIOUS
  <2> QED
    BY <1>2, <2>1, <2>2, Zenon
<1>4. CASE i.entry \notin Live
  <2>1. Live' \subseteq Live
    BY <1>3, ReduceLive DEF BaseInv, PlaceInv
  <2> QED
    BY <1>2, <1>4, <2>1
<1>5. CASE i.entry \in Live
  <2>1. Holds(i.entry, i.call) /\ i.nTranmit = cams[i.entry].nTranmit
    BY <1>1, <1>2, <1>5 DEF KeptAlone, EndFresh
  <2>2. InTable(i.call)
    BY <1>5, <2>1 DEF InTable
  <2>3. PICK f \in Live : \/ DeleteStream(f, i.call, d)
                          \/ ~ d /\ DeleteLeg(f, i.call)
    BY <1>3, <2>2, Zenon DEF Reduce
  <2>4. Holds(f, i.call)
    BY <2>3 DEF DeleteStream, DeleteLeg
  <2>5. i.call \in Call
    <3>1. cams[f].invites \in Seq(Call)
      BY LiveFacts DEF BaseInv, PlaceInv
    <3> QED
      BY <2>4, <3>1 DEF Holds, ToSet
  <2>6. f = i.entry
    BY <1>5, <2>1, <2>4, <2>5, OneStream DEF BaseInv
  <2>7. ~ DeleteLeg(f, i.call) \/ d
    <3>1. CASE step = "hangup2"
      BY <1>3, <3>1
    <3>2. CASE i.nTranmit = 1
      BY <2>1, <2>6, <3>2 DEF DeleteLeg
    <3> QED
      BY <1>2, <3>1, <3>2
  <2>8. DeleteStream(f, i.call, d)
    BY <2>3, <2>7
  <2>9. Live' = Live \ {f}
    BY <2>5, <2>8, DeleteStreamFacts DEF BaseInv, PlaceInv
  <2> QED
    BY <1>2, <2>6, <2>9
<1> QED
  BY <1>4, <1>5

LEMMA ClosedStep ==
    ASSUME BaseInv, KeptAlone, ClosedGone, [Next]_vars
    PROVE  ClosedGone'
<1> SUFFICES ASSUME NEW e \in Entry, Closed(e)'
             PROVE  e \in born' \ Live'
  BY DEF ClosedGone
<1>1. CASE Closed(e)
  BY <1>1, GoneStays DEF ClosedGone
<1>2. CASE ~ Closed(e)
  <2>1. PICK k, m : /\ m \in {<<"bye", Dialog2(e)>>, <<"bye", Dialog3(e, k)>>,
                              <<"cancel", Dialog3(e, k)>>}
                    /\ m \in sent' /\ m \notin sent
    BY <1>2 DEF Closed, Dialog2, Dialog3
  <2>2. PICK a \in {"bye", "cancel"} : \E d : m = <<a, d>>
    BY <2>1
  <2>3. PICK t \in Thread : Release(t)
    BY <2>1, <2>2, NoRelease
  <2>4. PICK i, step : i = job[t].info /\ step = job[t].step
    OBVIOUS
  <2>5. m \in SendByeMsg(i, step = "bye", step = "hangup2")
    <3>1. sent' = sent \cup SendByeMsg(i, step = "bye", step = "hangup2")
                       \cup (IF step = "failure" THEN {<<"fail", i.call>>} ELSE {})
      BY <2>3, <2>4, Zenon DEF Release
    <3>2. m # <<"fail", i.call>>
      <4>1. m[1] = a /\ <<"fail", i.call>>[1] = "fail"
        BY <2>2
      <4> QED
        BY <4>1
    <3> QED
      BY <2>1, <3>1, <3>2
  <2>6. e = i.entry /\ (i.nTranmit = 1 \/ step = "hangup2")
    <3>1. \A f, d : m \in SendByeMsg(i, f, d) => e = i.entry /\ (i.nTranmit = 1 \/ d)
      BY <2>1, ByeCloses
    <3> QED
      BY <2>5, <3>1, Zenon
  <2>7. e \notin Live'
    BY <2>3, <2>4, <2>6, ClosesOut
  <2>8. e \in born /\ born' = born
    <3>1. job[t].step # "idle" /\ born' = born
      BY <2>3, Zenon DEF Release, Releases
    <3> QED
      BY <2>4, <2>6, <3>1 DEF BaseInv, FlowInv, IsIdle
  <2> QED
    BY <2>7, <2>8
<1> QED
  BY <1>1, <1>2

\* The worker's next step is not the end of a call, or of one just copied.
LEMMA EndCopied ==
    ASSUME BaseInv, KeptAlone, sweeping' = sweeping,
           \/ UNCHANGED <<job, cams>>
           \/ Finish("worker")
           \/ \E step, info : Begin("worker", step, info) /\ step \notin Releases
           \/ \E step, info : /\ Begin("worker", step, info)
                              /\ cams' = cams
                              /\ info.entry \in Live
                              /\ Holds(info.entry, info.call)
                              /\ info.nTranmit = cams[info.entry].nTranmit
    PROVE  KeptAlone'
<1>1. CASE UNCHANGED <<job, cams>>
  BY <1>1 DEF KeptAlone, EndFresh, Live, Holds
<1>2. CASE Finish("worker")
  <2>1. /\ job'["worker"].step = "idle"
        /\ \A u \in Thread \ {"worker"} : job'[u] = job[u]
    BY <1>2, FinishFacts DEF Thread, BaseInv, FlowInv
  <2> QED
    BY <2>1 DEF KeptAlone, EndFresh, Releases
<1>3. ASSUME NEW step, NEW info, Begin("worker", step, info)
      PROVE  /\ job'["worker"].step = step
             /\ job'["worker"].info = info
             /\ \A u \in Thread \ {"worker"} : job'[u] = job[u]
  BY <1>3, BeginFacts DEF Thread, BaseInv, FlowInv
<1>4. ASSUME NEW step, NEW info, Begin("worker", step, info), step \notin Releases
      PROVE  KeptAlone'
  BY <1>3, <1>4 DEF KeptAlone, EndFresh
<1>5. ASSUME NEW step, NEW info, Begin("worker", step, info), cams' = cams,
             info.entry \in Live, Holds(info.entry, info.call),
             info.nTranmit = cams[info.entry].nTranmit
      PROVE  KeptAlone'
  BY <1>3, <1>5 DEF KeptAlone, EndFresh, Holds
<1> QED
  BY <1>1, <1>2, <1>4, <1>5

\* What a message selects, as the copy has it.
LEMMA CopyEnds ==
    ASSUME BaseInv
    PROVE  /\ \A a : \A e \in Live :
                 LET i == [StreamInfo(e) EXCEPT !.answer3 = a]
                 IN  i.entry \in Live /\ Holds(i.entry, i.call) /\ i.nTranmit = cams[i.entry].nTranmit
           /\ \A e \in Live :
                 LET i == StreamInfo(e)
                 IN  i.entry \in Live /\ Holds(i.entry, i.call) /\ i.nTranmit = cams[i.entry].nTranmit
           /\ \A c : InTable(c) =>
                 LET i == LegInfo(c)
                 IN  i.entry \in Live /\ Holds(i.entry, i.call) /\ i.nTranmit = cams[i.entry].nTranmit
  BY CopyOfTable DEF StreamInfo, LegInfo, PlayInfo

\* A server that comes or goes leaves the streams of the others as they are.
LEMMA EndServers ==
    ASSUME BaseInv, KeptAlone, NEW s \in Server, GetRTPStreamInfo(s)
    PROVE  KeptAlone'
<1>1. UNCHANGED <<job, sweeping>>
  BY DEF GetRTPStreamInfo, flowVars
<1>2. \A e \in Live' : e \in Live /\ cams'[e] = cams[e]
  <2>1. CASE InsertRTPInfo(s)
    BY <2>1 DEF InsertRTPInfo, Live
  <2>2. CASE EraseRTPInfo(s)
    BY <2>2 DEF EraseRTPInfo, Live
  <2> QED
    BY <2>1, <2>2 DEF GetRTPStreamInfo
<1>3. EndFresh'
  <2> SUFFICES ASSUME job["worker"].step \in Releases, job["worker"].info.entry \in Live'
               PROVE  /\ Holds(job["worker"].info.entry, job["worker"].info.call)'
                      /\ job["worker"].info.nTranmit = cams'[job["worker"].info.entry].nTranmit
    BY <1>1 DEF EndFresh
  <2>1. PICK i : i = job["worker"].info
    OBVIOUS
  <2>2. i.entry \in Live /\ cams'[i.entry] = cams[i.entry]
    BY <1>2, <2>1
  <2>3. Holds(i.entry, i.call) /\ i.nTranmit = cams[i.entry].nTranmit
    BY <2>1, <2>2 DEF KeptAlone, EndFresh
  <2> QED
    BY <1>1, <2>1, <2>2, <2>3 DEF Holds
<1> QED
  BY <1>1, <1>3 DEF KeptAlone

LEMMA EndMessages ==
    ASSUME BaseInv, KeptAlone,
           \/ \E e \in Entry : InviteAnswer2(e)
           \/ \E e \in Entry, k \in 1 .. MaxInvite : InviteAnswer3(e, k)
           \/ \E c \in Call, k \in 1 .. MaxInvite : InviteAnswer4(c, k)
           \/ \E c \in Call : InviteAnswer5(c)
           \/ InviteFailure
           \/ PeerByeMsgRecv
           \/ \E c \in Call : CancelMsgRecv(c) \/ ByeMsgRecv(c)
    PROVE  KeptAlone'
<1>1. /\ UNCHANGED <<cams, sweeping>>
      /\ \/ UNCHANGED job
         \/ \E step : \E e \in Live : \/ Begin("worker", step, StreamInfo(e))
                                      \/ Begin("worker", step, [StreamInfo(e) EXCEPT !.answer3 = TRUE])
         \/ \E step : \E c \in Call : InTable(c) /\ Begin("worker", step, LegInfo(c))
  <2>1. ASSUME NEW e \in Entry, InviteAnswer2(e)
        PROVE  /\ UNCHANGED <<cams, sweeping>>
               /\ UNCHANGED job \/ (e \in Live /\ Begin("worker", "answer2", StreamInfo(e)))
    BY <2>1, Zenon DEF InviteAnswer2, Knows2, Received, tableVars
  <2>2. ASSUME NEW e \in Entry, NEW k \in 1 .. MaxInvite, InviteAnswer3(e, k)
        PROVE  /\ UNCHANGED <<cams, sweeping>>
               /\ UNCHANGED job \/ (e \in Live /\ Begin("worker", "answer3", StreamInfo(e)))
    BY <2>2, Zenon DEF InviteAnswer3, Knows3, Received, tableVars
  <2>3. ASSUME NEW c \in Call, NEW k \in 1 .. MaxInvite, InviteAnswer4(c, k)
        PROVE  /\ UNCHANGED <<cams, sweeping>>
               /\ UNCHANGED job \/ (InTable(c) /\ Begin("worker", "answer4", LegInfo(c)))
    BY <2>3, Zenon DEF InviteAnswer4, Knows4, Received, tableVars
  <2>4. ASSUME NEW c \in Call, InviteAnswer5(c)
        PROVE  UNCHANGED <<cams, sweeping, job>>
    BY <2>4 DEF InviteAnswer5, Received, tableVars
  <2>5. CASE InviteFailure
    <3>1. UNCHANGED <<cams, sweeping>>
      BY <2>5 DEF InviteFailure, Received, tableVars
    <3>2. \/ UNCHANGED job
          \/ \E e \in Live : \/ Begin("worker", "failure", StreamInfo(e))
                             \/ Begin("worker", "failure", [StreamInfo(e) EXCEPT !.answer3 = TRUE])
          \/ \E c \in Call : InTable(c) /\ Begin("worker", "failure", LegInfo(c))
      BY <2>5, Zenon DEF InviteFailure, Knows2, Knows3, Knows4
    <3> QED
      BY <3>1, <3>2, Zenon
  <2>6. CASE PeerByeMsgRecv
    <3>1. UNCHANGED <<cams, sweeping>>
      BY <2>6 DEF PeerByeMsgRecv, Received, tableVars
    <3>2. \/ \E c \in Call : InTable(c) /\ Begin("worker", "hangup", LegInfo(c))
          \/ \E e \in Live : \/ Begin("worker", "hangup", StreamInfo(e))
                             \/ Begin("worker", "hangup2", StreamInfo(e))
      BY <2>6, Zenon DEF PeerByeMsgRecv, Knows2, Knows3, Knows4
    <3> QED
      BY <3>1, <3>2, Zenon
  <2>7. ASSUME NEW c \in Call, CancelMsgRecv(c) \/ ByeMsgRecv(c)
        PROVE  /\ UNCHANGED <<cams, sweeping>>
               /\ \/ UNCHANGED job
                  \/ \E step : InTable(c) /\ Begin("worker", step, LegInfo(c))
    <3>1. PICK step : ClientLeaves(c, step)
      BY <2>7 DEF CancelMsgRecv, ByeMsgRecv
    <3> QED
      BY <3>1 DEF ClientLeaves, tableVars
  <2> QED
    BY <2>1, <2>2, <2>3, <2>4, <2>5, <2>6, <2>7, Zenon
<1>2. ASSUME NEW step, NEW e \in Live,
             \/ Begin("worker", step, StreamInfo(e))
             \/ Begin("worker", step, [StreamInfo(e) EXCEPT !.answer3 = TRUE])
      PROVE  KeptAlone'
  <2>1. PICK info : /\ Begin("worker", step, info)
                    /\ info.entry \in Live
                    /\ Holds(info.entry, info.call)
                    /\ info.nTranmit = cams[info.entry].nTranmit
    BY <1>2, CopyEnds
  <2> QED
    BY <1>1, <2>1, EndCopied
<1>3. ASSUME NEW step, NEW c \in Call, InTable(c), Begin("worker", step, LegInfo(c))
      PROVE  KeptAlone'
  BY <1>1, <1>3, CopyEnds, EndCopied
<1>4. CASE UNCHANGED job
  BY <1>1, <1>4, EndCopied
<1> QED
  BY <1>1, <1>2, <1>3, <1>4, Zenon

LEMMA KeptStep ==
    ASSUME KeptInv, [Next]_vars
    PROVE  KeptInv'
<1>1. BaseInv'
  BY BaseStep DEF KeptInv
<1>2. faults' = faults
  BY FaultsStay
<1> SUFFICES ASSUME faults \cap BesideWorker = {}
             PROVE  KeptAlone' /\ ClosedGone'
  BY <1>1, <1>2 DEF KeptInv, BesideWorker
<1>3. BaseInv /\ KeptAlone /\ ClosedGone
  BY DEF KeptInv
<1>4. ClosedGone'
  BY <1>3, ClosedStep
<1>5. CASE UNCHANGED vars
  <2>1. UNCHANGED <<job, cams, sweeping>>
    BY <1>5 DEF vars, flowVars, tableVars
  <2> QED
    BY <1>3, <1>4, <2>1, EndCopied
<1>6. CASE AckCamera
  <2>1. sweeping' = sweeping /\ Begin("worker", "forward", job["worker"].info)
    BY <1>6 DEF AckCamera
  <2>2. "forward" \notin Releases
    BY DEF Releases
  <2>3. KeptAlone'
    BY <1>3, <2>1, <2>2, EndCopied
  <2> QED
    BY <1>4, <2>3
<1>7. CASE InviteSend \/ InviteCamera \/ ForwardStream \/ AnswerClient
  <2>1. sweeping' = sweeping /\ Finish("worker")
    BY <1>7 DEF InviteSend, InviteCamera, ForwardStream, AnswerClient
  <2> QED
    BY <1>3, <1>4, <2>1, EndCopied
<1>8. ASSUME NEW t \in Thread, Release(t)
      PROVE  KeptAlone'
  <2>1. t = "worker"
    BY <1>3, <1>8 DEF Release, KeptAlone, Releases
  <2>2. sweeping' = sweeping /\ Finish("worker")
    BY <1>8, <2>1, Zenon DEF Release
  <2> QED
    BY <1>3, <2>2, EndCopied
<1>9. ASSUME NEW c \in Call, InviteMsgRecv(c)
      PROVE  KeptAlone'
  <2>1. sweeping' = sweeping /\ "transmit" \notin Releases /\ "request" \notin Releases
    BY <1>9 DEF InviteMsgRecv, Releases
  <2>2. CASE InviteRefused(c) \/ InviteDropped(c)
    BY <1>3, <2>1, <2>2, EndCopied DEF InviteRefused, InviteDropped, tableVars
  <2>3. CASE InviteJoins(c)
    <3>1. PICK info : Begin("worker", "transmit", info)
      BY <2>3, Zenon DEF InviteJoins
    <3> QED
      BY <1>3, <2>1, <3>1, EndCopied
  <2>4. CASE InvitePlaced(c)
    <3>1. PICK info : Begin("worker", "request", info)
      BY <2>4, Zenon DEF InvitePlaced
    <3> QED
      BY <1>3, <2>1, <3>1, EndCopied
  <2> QED
    BY <1>9, <2>2, <2>3, <2>4 DEF InviteMsgRecv
<1>10. ASSUME NEW c \in Call, InviteRepeated(c) \/ InviteAckRecv(c)
       PROVE  KeptAlone'
  <2>1. UNCHANGED <<job, cams, sweeping>>
    BY <1>10 DEF InviteRepeated, InviteAckRecv, tableVars
  <2> QED
    BY <1>3, <2>1, EndCopied
<1>11. ASSUME NEW s \in Server, GetRTPStreamInfo(s)
       PROVE  KeptAlone'
  BY <1>3, <1>11, EndServers
<1>12. CASE \/ \E e \in Entry : InviteAnswer2(e)
            \/ \E e \in Entry, k \in 1 .. MaxInvite : InviteAnswer3(e, k)
            \/ \E c \in Call, k \in 1 .. MaxInvite : InviteAnswer4(c, k)
            \/ \E c \in Call : InviteAnswer5(c)
            \/ InviteFailure
            \/ PeerByeMsgRecv
            \/ \E c \in Call : CancelMsgRecv(c) \/ ByeMsgRecv(c)
  BY <1>3, <1>4, <1>12, EndMessages
<1>13. /\ \A e \in Entry, k \in 1 .. MaxInvite : ~ ReplayMediaStatusRecv(e, k)
       /\ \A s \in Server : ~ CheckRTPStreamAction(s) /\ ~ SetRTPServerStatus(s)
       /\ ~ SweepNext
  BY <1>3 DEF BesideWorker, ReplayMediaStatusRecv, CheckRTPStreamAction, SetRTPServerStatus,
              SweepNext, KeptAlone
<1> QED
  <2>1. CASE Continue
    BY <1>4, <1>6, <1>7, <1>8, <2>1 DEF Continue
  <2>2. CASE Next /\ ~ Continue
    BY <1>4, <1>9, <1>10, <1>11, <1>12, <1>13, <2>2 DEF Next
  <2> QED
    BY <1>5, <2>1, <2>2

\* The camera session and the receiving leg of a stream that still has calls
\* are not closed, whoever leaves, is refused or calls again, whichever dialog
\* is hung up, and while media servers are withdrawn; only the threads beside
\* the worker, with copies of their own, are left out.
THEOREM SharedStreamsAreKept == Spec /\ faults \cap BesideWorker = {} => []SharedStreamKept
<1>1. KeptInv /\ faults \cap BesideWorker = {} => SharedStreamKept
  BY DEF KeptInv, ClosedGone, Closed, SharedStreamKept, Live
<1>2. faults \cap BesideWorker = {} /\ [Next]_vars => (faults \cap BesideWorker = {})'
  BY FaultsStay DEF BesideWorker
<1>3. Init => KeptInv
  <2>1. Init => KeptAlone
    BY DEF Init, KeptAlone, EndFresh, Idle, Thread, Releases
  <2>2. Init => ClosedGone
    BY DEF Init, ClosedGone, Closed
  <2> QED
    BY <2>1, <2>2, InitWorker DEF WorkerInv, KeptInv
<1>4. KeptInv /\ [Next]_vars => KeptInv'
  BY KeptStep
<1> QED
  BY <1>1, <1>2, <1>3, <1>4, PTL DEF Spec

(***************************************************************************)
(* No call is answered after its end.  The worker alone tells clients that *)
(* their calls are over, and each client calls once; but a refusal ends a  *)
(* stream of several calls, and a server may be withdrawn with its calls   *)
(* while the worker goes on from its copy.                                 *)
(***************************************************************************)
WorkerTells == {"absent", "hangup", "reject", "hangup2", "withdraw"}

TellsAlone ==
    /\ \A t \in Thread \ {"worker"} : job[t].step = "idle"
    /\ sweeping = {}
    /\ job["worker"].step # "idle" =>
          job["worker"].info.call \in Call /\ client[job["worker"].info.call] # "idle"
    /\ job["worker"].step = "answer4" => ~ ToldOver(job["worker"].info.call)

\* A call that is over has left the table for good.
OverGone == \A c \in Call : ToldOver(c) => ~ InTable(c) /\ client[c] # "idle"

PresentCalled == \A c \in Call : InTable(c) => client[c] # "idle"

ToldOk == \A c \in Call : legs[c].told => <<"ok", c>> \in sent

TellsInv == TellsAlone /\ OverGone /\ PresentCalled /\ ToldOk

LateInv == BaseInv /\ (faults \subseteq WorkerTells => TellsInv)

\* A step that tells of no end and makes no call.
LEMMA TellsKept ==
    ASSUME TellsInv, sweeping' = sweeping, sent \subseteq sent',
           \A x \in Call : InTable(x)' => InTable(x),
           \A x \in Call : client[x] # "idle" => client'[x] # "idle",
           \A x \in Call : ToldOver(x)' => ToldOver(x),
           \A x \in Call : legs'[x].told => legs[x].told \/ <<"ok", x>> \in sent',
           \A t \in Thread \ {"worker"} : job'[t] = job[t],
           \/ job'["worker"] = job["worker"]
           \/ job'["worker"].step = "idle"
           \/ /\ job'["worker"].info.call \in Call
              /\ client'[job'["worker"].info.call] # "idle"
              /\ job'["worker"].step = "answer4" => ~ ToldOver(job'["worker"].info.call)
    PROVE  TellsInv'
<1>1. OverGone' /\ ToldOk'
  BY DEF TellsInv, OverGone, ToldOk
<1>2. \A x \in Call : InTable(x)' => client'[x] # "idle"
  BY DEF TellsInv, PresentCalled
<1>3. PresentCalled'
  BY <1>2 DEF PresentCalled
<1>4. TellsAlone'
  BY DEF TellsInv, TellsAlone
<1> QED
  BY <1>1, <1>3, <1>4 DEF TellsInv

\* The worker goes on from its copy, sending what ends nothing.
LEMMA TellsWorks ==
    ASSUME BaseInv, TellsInv,
           InviteSend \/ InviteCamera \/ AckCamera \/ ForwardStream \/ AnswerClient
    PROVE  TellsInv'
<1>1. UNCHANGED <<cams, client, sweeping>>
  BY DEF InviteSend, InviteCamera, AckCamera, ForwardStream, AnswerClient, tableVars
<1>2. /\ \A x \in Call : InTable(x)' => InTable(x)
      /\ \A x \in Call : client[x] # "idle" => client'[x] # "idle"
  BY <1>1 DEF InTable, Live, Holds
<1>3. PICK M : Opening(M) /\ sent' = sent \cup M
  <2>1. ASSUME NEW a \in {"invite", "ok"}, NEW d, sent' = sent \cup {<<a, d>>}
        PROVE  \E M : Opening(M) /\ sent' = sent \cup M
    <3>1. Opening({<<a, d>>})
      BY DEF Opening
    <3> QED
      BY <2>1, <3>1
  <2>2. ASSUME NEW d, NEW f, sent' = sent \cup {<<"ack", d>>, <<"ack", f>>}
        PROVE  \E M : Opening(M) /\ sent' = sent \cup M
    <3>1. Opening({<<"ack", d>>, <<"ack", f>>})
      BY DEF Opening
    <3> QED
      BY <2>2, <3>1
  <2>3. CASE sent' = sent
    <3>1. Opening({}) /\ sent' = sent \cup {}
      BY <2>3 DEF Opening
    <3> QED
      BY <3>1
  <2>4. CASE AckCamera
    BY <2>2, <2>4 DEF AckCamera
  <2>5. CASE InviteSend
    BY <2>1, <2>5 DEF InviteSend
  <2>6. CASE InviteCamera
    BY <2>1, <2>6 DEF InviteCamera
  <2>7. CASE ForwardStream
    BY <2>1, <2>7 DEF ForwardStream
  <2>8. CASE AnswerClient
    BY <2>1, <2>3, <2>8 DEF AnswerClient
  <2> QED
    BY <2>4, <2>5, <2>6, <2>7, <2>8
<1>4. \A x \in Call : ToldOver(x)' => ToldOver(x)
  BY <1>3, OpeningCloses
<1>5. \A x \in Call : legs'[x].told => legs[x].told \/ <<"ok", x>> \in sent'
  <2>0. legs \in [Call -> LegRec]
    BY DEF BaseInv, FlowInv
  <2>1. ASSUME NEW c, NEW k, legs' = legs \/ legs' = [legs EXCEPT ![c] = Inviting(@, k)]
        PROVE  \A x \in Call : legs'[x].told => legs[x].told
    BY <2>0, <2>1 DEF LegRec, Inviting
  <2>2. CASE InviteSend \/ InviteCamera \/ AckCamera \/ ForwardStream
    BY <2>1, <2>2, Zenon DEF InviteSend, InviteCamera, AckCamera, ForwardStream
  <2>3. CASE AnswerClient
    <3>1. PICK c : /\ \/ legs' = legs
                      \/ legs' = [legs EXCEPT ![c] = Answered(@, c \notin Monitor)]
                   /\ c \notin Monitor => <<"ok", c>> \in sent'
      BY <2>3 DEF AnswerClient
    <3>2. \A x \in Call \ {c} : legs'[x] = legs[x]
      BY <2>0, <3>1
    <3>3. ASSUME c \in Call, legs'[c].told
          PROVE  legs[c].told \/ <<"ok", c>> \in sent'
      <4>1. CASE legs' = legs
        BY <3>3, <4>1
      <4>2. CASE legs' = [legs EXCEPT ![c] = Answered(@, c \notin Monitor)]
        <5>1. legs'[c] = Answered(legs[c], c \notin Monitor)
          BY <2>0, <3>3, <4>2
        <5>2. legs'[c].told = (legs[c].told \/ c \notin Monitor)
          BY <5>1 DEF Answered
        <5> QED
          BY <3>1, <3>3, <5>2
      <4> QED
        BY <3>1, <4>1, <4>2
    <3> QED
      BY <3>2, <3>3
  <2> QED
    BY <2>2, <2>3
<1>6. /\ \A t \in Thread \ {"worker"} : job'[t] = job[t]
      /\ \/ job'["worker"].step = "idle"
         \/ job'["worker"].step = "forward" /\ job'["worker"].info = job["worker"].info
  <2>1. job = [t \in Thread |-> job[t]] /\ "worker" \in Thread
    BY DEF BaseInv, FlowInv, Thread
  <2>2. CASE AckCamera
    BY <2>1, <2>2, BeginFacts DEF AckCamera
  <2>3. CASE InviteSend \/ InviteCamera \/ ForwardStream \/ AnswerClient
    <3>1. Finish("worker")
      BY <2>3 DEF InviteSend, InviteCamera, ForwardStream, AnswerClient
    <3> QED
      BY <2>1, <3>1, FinishFacts
  <2> QED
    BY <2>2, <2>3
<1>7. job["worker"].step # "idle"
  BY DEF InviteSend, InviteCamera, AckCamera, ForwardStream, AnswerClient
<1>8. /\ job["worker"].info.call \in Call
      /\ client'[job["worker"].info.call] # "idle"
  BY <1>1, <1>7 DEF TellsInv, TellsAlone
<1> QED
  BY <1>1, <1>2, <1>3, <1>4, <1>5, <1>6, <1>8, TellsKept

\* ReduceRTPTotal takes the call out, wherever it is, and brings none in.
LEMMA ReduceEnds ==
    ASSUME BaseInv, NEW c \in Call, NEW d \in BOOLEAN, Reduce(c, d)
    PROVE  /\ ~ InTable(c)'
           /\ \A x \in Call : InTable(x)' => InTable(x)
<1>1. CASE ~ InTable(c) /\ UNCHANGED tableVars
  BY <1>1 DEF tableVars, InTable, Live, Holds
<1>2. ASSUME NEW e \in Live, DeleteStream(e, c, d) \/ DeleteLeg(e, c)
      PROVE  /\ ~ InTable(c)'
             /\ \A x \in Call : InTable(x)' => InTable(x)
  BY <1>2, CallGone, DeletesOnly DEF BaseInv, PlaceInv
<1> QED
  BY <1>1, <1>2, Zenon DEF Reduce

LEMMA TellsWhom ==
    ASSUME NEW i, NEW f, NEW d, NEW x, <<"bye", Dialog1(x)>> \in SendByeMsg(i, f, d)
    PROVE  x = i.call
<1> DEFINE m == <<"bye", Dialog1(x)>>
<1>1. m \notin CameraBye(i)
  BY DEF CameraBye, Dialog1, Dialog3
<1>2. m \notin StreamBye(i)
  BY <1>1 DEF StreamBye, Dialog1, Dialog2
<1>3. m # <<"bye", Dialog4(i.call, i.call4)>>
  BY DEF Dialog1, Dialog4
<1>4. m = <<"bye", Dialog1(i.call)>> => x = i.call
  BY DEF Dialog1
<1> HIDE DEF m
<1>5. m \in SendByeMsg(i, f, d)
  BY DEF m
<1> QED
  BY <1>2, <1>3, <1>4, <1>5, Zenon DEF SendByeMsg

\* What the end of a call does, for the copy that the thread has.
ReleaseOf(i, step) ==
    /\ Reduce(i.call, step \in {"failure", "hangup2"})
    /\ sent' = sent \cup SendByeMsg(i, step = "bye", step = "hangup2")
                    \cup (IF step = "failure" THEN {<<"fail", i.call>>} ELSE {})
    /\ UNCHANGED <<legs, client, sweeping>>

LEMMA TellsReleases ==
    ASSUME BaseInv, TellsInv, NEW t \in Thread, Release(t)
    PROVE  TellsInv'
<1>1. PICK i, step : /\ i.call \in Call /\ client[i.call] # "idle"
                     /\ ReleaseOf(i, step)
                     /\ Finish("worker")
  <2>1. /\ t = "worker"
        /\ job[t].info.call \in Call
        /\ client[job[t].info.call] # "idle"
    BY DEF Release, Releases, TellsInv, TellsAlone
  <2>2. ReleaseOf(job[t].info, job[t].step) /\ Finish(t)
    BY Zenon DEF Release, ReleaseOf
  <2> QED
    BY <2>1, <2>2
<1> DEFINE c == i.call
           d == step \in {"failure", "hangup2"}
           M == SendByeMsg(i, step = "bye", step = "hangup2")
<1>2. /\ Reduce(c, d)
      /\ sent' = sent \cup M \cup (IF step = "failure" THEN {<<"fail", c>>} ELSE {})
      /\ UNCHANGED <<legs, client, sweeping>>
  BY <1>1 DEF ReleaseOf
<1>3. /\ ~ InTable(c)'
      /\ \A x \in Call : InTable(x)' => InTable(x)
  <2>1. c \in Call /\ d \in BOOLEAN /\ Reduce(c, d)
    BY <1>1, <1>2
  <2> HIDE DEF c, d
  <2> QED
    BY <2>1, ReduceEnds
<1>4. ASSUME NEW x \in Call, ToldOver(x)', ~ ToldOver(x)
      PROVE  x = c
  <2>1. \/ <<"fail", x>> \in sent' /\ <<"fail", x>> \notin sent
        \/ <<"bye", Dialog1(x)>> \in sent' /\ <<"bye", Dialog1(x)>> \notin sent
    BY <1>4 DEF ToldOver, Dialog1
  <2>2. <<"fail", x>> \notin M
    <3>1. <<"fail", x>>[1] = "fail"
      OBVIOUS
    <3>2. \A m \in M : m[1] \in {"bye", "cancel", "emptybye"}
      BY ByeFacts
    <3> QED
      BY <3>1, <3>2
  <2>3. <<"bye", Dialog1(x)>> \in M => x = c
    BY TellsWhom
  <2>4. \A y : <<"bye", Dialog1(x)>> # <<"fail", y>>
    OBVIOUS
  <2> HIDE DEF M, c
  <2> QED
    BY <1>2, <2>1, <2>2, <2>3, <2>4
<1>5. /\ \A u \in Thread \ {"worker"} : job'[u] = job[u]
      /\ job'["worker"].step = "idle"
  BY <1>1, FinishFacts DEF BaseInv, FlowInv, Thread
<1> HIDE DEF M, d
<1>6. sent \subseteq sent'
  BY <1>2
<1>7. OverGone'
  <2> SUFFICES ASSUME NEW x \in Call, ToldOver(x)'
               PROVE  ~ InTable(x)' /\ client'[x] # "idle"
    BY DEF OverGone
  <2>1. CASE ToldOver(x)
    BY <1>2, <1>3, <2>1 DEF TellsInv, OverGone
  <2>2. CASE ~ ToldOver(x)
    BY <1>1, <1>2, <1>3, <1>4, <2>2
  <2> QED
    BY <2>1, <2>2
<1>8. PresentCalled'
  BY <1>2, <1>3 DEF TellsInv, PresentCalled
<1>9. ToldOk'
  BY <1>2, <1>6 DEF TellsInv, ToldOk
<1>10. TellsAlone'
  BY <1>2, <1>5 DEF TellsInv, TellsAlone
<1> QED
  BY <1>7, <1>8, <1>9, <1>10 DEF TellsInv

\* A handler that only copies, of a call in the table.
LEMMA TellsCopies ==
    ASSUME BaseInv, TellsInv, UNCHANGED <<cams, legs, sent, sweeping>>,
           \A x \in Call : client[x] # "idle" => client'[x] # "idle",
           NEW step, NEW info,
           \/ UNCHANGED job
           \/ Begin("worker", step, info) /\ info.call \in Call /\ InTable(info.call)
    PROVE  TellsInv'
<1>1. /\ \A x \in Call : InTable(x)' => InTable(x)
      /\ \A x \in Call : ToldOver(x)' => ToldOver(x)
  BY DEF InTable, Live, Holds, ToldOver, Dialog1
<1>2. CASE UNCHANGED job
  BY <1>1, <1>2, TellsKept
<1>3. CASE ~ UNCHANGED job
  <2>1. /\ job'["worker"].info = info
        /\ \A u \in Thread \ {"worker"} : job'[u] = job[u]
    BY <1>3, BeginFacts DEF BaseInv, FlowInv, Thread
  <2>2. client'[info.call] # "idle" /\ ~ ToldOver(info.call)
    BY <1>3 DEF TellsInv, PresentCalled, OverGone
  <2> QED
    BY <1>1, <1>3, <2>1, <2>2, TellsKept
<1> QED
  BY <1>2, <1>3

\* Answers of the peers, refusals and their BYEs.
LEMMA TellsReceives ==
    ASSUME BaseInv, TellsInv, Received,
           \/ UNCHANGED job
           \/ \E step, answer3 : \E e \in Live :
                 \/ Begin("worker", step, StreamInfo(e))
                 \/ Begin("worker", step, [StreamInfo(e) EXCEPT !.answer3 = answer3])
           \/ \E step : \E c \in Call : InTable(c) /\ Begin("worker", step, LegInfo(c))
    PROVE  TellsInv'
<1>1. /\ UNCHANGED <<cams, legs, sent, sweeping>>
      /\ \A x \in Call : client[x] # "idle" => client'[x] # "idle"
  BY DEF Received, tableVars
<1>2. ASSUME NEW step, NEW info, NEW c \in Call, InTable(c), info.call = c,
             UNCHANGED job \/ Begin("worker", step, info)
      PROVE  TellsInv'
  BY <1>1, <1>2, TellsCopies
<1>3. CASE UNCHANGED job
  <2>1. PICK step, info : step = "idle" /\ info = 0
    OBVIOUS
  <2> QED
    BY <1>1, <1>3, TellsCopies
<1>4. ASSUME NEW step, NEW answer3, NEW e \in Live,
             \/ Begin("worker", step, StreamInfo(e))
             \/ Begin("worker", step, [StreamInfo(e) EXCEPT !.answer3 = answer3])
      PROVE  TellsInv'
  <2>1. FirstCall(e) \in Call /\ InTable(FirstCall(e))
    BY CopyOfTable DEF InTable
  <2>2. /\ StreamInfo(e).call = FirstCall(e)
        /\ [StreamInfo(e) EXCEPT !.answer3 = answer3].call = FirstCall(e)
    BY DEF StreamInfo, PlayInfo
  <2> QED
    BY <1>2, <1>4, <2>1, <2>2
<1>5. ASSUME NEW step, NEW c \in Call, InTable(c), Begin("worker", step, LegInfo(c))
      PROVE  TellsInv'
  <2>1. LegInfo(c).call = c
    BY DEF LegInfo, PlayInfo
  <2> QED
    BY <1>2, <1>5, <2>1
<1> QED
  BY <1>3, <1>4, <1>5, Zenon

\* The handlers of messages, apart from the client's INVITE.
LEMMA TellsMessages ==
    ASSUME BaseInv, TellsInv,
           \/ \E e \in Entry : InviteAnswer2(e)
           \/ \E e \in Entry, k \in 1 .. MaxInvite : InviteAnswer3(e, k)
           \/ \E c \in Call, k \in 1 .. MaxInvite : InviteAnswer4(c, k)
           \/ \E c \in Call : InviteAnswer5(c)
           \/ InviteFailure
           \/ PeerByeMsgRecv
    PROVE  TellsInv'
<1>1. ASSUME NEW e \in Entry, InviteAnswer2(e)
      PROVE  TellsInv'
  <2>1. /\ Received
        /\ UNCHANGED job \/ (e \in Live /\ Begin("worker", "answer2", StreamInfo(e)))
    BY <1>1, Zenon DEF InviteAnswer2, Knows2
  <2> QED
    BY <2>1, TellsReceives
<1>2. ASSUME NEW e \in Entry, NEW k \in 1 .. MaxInvite, InviteAnswer3(e, k)
      PROVE  TellsInv'
  <2>1. /\ Received
        /\ UNCHANGED job \/ (e \in Live /\ Begin("worker", "answer3", StreamInfo(e)))
    BY <1>2, Zenon DEF InviteAnswer3, Knows3
  <2> QED
    BY <2>1, TellsReceives
<1>3. ASSUME NEW c \in Call, NEW k \in 1 .. MaxInvite, InviteAnswer4(c, k)
      PROVE  TellsInv'
  <2>1. /\ Received
        /\ UNCHANGED job \/ (InTable(c) /\ Begin("worker", "answer4", LegInfo(c)))
    BY <1>3, Zenon DEF InviteAnswer4, Knows4
  <2> QED
    BY <2>1, TellsReceives
<1>4. ASSUME NEW c \in Call, InviteAnswer5(c)
      PROVE  TellsInv'
  BY <1>4, TellsReceives DEF InviteAnswer5
<1>5. CASE InviteFailure
  <2>1. /\ Received
        /\ \/ UNCHANGED job
           \/ \E e \in Live :
                 \/ Begin("worker", "failure", StreamInfo(e))
                 \/ Begin("worker", "failure", [StreamInfo(e) EXCEPT !.answer3 = TRUE])
           \/ \E c \in Call : InTable(c) /\ Begin("worker", "failure", LegInfo(c))
    BY <1>5, Zenon DEF InviteFailure, Knows2, Knows3, Knows4
  <2> QED
    BY <2>1, TellsReceives, Zenon
<1>6. CASE PeerByeMsgRecv
  <2>1. /\ Received
        /\ \/ \E c \in Call : InTable(c) /\ Begin("worker", "hangup", LegInfo(c))
           \/ \E e \in Live : \/ Begin("worker", "hangup", StreamInfo(e))
                              \/ Begin("worker", "hangup2", StreamInfo(e))
    BY <1>6, Zenon DEF PeerByeMsgRecv, Knows2, Knows3, Knows4
  <2> QED
    BY <2>1, TellsReceives, Zenon
<1> QED
  BY <1>1, <1>2, <1>3, <1>4, <1>5, <1>6

LEMMA TellsInvite ==
    ASSUME BaseInv, TellsInv, faults \subseteq WorkerTells,
           NEW c \in Call, InviteMsgRecv(c)
    PROVE  TellsInv'
<1>1. /\ client[c] = "idle" /\ ~ InTable(c) /\ ~ ToldOver(c)
      /\ UNCHANGED <<said, sweeping, faults>>
  BY DEF InviteMsgRecv, WorkerTells, TellsInv, OverGone
<1>2. /\ client'[c] # "idle"
      /\ \A x \in Call : client[x] # "idle" => client'[x] # "idle"
  <2>1. PICK state \in {"invited", "trying"} : Calls(c, state)
    BY DEF InviteMsgRecv, InviteRefused, InviteDropped, InviteJoins, InvitePlaced
  <2>2. client' = [client EXCEPT ![c] = state]
    BY <1>1, <2>1 DEF Calls, BaseInv, FlowInv
  <2> QED
    BY <2>1, <2>2 DEF BaseInv, FlowInv
<1>3. CASE InviteRefused(c)
  <2>1. /\ UNCHANGED <<cams, legs, job>>
        /\ sent' = sent \cup {<<"fail", c>>}
    BY <1>3 DEF InviteRefused, tableVars
  <2>2. \A x : InTable(x)' = InTable(x)
    BY <2>1 DEF Live, InTable, Holds
  <2>3. \A x : ToldOver(x)' => ToldOver(x) \/ x = c
    <3>1. \A d : <<"bye", d>> # <<"fail", c>>
      OBVIOUS
    <3>2. \A x : <<"fail", x>> = <<"fail", c>> => x = c
      OBVIOUS
    <3> QED
      BY <2>1, <3>1, <3>2 DEF ToldOver, Dialog1
  <2>4. OverGone' /\ PresentCalled'
    BY <1>1, <1>2, <2>2, <2>3 DEF TellsInv, OverGone, PresentCalled
  <2>5. ToldOk'
    BY <2>1 DEF TellsInv, ToldOk
  <2>6. TellsAlone'
    <3>1. IsIdle("worker")
      BY DEF InviteMsgRecv
    <3> QED
      BY <1>1, <2>1, <3>1 DEF TellsInv, TellsAlone, IsIdle
  <2> QED
    BY <2>4, <2>5, <2>6 DEF TellsInv
<1>4. CASE InviteDropped(c)
  <2>1. UNCHANGED <<cams, legs, sent, sweeping, job>>
    BY <1>1, <1>4 DEF InviteDropped, tableVars
  <2>2. PICK step, info : step = "idle" /\ info = 0
    OBVIOUS
  <2> QED
    BY <1>2, <2>1, <2>2, TellsCopies
<1>5. CASE InviteJoins(c) \/ InvitePlaced(c)
  <2>1. GetPracticableRTPServer(c)
    <3>1. CamOf[c] \in Camera /\ TypeOf[c] \in InviteType
      BY FlowAssumption DEF InviteType
    <3> QED
      BY <1>1, <1>5, <3>1 DEF InviteJoins, InvitePlaced, GetPracticableRTPServer
  <2>2. \A x \in Call : InTable(x)' => InTable(x) \/ x = c
    BY <2>1, PlacesOnly DEF BaseInv, PlaceInv
  <2>3. /\ sent' = sent
        /\ legs' = [legs EXCEPT ![c] = NoLeg]
        /\ \E step, e : /\ step \in {"transmit", "request"}
                        /\ Begin("worker", step, [entry |-> e, call |-> c])
    <3>1. CASE InviteJoins(c)
      <4>1. PICK e : Begin("worker", "transmit", [entry |-> e, call |-> c])
        BY <3>1, Zenon DEF InviteJoins
      <4>2. sent' = sent /\ legs' = [legs EXCEPT ![c] = NoLeg]
        BY <3>1, Zenon DEF InviteJoins
      <4> QED
        BY <4>1, <4>2
    <3>2. CASE InvitePlaced(c)
      <4>1. PICK e : /\ sent' = sent
                     /\ legs' = [legs EXCEPT ![c] = NoLeg]
                     /\ Begin("worker", "request", [entry |-> e, call |-> c])
        BY <3>2, Zenon DEF InvitePlaced
      <4> QED
        BY <4>1
    <3> QED
      BY <1>5, <3>1, <3>2
  <2>4. /\ job'["worker"].step \in {"transmit", "request"}
        /\ job'["worker"].info.call = c
        /\ \A u \in Thread \ {"worker"} : job'[u] = job[u]
    <3>1. PICK step, info : /\ step \in {"transmit", "request"}
                            /\ info.call = c
                            /\ Begin("worker", step, info)
      <4>1. PICK step, e : /\ step \in {"transmit", "request"}
                           /\ Begin("worker", step, [entry |-> e, call |-> c])
        BY <2>3
      <4>2. [entry |-> e, call |-> c].call = c
        OBVIOUS
      <4> QED
        BY <4>1, <4>2
    <3> QED
      BY <3>1, BeginFacts DEF BaseInv, FlowInv, Thread
  <2>5. \A x : ToldOver(x)' = ToldOver(x)
    BY <2>3 DEF ToldOver, Dialog1
  <2>6. OverGone' /\ PresentCalled'
    BY <1>1, <1>2, <2>2, <2>5 DEF TellsInv, OverGone, PresentCalled
  <2>7. ToldOk'
    <3>1. legs'[c].told = FALSE /\ \A x \in Call \ {c} : legs'[x] = legs[x]
      BY <2>3 DEF BaseInv, FlowInv, NoLeg
    <3> QED
      BY <2>3, <3>1 DEF TellsInv, ToldOk
  <2>8. TellsAlone'
    BY <1>1, <1>2, <2>4 DEF TellsInv, TellsAlone
  <2> QED
    BY <2>6, <2>7, <2>8 DEF TellsInv
<1> QED
  BY <1>3, <1>4, <1>5 DEF InviteMsgRecv

\* The worker is the only thread that ends calls under these faults.
LEMMA TellsExcluded ==
    ASSUME TellsInv, faults \subseteq WorkerTells
    PROVE  /\ ~ SweepNext
           /\ \A e \in Entry, k \in 1 .. MaxInvite : ~ ReplayMediaStatusRecv(e, k)
           /\ \A s \in Server : ~ CheckRTPStreamAction(s) /\ ~ SetRTPServerStatus(s)
  BY DEF TellsInv, TellsAlone, WorkerTells, SweepNext, ReplayMediaStatusRecv,
         CheckRTPStreamAction, SetRTPServerStatus

LEMMA LateStep ==
    ASSUME LateInv, [Next]_vars
    PROVE  LateInv'
<1>1. BaseInv'
  BY BaseStep DEF LateInv
<1>2. faults' = faults
  BY FaultsStay
<1> SUFFICES ASSUME faults \subseteq WorkerTells
             PROVE  TellsInv'
  BY <1>1, <1>2 DEF LateInv, WorkerTells
<1>3. BaseInv /\ TellsInv
  BY DEF LateInv
<1>4. ASSUME UNCHANGED <<legs, client, sweeping, job>>, sent \subseteq sent',
             \A x \in Call : InTable(x)' => InTable(x),
             \A x \in Call : ToldOver(x)' => ToldOver(x)
      PROVE  TellsInv'
  BY <1>3, <1>4, TellsKept
<1>5. CASE UNCHANGED vars
  <2>1. UNCHANGED <<cams, legs, sent, client, sweeping, job>>
    BY <1>5 DEF vars, flowVars, tableVars
  <2>2. PICK step, info : step = "idle" /\ info = 0
    OBVIOUS
  <2> QED
    BY <1>3, <2>1, <2>2, TellsCopies
<1>6. CASE Continue
  BY <1>3, <1>6, TellsWorks, TellsReleases DEF Continue
<1>7. ASSUME NEW c \in Call, InviteMsgRecv(c)
      PROVE  TellsInv'
  BY <1>3, <1>7, TellsInvite
<1>8. ASSUME NEW c \in Call, InviteRepeated(c) \/ InviteAckRecv(c)
      PROVE  TellsInv'
  <2>1. /\ UNCHANGED <<cams, legs, client, sweeping, job>>
        /\ \E m : m[1] \in {"ok", "ack"} /\ sent' \in {sent, sent \cup {m}}
    <3>1. <<"ok", c>>[1] = "ok" /\ \A d : <<"ack", d>>[1] = "ack"
      OBVIOUS
    <3> QED
      BY <1>8, <3>1 DEF InviteRepeated, InviteAckRecv, tableVars
  <2>2. sent' = sent \/ \E M : sent' = sent \cup M /\ Opening(M)
    <3>1. PICK m : m[1] \in {"ok", "ack"} /\ sent' \in {sent, sent \cup {m}}
      BY <2>1
    <3>2. Opening({m})
      BY <3>1 DEF Opening
    <3> QED
      BY <3>1, <3>2
  <2>3. \A x \in Call : ToldOver(x)' => ToldOver(x)
    BY <2>2, OpeningCloses DEF ToldOver, Dialog1
  <2>4. \A x \in Call : InTable(x)' => InTable(x)
    BY <2>1 DEF InTable, Live, Holds
  <2> QED
    BY <1>4, <2>1, <2>2, <2>3, <2>4
<1>9. ASSUME NEW c \in Call, CancelMsgRecv(c) \/ ByeMsgRecv(c)
      PROVE  TellsInv'
  <2>1. PICK step \in {"cancel", "bye"} : ClientLeaves(c, step)
    BY <1>9 DEF CancelMsgRecv, ByeMsgRecv
  <2>2. /\ UNCHANGED <<cams, legs, sent, sweeping>>
        /\ client' = [client EXCEPT ![c] = "gone"]
        /\ UNCHANGED job \/ (InTable(c) /\ Begin("worker", step, LegInfo(c)))
    BY <2>1 DEF ClientLeaves, tableVars
  <2>3. \A x \in Call : client[x] # "idle" => client'[x] # "idle"
    BY <1>3, <2>2 DEF BaseInv, FlowInv
  <2>4. LegInfo(c).call = c
    BY DEF LegInfo, PlayInfo
  <2> QED
    BY <1>3, <2>2, <2>3, <2>4, TellsCopies
<1>10. ASSUME NEW s \in Server, GetRTPStreamInfo(s)
       PROVE  TellsInv'
  <2>1. UNCHANGED <<legs, client, sweeping, job, sent>>
    BY <1>10 DEF GetRTPStreamInfo, flowVars
  <2>2. \A x \in Call : InTable(x)' => InTable(x)
    BY <1>3, <1>10, ServersOnly DEF GetRTPStreamInfo, BaseInv, PlaceInv
  <2>3. \A x \in Call : ToldOver(x)' => ToldOver(x)
    BY <2>1 DEF ToldOver, Dialog1
  <2> QED
    BY <1>4, <2>1, <2>2, <2>3
<1>11. CASE \/ \E e \in Entry : InviteAnswer2(e)
            \/ \E e \in Entry, k \in 1 .. MaxInvite : InviteAnswer3(e, k)
            \/ \E c \in Call, k \in 1 .. MaxInvite : InviteAnswer4(c, k)
            \/ \E c \in Call : InviteAnswer5(c)
            \/ InviteFailure
            \/ PeerByeMsgRecv
  BY <1>3, <1>11, TellsMessages
<1> QED
  BY <1>3, <1>5, <1>6, <1>7, <1>8, <1>9, <1>10, <1>11, TellsExcluded DEF Next

\* A 200 that is new is the worker's, to the call of its copy.
LEMMA NewOk ==
    ASSUME TellsInv, faults \subseteq WorkerTells, [Next]_vars,
           NEW c \in Call, <<"ok", c>> \in sent', <<"ok", c>> \notin sent
    PROVE  job["worker"].step = "answer4" /\ c = job["worker"].info.call
<1> DEFINE m == <<"ok", c>>
<1>1. m[1] = "ok"
  OBVIOUS
<1>2. CASE AnswerClient
  BY <1>2 DEF AnswerClient
<1>3. ASSUME NEW x \in Call, InviteRepeated(x)
      PROVE  FALSE
  BY <1>3 DEF InviteRepeated, TellsInv, ToldOk
<1>4. ASSUME NEW t \in Thread, Release(t)
      PROVE  FALSE
  <2>1. PICK i, f, d : sent' = sent \cup SendByeMsg(i, f, d) \/
                       sent' = sent \cup SendByeMsg(i, f, d) \cup {<<"fail", i.call>>}
    <3>1. ReleaseOf(job[t].info, job[t].step)
      BY <1>4, Zenon DEF Release, ReleaseOf
    <3>2. PICK i, step : ReleaseOf(i, step)
      BY <3>1
    <3>3. CASE step = "failure"
      BY <3>2, <3>3, Zenon DEF ReleaseOf
    <3>4. CASE step # "failure"
      <4>1. sent' = sent \cup SendByeMsg(i, step = "bye", step = "hangup2") \cup {}
        BY <3>2, <3>4 DEF ReleaseOf
      <4> QED
        BY <4>1
    <3> QED
      BY <3>3, <3>4
  <2>2. m \notin SendByeMsg(i, f, d)
    BY <1>1, ByeFacts
  <2>3. m # <<"fail", i.call>>
    OBVIOUS
  <2> QED
    BY <2>1, <2>2, <2>3
<1>5. CASE InviteSend \/ InviteCamera \/ AckCamera \/ ForwardStream
  <2>1. CASE InviteSend
    BY <2>1 DEF InviteSend
  <2>2. CASE InviteCamera
    BY <2>2 DEF InviteCamera
  <2>3. CASE AckCamera
    BY <2>3 DEF AckCamera
  <2>4. CASE ForwardStream
    BY <2>4 DEF ForwardStream
  <2> QED
    BY <1>5, <2>1, <2>2, <2>3, <2>4
<1>6. ASSUME NEW x \in Call, InviteMsgRecv(x)
      PROVE  FALSE
  <2>1. sent' \in {sent, sent \cup {<<"fail", x>>}}
    BY <1>6, Zenon DEF InviteMsgRecv, InviteRefused, InviteDropped, InviteJoins, InvitePlaced
  <2>2. <<"fail", x>>[1] = "fail"
    OBVIOUS
  <2>3. m # <<"fail", x>>
    BY <1>1, <2>2
  <2> QED
    BY <2>1, <2>3
<1>7. ASSUME NEW x \in Call, InviteAckRecv(x) \/ CancelMsgRecv(x) \/ ByeMsgRecv(x)
      PROVE  FALSE
  BY <1>7 DEF InviteAckRecv, CancelMsgRecv, ByeMsgRecv, ClientLeaves
<1>8. CASE UNCHANGED vars
  BY <1>8 DEF vars, flowVars
<1>9. CASE \/ \E e \in Entry : InviteAnswer2(e)
           \/ \E e \in Entry, k \in 1 .. MaxInvite : InviteAnswer3(e, k)
           \/ \E x \in Call, k \in 1 .. MaxInvite : InviteAnswer4(x, k)
           \/ \E x \in Call : InviteAnswer5(x)
           \/ InviteFailure
           \/ PeerByeMsgRecv
           \/ \E s \in Server : GetRTPStreamInfo(s)
  BY <1>9 DEF InviteAnswer2, InviteAnswer3, InviteAnswer4, InviteAnswer5, InviteFailure,
              PeerByeMsgRecv, GetRTPStreamInfo, Received, flowVars
<1> QED
  <2>1. CASE Continue
    BY <1>2, <1>4, <1>5, <2>1 DEF Continue
  <2>2. CASE Next /\ ~ Continue
    BY <1>3, <1>6, <1>7, <1>9, <2>2, TellsExcluded DEF Next
  <2> QED
    BY <1>8, <2>1, <2>2

\* A client that was told that its call is over gets no 200 for it that it did
\* not have, also when others of its stream are refused with it or its media
\* server is withdrawn while it is answered.
THEOREM NoLateAnswer == Spec /\ faults \subseteq WorkerTells => NoAnswerAfterEnd
<1>1. ASSUME LateInv, faults \subseteq WorkerTells, [Next]_vars, NEW c \in Call,
             ToldOver(c), <<"ok", c>> \in sent'
      PROVE  <<"ok", c>> \in sent
  <2>1. TellsInv
    BY <1>1 DEF LateInv
  <2> QED
    BY <1>1, <2>1, NewOk DEF TellsInv, TellsAlone
<1>2. LateInv /\ faults \subseteq WorkerTells /\ [Next]_vars
         => [\A c \in Call : ToldOver(c) /\ <<"ok", c>> \in sent' => <<"ok", c>> \in sent]_vars
  BY <1>1
<1>3. faults \subseteq WorkerTells /\ [Next]_vars => (faults \subseteq WorkerTells)'
  BY FaultsStay DEF WorkerTells
<1>4. Init => LateInv
  <2>1. Init => TellsAlone
    BY DEF Init, TellsAlone, Idle, Thread
  <2>2. Init => OverGone /\ PresentCalled /\ ToldOk
    BY DEF Init, OverGone, ToldOver, PresentCalled, InTable, Live, ToldOk, NoLeg
  <2> QED
    BY <2>1, <2>2, InitWorker DEF WorkerInv, LateInv, TellsInv
<1>5. LateInv /\ [Next]_vars => LateInv'
  BY LateStep
<1> QED
  BY <1>2, <1>3, <1>4, <1>5, PTL DEF Spec, NoAnswerAfterEnd

(***************************************************************************)
(* Why a BYE may belong to no dialog.  SendByeMsg takes the camera's answer *)
(* for granted once an Invite4 has been sent, and a call may join a stream *)
(* whose camera has not answered.  That is the only reason: as long as no  *)
(* call does, an Invite4 means that the camera has answered, under every   *)
(* fault and whatever the threads beside the worker do.                    *)
(***************************************************************************)
JoinsAnswered ==
    \A c \in Call, e \in Live :
        ~ InTable(c) /\ e \in Live' /\ Holds(e, c)' =>
            dialogs[e].answer3 \/ CamOf[c] \in SdkCamera

\* An Invite4 may be sent for the calls of the stream.
Ready(e) == dialogs[e].answer3 \/ cams[e].camera \in SdkCamera

CameraOfCalls == \A e \in Live, c \in Call : Holds(e, c) => cams[e].camera = CamOf[c]

\* Dialogs 2 and 3 are for cameras that the media server does not open itself.
AskedCameras ==
    \A e \in Live : dialogs[e].msg2 \/ dialogs[e].call3 # 0 => cams[e].camera \notin SdkCamera

SentWhenReady == \A e \in Live, c \in Call : Holds(e, c) /\ legs[c].call4 # 0 => Ready(e)

StreamsReady == CameraOfCalls /\ AskedCameras /\ SentWhenReady

\* What the worker's copy says of the stream of its call, if the call is still
\* in the table.
WorkReady ==
    LET i == job["worker"].info
        step == job["worker"].step
    IN  /\ step = "transmit" => \A f \in Live : Holds(f, i.call) => Ready(f)
        /\ step = "request" => \A f \in Live : Holds(f, i.call) => f = i.entry
        /\ step = "answer2" => (i.entry \in Live => cams[i.entry].camera \notin SdkCamera)
        /\ step = "answer3" => \A f \in Live : Holds(f, i.call) =>
                                  f = i.entry /\ dialogs[f].call3 = i.call3
        /\ step = "forward" => \A f \in Live : Holds(f, i.call) => dialogs[f].answer3

\* A copy from which a call is ended, by whichever thread, shows the answer.
ShowsAnswer(i) == i.call3 # 0 /\ i.call4 # 0 => i.answer3

EndsAnswered == \A t \in Thread : job[t].step \in Releases => ShowsAnswer(job[t].info)

ReadyInv ==
    /\ BaseInv
    /\ StreamsReady
    /\ WorkReady
    /\ EndsAnswered
    /\ Invite4MeansCameraAnswered

\* The calls that are in the table have a Call-ID.
LEMMA HeldCall ==
    ASSUME BaseInv, NEW e \in Live, NEW c, Holds(e, c)
    PROVE  c \in Call
<1>1. cams[e].invites \in Seq(Call)
  BY LiveFacts DEF BaseInv, PlaceInv
<1> QED
  BY <1>1 DEF Holds, ToSet

\* No stream comes and none gets another call.
Shrinks ==
    \A f \in Live' : /\ f \in Live
                     /\ cams'[f].camera = cams[f].camera
                     /\ \A x : Holds(f, x)' => Holds(f, x)

LEMMA ReduceShrinks ==
    ASSUME BaseInv, NEW c, NEW d \in BOOLEAN, Reduce(c, d)
    PROVE  Shrinks
<1>1. TableTypeOK
  BY DEF BaseInv, PlaceInv
<1>2. CASE UNCHANGED tableVars
  BY <1>2 DEF tableVars, Shrinks, Live, Holds
<1>3. ASSUME NEW e \in Live, DeleteStream(e, c, d) \/ DeleteLeg(e, c)
      PROVE  Shrinks
  <2>1. c \in Call
    BY <1>3, HeldCall DEF DeleteStream, DeleteLeg
  <2>2. CASE DeleteStream(e, c, d)
    <3>1. \A f \in Live' : f \in Live /\ cams'[f] = cams[f]
      BY <1>1, <2>1, <2>2, DeleteStreamFacts DEF Live
    <3> QED
      BY <3>1 DEF Shrinks, Holds
  <2>3. CASE DeleteLeg(e, c)
    <3>1. \A f \in Live' : f \in Live /\ (f # e => cams'[f] = cams[f])
      BY <1>1, <2>1, <2>3, DeleteLegFacts DEF Live
    <3>2. PICK i \in 1 .. Len(cams[e].invites) :
             /\ cams'[e].camera = cams[e].camera
             /\ cams'[e].invites = RemoveAt(cams[e].invites, i)
      BY <1>1, <2>1, <2>3, DeleteLegFields
    <3>3. cams[e].invites \in Seq(Call)
      BY <1>1, LiveFacts
    <3>4. \A x : Holds(e, x)' => Holds(e, x)
      BY <3>2, <3>3, LegsWere DEF Holds
    <3> QED
      BY <3>1, <3>2, <3>4 DEF Shrinks, Holds
  <2> QED
    BY <1>3, <2>2, <2>3
<1> QED
  BY <1>2, <1>3, Zenon DEF Reduce

LEMMA ServersShrink ==
    ASSUME BaseInv, NEW s \in Server, GetRTPStreamInfo(s)
    PROVE  Shrinks
<1>1. CASE InsertRTPInfo(s)
  BY <1>1 DEF InsertRTPInfo, Shrinks, Live, Holds
<1>2. CASE EraseRTPInfo(s)
  <2>1. \A f \in Live' : f \in Live /\ cams'[f] = cams[f]
    BY <1>2 DEF EraseRTPInfo, Live
  <2> QED
    BY <2>1 DEF Shrinks, Holds
<1> QED
  BY <1>1, <1>2 DEF GetRTPStreamInfo

LEMMA SameShrinks ==
    ASSUME UNCHANGED cams
    PROVE  Shrinks
  BY DEF Shrinks, Live, Holds

LEMMA StreamsKept ==
    ASSUME StreamsReady, Shrinks, UNCHANGED <<dialogs, legs>>
    PROVE  StreamsReady'
<1>1. CameraOfCalls'
  BY DEF StreamsReady, CameraOfCalls, Shrinks
<1>2. AskedCameras'
  BY DEF StreamsReady, AskedCameras, Shrinks
<1>3. SentWhenReady'
  BY DEF StreamsReady, SentWhenReady, Shrinks, Ready
<1> QED
  BY <1>1, <1>2, <1>3 DEF StreamsReady

LEMMA WorkKept ==
    ASSUME WorkReady, Shrinks, UNCHANGED dialogs, job'["worker"] = job["worker"]
    PROVE  WorkReady'
<1>1. PICK i, step : /\ i = job["worker"].info /\ i = job'["worker"].info
                     /\ step = job["worker"].step /\ step = job'["worker"].step
  OBVIOUS
<1>2. step = "transmit" => \A f \in Live' : Holds(f, i.call)' => Ready(f)'
  BY <1>1 DEF WorkReady, Shrinks, Ready
<1>3. step = "request" => \A f \in Live' : Holds(f, i.call)' => f = i.entry
  BY <1>1 DEF WorkReady, Shrinks
<1>4. step = "answer2" => (i.entry \in Live' => cams'[i.entry].camera \notin SdkCamera)
  BY <1>1 DEF WorkReady, Shrinks
<1>5. step = "answer3" => \A f \in Live' : Holds(f, i.call)' =>
                             f = i.entry /\ dialogs'[f].call3 = i.call3
  BY <1>1 DEF WorkReady, Shrinks
<1>6. step = "forward" => \A f \in Live' : Holds(f, i.call)' => dialogs'[f].answer3
  BY <1>1 DEF WorkReady, Shrinks
<1> QED
  BY <1>1, <1>2, <1>3, <1>4, <1>5, <1>6 DEF WorkReady

\* The worker that ends a handler, or goes on to what needs nothing.
LEMMA WorkFree ==
    ASSUME job'["worker"].step \notin {"transmit", "request", "answer2", "answer3", "forward"}
    PROVE  WorkReady'
  BY DEF WorkReady

LEMMA EndsKept ==
    ASSUME EndsAnswered,
           \A t \in Thread : \/ job'[t] = job[t]
                             \/ job'[t].step \notin Releases
                             \/ ShowsAnswer(job'[t].info)
    PROVE  EndsAnswered'
  BY DEF EndsAnswered, ShowsAnswer

\* Whatever is copied out of the table shows the answer.
LEMMA CopiesShow ==
    ASSUME BaseInv, StreamsReady
    PROVE  /\ \A e \in Live : ShowsAnswer(StreamInfo(e))
           /\ \A e \in Live : ShowsAnswer([StreamInfo(e) EXCEPT !.answer3 = TRUE])
           /\ \A c \in Call : InTable(c) => ShowsAnswer(LegInfo(c))
<1>1. ASSUME NEW e \in Live, NEW c \in Call, Holds(e, c)
      PROVE  ShowsAnswer(PlayInfo(e, c))
  <2>1. dialogs[e].call3 # 0 /\ legs[c].call4 # 0 => dialogs[e].answer3
    BY <1>1 DEF StreamsReady, AskedCameras, SentWhenReady, Ready
  <2>2. /\ PlayInfo(e, c).call3 = dialogs[e].call3
        /\ PlayInfo(e, c).call4 = legs[c].call4
        /\ PlayInfo(e, c).answer3 = dialogs[e].answer3
    BY DEF PlayInfo
  <2> QED
    BY <2>1, <2>2 DEF ShowsAnswer
<1>2. \A e \in Live : ShowsAnswer(StreamInfo(e))
  BY <1>1, CopyOfTable DEF StreamInfo
<1>3. \A e \in Live : ShowsAnswer([StreamInfo(e) EXCEPT !.answer3 = TRUE])
  BY DEF ShowsAnswer, StreamInfo, PlayInfo
<1>4. \A c \in Call : InTable(c) => ShowsAnswer(LegInfo(c))
  BY <1>1, CopyOfTable DEF LegInfo
<1> QED
  BY <1>2, <1>3, <1>4

(***************************************************************************)
(* The handlers, one by one.                                               *)
(***************************************************************************)
\* A BYE from such a copy belongs to a dialog.
LEMMA EndsNoEmpty ==
    ASSUME NEW i, NEW f, NEW d, ShowsAnswer(i), NEW e
    PROVE  <<"emptybye", e>> \notin SendByeMsg(i, f, d)
<1> DEFINE m == <<"emptybye", e>>
<1>1. \A x : m # <<"bye", x>> /\ m # <<"cancel", x>>
  OBVIOUS
<1> HIDE DEF m
<1>2. m \notin CameraBye(i)
  BY <1>1 DEF CameraBye, ShowsAnswer
<1>3. m \notin StreamBye(i)
  BY <1>1, <1>2 DEF StreamBye
<1>4. m \notin SendByeMsg(i, f, d)
  BY <1>1, <1>3, Zenon DEF SendByeMsg
<1> QED
  BY <1>4 DEF m

LEMMA ReadyReleases ==
    ASSUME ReadyInv, NEW t \in Thread, Release(t)
    PROVE  StreamsReady' /\ WorkReady' /\ EndsAnswered' /\ Invite4MeansCameraAnswered'
<1>1. Shrinks
  <2>1. Reduce(job[t].info.call, job[t].step \in {"failure", "hangup2"})
    BY Zenon DEF Release
  <2>2. (job[t].step \in {"failure", "hangup2"}) \in BOOLEAN
    OBVIOUS
  <2> QED
    BY <2>1, <2>2, ReduceShrinks, Zenon DEF ReadyInv
<1>2. UNCHANGED <<dialogs, legs>> /\ Finish(t) /\ job[t].step \in Releases
  BY Zenon DEF Release
<1>3. /\ job'[t].step = "idle"
      /\ \A u \in Thread \ {t} : job'[u] = job[u]
  BY <1>2, FinishFacts DEF ReadyInv, BaseInv, FlowInv
<1>4. StreamsReady'
  BY <1>1, <1>2, StreamsKept DEF ReadyInv
<1>5. WorkReady'
  <2>1. "worker" \in Thread
    BY DEF Thread
  <2> QED
    BY <1>1, <1>2, <1>3, <2>1, WorkKept, WorkFree DEF ReadyInv
<1>6. EndsAnswered'
  BY <1>3, EndsKept DEF ReadyInv, Releases
<1>7. Invite4MeansCameraAnswered'
  <2>1. PICK i, step : i = job[t].info /\ step = job[t].step
    OBVIOUS
  <2>2. sent' = sent \cup SendByeMsg(i, step = "bye", step = "hangup2")
                     \cup (IF step = "failure" THEN {<<"fail", i.call>>} ELSE {})
    BY <2>1, Zenon DEF Release
  <2>3. ShowsAnswer(i)
    BY <1>2, <2>1 DEF ReadyInv, EndsAnswered
  <2>4. \A e : <<"emptybye", e>> # <<"fail", i.call>>
    OBVIOUS
  <2>5. ASSUME NEW e \in Entry
        PROVE  <<"emptybye", e>> \notin sent'
    <3>1. <<"emptybye", e>> \notin SendByeMsg(i, step = "bye", step = "hangup2")
      BY <2>3, EndsNoEmpty
    <3>2. <<"emptybye", e>> \notin sent
      BY DEF ReadyInv, Invite4MeansCameraAnswered
    <3> QED
      BY <2>2, <2>4, <3>1, <3>2
  <2> QED
    BY <2>5, Zenon DEF Invite4MeansCameraAnswered
<1> QED
  BY <1>4, <1>5, <1>6, <1>7

\* Recording the Invite4 of a call whose stream is ready.
LEMMA LegsReady ==
    ASSUME BaseInv, StreamsReady, UNCHANGED <<cams, dialogs>>, NEW c, NEW k,
           \/ legs' = legs
           \/ /\ legs' = [legs EXCEPT ![c] = Inviting(@, k)]
              /\ \A f \in Live : Holds(f, c) => Ready(f)
    PROVE  StreamsReady'
<1>1. Live' = Live /\ \A f, x : Holds(f, x)' = Holds(f, x)
  BY DEF Live, Holds
<1>2. CameraOfCalls' /\ AskedCameras'
  BY <1>1 DEF StreamsReady, CameraOfCalls, AskedCameras
<1>3. \A x \in Call : legs'[x] = legs[x] \/ (x = c /\ \A f \in Live : Holds(f, c) => Ready(f))
  BY DEF BaseInv, FlowInv
<1>4. SentWhenReady'
  BY <1>1, <1>3 DEF StreamsReady, SentWhenReady, Ready
<1> QED
  BY <1>2, <1>4 DEF StreamsReady

LEMMA ReadyInviteSend ==
    ASSUME ReadyInv, InviteSend
    PROVE  StreamsReady'
<1>1. PICK e, c, k, step :
         /\ e = job["worker"].info.entry /\ c = job["worker"].info.call
         /\ k = FreshCall4(c) /\ step = job["worker"].step
  OBVIOUS
<1>2. BaseInv /\ StreamsReady /\ cams' = cams /\ step \in {"transmit", "request"}
  BY <1>1 DEF ReadyInv, InviteSend, tableVars
<1>3. CASE step = "transmit" \/ CamOf[c] \in SdkCamera
  <2>1. /\ dialogs' = dialogs
        /\ legs' = legs \/ legs' = [legs EXCEPT ![c] = Inviting(@, k)]
    BY <1>1, <1>3, Zenon DEF InviteSend
  <2>2. ASSUME NEW f \in Live, Holds(f, c)
        PROVE  Ready(f)
    <3>1. CASE step = "transmit"
      BY <1>1, <2>2, <3>1 DEF ReadyInv, WorkReady
    <3>2. CASE CamOf[c] \in SdkCamera
      BY <1>2, <2>2, <3>2, HeldCall DEF StreamsReady, CameraOfCalls, Ready
    <3> QED
      BY <1>3, <3>1, <3>2
  <2> QED
    BY <1>2, <2>1, <2>2, LegsReady
<1>4. CASE step = "request" /\ CamOf[c] \notin SdkCamera
  <2>1. /\ legs' = legs
        /\ dialogs' = IF InTable(c) THEN [dialogs EXCEPT ![e].msg2 = TRUE] ELSE dialogs
    BY <1>1, <1>4, Zenon DEF InviteSend
  <2>2. CASE ~ InTable(c)
    BY <1>2, <2>1, <2>2, SameShrinks, StreamsKept
  <2>3. CASE InTable(c)
    <3>1. e \in Live /\ cams[e].camera \notin SdkCamera
      <4>1. PICK f \in Live : Holds(f, c)
        BY <2>3 DEF InTable
      <4>2. c \in Call
        BY <1>2, <4>1, HeldCall
      <4>3. f = e
        BY <1>1, <1>4, <4>1 DEF ReadyInv, WorkReady
      <4> QED
        BY <1>2, <1>4, <4>1, <4>2, <4>3 DEF StreamsReady, CameraOfCalls
    <3>2. /\ \A f \in Live \ {e} : dialogs'[f] = dialogs[f]
          /\ \A f \in Live : dialogs'[f].answer3 = dialogs[f].answer3
      BY <1>2, <2>1, <2>3, <3>1 DEF BaseInv, FlowInv, FlowRec, Live
    <3>3. Live' = Live /\ \A f, x : Holds(f, x)' = Holds(f, x)
      BY <1>2 DEF Live, Holds
    <3>4. CameraOfCalls'
      BY <1>2, <3>3 DEF StreamsReady, CameraOfCalls
    <3>5. AskedCameras'
      BY <1>2, <3>1, <3>2, <3>3 DEF StreamsReady, AskedCameras
    <3>6. SentWhenReady'
      BY <1>2, <2>1, <3>2, <3>3 DEF StreamsReady, SentWhenReady, Ready
    <3> QED
      BY <3>4, <3>5, <3>6 DEF StreamsReady
  <2> QED
    BY <2>2, <2>3
<1> QED
  BY <1>2, <1>3, <1>4

LEMMA ReadyInviteCamera ==
    ASSUME ReadyInv, InviteCamera
    PROVE  StreamsReady'
<1>1. PICK e, k : e = job["worker"].info.entry /\ k = FreshCall3(e)
  OBVIOUS
<1>2. /\ BaseInv /\ StreamsReady /\ UNCHANGED <<cams, legs>>
      /\ dialogs' = IF e \in Live
                      THEN [dialogs EXCEPT ![e].answer2 = TRUE, ![e].call3 = k]
                      ELSE dialogs
  BY <1>1, Zenon DEF ReadyInv, InviteCamera, tableVars
<1>3. CASE e \notin Live
  BY <1>2, <1>3, SameShrinks, StreamsKept
<1>4. CASE e \in Live
  <2>1. cams[e].camera \notin SdkCamera
    BY <1>1, <1>4 DEF ReadyInv, WorkReady, InviteCamera
  <2>2. /\ \A f \in Live \ {e} : dialogs'[f] = dialogs[f]
        /\ \A f \in Live : dialogs'[f].answer3 = dialogs[f].answer3
    BY <1>2, <1>4 DEF BaseInv, FlowInv, FlowRec, Live
  <2>3. Live' = Live /\ \A f, x : Holds(f, x)' = Holds(f, x)
    BY <1>2 DEF Live, Holds
  <2>4. CameraOfCalls'
    BY <1>2, <2>3 DEF StreamsReady, CameraOfCalls
  <2>5. AskedCameras'
    BY <1>2, <2>1, <2>2, <2>3 DEF StreamsReady, AskedCameras
  <2>6. SentWhenReady'
    BY <1>2, <2>2, <2>3 DEF StreamsReady, SentWhenReady, Ready
  <2> QED
    BY <2>4, <2>5, <2>6 DEF StreamsReady
<1> QED
  BY <1>3, <1>4

LEMMA ReadyAckCamera ==
    ASSUME ReadyInv, AckCamera
    PROVE  StreamsReady' /\ WorkReady' /\ job'["worker"].step = "forward"
           /\ \A u \in Thread \ {"worker"} : job'[u] = job[u]
<1>1. PICK i : i = job["worker"].info
  OBVIOUS
<1>2. /\ BaseInv /\ StreamsReady /\ UNCHANGED <<cams, legs>>
      /\ dialogs' = IF Knows3(i.entry, i.call3)
                      THEN [dialogs EXCEPT ![i.entry].answer3 = TRUE]
                      ELSE dialogs
      /\ Begin("worker", "forward", i)
  BY <1>1, Zenon DEF ReadyInv, AckCamera, tableVars
<1>3. Live' = Live /\ \A f, x : Holds(f, x)' = Holds(f, x)
  BY <1>2 DEF Live, Holds
<1>4. /\ \A f \in Live : /\ dialogs[f].answer3 => dialogs'[f].answer3
                         /\ dialogs'[f].msg2 = dialogs[f].msg2
                         /\ dialogs'[f].call3 = dialogs[f].call3
      /\ Knows3(i.entry, i.call3) => dialogs'[i.entry].answer3
  <2>1. dialogs \in [Entry -> FlowRec] /\ Live \subseteq Entry
    BY <1>2 DEF BaseInv, FlowInv, Live
  <2>2. CASE ~ Knows3(i.entry, i.call3)
    BY <1>2, <2>2
  <2>3. CASE Knows3(i.entry, i.call3)
    <3>1. i.entry \in Live /\ dialogs' = [dialogs EXCEPT ![i.entry].answer3 = TRUE]
      BY <1>2, <2>3 DEF Knows3
    <3> QED
      BY <2>1, <3>1 DEF FlowRec
  <2> QED
    BY <2>2, <2>3
<1>5. StreamsReady'
  <2>1. CameraOfCalls'
    BY <1>2, <1>3 DEF StreamsReady, CameraOfCalls
  <2>2. AskedCameras'
    BY <1>2, <1>3, <1>4 DEF StreamsReady, AskedCameras
  <2>3. SentWhenReady'
    BY <1>2, <1>3, <1>4 DEF StreamsReady, SentWhenReady, Ready
  <2> QED
    BY <2>1, <2>2, <2>3 DEF StreamsReady
<1>6. /\ job'["worker"].step = "forward"
      /\ job'["worker"].info = i
      /\ \A u \in Thread \ {"worker"} : job'[u] = job[u]
  BY <1>2, BeginFacts DEF BaseInv, FlowInv, Thread
<1>7. ASSUME NEW f \in Live, Holds(f, i.call)
      PROVE  dialogs'[f].answer3
  <2>1. f = i.entry /\ dialogs[f].call3 = i.call3
    BY <1>1, <1>7 DEF ReadyInv, WorkReady, AckCamera
  <2> QED
    BY <1>4, <2>1 DEF Knows3
<1>8. WorkReady'
  BY <1>3, <1>6, <1>7 DEF WorkReady
<1> QED
  BY <1>5, <1>6, <1>8

LEMMA ReadyAnswers ==
    ASSUME ReadyInv, ForwardStream \/ AnswerClient
    PROVE  StreamsReady'
<1>1. BaseInv /\ StreamsReady /\ UNCHANGED <<cams, dialogs>>
  BY DEF ReadyInv, ForwardStream, AnswerClient, tableVars
<1>2. PICK c : c = job["worker"].info.call
  OBVIOUS
<1>3. CASE ForwardStream
  <2>1. legs' = legs \/ legs' = [legs EXCEPT ![c] = Inviting(@, FreshCall4(c))]
    BY <1>2, <1>3, Zenon DEF ForwardStream
  <2>2. \A f \in Live : Holds(f, c) => Ready(f)
    BY <1>2, <1>3 DEF ReadyInv, WorkReady, ForwardStream, Ready
  <2> QED
    BY <1>1, <2>1, <2>2, LegsReady
<1>4. CASE AnswerClient
  <2>1. legs' = legs \/ legs' = [legs EXCEPT ![c] = Answered(@, c \notin Monitor)]
    BY <1>2, <1>4, Zenon DEF AnswerClient
  <2>2. \A x \in Call : legs'[x].call4 = legs[x].call4
    BY <1>1, <2>1 DEF BaseInv, FlowInv, LegRec, Answered
  <2>3. Live' = Live /\ \A f, x : Holds(f, x)' = Holds(f, x)
    BY <1>1 DEF Live, Holds
  <2>4. CameraOfCalls' /\ AskedCameras'
    BY <1>1, <2>3 DEF StreamsReady, CameraOfCalls, AskedCameras
  <2>5. SentWhenReady'
    BY <1>1, <2>2, <2>3 DEF StreamsReady, SentWhenReady, Ready
  <2> QED
    BY <2>4, <2>5 DEF StreamsReady
<1> QED
  BY <1>3, <1>4

\* A call that is placed, on a stream of its camera or on a new one.
LEMMA ReadyJoins ==
    ASSUME ReadyInv, JoinsAnswered, NEW c \in Call, ~ InTable(c), InviteJoins(c)
    PROVE  StreamsReady' /\ WorkReady'
<1>1. PICK e \in Forwarding(CamOf[c]) :
         /\ JoinStream(c, CamOf[c], e)
         /\ Begin("worker", "transmit", [entry |-> e, call |-> c])
  BY DEF InviteJoins
<1>2. /\ dialogs' = dialogs
      /\ legs' = [legs EXCEPT ![c] = NoLeg]
      /\ TableTypeOK /\ CamOf[c] \in Camera
      /\ BaseInv /\ StreamsReady
  BY FlowAssumption, Zenon DEF InviteJoins, ReadyInv, BaseInv, PlaceInv
<1>3. /\ e \in Live /\ Live' = Live /\ cams[e].camera = CamOf[c]
      /\ cams'[e].camera = cams[e].camera
      /\ cams'[e].invites = Append(cams[e].invites, c)
      /\ \A f \in Live \ {e} : cams'[f] = cams[f]
  BY <1>1, <1>2, JoinFacts, JoinFields DEF Forwarding, Live
<1>4. /\ \A x : Holds(e, x)' => Holds(e, x) \/ x = c
      /\ Holds(e, c)'
  <2>1. cams[e].invites \in Seq(Call)
    BY <1>2, <1>3, LiveFacts
  <2>2. ToSet(cams'[e].invites) = ToSet(cams[e].invites) \cup {c}
    <3>1. PICK q \in Seq(Call) : q = cams[e].invites
      BY <2>1
    <3>2. /\ cams'[e].invites = Append(q, c)
          /\ DOMAIN q = 1 .. Len(q) /\ Len(q) \in Nat
          /\ DOMAIN Append(q, c) = 1 .. (Len(q) + 1)
          /\ \A j \in 1 .. Len(q) : Append(q, c)[j] = q[j]
          /\ Append(q, c)[Len(q) + 1] = c
      BY <1>3, <3>1
    <3>3. ToSet(Append(q, c)) = ToSet(q) \cup {c}
      BY <3>2 DEF ToSet
    <3> QED
      BY <3>1, <3>2, <3>3
  <2> QED
    BY <2>2 DEF Holds
<1>5. \A f \in Live' : /\ cams'[f].camera = cams[f].camera
                       /\ \A x : Holds(f, x)' => Holds(f, x) \/ (f = e /\ x = c)
  BY <1>3, <1>4 DEF Holds
<1>6. Ready(e)
  BY <1>3, <1>4 DEF JoinsAnswered, Ready
<1>7. /\ legs'[c].call4 = 0
      /\ \A x \in Call \ {c} : legs'[x] = legs[x]
  BY <1>2 DEF BaseInv, FlowInv, NoLeg
<1>8. StreamsReady'
  <2>1. CameraOfCalls'
    BY <1>2, <1>3, <1>5 DEF StreamsReady, CameraOfCalls
  <2>2. AskedCameras'
    BY <1>2, <1>3, <1>5 DEF StreamsReady, AskedCameras
  <2>3. SentWhenReady'
    BY <1>2, <1>3, <1>5, <1>7 DEF StreamsReady, SentWhenReady, Ready
  <2> QED
    BY <2>1, <2>2, <2>3 DEF StreamsReady
<1>9. WorkReady'
  <2>1. PICK info : info = [entry |-> e, call |-> c] /\ info.call = c
    <3>1. PICK info : info = [entry |-> e, call |-> c]
      OBVIOUS
    <3> QED
      BY <3>1
  <2>2. job'["worker"].step = "transmit" /\ job'["worker"].info.call = c
    BY <1>1, <1>2, <2>1, BeginFacts DEF BaseInv, FlowInv, Thread
  <2>3. ASSUME NEW f \in Live', Holds(f, c)'
        PROVE  Ready(f)'
    <3>1. f = e
      BY <1>3, <1>5, <2>3 DEF InTable
    <3> QED
      BY <1>2, <1>3, <1>6, <3>1 DEF Ready
  <2> QED
    BY <2>2, <2>3 DEF WorkReady
<1> QED
  BY <1>8, <1>9

LEMMA ReadyPlaces ==
    ASSUME ReadyInv, NEW c \in Call, ~ InTable(c), InvitePlaced(c)
    PROVE  StreamsReady' /\ WorkReady'
<1>1. PICK s \in LeastLoaded, e \in Entry \ born :
         /\ PlaceStream(c, CamOf[c], TypeOf[c], s, e)
         /\ dialogs' = [dialogs EXCEPT ![e] = NoDialog]
         /\ legs' = [legs EXCEPT ![c] = NoLeg]
         /\ Begin("worker", "request", [entry |-> e, call |-> c])
  BY DEF InvitePlaced
<1>2. /\ TableTypeOK /\ CamOf[c] \in Camera /\ TypeOf[c] \in InviteType
      /\ BaseInv /\ StreamsReady
  BY FlowAssumption DEF ReadyInv, BaseInv, PlaceInv, InviteType
<1>3. /\ e \notin Live /\ Live' = Live \cup {e}
      /\ cams'[e].camera = CamOf[c] /\ cams'[e].invites = <<c>>
      /\ \A f \in Live : cams'[f] = cams[f]
  BY <1>1, <1>2, PlaceFacts, PlaceFields DEF Live
<1>4. \A x : Holds(e, x)' => x = c
  BY <1>3 DEF Holds, ToSet
<1>5. /\ dialogs'[e] = NoDialog
      /\ \A f \in Live : dialogs'[f] = dialogs[f]
  BY <1>1, <1>2, <1>3 DEF BaseInv, FlowInv, Live
<1>6. /\ legs'[c].call4 = 0
      /\ \A x \in Call \ {c} : legs'[x] = legs[x]
  BY <1>1, <1>2 DEF BaseInv, FlowInv, NoLeg
<1>7. \A f \in Live : \A x : Holds(f, x)' => Holds(f, x) /\ x # c
  BY <1>3 DEF Holds, InTable
<1>8. StreamsReady'
  <2>1. CameraOfCalls'
    BY <1>2, <1>3, <1>4, <1>7 DEF StreamsReady, CameraOfCalls
  <2>2. AskedCameras'
    BY <1>2, <1>3, <1>5 DEF StreamsReady, AskedCameras, NoDialog
  <2>3. SentWhenReady'
    BY <1>2, <1>3, <1>4, <1>5, <1>6, <1>7 DEF StreamsReady, SentWhenReady, Ready
  <2> QED
    BY <2>1, <2>2, <2>3 DEF StreamsReady
<1>9. WorkReady'
  <2>1. PICK info : info = [entry |-> e, call |-> c] /\ info.call = c /\ info.entry = e
    <3>1. PICK info : info = [entry |-> e, call |-> c]
      OBVIOUS
    <3> QED
      BY <3>1
  <2>2. /\ job'["worker"].step = "request"
        /\ job'["worker"].info.call = c /\ job'["worker"].info.entry = e
    BY <1>1, <1>2, <2>1, BeginFacts DEF BaseInv, FlowInv, Thread
  <2>3. \A f \in Live' : Holds(f, c)' => f = e
    BY <1>3, <1>7
  <2> QED
    BY <2>2, <2>3 DEF WorkReady
<1> QED
  BY <1>8, <1>9

\* What a handler may copy, and the threads beside the worker.
LEMMA ReadyCopies ==
    ASSUME ReadyInv, UNCHANGED <<cams, dialogs, legs>>, NEW t \in Thread, NEW step, NEW info,
           \/ UNCHANGED job
           \/ /\ Begin(t, step, info)
              /\ ShowsAnswer(info)
              /\ step \notin {"transmit", "request", "forward"}
              /\ step = "answer2" => (info.entry \in Live => cams[info.entry].camera \notin SdkCamera)
              /\ step = "answer3" => \A f \in Live : Holds(f, info.call) =>
                                        f = info.entry /\ dialogs[f].call3 = info.call3
    PROVE  StreamsReady' /\ WorkReady' /\ EndsAnswered'
<1>1. Shrinks /\ Live' = Live /\ \A f, x : Holds(f, x)' = Holds(f, x)
  BY SameShrinks DEF Live, Holds
<1>2. StreamsReady'
  BY <1>1, StreamsKept DEF ReadyInv
<1>3. CASE UNCHANGED job
  BY <1>1, <1>2, <1>3, WorkKept, EndsKept DEF ReadyInv
<1>4. CASE ~ UNCHANGED job
  <2>1. /\ job'[t].step = step
        /\ job'[t].info = info
        /\ \A u \in Thread \ {t} : job'[u] = job[u]
    BY <1>4, BeginFacts DEF ReadyInv, BaseInv, FlowInv
  <2>2. EndsAnswered'
    BY <1>4, <2>1, EndsKept DEF ReadyInv
  <2>3. WorkReady'
    <3>1. CASE t = "worker"
      BY <1>1, <1>4, <2>1, <3>1 DEF WorkReady
    <3>2. CASE t # "worker"
      <4>1. job'["worker"] = job["worker"]
        BY <2>1, <3>2 DEF Thread
      <4> QED
        BY <1>1, <4>1, WorkKept DEF ReadyInv
    <3> QED
      BY <3>1, <3>2
  <2> QED
    BY <1>2, <2>2, <2>3
<1> QED
  BY <1>3, <1>4

\* Ends that are begun from the table as it is.
LEMMA ReadyEnds ==
    ASSUME ReadyInv, UNCHANGED <<cams, dialogs, legs>>, NEW t \in Thread,
           NEW step \in Releases \cup {"answer4"},
           \/ UNCHANGED job
           \/ \E e \in Live : \/ Begin(t, step, StreamInfo(e))
                              \/ Begin(t, step, [StreamInfo(e) EXCEPT !.answer3 = TRUE])
           \/ \E c \in Call : InTable(c) /\ Begin(t, step, LegInfo(c))
    PROVE  StreamsReady' /\ WorkReady' /\ EndsAnswered'
<1>1. step \notin {"transmit", "request", "forward", "answer2", "answer3"}
  BY DEF Releases
<1>2. ASSUME NEW info, ShowsAnswer(info), Begin(t, step, info)
      PROVE  StreamsReady' /\ WorkReady' /\ EndsAnswered'
  BY <1>1, <1>2, ReadyCopies
<1>3. CASE UNCHANGED job
  <2>1. PICK info : info = 0
    OBVIOUS
  <2> QED
    BY <1>3, <2>1, ReadyCopies
<1>4. /\ \A e \in Live : /\ ShowsAnswer(StreamInfo(e))
                         /\ ShowsAnswer([StreamInfo(e) EXCEPT !.answer3 = TRUE])
      /\ \A c \in Call : InTable(c) => ShowsAnswer(LegInfo(c))
  BY CopiesShow DEF ReadyInv
<1> QED
  BY <1>2, <1>3, <1>4, Zenon

LEMMA ReadyAnswer2 ==
    ASSUME ReadyInv, NEW e \in Entry, InviteAnswer2(e)
    PROVE  StreamsReady' /\ WorkReady' /\ EndsAnswered'
<1>1. UNCHANGED <<cams, dialogs, legs>> /\ "worker" \in Thread
  BY DEF InviteAnswer2, Received, tableVars, Thread
<1>2. UNCHANGED job \/ (Knows2(e) /\ Begin("worker", "answer2", StreamInfo(e)))
  BY Zenon DEF InviteAnswer2
<1>3. CASE UNCHANGED job
  <2>1. PICK step, info : step = 0 /\ info = 0
    OBVIOUS
  <2> QED
    BY <1>1, <1>3, <2>1, ReadyCopies
<1>4. CASE Knows2(e) /\ Begin("worker", "answer2", StreamInfo(e))
  <2>1. e \in Live /\ cams[e].camera \notin SdkCamera
    BY <1>4 DEF Knows2, ReadyInv, StreamsReady, AskedCameras
  <2>2. StreamInfo(e).entry = e
    BY DEF StreamInfo, PlayInfo
  <2>3. ShowsAnswer(StreamInfo(e))
    BY <2>1, CopiesShow DEF ReadyInv
  <2>4. PICK step, info : step = "answer2" /\ info = StreamInfo(e)
    OBVIOUS
  <2> QED
    BY <1>1, <1>4, <2>1, <2>2, <2>3, <2>4, ReadyCopies
<1> QED
  BY <1>2, <1>3, <1>4

LEMMA ReadyAnswer3 ==
    ASSUME ReadyInv, NEW e \in Entry, NEW k \in 1 .. MaxInvite, InviteAnswer3(e, k)
    PROVE  StreamsReady' /\ WorkReady' /\ EndsAnswered'
<1>1. UNCHANGED <<cams, dialogs, legs>> /\ "worker" \in Thread
  BY DEF InviteAnswer3, Received, tableVars, Thread
<1>2. UNCHANGED job \/ (e \in Live /\ Begin("worker", "answer3", StreamInfo(e)))
  BY Zenon DEF InviteAnswer3, Knows3
<1>3. CASE UNCHANGED job
  <2>1. PICK step, info : step = 0 /\ info = 0
    OBVIOUS
  <2> QED
    BY <1>1, <1>3, <2>1, ReadyCopies
<1>4. CASE e \in Live /\ Begin("worker", "answer3", StreamInfo(e))
  <2>1. PICK step, info : step = "answer3" /\ info = StreamInfo(e)
    OBVIOUS
  <2>2. info.entry = e /\ info.call = FirstCall(e) /\ info.call3 = dialogs[e].call3
    BY <2>1 DEF StreamInfo, PlayInfo
  <2>3. ShowsAnswer(info)
    BY <1>4, <2>1, CopiesShow DEF ReadyInv
  <2>4. \A f \in Live : Holds(f, info.call) => f = info.entry /\ dialogs[f].call3 = info.call3
    <3>1. FirstCall(e) \in Call /\ Holds(e, FirstCall(e))
      BY <1>4, CopyOfTable DEF ReadyInv
    <3> QED
      BY <1>4, <2>2, <3>1, OneStream DEF ReadyInv, BaseInv
  <2> QED
    BY <1>1, <1>4, <2>1, <2>3, <2>4, ReadyCopies
<1> QED
  BY <1>2, <1>3, <1>4

LEMMA ReadyMessages ==
    ASSUME ReadyInv,
           \/ \E e \in Entry : InviteAnswer2(e)
           \/ \E e \in Entry, k \in 1 .. MaxInvite : InviteAnswer3(e, k)
           \/ \E c \in Call, k \in 1 .. MaxInvite : InviteAnswer4(c, k)
           \/ \E c \in Call : InviteAnswer5(c)
           \/ InviteFailure
           \/ PeerByeMsgRecv
           \/ \E c \in Call : CancelMsgRecv(c) \/ ByeMsgRecv(c)
           \/ \E e \in Entry, k \in 1 .. MaxInvite : ReplayMediaStatusRecv(e, k)
           \/ SweepNext
    PROVE  StreamsReady' /\ WorkReady' /\ EndsAnswered'
<1> DEFINE Goal == StreamsReady' /\ WorkReady' /\ EndsAnswered'
           Ends(t, step) ==
              \/ UNCHANGED job
              \/ \E e \in Live : \/ Begin(t, step, StreamInfo(e))
                                 \/ Begin(t, step, [StreamInfo(e) EXCEPT !.answer3 = TRUE])
              \/ \E c \in Call : InTable(c) /\ Begin(t, step, LegInfo(c))
           Same == UNCHANGED <<cams, dialogs, legs>>
<1>1. ASSUME NEW t \in Thread, NEW step \in Releases \cup {"answer4"}, Same, Ends(t, step)
      PROVE  Goal
  BY <1>1, ReadyEnds
<1>2. ASSUME NEW c \in Call, NEW k \in 1 .. MaxInvite, InviteAnswer4(c, k)
      PROVE  Same /\ Ends("worker", "answer4")
  BY <1>2, Zenon DEF InviteAnswer4, Knows4, Received, tableVars
<1>3. ASSUME NEW c \in Call, InviteAnswer5(c)
      PROVE  Same /\ Ends("worker", "answer4")
  BY <1>3, Zenon DEF InviteAnswer5, Received, tableVars
<1>4. ASSUME InviteFailure
      PROVE  Same /\ Ends("worker", "failure")
  <2>1. Same
    BY <1>4 DEF InviteFailure, Received, tableVars
  <2>2. Ends("worker", "failure")
    BY <1>4, Zenon DEF InviteFailure, Knows2, Knows3, Knows4
  <2> QED
    BY <2>1, <2>2
<1>5. ASSUME PeerByeMsgRecv
      PROVE  Same /\ (Ends("worker", "hangup") \/ Ends("worker", "hangup2"))
  <2>1. Same
    BY <1>5 DEF PeerByeMsgRecv, Received, tableVars
  <2>2. Ends("worker", "hangup") \/ Ends("worker", "hangup2")
    BY <1>5, Zenon DEF PeerByeMsgRecv, Knows2, Knows3, Knows4
  <2> QED
    BY <2>1, <2>2
<1>6. ASSUME NEW c \in Call, CancelMsgRecv(c) \/ ByeMsgRecv(c)
      PROVE  Same /\ (Ends("worker", "cancel") \/ Ends("worker", "bye"))
  <2>1. ASSUME NEW step, ClientLeaves(c, step)
        PROVE  Same /\ Ends("worker", step)
    BY <2>1, Zenon DEF ClientLeaves, tableVars
  <2> HIDE DEF Same, Ends
  <2> QED
    BY <1>6, <2>1 DEF CancelMsgRecv, ByeMsgRecv
<1>7. ASSUME NEW e \in Entry, NEW k \in 1 .. MaxInvite, ReplayMediaStatusRecv(e, k)
      PROVE  Same /\ Ends("media", "mediaend")
  BY <1>7, Zenon DEF ReplayMediaStatusRecv, Knows3, Received, tableVars
<1>8. ASSUME SweepNext
      PROVE  Same /\ Ends("sweeper", "sweep")
  <2>1. Same
    BY <1>8 DEF SweepNext, tableVars
  <2>2. Ends("sweeper", "sweep")
    BY <1>8, Zenon DEF SweepNext, OnServer
  <2> QED
    BY <2>1, <2>2
<1>9. /\ \A t \in {"worker", "media", "sweeper"} : t \in Thread
      /\ \A step \in {"failure", "cancel", "bye", "hangup", "hangup2", "sweep", "mediaend"} :
            step \in Releases
  BY DEF Thread, Releases
<1>10. ASSUME NEW e \in Entry, InviteAnswer2(e)
       PROVE  Goal
  BY <1>10, ReadyAnswer2
<1>11. ASSUME NEW e \in Entry, NEW k \in 1 .. MaxInvite, InviteAnswer3(e, k)
       PROVE  Goal
  BY <1>11, ReadyAnswer3
<1> HIDE DEF Same, Ends, Goal
<1>12. Goal
  BY <1>1, <1>2, <1>3, <1>4, <1>5, <1>6, <1>7, <1>8, <1>9, <1>10, <1>11
<1> QED
  BY <1>12 DEF Goal

LEMMA ReadyStep ==
    ASSUME ReadyInv, [Next]_vars, [JoinsAnswered]_vars
    PROVE  ReadyInv'
<1>1. BaseInv'
  BY BaseStep DEF ReadyInv
<1>2. (\A t \in Thread : ~ Release(t)) => Invite4MeansCameraAnswered'
  <2>1. ASSUME \A t \in Thread : ~ Release(t), NEW e \in Entry
        PROVE  <<"emptybye", e>> \notin sent'
    BY <2>1, NoRelease DEF ReadyInv, Invite4MeansCameraAnswered
  <2> QED
    BY <2>1, Zenon DEF Invite4MeansCameraAnswered
<1> SUFFICES StreamsReady' /\ WorkReady' /\ EndsAnswered'
  BY <1>1, <1>2, ReadyReleases DEF ReadyInv
<1>3. /\ \A f : f \in Thread => f \in Thread
      /\ "worker" \in Thread
      /\ job = [t \in Thread |-> job[t]]
  BY DEF Thread, ReadyInv, BaseInv, FlowInv
\* The worker goes on, and no other thread does.
<1>4. ASSUME NEW u \in {job'["worker"]}, u.step \in {"idle", "forward", "transmit", "request"},
             \A t \in Thread \ {"worker"} : job'[t] = job[t]
      PROVE  EndsAnswered'
  BY <1>4, EndsKept DEF ReadyInv, Releases
<1>5. ASSUME UNCHANGED <<cams, dialogs, legs, job>>
      PROVE  StreamsReady' /\ WorkReady' /\ EndsAnswered'
  <2>1. PICK step, info : step = 0 /\ info = 0
    OBVIOUS
  <2> QED
    BY <1>3, <1>5, <2>1, ReadyCopies
<1>6. CASE UNCHANGED vars
  BY <1>5, <1>6 DEF vars, flowVars, tableVars
<1>7. CASE AckCamera
  BY <1>4, <1>7, ReadyAckCamera
<1>8. CASE InviteSend \/ InviteCamera \/ ForwardStream \/ AnswerClient
  <2>1. Finish("worker")
    BY <1>8 DEF InviteSend, InviteCamera, ForwardStream, AnswerClient
  <2>2. /\ job'["worker"].step = "idle"
        /\ \A t \in Thread \ {"worker"} : job'[t] = job[t]
    BY <1>3, <2>1, FinishFacts
  <2>3. WorkReady' /\ EndsAnswered'
    BY <1>4, <2>2, WorkFree
  <2> QED
    BY <1>8, <2>3, ReadyInviteSend, ReadyInviteCamera, ReadyAnswers
<1>9. ASSUME NEW c \in Call, InviteMsgRecv(c)
      PROVE  StreamsReady' /\ WorkReady' /\ EndsAnswered'
  <2>1. ~ InTable(c)
    BY <1>9 DEF InviteMsgRecv
  <2>2. CASE InviteRefused(c) \/ InviteDropped(c)
    BY <1>5, <2>2 DEF InviteRefused, InviteDropped, tableVars
  <2>3. CASE InviteJoins(c) \/ InvitePlaced(c)
    <3>1. ~ UNCHANGED vars
      <4>1. job'["worker"].step # job["worker"].step
        <5>1. PICK step \in {"transmit", "request"} : \E info : Begin("worker", step, info)
          BY <2>3, Zenon DEF InviteJoins, InvitePlaced
        <5>2. job["worker"].step = "idle"
          BY <1>9 DEF InviteMsgRecv, IsIdle
        <5> QED
          BY <1>3, <5>1, <5>2, BeginFacts
      <4> QED
        BY <4>1 DEF vars, flowVars
    <3>2. StreamsReady' /\ WorkReady'
      BY <2>1, <2>3, <3>1, ReadyJoins, ReadyPlaces
    <3>3. /\ job'["worker"].step \in {"transmit", "request"}
          /\ \A t \in Thread \ {"worker"} : job'[t] = job[t]
      <4>1. PICK step \in {"transmit", "request"} : \E info : Begin("worker", step, info)
        BY <2>3, Zenon DEF InviteJoins, InvitePlaced
      <4> QED
        BY <1>3, <4>1, BeginFacts
    <3> QED
      BY <1>4, <3>2, <3>3
  <2> QED
    BY <1>9, <2>2, <2>3 DEF InviteMsgRecv
<1>10. ASSUME NEW c \in Call, InviteRepeated(c) \/ InviteAckRecv(c)
       PROVE  StreamsReady' /\ WorkReady' /\ EndsAnswered'
  BY <1>5, <1>10 DEF InviteRepeated, InviteAckRecv, tableVars
<1>11. ASSUME NEW s \in Server, CheckRTPStreamAction(s) \/ SetRTPServerStatus(s)
       PROVE  StreamsReady' /\ WorkReady' /\ EndsAnswered'
  BY <1>5, <1>11 DEF CheckRTPStreamAction, SetRTPServerStatus, SetOffline, SetOnline, flowVars
<1>12. ASSUME NEW s \in Server, GetRTPStreamInfo(s)
       PROVE  StreamsReady' /\ WorkReady' /\ EndsAnswered'
  <2>1. UNCHANGED <<dialogs, legs, job>>
    BY <1>12 DEF GetRTPStreamInfo, flowVars
  <2>2. Shrinks
    BY <1>12, ServersShrink DEF ReadyInv
  <2> QED
    BY <2>1, <2>2, StreamsKept, WorkKept, EndsKept DEF ReadyInv
<1>13. CASE \/ \E e \in Entry : InviteAnswer2(e)
            \/ \E e \in Entry, k \in 1 .. MaxInvite : InviteAnswer3(e, k)
            \/ \E c \in Call, k \in 1 .. MaxInvite : InviteAnswer4(c, k)
            \/ \E c \in Call : InviteAnswer5(c)
            \/ InviteFailure
            \/ PeerByeMsgRecv
            \/ \E c \in Call : CancelMsgRecv(c) \/ ByeMsgRecv(c)
            \/ \E e \in Entry, k \in 1 .. MaxInvite : ReplayMediaStatusRecv(e, k)
            \/ SweepNext
  BY <1>13, ReadyMessages
<1> QED
  <2>1. CASE Continue
    BY <1>7, <1>8, <2>1, ReadyReleases DEF Continue
  <2>2. CASE Next /\ ~ Continue
    BY <1>9, <1>10, <1>11, <1>12, <1>13, <2>2 DEF Next
  <2> QED
    BY <1>6, <2>1, <2>2

\* As long as no call joins a stream whose camera has not answered, no BYE is
\* made from an answer that is missing: after an Invite4 the camera has
\* answered, as SendByeMsg takes for granted.
THEOREM EarlyJoinsAlone == Spec /\ [][JoinsAnswered]_vars => []Invite4MeansCameraAnswered
<1>1. Init => ReadyInv
  <2> SUFFICES ASSUME Init PROVE ReadyInv
    OBVIOUS
  <2>1. Live = {}
    BY DEF Init, Live
  <2>2. StreamsReady
    BY <2>1 DEF StreamsReady, CameraOfCalls, AskedCameras, SentWhenReady
  <2>3. WorkReady /\ EndsAnswered
    BY DEF Init, WorkReady, EndsAnswered, Idle, Thread, Releases
  <2>4. Invite4MeansCameraAnswered
    BY DEF Init, Invite4MeansCameraAnswered
  <2> QED
    BY <2>2, <2>3, <2>4, InitWorker DEF WorkerInv, ReadyInv
<1>2. ReadyInv /\ [Next]_vars /\ [JoinsAnswered]_vars => ReadyInv'
  BY ReadyStep
<1>3. ReadyInv => Invite4MeansCameraAnswered
  BY DEF ReadyInv
<1> QED
  BY <1>1, <1>2, <1>3, PTL DEF Spec

(***************************************************************************)
(* ChainUnbroken.  The chain of INVITEs goes on only from a reply that a   *)
(* handler knows for a call, so each step has to leave every call that was *)
(* not answered with a reply to come or with the worker at it.             *)
(***************************************************************************)
\* Peers reply to what they were asked.
SaidAsked == \A d : <<"ok", d>> \in said \/ <<"reject", d>> \in said => Invited(d)

BornAsked == \A e \in Entry : Invited(Dialog2(e)) => e \in born

\* The Call-IDs of dialog 4 that were used for a call are 1 .. n.
NumberedTo(c, n) == \A k \in 1 .. MaxInvite : Invited(Dialog4(c, k)) <=> k <= n

Numbered == \A c \in Call : \E n \in 0 .. MaxInvite : NumberedTo(c, n)

AskedInv ==
    /\ BaseInv
    /\ CamInv
    /\ SaidAsked
    /\ BornAsked
    /\ Numbered

LEMMA NextNumber ==
    ASSUME NEW c, NEW n \in 0 .. MaxInvite, NumberedTo(c, n)
    PROVE  FreshCall4(c) = n + 1
<1>1. MaxInvite \in Nat
  BY FlowAssumption
<1>2. {k \in 1 .. MaxInvite : Invited(Dialog4(c, k))} = 1 .. n
  BY <1>1 DEF NumberedTo
<1>3. Cardinality(1 .. n) = n
  BY <1>1, FS_Interval
<1>4. Cardinality({k \in 1 .. MaxInvite : Invited(Dialog4(c, k))}) = n
  BY <1>2, <1>3
<1> QED
  BY <1>1, <1>4 DEF FreshCall4

\* A Call-ID that xsip_get_CallIDNum makes was not used before.
LEMMA NewNumber ==
    ASSUME Numbered, NEW c \in Call, FreshCall4(c) <= MaxInvite
    PROVE  FreshCall4(c) \in 1 .. MaxInvite /\ ~ Invited(Dialog4(c, FreshCall4(c)))
<1>1. PICK n \in 0 .. MaxInvite : NumberedTo(c, n)
  BY DEF Numbered
<1>2. PICK k : k = FreshCall4(c)
  OBVIOUS
<1>3. k = n + 1 /\ k \in 1 .. MaxInvite
  BY <1>1, <1>2, NextNumber, FlowAssumption
<1>4. ~ (k <= n)
  BY <1>3
<1> QED
  BY <1>1, <1>2, <1>3, <1>4 DEF NumberedTo

\* Messages are only added, and INVITEs only by three of the steps.
LEMMA InvitesSame ==
    ASSUME [Next]_vars, ~ InviteSend, ~ InviteCamera, ~ ForwardStream
    PROVE  sent \subseteq sent' /\ \A d : Invited(d)' = Invited(d)
<1> DEFINE Goal == sent \subseteq sent' /\ \A d : Invited(d)' = Invited(d)
<1>1. ASSUME NEW M, sent' = sent \cup M, \A m \in M : m[1] # "invite"
      PROVE  Goal
  <2>1. ASSUME NEW d
        PROVE  <<"invite", d>> \notin M
    <3>1. <<"invite", d>>[1] = "invite"
      OBVIOUS
    <3> QED
      BY <1>1, <3>1
  <2> QED
    BY <1>1, <2>1 DEF Invited
<1>2. ASSUME sent' = sent
      PROVE  Goal
  BY <1>2 DEF Invited
<1> HIDE DEF Goal
<1>3. ASSUME AckCamera
      PROVE  Goal
  <2>1. PICK a, b : sent' = sent \cup {<<"ack", a>>, <<"ack", b>>}
    BY <1>3, Zenon DEF AckCamera
  <2>2. PICK M : /\ sent' = sent \cup M
                 /\ M = {<<"ack", a>>, <<"ack", b>>}
    BY <2>1
  <2>3. \A m \in M : m[1] # "invite"
    BY <2>2
  <2> QED
    BY <1>1, <2>2, <2>3
<1>4. ASSUME NEW c, NEW a \in {"ok", "fail", "ack"}, sent' = sent \cup {<<a, c>>}
      PROVE  Goal
  <2>1. PICK M : /\ sent' = sent \cup M
                 /\ M = {<<a, c>>}
    BY <1>4
  <2>2. \A m \in M : m[1] # "invite"
    BY <2>1
  <2> QED
    BY <1>1, <2>1, <2>2
<1>5. ASSUME AnswerClient
      PROVE  Goal
  <2>1. PICK c : sent' = sent \/ sent' = sent \cup {<<"ok", c>>}
    BY <1>5, Zenon DEF AnswerClient
  <2> QED
    BY <1>2, <1>4, <2>1
<1>6. ASSUME NEW t \in Thread, Release(t)
      PROVE  Goal
  <2>1. PICK i, step :
           sent' = sent \cup SendByeMsg(i, step = "bye", step = "hangup2")
                        \cup (IF step = "failure" THEN {<<"fail", i.call>>} ELSE {})
    BY <1>6, Zenon DEF Release
  <2>2. PICK M : M = SendByeMsg(i, step = "bye", step = "hangup2")
                        \cup (IF step = "failure" THEN {<<"fail", i.call>>} ELSE {})
    OBVIOUS
  <2>3. \A m \in SendByeMsg(i, step = "bye", step = "hangup2") : m[1] # "invite"
    BY ByeFacts
  <2>4. \A m \in M : m[1] # "invite"
    BY <2>2, <2>3
  <2>5. sent' = sent \cup M
    BY <2>1, <2>2
  <2> QED
    BY <1>1, <2>4, <2>5
<1>7. ASSUME NEW c \in Call, InviteMsgRecv(c)
      PROVE  Goal
  <2>1. sent' = sent \/ sent' = sent \cup {<<"fail", c>>}
    BY <1>7, Zenon DEF InviteMsgRecv, InviteRefused, InviteDropped, InviteJoins, InvitePlaced
  <2> QED
    BY <1>2, <1>4, <2>1
<1>8. ASSUME NEW c \in Call, InviteRepeated(c)
      PROVE  Goal
  <2>1. sent' = sent \/ sent' = sent \cup {<<"ok", c>>}
    BY <1>8, Zenon DEF InviteRepeated
  <2> QED
    BY <1>2, <1>4, <2>1
<1>9. ASSUME NEW c \in Call, InviteAckRecv(c)
      PROVE  Goal
  <2>1. PICK d : sent' = sent \cup {<<"ack", d>>}
    BY <1>9, Zenon DEF InviteAckRecv
  <2> QED
    BY <1>4, <2>1
<1>10. ASSUME UNCHANGED vars
       PROVE  Goal
  BY <1>2, <1>10 DEF vars, flowVars
<1>11. ASSUME NEW c \in Call, CancelMsgRecv(c) \/ ByeMsgRecv(c)
       PROVE  sent' = sent
  BY <1>11 DEF CancelMsgRecv, ByeMsgRecv, ClientLeaves
<1>12. ASSUME \/ \E e \in Entry : InviteAnswer2(e)
              \/ \E e \in Entry, k \in 1 .. MaxInvite : InviteAnswer3(e, k)
              \/ \E c \in Call, k \in 1 .. MaxInvite : InviteAnswer4(c, k)
              \/ \E c \in Call : InviteAnswer5(c)
              \/ InviteFailure
              \/ PeerByeMsgRecv
              \/ \E e \in Entry, k \in 1 .. MaxInvite : ReplayMediaStatusRecv(e, k)
              \/ SweepNext
              \/ \E s \in Server : \/ CheckRTPStreamAction(s)
                                   \/ SetRTPServerStatus(s)
                                   \/ GetRTPStreamInfo(s)
       PROVE  sent' = sent
  BY <1>12 DEF InviteAnswer2, InviteAnswer3, InviteAnswer4, InviteAnswer5, InviteFailure,
               PeerByeMsgRecv, ReplayMediaStatusRecv, Received, SweepNext,
               CheckRTPStreamAction, SetRTPServerStatus, GetRTPStreamInfo, flowVars
<1>13. Goal
  <2>1. CASE Continue
    BY <1>3, <1>5, <1>6, <2>1 DEF Continue
  <2>2. CASE Next /\ ~ Continue
    BY <1>2, <1>7, <1>8, <1>9, <1>11, <1>12, <2>2 DEF Next
  <2> QED
    BY <1>10, <2>1, <2>2
<1> QED
  BY <1>13 DEF Goal

\* Nobody replies but to an INVITE.
LEMMA RepliesOnly ==
    ASSUME [Next]_vars
    PROVE  said' = said \/ \E r, d : Reply(r, d)
<1>1. CASE Continue
  BY <1>1, Zenon DEF Continue, InviteSend, InviteCamera, AckCamera, ForwardStream, AnswerClient,
                     Release
<1>2. CASE UNCHANGED vars
  BY <1>2 DEF vars, flowVars
<1>3. CASE \/ \E e \in Entry : InviteAnswer2(e)
           \/ \E e \in Entry, k \in 1 .. MaxInvite : InviteAnswer3(e, k)
           \/ \E c \in Call, k \in 1 .. MaxInvite : InviteAnswer4(c, k)
           \/ \E c \in Call : InviteAnswer5(c)
           \/ InviteFailure
  BY <1>3, Zenon DEF InviteAnswer2, InviteAnswer3, InviteAnswer4, InviteAnswer5, InviteFailure
<1>4. ASSUME NEW c \in Call, \/ InviteMsgRecv(c) \/ InviteRepeated(c) \/ InviteAckRecv(c)
                             \/ CancelMsgRecv(c) \/ ByeMsgRecv(c)
      PROVE  said' = said
  BY <1>4 DEF InviteMsgRecv, InviteRepeated, InviteAckRecv, CancelMsgRecv, ByeMsgRecv, ClientLeaves
<1>5. CASE \/ PeerByeMsgRecv
           \/ \E e \in Entry, k \in 1 .. MaxInvite : ReplayMediaStatusRecv(e, k)
           \/ SweepNext
           \/ \E s \in Server : \/ CheckRTPStreamAction(s)
                                \/ SetRTPServerStatus(s)
                                \/ GetRTPStreamInfo(s)
  BY <1>5 DEF PeerByeMsgRecv, ReplayMediaStatusRecv, SweepNext, CheckRTPStreamAction,
              SetRTPServerStatus, GetRTPStreamInfo, flowVars
<1> QED
  BY <1>1, <1>2, <1>3, <1>4, <1>5 DEF Next

\* The dialogs of the four kinds are apart.
LEMMA DialogsApart ==
    /\ \A e, c, k : Dialog2(e) # Dialog4(c, k)
    /\ \A e, f, k : Dialog2(e) # Dialog3(f, k)
    /\ \A e, c : Dialog2(e) # Dialog5(c)
    /\ \A c, k, b : Dialog4(c, k) # Dialog5(b)
    /\ \A e, k, c, j : Dialog3(e, k) # Dialog4(c, j)
    /\ \A e, k, c : Dialog3(e, k) # Dialog5(c)
    /\ \A e, f : Dialog2(e) = Dialog2(f) => e = f
    /\ \A e, j, f, k : Dialog3(e, j) = Dialog3(f, k) => e = f /\ j = k
    /\ \A c, j, b, k : Dialog4(c, j) = Dialog4(b, k) => c = b /\ j = k
<1>1. /\ \A e : Dialog2(e)[1] = 2 /\ Dialog2(e)[2] = e
      /\ \A e, k : Dialog3(e, k)[1] = 3 /\ Dialog3(e, k)[2] = e /\ Dialog3(e, k)[3] = k
      /\ \A c, k : Dialog4(c, k)[1] = 4 /\ Dialog4(c, k)[2] = c /\ Dialog4(c, k)[3] = k
      /\ \A c : Dialog5(c)[1] = 5
  BY DEF Dialog2, Dialog3, Dialog4, Dialog5
<1>2. /\ \A e, c, k : Dialog2(e) # Dialog4(c, k)
      /\ \A e, f, k : Dialog2(e) # Dialog3(f, k)
      /\ \A e, c : Dialog2(e) # Dialog5(c)
  BY <1>1
<1>3. \A c, k, b : Dialog4(c, k) # Dialog5(b)
  BY <1>1
<1>4. /\ \A e, k, c, j : Dialog3(e, k) # Dialog4(c, j)
      /\ \A e, k, c : Dialog3(e, k) # Dialog5(c)
  BY <1>1
<1>5. \A e, f : Dialog2(e) = Dialog2(f) => e = f
  BY <1>1
<1>6. \A e, j, f, k : Dialog3(e, j) = Dialog3(f, k) => e = f /\ j = k
  BY <1>1
<1>7. \A c, j, b, k : Dialog4(c, j) = Dialog4(b, k) => c = b /\ j = k
  BY <1>1
<1> QED
  BY <1>2, <1>3, <1>4, <1>5, <1>6, <1>7

LEMMA BornGrows == [Next]_vars => born \subseteq born'
<1>1. CASE Continue
  BY <1>1, Zenon DEF Continue, InviteSend, InviteCamera, AckCamera, ForwardStream, AnswerClient,
                     Release
<1>2. CASE UNCHANGED vars
  BY <1>2 DEF vars, flowVars
<1>3. ASSUME NEW c \in Call, InviteMsgRecv(c)
      PROVE  born \subseteq born'
  <2>1. born' = born \/ \E e : born' = born \cup {e}
    BY <1>3, Zenon DEF InviteMsgRecv, InviteRefused, InviteDropped, InviteJoins, InvitePlaced
  <2> QED
    BY <2>1
<1>4. ASSUME NEW c \in Call, \/ InviteRepeated(c) \/ InviteAckRecv(c)
                             \/ CancelMsgRecv(c) \/ ByeMsgRecv(c)
      PROVE  born' = born
  BY <1>4 DEF InviteRepeated, InviteAckRecv, CancelMsgRecv, ByeMsgRecv, ClientLeaves
<1>5. CASE \/ \E e \in Entry : InviteAnswer2(e)
           \/ \E e \in Entry, k \in 1 .. MaxInvite : InviteAnswer3(e, k)
           \/ \E c \in Call, k \in 1 .. MaxInvite : InviteAnswer4(c, k)
           \/ \E c \in Call : InviteAnswer5(c)
           \/ InviteFailure
           \/ PeerByeMsgRecv
           \/ \E e \in Entry, k \in 1 .. MaxInvite : ReplayMediaStatusRecv(e, k)
           \/ SweepNext
           \/ \E s \in Server : \/ CheckRTPStreamAction(s)
                                \/ SetRTPServerStatus(s)
                                \/ GetRTPStreamInfo(s)
  BY <1>5 DEF InviteAnswer2, InviteAnswer3, InviteAnswer4, InviteAnswer5, InviteFailure,
              PeerByeMsgRecv, ReplayMediaStatusRecv, Received, SweepNext,
              CheckRTPStreamAction, SetRTPServerStatus, GetRTPStreamInfo, flowVars
<1> QED
  BY <1>1, <1>2, <1>3, <1>4, <1>5 DEF Next

LEMMA NumberedStep ==
    ASSUME Numbered, NEW c, NEW k, k = FreshCall4(c),
           \/ UNCHANGED sent
           \/ sent' = sent \cup {<<"invite", Dialog4(c, k)>>} /\ k <= MaxInvite
    PROVE  Numbered'
<1> SUFFICES ASSUME NEW x \in Call
             PROVE  \E n \in 0 .. MaxInvite : NumberedTo(x, n)'
  BY DEF Numbered
<1>1. PICK n \in 0 .. MaxInvite : NumberedTo(x, n)
  BY DEF Numbered
<1>2. MaxInvite \in Nat
  BY FlowAssumption
<1>3. CASE \A j \in 1 .. MaxInvite : Invited(Dialog4(x, j))' = Invited(Dialog4(x, j))
  BY <1>1, <1>3 DEF NumberedTo
<1>4. CASE ~ UNCHANGED sent /\ x = c
  <2>1. k = n + 1
    BY <1>1, <1>4, NextNumber
  <2>2. sent' = sent \cup {<<"invite", Dialog4(x, k)>>} /\ k <= MaxInvite
    BY <1>4
  <2>3. \A j \in 1 .. MaxInvite : Invited(Dialog4(x, j))' <=> Invited(Dialog4(x, j)) \/ j = k
    BY <2>2, DialogsApart DEF Invited
  <2>4. \A j \in 1 .. MaxInvite : Invited(Dialog4(x, j))' <=> j <= n + 1
    BY <1>1, <1>2, <2>1, <2>3 DEF NumberedTo
  <2>5. n + 1 \in 0 .. MaxInvite
    BY <1>2, <2>1, <2>2
  <2> QED
    BY <2>4, <2>5 DEF NumberedTo
<1>5. CASE UNCHANGED sent
  BY <1>3, <1>5 DEF Invited
<1>6. CASE ~ UNCHANGED sent /\ x # c
  <2>1. \A j \in 1 .. MaxInvite : Invited(Dialog4(x, j))' = Invited(Dialog4(x, j))
    BY <1>6, DialogsApart DEF Invited
  <2> QED
    BY <1>3, <2>1
<1> QED
  BY <1>4, <1>5, <1>6

\* What the three steps that invite somebody send.
LEMMA InvitesWhom ==
    ASSUME BaseInv, InviteSend \/ InviteCamera \/ ForwardStream
    PROVE  \E c, k, e, j :
              /\ k = FreshCall4(c)
              /\ \/ sent' = sent \cup {<<"invite", Dialog4(c, k)>>} /\ k <= MaxInvite
                 \/ sent' = sent \cup {<<"invite", Dialog2(e)>>} /\ e \in born
                 \/ sent' = sent \cup {<<"invite", Dialog3(e, j)>>}
                 \/ sent' = sent \cup {<<"invite", Dialog5(c)>>}
<1>1. PICK c, k, e, j, step :
         /\ c = job["worker"].info.call /\ k = FreshCall4(c)
         /\ e = job["worker"].info.entry /\ j = FreshCall3(e)
         /\ step = job["worker"].step
  OBVIOUS
<1>2. CASE InviteSend
  <2>1. \/ sent' = sent \cup {<<"invite", Dialog4(c, k)>>}
        \/ sent' = sent \cup {<<"invite", Dialog2(e)>>}
    BY <1>1, <1>2, Zenon DEF InviteSend
  <2>2. k <= MaxInvite
    BY <1>1, <1>2 DEF InviteSend
  <2>3. e \in born
    BY <1>1, <1>2 DEF BaseInv, FlowInv, InviteSend, IsIdle, Thread
  <2> QED
    BY <1>1, <2>1, <2>2, <2>3
<1>3. CASE InviteCamera
  <2>1. sent' = sent \cup {<<"invite", Dialog3(e, j)>>}
    BY <1>1, <1>3, Zenon DEF InviteCamera
  <2> QED
    BY <1>1, <2>1
<1>4. CASE ForwardStream
  <2>1. \/ sent' = sent \cup {<<"invite", Dialog4(c, k)>>} /\ k <= MaxInvite
        \/ sent' = sent \cup {<<"invite", Dialog5(c)>>}
    BY <1>1, <1>4, Zenon DEF ForwardStream
  <2> QED
    BY <1>1, <2>1
<1> QED
  BY <1>2, <1>3, <1>4

LEMMA AskedStep ==
    ASSUME AskedInv, [Next]_vars
    PROVE  AskedInv' /\ sent \subseteq sent'
<1>1. BaseInv' /\ CamInv'
  BY BaseStep, CamStep DEF AskedInv
<1>2. born \subseteq born'
  BY BornGrows DEF AskedInv
<1>3. ASSUME sent \subseteq sent'
      PROVE  SaidAsked'
  <2>1. CASE said' = said
    BY <1>3, <2>1 DEF AskedInv, SaidAsked, Invited
  <2>2. ASSUME NEW r, NEW d, Reply(r, d)
        PROVE  SaidAsked'
    <3>1. said' = said \cup {<<r, d>>} /\ Invited(d)
      BY <2>2 DEF Reply
    <3> QED
      BY <1>3, <3>1 DEF AskedInv, SaidAsked, Invited
  <2> QED
    BY <2>1, <2>2, RepliesOnly
<1>4. CASE ~ InviteSend /\ ~ InviteCamera /\ ~ ForwardStream
  <2>1. sent \subseteq sent' /\ \A d : Invited(d)' = Invited(d)
    BY <1>4, InvitesSame
  <2>2. BornAsked'
    BY <1>2, <2>1 DEF AskedInv, BornAsked, Dialog2
  <2>3. Numbered'
    BY <2>1 DEF AskedInv, Numbered, NumberedTo, Dialog4
  <2> QED
    BY <1>1, <1>3, <2>1, <2>2, <2>3 DEF AskedInv
<1>5. CASE InviteSend \/ InviteCamera \/ ForwardStream
  <2>1. PICK c, k, e, j :
           /\ k = FreshCall4(c)
           /\ \/ sent' = sent \cup {<<"invite", Dialog4(c, k)>>} /\ k <= MaxInvite
              \/ sent' = sent \cup {<<"invite", Dialog2(e)>>} /\ e \in born
              \/ sent' = sent \cup {<<"invite", Dialog3(e, j)>>}
              \/ sent' = sent \cup {<<"invite", Dialog5(c)>>}
    BY <1>5, InvitesWhom DEF AskedInv
  <2>2. sent \subseteq sent'
    BY <2>1
  <2>3. \A f \in Entry : Invited(Dialog2(f))' => Invited(Dialog2(f)) \/ f \in born
    BY <2>1, DialogsApart DEF Invited
  <2>4. BornAsked'
    BY <1>2, <2>3 DEF AskedInv, BornAsked, Dialog2, Invited
  <2>5. Numbered'
    <3>1. CASE sent' = sent \cup {<<"invite", Dialog4(c, k)>>} /\ k <= MaxInvite
      BY <2>1, <3>1, NumberedStep DEF AskedInv
    <3>2. CASE \A x, n : Invited(Dialog4(x, n))' = Invited(Dialog4(x, n))
      BY <3>2 DEF AskedInv, Numbered, NumberedTo
    <3>3. \/ sent' = sent \cup {<<"invite", Dialog4(c, k)>>} /\ k <= MaxInvite
          \/ \A x, n : Invited(Dialog4(x, n))' = Invited(Dialog4(x, n))
      BY <2>1, DialogsApart DEF Invited
    <3> QED
      BY <3>1, <3>2, <3>3
  <2> QED
    BY <1>1, <1>3, <2>2, <2>4, <2>5 DEF AskedInv
<1> QED
  BY <1>4, <1>5

(***************************************************************************)
(* The chain itself.  The worker that has begun with a stream is at the    *)
(* call it copied, unless that has left meanwhile; then no other call of   *)
(* the stream waits for the same answer, because calls that joined have    *)
(* sent their own Invite4 (FirstOnly).                                     *)
(***************************************************************************)
DialogOrder ==
    \A e \in Live : dialogs[e].call3 # 0 \/ dialogs[e].answer3 => dialogs[e].answer2

\* Of the calls of a stream, only the first waits for the camera.
FirstOnly ==
    \A e \in Live, c \in Call : Holds(e, c) /\ legs[c].call4 = 0 =>
        \/ c = FirstCall(e)
        \/ job["worker"].step = "transmit" /\ job["worker"].info.call = c

AnswerTold == \A c \in Call \ Monitor : legs[c].answer # 0 => legs[c].told

\* What the worker's copy says of its call, if it is still in the table.
WorkChain ==
    LET i == job["worker"].info
        step == job["worker"].step
    IN  /\ step = "request" =>
              /\ ~ Invited(Dialog2(i.entry))
              /\ \A f \in Live : Holds(f, i.call) =>
                    /\ f = i.entry
                    /\ FirstCall(f) = i.call
                    /\ ~ dialogs[f].answer2
                    /\ legs[i.call].call4 = 0
        /\ step = "answer2" =>
              /\ i.entry \in Live => ~ dialogs[i.entry].answer2
              /\ \A f \in Live : Holds(f, i.call) => f = i.entry /\ FirstCall(f) = i.call
        /\ step = "answer3" =>
              /\ i.entry \in Live => dialogs[i.entry].answer2
              /\ \A x \in Call :
                    i.entry \in Live /\ Holds(i.entry, x) /\ legs[x].call4 = 0 => x = i.call

WorkedOn(c) ==
    /\ ~ IsIdle("worker")
    /\ job["worker"].info.call = c
    /\ job["worker"].step \in {"answer2", "answer3"} => legs[c].call4 = 0

Linked(c, e) == legs[c].told \/ AwaitsServer(c) \/ AwaitsCamera(c, e) \/ WorkedOn(c)

Chained == \A c \in Call \ Monitor : \A e \in Live : Holds(e, c) => Linked(c, e)

ChainParts == DialogOrder /\ FirstOnly /\ AnswerTold /\ WorkChain /\ Chained

ChainInv == AskedInv /\ ChainParts

LEMMA ChainHolds == ASSUME ChainInv PROVE ChainUnbroken
  BY DEF ChainInv, ChainParts, Chained, Linked, WorkedOn, ChainUnbroken

\* The first call of a stream is so as long as the stream is sent to it.
KeepsFirst ==
    \A f \in Live' : \A x : x = FirstCall(f) /\ Holds(f, x)' => FirstCall(f)' = x

LEMMA SameFirst ==
    ASSUME UNCHANGED cams
    PROVE  KeepsFirst
  BY DEF KeepsFirst, FirstCall

LEMMA ReduceFirst ==
    ASSUME BaseInv, NEW c \in Call, NEW d \in BOOLEAN, Reduce(c, d)
    PROVE  KeepsFirst
<1>1. TableTypeOK
  BY DEF BaseInv, PlaceInv
<1>2. CASE UNCHANGED tableVars
  BY <1>2, SameFirst DEF tableVars
<1>3. ASSUME NEW e \in Live, DeleteStream(e, c, d)
      PROVE  KeepsFirst
  <2>1. \A f \in Live' : cams'[f] = cams[f]
    BY <1>1, <1>3, DeleteStreamFacts DEF Live
  <2> QED
    BY <2>1 DEF KeepsFirst, FirstCall
<1>4. ASSUME NEW e \in Live, DeleteLeg(e, c)
      PROVE  KeepsFirst
  <2>1. \A f \in Live' : f \in Live /\ (f # e => cams'[f] = cams[f])
    BY <1>1, <1>4, DeleteLegFacts DEF Live
  <2>2. PICK i \in 1 .. Len(cams[e].invites) :
           /\ cams[e].invites[i] = c
           /\ cams'[e].invites = RemoveAt(cams[e].invites, i)
    <3>1. PICK i \in 1 .. Len(cams[e].invites) :
             /\ cams[e].invites[i] = c
             /\ cams' = [cams EXCEPT ![e] =
                            Sending(@, @.nTranmit - 1, RemoveAt(@.invites, i))]
      BY <1>4, Zenon DEF DeleteLeg
    <3>2. cams'[e] = Sending(cams[e], cams[e].nTranmit - 1, RemoveAt(cams[e].invites, i))
      BY <1>1, <3>1 DEF TableTypeOK, Live
    <3> QED
      BY <3>1, <3>2 DEF Sending
  <2>3. PICK q : q = cams[e].invites
    OBVIOUS
  <2>4. q \in Seq(Call) /\ i \in 1 .. Len(q) /\ Len(q) >= 1
    BY <1>1, <2>2, <2>3, LiveFacts
  <2>5. ~ Holds(e, c)' \/ e \notin Live'
    <3>1. ~ InTable(c)'
      BY <1>4, CallGone DEF BaseInv, PlaceInv
    <3> QED
      BY <3>1 DEF InTable
  <2>6. ASSUME e \in Live', NEW x, x = FirstCall(e), Holds(e, x)'
        PROVE  FirstCall(e)' = x
    <3>1. FirstCall(e) = q[1]
      BY <2>3, <2>4 DEF FirstCall
    <3>2. i # 1
      BY <2>2, <2>3, <2>5, <2>6, <3>1
    <3>3. i > 1 /\ Len(q) >= 2
      BY <2>4, <3>2
    <3>4. /\ Len(RemoveAt(q, i)) = Len(q) - 1
          /\ RemoveAt(q, i)[1] = q[1]
          /\ RemoveAt(q, i) \in Seq(Call)
      BY <2>4, <3>3, RemoveAtFacts
    <3>5. Head(RemoveAt(q, i)) = q[1]
      BY <2>4, <3>3, <3>4
    <3> QED
      BY <2>2, <2>3, <2>6, <3>1, <3>5 DEF FirstCall
  <2> QED
    BY <2>1, <2>6 DEF KeepsFirst, FirstCall
<1> QED
  BY <1>2, <1>3, <1>4, Zenon DEF Reduce

LEMMA ServersFirst ==
    ASSUME NEW s \in Server, GetRTPStreamInfo(s)
    PROVE  KeepsFirst
<1>1. CASE InsertRTPInfo(s)
  BY <1>1, SameFirst DEF InsertRTPInfo
<1>2. CASE EraseRTPInfo(s)
  <2>1. \A f \in Live' : cams'[f] = cams[f]
    BY <1>2 DEF EraseRTPInfo, Live
  <2> QED
    BY <2>1 DEF KeepsFirst, FirstCall
<1> QED
  BY <1>1, <1>2 DEF GetRTPStreamInfo

(***************************************************************************)
(* The ends of calls and all that leaves the worker's calls alone.         *)
(***************************************************************************)
\* The worker goes on, or is done with a call that has left.
WorkerRests ==
    \/ job'["worker"] = job["worker"]
    \/ /\ job["worker"].step # "transmit"
       /\ job'["worker"].step = "idle"
       /\ \A c : c = job["worker"].info.call => ~ InTable(c)'

LEMMA ChainFrame ==
    ASSUME ChainInv, Shrinks, KeepsFirst, UNCHANGED <<dialogs, legs, said>>,
           \A d : Invited(d)' = Invited(d), WorkerRests
    PROVE  ChainParts'
<1>1. ChainParts
  BY DEF ChainInv
<1>2. /\ Live' \subseteq Live
      /\ \A f \in Live' : \A x : Holds(f, x)' => Holds(f, x)
      /\ \A f \in Live' : \A x : x = FirstCall(f) /\ Holds(f, x)' => FirstCall(f)' = x
  BY DEF Shrinks, KeepsFirst
<1>3. PICK w, v : w = job["worker"] /\ v = job'["worker"]
  OBVIOUS
<1>4. \/ v = w
      \/ /\ w.step # "transmit" /\ v.step = "idle"
         /\ \A f \in Live' : ~ Holds(f, w.info.call)'
  BY <1>3 DEF WorkerRests, InTable
<1>5. DialogOrder'
  BY <1>1, <1>2 DEF ChainParts, DialogOrder
<1>6. FirstOnly'
  <2> SUFFICES ASSUME NEW e \in Live', NEW c \in Call, Holds(e, c)', legs'[c].call4 = 0
               PROVE  FirstCall(e)' = c \/ (v.step = "transmit" /\ v.info.call = c)
    BY <1>3 DEF FirstOnly
  <2>1. c = FirstCall(e) \/ (w.step = "transmit" /\ w.info.call = c)
    BY <1>1, <1>2, <1>3 DEF ChainParts, FirstOnly
  <2> QED
    BY <1>2, <1>4, <2>1
<1>7. AnswerTold'
  BY <1>1 DEF ChainParts, AnswerTold
<1>8. WorkChain'
  <2>1. CASE v # w
    <3>1. v.step = "idle"
      BY <1>4, <2>1
    <3> QED
      BY <1>3, <3>1 DEF WorkChain
  <2>2. CASE v = w
    <3>1. PICK i : i = w.info
      OBVIOUS
    <3>2. ASSUME w.step = "request"
          PROVE  /\ ~ Invited(Dialog2(i.entry))'
                 /\ \A f \in Live' : Holds(f, i.call)' =>
                       /\ f = i.entry
                       /\ FirstCall(f)' = i.call
                       /\ ~ dialogs'[f].answer2
                       /\ legs'[i.call].call4 = 0
      <4>1. /\ ~ Invited(Dialog2(i.entry))
            /\ \A f \in Live : Holds(f, i.call) =>
                  f = i.entry /\ FirstCall(f) = i.call /\ ~ dialogs[f].answer2 /\ legs[i.call].call4 = 0
        BY <1>1, <1>3, <3>1, <3>2 DEF ChainParts, WorkChain
      <4>2. ~ Invited(Dialog2(i.entry))'
        BY <4>1 DEF Invited, Dialog2
      <4> QED
        BY <1>2, <4>1, <4>2
    <3>3. ASSUME w.step = "answer2"
          PROVE  /\ i.entry \in Live' => ~ dialogs'[i.entry].answer2
                 /\ \A f \in Live' : Holds(f, i.call)' => f = i.entry /\ FirstCall(f)' = i.call
      <4>1. /\ i.entry \in Live => ~ dialogs[i.entry].answer2
            /\ \A f \in Live : Holds(f, i.call) => f = i.entry /\ FirstCall(f) = i.call
        BY <1>1, <1>3, <3>1, <3>3 DEF ChainParts, WorkChain
      <4> QED
        BY <1>2, <4>1
    <3>4. ASSUME w.step = "answer3"
          PROVE  /\ i.entry \in Live' => dialogs'[i.entry].answer2
                 /\ \A x \in Call :
                       i.entry \in Live' /\ Holds(i.entry, x)' /\ legs'[x].call4 = 0 => x = i.call
      <4>1. /\ i.entry \in Live => dialogs[i.entry].answer2
            /\ \A x \in Call :
                  i.entry \in Live /\ Holds(i.entry, x) /\ legs[x].call4 = 0 => x = i.call
        BY <1>1, <1>3, <3>1, <3>4 DEF ChainParts, WorkChain
      <4> QED
        BY <1>2, <4>1
    <3> QED
      BY <1>3, <2>2, <3>1, <3>2, <3>3, <3>4 DEF WorkChain
  <2> QED
    BY <2>1, <2>2
<1>9. Chained'
  <2> SUFFICES ASSUME NEW c \in Call \ Monitor, NEW e \in Live', Holds(e, c)'
               PROVE  Linked(c, e)'
    BY DEF Chained
  <2>1. e \in Live /\ Holds(e, c)
    BY <1>2
  <2>2. Linked(c, e)
    BY <1>1, <2>1 DEF ChainParts, Chained
  <2>3. \A d : Pending(d)' = Pending(d)
    BY DEF Pending
  <2>4. AwaitsServer(c) => AwaitsServer(c)'
    BY <2>3 DEF AwaitsServer, Dialog4
  <2>5. AwaitsCamera(c, e) => AwaitsCamera(c, e)'
    BY <1>2, <2>3 DEF AwaitsCamera, Dialog2, Dialog3
  <2>6. WorkedOn(c) => WorkedOn(c)'
    BY <1>3, <1>4 DEF WorkedOn, IsIdle
  <2> QED
    BY <2>2, <2>4, <2>5, <2>6 DEF Linked
<1> QED
  BY <1>5, <1>6, <1>7, <1>8, <1>9 DEF ChainParts

LEMMA ChainReleases ==
    ASSUME ChainInv, NEW t \in Thread, Release(t), \A d : Invited(d)' = Invited(d)
    PROVE  ChainParts'
<1>1. BaseInv
  BY DEF ChainInv, AskedInv
<1>2. PICK c, d : c = job[t].info.call /\ d = (job[t].step \in {"failure", "hangup2"})
  OBVIOUS
<1>3. /\ Reduce(c, d) /\ d \in BOOLEAN /\ Finish(t) /\ job[t].step \in Releases
      /\ UNCHANGED <<dialogs, legs, said>>
  <2>1. /\ Reduce(job[t].info.call, job[t].step \in {"failure", "hangup2"})
        /\ Finish(t) /\ job[t].step \in Releases
        /\ UNCHANGED <<dialogs, legs, said>>
    BY Zenon DEF Release
  <2>2. (job[t].step \in {"failure", "hangup2"}) \in BOOLEAN
    OBVIOUS
  <2> QED
    BY <1>2, <2>1, <2>2, Zenon
<1>4. /\ ~ InTable(c)'
      /\ KeepsFirst
  <2>1. CASE c \in Call
    BY <1>1, <1>3, <2>1, ReduceEnds, ReduceFirst
  <2>2. CASE c \notin Call
    <3>1. \A e \in Live : ~ Holds(e, c)
      BY <1>1, <2>2, HeldCall
    <3>2. \A e \in Live : ~ DeleteStream(e, c, d) /\ ~ DeleteLeg(e, c)
      BY <3>1, Zenon DEF DeleteStream, DeleteLeg
    <3>3. UNCHANGED tableVars
      BY <1>3, <3>2, Zenon DEF Reduce
    <3>4. UNCHANGED cams
      BY <3>3 DEF tableVars
    <3>5. ~ InTable(c)'
      BY <3>1, <3>4 DEF InTable, Live, Holds
    <3> QED
      BY <3>4, <3>5, SameFirst
  <2> QED
    BY <2>1, <2>2
<1>5. Shrinks
  BY <1>1, <1>3, ReduceShrinks
<1>6. /\ job'[t].step = "idle"
      /\ \A u \in Thread \ {t} : job'[u] = job[u]
  BY <1>1, <1>3, FinishFacts DEF BaseInv, FlowInv
<1>7. WorkerRests
  <2>1. "worker" \in Thread
    BY DEF Thread
  <2>2. CASE t = "worker"
    BY <1>2, <1>3, <1>4, <1>6, <2>2 DEF WorkerRests, Releases
  <2>3. CASE t # "worker"
    BY <1>6, <2>1, <2>3 DEF WorkerRests
  <2> QED
    BY <2>2, <2>3
<1> QED
  BY <1>3, <1>4, <1>5, <1>7, ChainFrame

\* The steps that leave what the worker relies on alone.
LEMMA ChainBeside ==
    ASSUME ChainInv, \A d : Invited(d)' = Invited(d), UNCHANGED <<dialogs, legs, said>>,
           job'["worker"] = job["worker"],
           UNCHANGED cams \/ \E s \in Server : GetRTPStreamInfo(s)
    PROVE  ChainParts'
<1>1. BaseInv
  BY DEF ChainInv, AskedInv
<1>2. Shrinks /\ KeepsFirst
  BY <1>1, SameShrinks, SameFirst, ServersShrink, ServersFirst
<1> QED
  BY <1>2, ChainFrame DEF WorkerRests

(***************************************************************************)
(* The steps of the worker within a call.                                  *)
(***************************************************************************)
LEMMA PendingStays ==
    ASSUME sent \subseteq sent', UNCHANGED said
    PROVE  \A d : Pending(d) => Pending(d)'
  BY DEF Pending, Invited

LEMMA WorkDone ==
    ASSUME job'["worker"].step \in {"idle", "transmit", "forward", "answer4"} \cup Releases
    PROVE  WorkChain'
  BY DEF WorkChain, Releases

\* A call that does not wait and is not the worker's keeps its link.
LEMMA LinkStays ==
    ASSUME \A d : Pending(d) => Pending(d)', NEW c, NEW e, UNCHANGED cams,
           legs'[c] = legs[c], dialogs'[e] = dialogs[e], Linked(c, e), ~ WorkedOn(c)
    PROVE  Linked(c, e)'
<1>1. legs[c].told => Linked(c, e)'
  BY DEF Linked
<1>2. AwaitsServer(c) => AwaitsServer(c)'
  BY DEF AwaitsServer, Dialog4
<1>3. AwaitsCamera(c, e) => AwaitsCamera(c, e)'
  BY DEF AwaitsCamera, Dialog2, Dialog3, FirstCall
<1> QED
  BY <1>1, <1>2, <1>3 DEF Linked

\* An Invite4 for the worker's call.
LEMMA ChainLeg ==
    ASSUME ChainInv, UNCHANGED <<cams, dialogs, said>>, NEW c, NEW k,
           c = job["worker"].info.call, k = FreshCall4(c), k <= MaxInvite,
           legs' = IF InTable(c) THEN [legs EXCEPT ![c] = Inviting(@, k)] ELSE legs,
           sent' = sent \cup {<<"invite", Dialog4(c, k)>>},
           job'["worker"].step = "idle"
    PROVE  ChainParts'
<1>1. ChainParts /\ BaseInv /\ AskedInv
  BY DEF ChainInv, AskedInv
<1>2. /\ Live' = Live
      /\ \A f, x : Holds(f, x)' = Holds(f, x)
      /\ \A f : FirstCall(f)' = FirstCall(f)
  BY DEF Live, Holds, FirstCall
<1>3. \A f \in Live : \A x : Holds(f, x) => x \in Call /\ InTable(x)
  BY <1>1, HeldCall DEF InTable
<1>4. \A x \in Call \ {c} : legs'[x] = legs[x]
  BY <1>1 DEF BaseInv, FlowInv
<1>5. ASSUME NEW f \in Live, Holds(f, c)
      PROVE  /\ c \in Call /\ k \in 1 .. MaxInvite
             /\ legs'[c].call4 = k /\ legs'[c].answer = legs[c].answer
             /\ legs'[c].told = legs[c].told
             /\ Pending(Dialog4(c, k))'
  <2>1. c \in Call /\ InTable(c)
    BY <1>3, <1>5
  <2>2. k \in 1 .. MaxInvite /\ ~ Invited(Dialog4(c, k))
    BY <1>1, <2>1, NewNumber DEF AskedInv
  <2>3. legs'[c] = Inviting(legs[c], k)
    BY <1>1, <2>1 DEF BaseInv, FlowInv
  <2>4. Pending(Dialog4(c, k))'
    <3>1. PICK d : d = Dialog4(c, k)
      OBVIOUS
    <3>2. <<"ok", d>> \notin said /\ <<"reject", d>> \notin said
      BY <1>1, <2>2, <3>1 DEF AskedInv, SaidAsked
    <3>3. <<"invite", d>> \in sent' /\ said' = said
      BY <3>1
    <3> QED
      BY <3>1, <3>2, <3>3 DEF Pending, Invited, Dialog4
  <2> QED
    BY <2>1, <2>2, <2>3, <2>4 DEF Inviting
<1>6. DialogOrder'
  BY <1>1, <1>2 DEF ChainParts, DialogOrder
<1>7. FirstOnly'
  <2> SUFFICES ASSUME NEW e \in Live, NEW x \in Call, Holds(e, x), legs'[x].call4 = 0
               PROVE  FirstCall(e) = x
    BY <1>2 DEF FirstOnly
  <2>1. x # c
    BY <1>5
  <2>2. legs[x].call4 = 0
    BY <1>4, <2>1
  <2> QED
    BY <1>1, <2>1, <2>2 DEF ChainParts, FirstOnly
<1>8. AnswerTold'
  <2> SUFFICES ASSUME NEW x \in Call \ Monitor, legs'[x].answer # 0
               PROVE  legs'[x].told
    BY DEF AnswerTold
  <2>1. legs'[x].answer = legs[x].answer /\ legs'[x].told = legs[x].told
    <3>1. CASE x # c
      BY <1>4, <3>1
    <3>2. CASE x = c /\ InTable(c)
      BY <1>5, <3>2 DEF InTable
    <3>3. CASE x = c /\ ~ InTable(c)
      BY <3>3
    <3> QED
      BY <3>1, <3>2, <3>3
  <2> QED
    BY <1>1, <2>1 DEF ChainParts, AnswerTold
<1>9. WorkChain'
  BY WorkDone
<1>10. Chained'
  <2> SUFFICES ASSUME NEW x \in Call \ Monitor, NEW e \in Live, Holds(e, x)
               PROVE  Linked(x, e)'
    BY <1>2 DEF Chained
  <2>1. Linked(x, e)
    BY <1>1 DEF ChainParts, Chained
  <2>2. CASE x # c
    <3>1. ~ WorkedOn(x)
      BY <2>2 DEF WorkedOn
    <3>2. \A d : Pending(d) => Pending(d)'
      BY PendingStays
    <3>3. legs'[x] = legs[x] /\ dialogs'[e] = dialogs[e] /\ UNCHANGED cams
      BY <1>4, <2>2
    <3> QED
      BY <2>1, <3>1, <3>2, <3>3, LinkStays
  <2>3. CASE x = c
    <3>1. legs[c].answer # 0 => legs[c].told
      BY <1>1, <2>3 DEF ChainParts, AnswerTold
    <3>2. /\ legs'[c].call4 = k /\ legs'[c].answer = legs[c].answer /\ k # 0
          /\ legs'[c].told = legs[c].told
          /\ Pending(Dialog4(c, k))'
      BY <1>5, <2>3
    <3>3. legs[c].answer = 0 => AwaitsServer(c)'
      BY <3>2 DEF AwaitsServer, Dialog4
    <3> QED
      BY <2>3, <3>1, <3>2, <3>3 DEF Linked
  <2> QED
    BY <2>2, <2>3
<1> QED
  BY <1>6, <1>7, <1>8, <1>9, <1>10 DEF ChainParts

LEMMA ChainInviteSend ==
    ASSUME ChainInv, InviteSend
    PROVE  ChainParts'
<1>1. PICK e, c, k, step :
         /\ e = job["worker"].info.entry /\ c = job["worker"].info.call
         /\ k = FreshCall4(c) /\ step = job["worker"].step
  OBVIOUS
<1>2. ChainParts /\ BaseInv /\ AskedInv
  BY DEF ChainInv, AskedInv
<1>3. /\ UNCHANGED <<cams, said>> /\ step \in {"transmit", "request"} /\ k <= MaxInvite
      /\ job'["worker"].step = "idle"
  <2>1. UNCHANGED <<cams, said>> /\ step \in {"transmit", "request"} /\ k <= MaxInvite
    BY <1>1 DEF InviteSend, tableVars
  <2>2. Finish("worker") /\ "worker" \in Thread
    BY DEF InviteSend, Thread
  <2> QED
    BY <1>2, <2>1, <2>2, FinishFacts DEF BaseInv, FlowInv
<1>4. CASE step = "transmit" \/ CamOf[c] \in SdkCamera
  <2>1. /\ dialogs' = dialogs
        /\ legs' = IF InTable(c) THEN [legs EXCEPT ![c] = Inviting(@, k)] ELSE legs
        /\ sent' = sent \cup {<<"invite", Dialog4(c, k)>>}
    BY <1>1, <1>4, Zenon DEF InviteSend
  <2> QED
    BY <1>1, <1>3, <2>1, ChainLeg
<1>5. CASE step = "request" /\ CamOf[c] \notin SdkCamera
  <2>1. /\ legs' = legs
        /\ dialogs' = IF InTable(c) THEN [dialogs EXCEPT ![e].msg2 = TRUE] ELSE dialogs
        /\ sent' = sent \cup {<<"invite", Dialog2(e)>>}
    BY <1>1, <1>5, Zenon DEF InviteSend
  <2>2. /\ Live' = Live
        /\ \A f, x : Holds(f, x)' = Holds(f, x)
        /\ \A f : FirstCall(f)' = FirstCall(f)
    BY <1>3 DEF Live, Holds, FirstCall
  <2>3. \A f \in Entry : /\ dialogs'[f].call3 = dialogs[f].call3
                         /\ dialogs'[f].answer2 = dialogs[f].answer2
                         /\ dialogs'[f].answer3 = dialogs[f].answer3
                         /\ dialogs[f].msg2 => dialogs'[f].msg2
                         /\ f = e /\ InTable(c) => dialogs'[f].msg2
    <3>1. dialogs \in [Entry -> FlowRec]
      BY <1>2 DEF BaseInv, FlowInv
    <3>2. CASE InTable(c)
      BY <2>1, <3>1, <3>2 DEF FlowRec
    <3> QED
      BY <2>1, <3>2
  <2>4. /\ ~ Invited(Dialog2(e))
        /\ \A f \in Live : Holds(f, c) =>
              f = e /\ FirstCall(f) = c /\ ~ dialogs[f].answer2 /\ legs[c].call4 = 0
    BY <1>1, <1>2, <1>5 DEF ChainParts, WorkChain
  <2>5. Live \subseteq Entry
    BY DEF Live
  <2>6. DialogOrder'
    BY <1>2, <2>2, <2>3, <2>5 DEF ChainParts, DialogOrder
  <2>7. FirstOnly'
    BY <1>1, <1>2, <1>5, <2>1, <2>2 DEF ChainParts, FirstOnly
  <2>8. AnswerTold'
    BY <1>2, <2>1 DEF ChainParts, AnswerTold
  <2>9. WorkChain'
    BY <1>3, WorkDone
  <2>10. \A d : Pending(d) => Pending(d)'
    BY <1>3, <2>1, PendingStays
  <2>11. Pending(Dialog2(e))'
    <3>1. PICK d : d = Dialog2(e)
      OBVIOUS
    <3>2. <<"ok", d>> \notin said /\ <<"reject", d>> \notin said
      BY <1>2, <2>4, <3>1 DEF AskedInv, SaidAsked
    <3>3. <<"invite", d>> \in sent' /\ said' = said
      BY <1>3, <2>1, <3>1
    <3>4. Pending(d)'
      BY <3>2, <3>3 DEF Pending, Invited
    <3> QED
      BY <3>1, <3>4 DEF Pending, Invited, Dialog2
  <2>12. Chained'
    <3> SUFFICES ASSUME NEW x \in Call \ Monitor, NEW f \in Live, Holds(f, x)
                 PROVE  Linked(x, f)'
      BY <2>2 DEF Chained
    <3>1. Linked(x, f)
      BY <1>2 DEF ChainParts, Chained
    <3>2. CASE x = c
      <4>1. f = e /\ FirstCall(f) = x /\ ~ dialogs[f].answer2 /\ legs[x].call4 = 0 /\ InTable(c)
        BY <2>4, <3>2 DEF InTable
      <4>2. AwaitsCamera(x, f)'
        BY <2>1, <2>2, <2>3, <2>5, <2>11, <4>1 DEF AwaitsCamera, Dialog2
      <4> QED
        BY <4>2 DEF Linked
    <3>3. CASE x # c
      <4>1. ~ WorkedOn(x)
        BY <1>1, <3>3 DEF WorkedOn
      <4>2. AwaitsServer(x) => AwaitsServer(x)'
        BY <2>1, <2>10 DEF AwaitsServer, Dialog4
      <4>3. AwaitsCamera(x, f) => AwaitsCamera(x, f)'
        BY <2>1, <2>2, <2>3, <2>5, <2>10 DEF AwaitsCamera, Dialog2, Dialog3
      <4> QED
        BY <2>1, <3>1, <4>1, <4>2, <4>3 DEF Linked
    <3> QED
      BY <3>2, <3>3
  <2> QED
    BY <2>6, <2>7, <2>8, <2>9, <2>12 DEF ChainParts
<1> QED
  BY <1>3, <1>4, <1>5

\* Who waits for the media server to receive the stream now waits for the
\* camera, whether or not the call of the copy is still there.
LEMMA ChainInviteCamera ==
    ASSUME ChainInv, InviteCamera
    PROVE  ChainParts'
<1>1. PICK e, c, k : /\ e = job["worker"].info.entry /\ c = job["worker"].info.call
                     /\ k = FreshCall3(e)
  OBVIOUS
<1>2. ChainParts /\ BaseInv /\ AskedInv /\ CamInv
  BY DEF ChainInv, AskedInv
<1>3. /\ UNCHANGED <<cams, said, legs>> /\ job["worker"].step = "answer2" /\ k <= MaxInvite
      /\ job'["worker"].step = "idle"
      /\ sent' = sent \cup {<<"invite", Dialog3(e, k)>>}
      /\ dialogs' = IF e \in Live
                      THEN [dialogs EXCEPT ![e].answer2 = TRUE, ![e].call3 = k]
                      ELSE dialogs
  <2>1. UNCHANGED <<cams, said, legs>> /\ job["worker"].step = "answer2" /\ k <= MaxInvite
    BY <1>1 DEF InviteCamera, tableVars
  <2>2. Finish("worker") /\ "worker" \in Thread
    BY DEF InviteCamera, Thread
  <2>3. /\ sent' = sent \cup {<<"invite", Dialog3(e, k)>>}
        /\ dialogs' = IF e \in Live
                        THEN [dialogs EXCEPT ![e].answer2 = TRUE, ![e].call3 = k]
                        ELSE dialogs
    BY <1>1, Zenon DEF InviteCamera
  <2> QED
    BY <1>2, <2>1, <2>2, <2>3, FinishFacts DEF BaseInv, FlowInv
<1>4. /\ Live' = Live
      /\ \A f, x : Holds(f, x)' = Holds(f, x)
      /\ \A f : FirstCall(f)' = FirstCall(f)
      /\ Live \subseteq Entry
  BY <1>3 DEF Live, Holds, FirstCall
<1>5. /\ \A f \in Live \ {e} : dialogs'[f] = dialogs[f]
      /\ e \in Live => /\ dialogs'[e].answer2 /\ dialogs'[e].call3 = k
                       /\ dialogs'[e].answer3 = dialogs[e].answer3
  <2>1. dialogs \in [Entry -> FlowRec]
    BY <1>2 DEF BaseInv, FlowInv
  <2> QED
    BY <1>3, <1>4, <2>1 DEF FlowRec
<1>6. /\ e \in Live => ~ dialogs[e].answer2
      /\ \A f \in Live : Holds(f, c) => f = e /\ FirstCall(f) = c
  BY <1>1, <1>2, <1>3 DEF ChainParts, WorkChain
<1>7. e \in Live => dialogs[e].call3 = 0 /\ ~ dialogs[e].answer3
  BY <1>2, <1>6 DEF ChainParts, DialogOrder
<1>8. e \in Live => k \in 1 .. MaxInvite /\ Pending(Dialog3(e, k))'
  <2> SUFFICES ASSUME e \in Live
               PROVE  k \in 1 .. MaxInvite /\ Pending(Dialog3(e, k))'
    OBVIOUS
  <2>1. ~ CameraAsked(e)
    BY <1>1, <1>2, <1>3, <1>4 DEF CamInv, MayAsk
  <2>2. {j \in 1 .. MaxInvite : Invited(Dialog3(e, j))} = {}
    BY <2>1 DEF CameraAsked
  <2>3. k = 1 /\ MaxInvite \in Nat \ {0}
    <3>1. Cardinality({j \in 1 .. MaxInvite : Invited(Dialog3(e, j))}) = 0
      BY <2>2, FS_EmptySet, Zenon
    <3>2. k = 1 + Cardinality({j \in 1 .. MaxInvite : Invited(Dialog3(e, j))})
      BY <1>1 DEF FreshCall3
    <3> QED
      BY <3>1, <3>2, FlowAssumption
  <2>4. k \in 1 .. MaxInvite /\ ~ Invited(Dialog3(e, k))
    BY <2>1, <2>3 DEF CameraAsked
  <2>5. PICK d : d = Dialog3(e, k)
    OBVIOUS
  <2>6. <<"ok", d>> \notin said /\ <<"reject", d>> \notin said
    BY <1>2, <2>4, <2>5 DEF AskedInv, SaidAsked
  <2>7. <<"invite", d>> \in sent' /\ said' = said
    BY <1>3, <2>5
  <2>8. Pending(d)'
    BY <2>6, <2>7 DEF Pending, Invited
  <2> QED
    BY <2>4, <2>5, <2>8 DEF Pending, Invited, Dialog3
<1>9. DialogOrder'
  BY <1>2, <1>4, <1>5 DEF ChainParts, DialogOrder
<1>10. FirstOnly'
  BY <1>2, <1>3, <1>4 DEF ChainParts, FirstOnly
<1>11. AnswerTold'
  BY <1>2, <1>3 DEF ChainParts, AnswerTold
<1>12. WorkChain'
  BY <1>3, WorkDone
<1>13. Chained'
  <2> SUFFICES ASSUME NEW x \in Call \ Monitor, NEW f \in Live, Holds(f, x)
               PROVE  Linked(x, f)'
    BY <1>4 DEF Chained
  <2>1. Linked(x, f)
    BY <1>2 DEF ChainParts, Chained
  <2>2. \A d : Pending(d) => Pending(d)'
    BY <1>3, PendingStays
  <2>3. ASSUME f = e, FirstCall(f) = x, legs[x].call4 = 0
        PROVE  Linked(x, f)'
    <3>1. /\ FirstCall(f)' = x /\ legs'[x].call4 = 0
          /\ dialogs'[f].call3 = k /\ k # 0 /\ ~ dialogs'[f].answer3
          /\ Pending(Dialog3(f, k))'
      BY <1>3, <1>4, <1>5, <1>7, <1>8, <2>3
    <3>2. AwaitsCamera(x, f)'
      BY <3>1 DEF AwaitsCamera, Dialog3
    <3> QED
      BY <3>2 DEF Linked
  <2>4. CASE WorkedOn(x)
    <3>1. x = c /\ legs[x].call4 = 0
      BY <1>1, <1>3, <2>4 DEF WorkedOn
    <3> QED
      BY <1>6, <2>3, <3>1
  <2>5. CASE AwaitsCamera(x, f) /\ f = e
    BY <2>3, <2>5 DEF AwaitsCamera
  <2>6. CASE ~ WorkedOn(x) /\ f # e
    BY <1>3, <1>5, <2>1, <2>2, <2>6, LinkStays
  <2>7. CASE legs[x].told \/ AwaitsServer(x)
    BY <1>3, <2>2, <2>7 DEF Linked, AwaitsServer, Dialog4
  <2> QED
    BY <2>1, <2>4, <2>5, <2>6, <2>7 DEF Linked
<1> QED
  BY <1>9, <1>10, <1>11, <1>12, <1>13 DEF ChainParts

\* The camera's answer is recorded while the worker keeps the only call that
\* could wait for it.
LEMMA ChainAckCamera ==
    ASSUME ChainInv, AckCamera
    PROVE  ChainParts'
<1>1. PICK i : i = job["worker"].info
  OBVIOUS
<1>2. ChainParts /\ BaseInv
  BY DEF ChainInv, AskedInv
<1>3. /\ UNCHANGED <<cams, said, legs>> /\ job["worker"].step = "answer3"
      /\ sent \subseteq sent'
      /\ dialogs' = IF Knows3(i.entry, i.call3)
                      THEN [dialogs EXCEPT ![i.entry].answer3 = TRUE]
                      ELSE dialogs
      /\ Begin("worker", "forward", i)
  <2>1. UNCHANGED <<cams, said, legs>> /\ job["worker"].step = "answer3"
    BY DEF AckCamera, tableVars
  <2>2. /\ sent' = sent \cup {<<"ack", Dialog3(i.entry, i.call3)>>, <<"ack", Dialog2(i.entry)>>}
        /\ dialogs' = IF Knows3(i.entry, i.call3)
                        THEN [dialogs EXCEPT ![i.entry].answer3 = TRUE]
                        ELSE dialogs
        /\ Begin("worker", "forward", i)
    BY <1>1, Zenon DEF AckCamera
  <2> QED
    BY <2>1, <2>2
<1>4. /\ Live' = Live
      /\ \A f, x : Holds(f, x)' = Holds(f, x)
      /\ \A f : FirstCall(f)' = FirstCall(f)
      /\ Live \subseteq Entry
  BY <1>3 DEF Live, Holds, FirstCall
<1>5. /\ job'["worker"].step = "forward"
      /\ job'["worker"].info = i
  BY <1>2, <1>3, BeginFacts DEF BaseInv, FlowInv, Thread
<1>6. /\ \A f \in Live \ {i.entry} : dialogs'[f] = dialogs[f]
      /\ \A f \in Live : /\ dialogs'[f].call3 = dialogs[f].call3
                         /\ dialogs'[f].answer2 = dialogs[f].answer2
  <2>1. dialogs \in [Entry -> FlowRec]
    BY <1>2 DEF BaseInv, FlowInv
  <2>2. CASE ~ Knows3(i.entry, i.call3)
    BY <1>3, <2>2
  <2>3. CASE Knows3(i.entry, i.call3)
    <3>1. i.entry \in Live /\ dialogs' = [dialogs EXCEPT ![i.entry].answer3 = TRUE]
      BY <1>3, <2>3 DEF Knows3
    <3> QED
      BY <1>4, <2>1, <3>1 DEF FlowRec
  <2> QED
    BY <2>2, <2>3
<1>7. /\ i.entry \in Live => dialogs[i.entry].answer2
      /\ \A x \in Call :
            i.entry \in Live /\ Holds(i.entry, x) /\ legs[x].call4 = 0 => x = i.call
  BY <1>1, <1>2, <1>3 DEF ChainParts, WorkChain
<1>8. DialogOrder'
  BY <1>2, <1>4, <1>6, <1>7 DEF ChainParts, DialogOrder
<1>9. FirstOnly'
  BY <1>2, <1>3, <1>4 DEF ChainParts, FirstOnly
<1>10. AnswerTold'
  BY <1>2, <1>3 DEF ChainParts, AnswerTold
<1>11. WorkChain'
  BY <1>5, WorkDone
<1>12. Chained'
  <2> SUFFICES ASSUME NEW x \in Call \ Monitor, NEW f \in Live, Holds(f, x)
               PROVE  Linked(x, f)'
    BY <1>4 DEF Chained
  <2>1. Linked(x, f)
    BY <1>2 DEF ChainParts, Chained
  <2>2. \A d : Pending(d) => Pending(d)'
    BY <1>3, PendingStays
  <2>3. CASE x = i.call
    BY <1>5, <2>3 DEF Linked, WorkedOn, IsIdle
  <2>4. CASE legs[x].told \/ AwaitsServer(x)
    BY <1>3, <2>2, <2>4 DEF Linked, AwaitsServer, Dialog4
  <2>5. CASE x # i.call /\ AwaitsCamera(x, f)
    <3>1. f # i.entry
      BY <1>7, <2>5 DEF AwaitsCamera
    <3>2. ~ WorkedOn(x)
      BY <1>1, <2>5 DEF WorkedOn
    <3> QED
      BY <1>3, <1>6, <2>1, <2>2, <3>1, <3>2, LinkStays
  <2>6. CASE x # i.call /\ WorkedOn(x)
    BY <1>1, <2>6 DEF WorkedOn
  <2> QED
    BY <2>1, <2>3, <2>4, <2>5, <2>6 DEF Linked
<1> QED
  BY <1>8, <1>9, <1>10, <1>11, <1>12 DEF ChainParts

LEMMA ChainForwardStream ==
    ASSUME ChainInv, ForwardStream
    PROVE  ChainParts'
<1>1. PICK c, k : c = job["worker"].info.call /\ k = FreshCall4(c)
  OBVIOUS
<1>2. ChainParts /\ BaseInv
  BY DEF ChainInv, AskedInv
<1>3. /\ UNCHANGED <<cams, dialogs, said>> /\ job["worker"].step = "forward"
      /\ job'["worker"].step = "idle"
  <2>1. UNCHANGED <<cams, dialogs, said>> /\ job["worker"].step = "forward"
    BY DEF ForwardStream, tableVars
  <2>2. Finish("worker") /\ "worker" \in Thread
    BY DEF ForwardStream, Thread
  <2> QED
    BY <1>2, <2>1, <2>2, FinishFacts DEF BaseInv, FlowInv
<1>4. CASE c \notin Monitor
  <2>1. /\ k <= MaxInvite
        /\ legs' = IF InTable(c) THEN [legs EXCEPT ![c] = Inviting(@, k)] ELSE legs
        /\ sent' = sent \cup {<<"invite", Dialog4(c, k)>>}
    BY <1>1, <1>4, Zenon DEF ForwardStream
  <2> QED
    BY <1>1, <1>3, <2>1, ChainLeg
<1>5. CASE c \in Monitor
  <2>1. legs' = legs /\ sent' = sent \cup {<<"invite", Dialog5(c)>>}
    BY <1>1, <1>5, Zenon DEF ForwardStream
  <2>2. /\ Live' = Live
        /\ \A f, x : Holds(f, x)' = Holds(f, x)
        /\ \A f : FirstCall(f)' = FirstCall(f)
    BY <1>3 DEF Live, Holds, FirstCall
  <2>3. DialogOrder' /\ FirstOnly' /\ AnswerTold'
    BY <1>2, <1>3, <2>1, <2>2 DEF ChainParts, DialogOrder, FirstOnly, AnswerTold
  <2>4. WorkChain'
    BY <1>3, WorkDone
  <2>5. Chained'
    <3> SUFFICES ASSUME NEW x \in Call \ Monitor, NEW f \in Live, Holds(f, x)
                 PROVE  Linked(x, f)'
      BY <2>2 DEF Chained
    <3>1. Linked(x, f) /\ ~ WorkedOn(x)
      BY <1>1, <1>2, <1>5 DEF ChainParts, Chained, WorkedOn
    <3>2. \A d : Pending(d) => Pending(d)'
      BY <1>3, <2>1, PendingStays
    <3> QED
      BY <1>3, <2>1, <3>1, <3>2, LinkStays
  <2> QED
    BY <2>3, <2>4, <2>5 DEF ChainParts
<1> QED
  BY <1>4, <1>5

LEMMA ChainAnswerClient ==
    ASSUME ChainInv, AnswerClient
    PROVE  ChainParts'
<1>1. PICK c : c = job["worker"].info.call
  OBVIOUS
<1>2. ChainParts /\ BaseInv
  BY DEF ChainInv, AskedInv
<1>3. /\ UNCHANGED <<cams, dialogs, said>> /\ job["worker"].step = "answer4"
      /\ job'["worker"].step = "idle"
  <2>1. UNCHANGED <<cams, dialogs, said>> /\ job["worker"].step = "answer4"
    BY DEF AnswerClient, tableVars
  <2>2. Finish("worker") /\ "worker" \in Thread
    BY DEF AnswerClient, Thread
  <2> QED
    BY <1>2, <2>1, <2>2, FinishFacts DEF BaseInv, FlowInv
<1>4. /\ legs' = IF InTable(c) THEN [legs EXCEPT ![c] = Answered(@, c \notin Monitor)] ELSE legs
      /\ sent \subseteq sent'
  <2>1. /\ legs' = IF InTable(c) THEN [legs EXCEPT ![c] = Answered(@, c \notin Monitor)] ELSE legs
        /\ sent' = IF c \in Monitor THEN sent ELSE sent \cup {<<"ok", c>>}
    BY <1>1, Zenon DEF AnswerClient
  <2> QED
    BY <2>1
<1>5. /\ Live' = Live
      /\ \A f, x : Holds(f, x)' = Holds(f, x)
      /\ \A f : FirstCall(f)' = FirstCall(f)
  BY <1>3 DEF Live, Holds, FirstCall
<1>6. /\ \A x \in Call \ {c} : legs'[x] = legs[x]
      /\ \A x \in Call : legs'[x].call4 = legs[x].call4
      /\ c \in Call \ Monitor => (InTable(c) => legs'[c].told)
      /\ ~ InTable(c) => legs' = legs
  <2>1. legs \in [Call -> LegRec]
    BY <1>2 DEF BaseInv, FlowInv
  <2>2. PICK b \in BOOLEAN : b = (c \notin Monitor)
    OBVIOUS
  <2>3. legs' = IF InTable(c) THEN [legs EXCEPT ![c] = Answered(@, b)] ELSE legs
    BY <1>4, <2>2
  <2>4. CASE InTable(c)
    <3>1. \A x \in Call \ {c} : legs'[x] = legs[x]
      BY <2>1, <2>3, <2>4
    <3>2. c \in Call => legs'[c] = Answered(legs[c], b)
      BY <2>1, <2>3, <2>4
    <3>3. c \in Call => legs'[c].call4 = legs[c].call4 /\ legs'[c].told = (legs[c].told \/ b)
      BY <3>2 DEF Answered
    <3> QED
      BY <2>2, <2>4, <3>1, <3>3
  <2> QED
    BY <2>3, <2>4
<1>7. DialogOrder' /\ FirstOnly'
  BY <1>2, <1>3, <1>5, <1>6 DEF ChainParts, DialogOrder, FirstOnly
<1>8. AnswerTold'
  <2> SUFFICES ASSUME NEW x \in Call \ Monitor, legs'[x].answer # 0
               PROVE  legs'[x].told
    BY DEF AnswerTold
  <2>1. legs[x].answer # 0 => legs[x].told
    BY <1>2 DEF ChainParts, AnswerTold
  <2> QED
    BY <1>6, <2>1
<1>9. WorkChain'
  BY <1>3, WorkDone
<1>10. Chained'
  <2> SUFFICES ASSUME NEW x \in Call \ Monitor, NEW f \in Live, Holds(f, x)
               PROVE  Linked(x, f)'
    BY <1>5 DEF Chained
  <2>1. CASE x = c
    BY <1>6, <2>1 DEF Linked, InTable
  <2>2. CASE x # c
    <3>1. Linked(x, f) /\ ~ WorkedOn(x)
      BY <1>1, <1>2, <2>2 DEF ChainParts, Chained, WorkedOn
    <3>2. \A d : Pending(d) => Pending(d)'
      BY <1>3, <1>4, PendingStays
    <3> QED
      BY <1>3, <1>6, <2>2, <3>1, <3>2, LinkStays
  <2> QED
    BY <2>1, <2>2
<1> QED
  BY <1>7, <1>8, <1>9, <1>10 DEF ChainParts

(***************************************************************************)
(* A call that is placed.                                                  *)
(***************************************************************************)
LEMMA ChainJoins ==
    ASSUME ChainInv, NEW c \in Call, ~ InTable(c), IsIdle("worker"), InviteJoins(c), UNCHANGED said
    PROVE  ChainParts'
<1>1. PICK e \in Forwarding(CamOf[c]) :
         /\ JoinStream(c, CamOf[c], e)
         /\ Begin("worker", "transmit", [entry |-> e, call |-> c])
  BY DEF InviteJoins
<1>2. /\ UNCHANGED <<dialogs, sent, said>>
      /\ legs' = [legs EXCEPT ![c] = NoLeg]
      /\ TableTypeOK /\ CamOf[c] \in Camera
      /\ BaseInv /\ ChainParts
  BY FlowAssumption, Zenon DEF InviteJoins, ChainInv, AskedInv, BaseInv, PlaceInv
<1>3. /\ e \in Live /\ Live' = Live
      /\ cams'[e].invites = Append(cams[e].invites, c)
      /\ \A f \in Live \ {e} : cams'[f] = cams[f]
  BY <1>1, <1>2, JoinFacts, JoinFields DEF Forwarding, Live
<1>4. PICK q \in Seq(Call) : q = cams[e].invites /\ Len(q) >= 1
  <2>1. cams[e].invites \in Seq(Call) /\ Len(cams[e].invites) >= 1
    BY <1>2, <1>3, LiveFacts DEF BaseInv, PlaceInv, NTranmitExact
  <2> QED
    BY <2>1
<1>5. /\ \A x : Holds(e, x)' => Holds(e, x) \/ x = c
      /\ FirstCall(e)' = FirstCall(e)
  <2>1. /\ cams'[e].invites = Append(q, c)
        /\ DOMAIN q = 1 .. Len(q) /\ Len(q) \in Nat
        /\ DOMAIN Append(q, c) = 1 .. (Len(q) + 1)
        /\ \A j \in 1 .. Len(q) : Append(q, c)[j] = q[j]
        /\ Append(q, c)[Len(q) + 1] = c
    BY <1>3, <1>4
  <2>2. ToSet(Append(q, c)) = ToSet(q) \cup {c}
    BY <2>1 DEF ToSet
  <2>3. Head(Append(q, c)) = Head(q)
    BY <1>4, <2>1
  <2> QED
    BY <1>4, <2>1, <2>2, <2>3 DEF Holds, FirstCall
<1>6. /\ \A f \in Live : FirstCall(f)' = FirstCall(f)
      /\ \A f \in Live : \A x : Holds(f, x)' => Holds(f, x) \/ (f = e /\ x = c)
      /\ \A f \in Live : \A x \in Call : Holds(f, x) => x # c
  BY <1>2, <1>3, <1>5 DEF Holds, FirstCall, InTable
<1>7. /\ \A x \in Call \ {c} : legs'[x] = legs[x]
      /\ legs'[c] = NoLeg
  BY <1>2 DEF BaseInv, FlowInv
<1>8. job'["worker"].step = "transmit" /\ job'["worker"].info.call = c
  <2>1. PICK info : info = [entry |-> e, call |-> c] /\ info.call = c
    <3>1. PICK info : info = [entry |-> e, call |-> c]
      OBVIOUS
    <3> QED
      BY <3>1
  <2> QED
    BY <1>1, <1>2, <2>1, BeginFacts DEF BaseInv, FlowInv, Thread
<1>9. DialogOrder'
  BY <1>2, <1>3 DEF ChainParts, DialogOrder
<1>10. FirstOnly'
  <2> SUFFICES ASSUME NEW f \in Live, NEW x \in Call, Holds(f, x)', legs'[x].call4 = 0, x # c
               PROVE  FirstCall(f)' = x
    BY <1>3, <1>8 DEF FirstOnly
  <2>1. Holds(f, x) /\ legs[x].call4 = 0
    BY <1>6, <1>7
  <2> QED
    BY <1>2, <1>6, <2>1 DEF ChainParts, FirstOnly, IsIdle
<1>11. AnswerTold'
  <2> SUFFICES ASSUME NEW x \in Call \ Monitor, legs'[x].answer # 0
               PROVE  legs'[x].told
    BY DEF AnswerTold
  <2>1. x # c
    BY <1>7 DEF NoLeg
  <2> QED
    BY <1>2, <1>7, <2>1 DEF ChainParts, AnswerTold
<1>12. WorkChain'
  BY <1>8, WorkDone
<1>13. Chained'
  <2> SUFFICES ASSUME NEW x \in Call \ Monitor, NEW f \in Live, Holds(f, x)'
               PROVE  Linked(x, f)'
    BY <1>3 DEF Chained
  <2>1. CASE x = c
    BY <1>8, <2>1 DEF Linked, WorkedOn, IsIdle
  <2>2. CASE x # c
    <3>1. Holds(f, x)
      BY <1>6, <2>2
    <3>2. Linked(x, f)
      BY <1>2, <3>1 DEF ChainParts, Chained
    <3>3. ~ WorkedOn(x)
      BY DEF WorkedOn
    <3>4. AwaitsServer(x) => AwaitsServer(x)'
      BY <1>2, <1>7, <2>2 DEF AwaitsServer, Pending, Invited, Dialog4
    <3>5. AwaitsCamera(x, f) => AwaitsCamera(x, f)'
      BY <1>2, <1>6, <1>7, <2>2 DEF AwaitsCamera, Pending, Invited, Dialog2, Dialog3
    <3> QED
      BY <1>7, <2>2, <3>2, <3>3, <3>4, <3>5 DEF Linked
  <2> QED
    BY <2>1, <2>2
<1> QED
  BY <1>9, <1>10, <1>11, <1>12, <1>13 DEF ChainParts

LEMMA ChainPlaces ==
    ASSUME ChainInv, NEW c \in Call, ~ InTable(c), IsIdle("worker"), InvitePlaced(c), UNCHANGED said
    PROVE  ChainParts'
<1>1. PICK s \in LeastLoaded, e \in Entry \ born :
         /\ PlaceStream(c, CamOf[c], TypeOf[c], s, e)
         /\ dialogs' = [dialogs EXCEPT ![e] = NoDialog]
         /\ legs' = [legs EXCEPT ![c] = NoLeg]
         /\ Begin("worker", "request", [entry |-> e, call |-> c])
         /\ UNCHANGED sent
  BY DEF InvitePlaced
<1>2. /\ TableTypeOK /\ CamOf[c] \in Camera /\ TypeOf[c] \in InviteType
      /\ BaseInv /\ ChainParts /\ BornAsked
  BY FlowAssumption DEF ChainInv, AskedInv, BaseInv, PlaceInv, InviteType
<1>3. /\ e \notin Live /\ Live' = Live \cup {e}
      /\ cams'[e].invites = <<c>>
      /\ \A f \in Live : cams'[f] = cams[f]
  BY <1>1, <1>2, PlaceFacts, PlaceFields DEF Live
<1>4. /\ \A x : Holds(e, x)' => x = c
      /\ FirstCall(e)' = c
  BY <1>3 DEF Holds, ToSet, FirstCall
<1>5. /\ \A f \in Live : FirstCall(f)' = FirstCall(f)
      /\ \A f \in Live : \A x : Holds(f, x)' => Holds(f, x) /\ x # c
  BY <1>3 DEF Holds, InTable, FirstCall
<1>6. /\ dialogs'[e] = NoDialog
      /\ \A f \in Live : dialogs'[f] = dialogs[f]
  BY <1>1, <1>2, <1>3 DEF BaseInv, FlowInv, Live
<1>7. /\ \A x \in Call \ {c} : legs'[x] = legs[x]
      /\ legs'[c] = NoLeg
  BY <1>1, <1>2 DEF BaseInv, FlowInv
<1>8. PICK info : /\ info.call = c /\ info.entry = e
                  /\ job'["worker"].step = "request"
                  /\ job'["worker"].info = info
  <2>1. PICK info : info = [entry |-> e, call |-> c] /\ info.call = c /\ info.entry = e
    <3>1. PICK info : info = [entry |-> e, call |-> c]
      OBVIOUS
    <3> QED
      BY <3>1
  <2> QED
    BY <1>1, <1>2, <2>1, BeginFacts DEF BaseInv, FlowInv, Thread
<1>9. DialogOrder'
  BY <1>2, <1>3, <1>6 DEF ChainParts, DialogOrder, NoDialog
<1>10. FirstOnly'
  <2> SUFFICES ASSUME NEW f \in Live', NEW x \in Call, Holds(f, x)', legs'[x].call4 = 0
               PROVE  FirstCall(f)' = x
    BY DEF FirstOnly
  <2>1. CASE f = e
    BY <1>4, <2>1
  <2>2. CASE f # e
    <3>1. f \in Live /\ Holds(f, x) /\ legs[x].call4 = 0
      BY <1>3, <1>5, <1>7, <2>2
    <3> QED
      BY <1>2, <1>5, <3>1 DEF ChainParts, FirstOnly, IsIdle
  <2> QED
    BY <2>1, <2>2
<1>11. AnswerTold'
  <2> SUFFICES ASSUME NEW x \in Call \ Monitor, legs'[x].answer # 0
               PROVE  legs'[x].told
    BY DEF AnswerTold
  <2>1. x # c
    BY <1>7 DEF NoLeg
  <2> QED
    BY <1>2, <1>7, <2>1 DEF ChainParts, AnswerTold
<1>12. WorkChain'
  <2>1. ~ Invited(Dialog2(e))'
    BY <1>1, <1>2 DEF BornAsked, Invited, Dialog2
  <2>2. \A f \in Live' : Holds(f, c)' => f = e
    BY <1>3, <1>5
  <2>3. ~ dialogs'[e].answer2 /\ legs'[c].call4 = 0
    BY <1>6, <1>7 DEF NoDialog, NoLeg
  <2> QED
    BY <1>4, <1>8, <2>1, <2>2, <2>3 DEF WorkChain
<1>13. Chained'
  <2> SUFFICES ASSUME NEW x \in Call \ Monitor, NEW f \in Live', Holds(f, x)'
               PROVE  Linked(x, f)'
    BY DEF Chained
  <2>1. CASE x = c
    BY <1>8, <2>1 DEF Linked, WorkedOn, IsIdle
  <2>2. CASE x # c
    <3>1. f \in Live /\ Holds(f, x)
      BY <1>3, <1>4, <1>5, <2>2
    <3>2. Linked(x, f)
      BY <1>2, <3>1 DEF ChainParts, Chained
    <3>3. ~ WorkedOn(x)
      BY DEF WorkedOn
    <3>4. AwaitsServer(x) => AwaitsServer(x)'
      BY <1>1, <1>7, <2>2 DEF AwaitsServer, Pending, Invited, Dialog4
    <3>5. AwaitsCamera(x, f) => AwaitsCamera(x, f)'
      BY <1>1, <1>5, <1>6, <1>7, <2>2, <3>1 DEF AwaitsCamera, Pending, Invited, Dialog2, Dialog3
    <3> QED
      BY <1>7, <2>2, <3>2, <3>3, <3>4, <3>5 DEF Linked
  <2> QED
    BY <2>1, <2>2
<1> QED
  BY <1>9, <1>10, <1>11, <1>12, <1>13 DEF ChainParts

(***************************************************************************)
(* Replies.  Whoever waits for the reply is the call that the handler      *)
(* copies: it is the first of its stream, or its own leg's.                *)
(***************************************************************************)
WaitsFor(c, e, d) ==
    \/ legs[c].call4 # 0 /\ legs[c].answer = 0 /\ d = Dialog4(c, legs[c].call4)
    \/ /\ FirstCall(e) = c
       /\ legs[c].call4 = 0
       /\ \/ dialogs[e].msg2 /\ ~ dialogs[e].answer2 /\ d = Dialog2(e)
          \/ /\ dialogs[e].call3 # 0 /\ ~ dialogs[e].answer3
             /\ d = Dialog3(e, dialogs[e].call3)

LEMMA ChainReply ==
    ASSUME ChainInv, IsIdle("worker"), UNCHANGED <<cams, dialogs, legs, sent>>, NEW d,
           \A x : Pending(x) => Pending(x)' \/ x = d,
           \A c \in Call \ Monitor, e \in Live :
              Holds(e, c) /\ WaitsFor(c, e, d) => WorkedOn(c)' \/ Pending(d)',
           WorkChain'
    PROVE  ChainParts'
<1>1. ChainParts
  BY DEF ChainInv
<1>2. /\ Live' = Live
      /\ \A f, x : Holds(f, x)' = Holds(f, x)
      /\ \A f : FirstCall(f)' = FirstCall(f)
  BY DEF Live, Holds, FirstCall
<1>3. DialogOrder' /\ AnswerTold'
  BY <1>1, <1>2 DEF ChainParts, DialogOrder, AnswerTold
<1>4. FirstOnly'
  BY <1>1, <1>2 DEF ChainParts, FirstOnly, IsIdle
<1>5. Chained'
  <2> SUFFICES ASSUME NEW c \in Call \ Monitor, NEW e \in Live, Holds(e, c)
               PROVE  Linked(c, e)'
    BY <1>2 DEF Chained
  <2>1. Linked(c, e) /\ ~ WorkedOn(c)
    BY <1>1 DEF ChainParts, Chained, WorkedOn
  <2>2. \A x : Pending(x) => Pending(x)' \/ (x = d /\ (WaitsFor(c, e, d) => WorkedOn(c)'))
    OBVIOUS
  <2>3. AwaitsServer(c) => AwaitsServer(c)' \/ WorkedOn(c)'
    <3> SUFFICES ASSUME AwaitsServer(c), ~ WorkedOn(c)'
                 PROVE  AwaitsServer(c)'
      OBVIOUS
    <3>1. PICK x : x = Dialog4(c, legs[c].call4) /\ Pending(x)
      BY DEF AwaitsServer
    <3>2. x = d => WaitsFor(c, e, d)
      BY <3>1 DEF AwaitsServer, WaitsFor
    <3>3. Pending(x)'
      BY <2>2, <3>1, <3>2
    <3> QED
      BY <3>1, <3>3 DEF AwaitsServer, Dialog4
  <2>4. AwaitsCamera(c, e) => AwaitsCamera(c, e)' \/ WorkedOn(c)'
    <3> SUFFICES ASSUME AwaitsCamera(c, e), ~ WorkedOn(c)'
                 PROVE  AwaitsCamera(c, e)'
      OBVIOUS
    <3>1. CASE dialogs[e].msg2 /\ ~ dialogs[e].answer2 /\ Pending(Dialog2(e))
      <4>1. PICK x : x = Dialog2(e) /\ Pending(x)
        BY <3>1
      <4>2. x = d => WaitsFor(c, e, d)
        BY <3>1, <4>1 DEF AwaitsCamera, WaitsFor
      <4>3. Pending(x)'
        BY <2>2, <4>1, <4>2
      <4> QED
        BY <1>2, <3>1, <4>1, <4>3 DEF AwaitsCamera, Dialog2
    <3>2. CASE dialogs[e].call3 # 0 /\ ~ dialogs[e].answer3 /\ Pending(Dialog3(e, dialogs[e].call3))
      <4>1. PICK x : x = Dialog3(e, dialogs[e].call3) /\ Pending(x)
        BY <3>2
      <4>2. x = d => WaitsFor(c, e, d)
        BY <3>2, <4>1 DEF AwaitsCamera, WaitsFor
      <4>3. Pending(x)'
        BY <2>2, <4>1, <4>2
      <4> QED
        BY <1>2, <3>2, <4>1, <4>3 DEF AwaitsCamera, Dialog3
    <3> QED
      BY <3>1, <3>2 DEF AwaitsCamera
  <2> QED
    BY <2>1, <2>3, <2>4 DEF Linked
<1> QED
  BY <1>3, <1>4, <1>5 DEF ChainParts

\* What the worker begins with a copy, and that a reply ends one wait.
LEMMA WorkerBegins ==
    ASSUME BaseInv, NEW step, NEW info, Begin("worker", step, info)
    PROVE  job'["worker"].step = step /\ job'["worker"].info = info
  BY BeginFacts DEF BaseInv, FlowInv, Thread

LEMMA ReplyEnds ==
    ASSUME NEW r, NEW d, Reply(r, d), UNCHANGED sent
    PROVE  \A x : Pending(x) => Pending(x)' \/ x = d
<1> SUFFICES ASSUME NEW x, x # d, Pending(x)
             PROVE  Pending(x)'
  OBVIOUS
<1>1. said' = said \cup {<<r, d>>}
  BY DEF Reply
<1>2. \A s : <<s, x>> # <<r, d>>
  OBVIOUS
<1> QED
  BY <1>1, <1>2 DEF Pending, Invited

\* Who waits in which dialog.
LEMMA WaitsIn ==
    ASSUME NEW c, NEW e
    PROVE  /\ \A f : WaitsFor(c, e, Dialog2(f)) =>
                 /\ f = e /\ dialogs[e].msg2 /\ ~ dialogs[e].answer2
                 /\ FirstCall(e) = c /\ legs[c].call4 = 0
           /\ \A f, k : WaitsFor(c, e, Dialog3(f, k)) =>
                 /\ f = e /\ dialogs[e].call3 = k /\ ~ dialogs[e].answer3
                 /\ FirstCall(e) = c /\ legs[c].call4 = 0
           /\ \A x, k : WaitsFor(c, e, Dialog4(x, k)) =>
                 x = c /\ legs[c].call4 = k /\ legs[c].answer = 0
           /\ \A x : ~ WaitsFor(c, e, Dialog5(x))
<1>1. \A f : WaitsFor(c, e, Dialog2(f)) =>
         /\ f = e /\ dialogs[e].msg2 /\ ~ dialogs[e].answer2
         /\ FirstCall(e) = c /\ legs[c].call4 = 0
  BY DialogsApart DEF WaitsFor
<1>2. \A f, k : WaitsFor(c, e, Dialog3(f, k)) =>
         /\ f = e /\ dialogs[e].call3 = k /\ ~ dialogs[e].answer3
         /\ FirstCall(e) = c /\ legs[c].call4 = 0
  BY DialogsApart DEF WaitsFor
<1>3. \A x, k : WaitsFor(c, e, Dialog4(x, k)) =>
         x = c /\ legs[c].call4 = k /\ legs[c].answer = 0
  BY DialogsApart DEF WaitsFor
<1>4. \A x : ~ WaitsFor(c, e, Dialog5(x))
  BY DialogsApart DEF WaitsFor
<1> QED
  BY <1>1, <1>2, <1>3, <1>4

LEMMA ChainAnswer2 ==
    ASSUME ChainInv, NEW e \in Entry, InviteAnswer2(e)
    PROVE  ChainParts'
<1>1. ChainParts /\ BaseInv /\ PlaceInv
  BY DEF ChainInv, AskedInv, BaseInv
<1>2. /\ IsIdle("worker") /\ UNCHANGED <<cams, dialogs, legs, sent>>
      /\ Reply("ok", Dialog2(e))
  BY DEF InviteAnswer2, Received, tableVars
<1>3. \A x : Pending(x) => Pending(x)' \/ x = Dialog2(e)
  BY <1>2, ReplyEnds
<1>4. CASE ~ (Knows2(e) /\ ~ dialogs[e].answer2)
  <2>1. UNCHANGED job
    BY <1>4, Zenon DEF InviteAnswer2
  <2>2. WorkChain'
    BY <1>2, <2>1, WorkDone DEF IsIdle
  <2>3. PICK d : d = Dialog2(e)
    OBVIOUS
  <2>4. \A c \in Call \ Monitor, f \in Live :
           Holds(f, c) /\ WaitsFor(c, f, d) => WorkedOn(c)' \/ Pending(d)'
    BY <1>4, <2>3, WaitsIn DEF Knows2
  <2> QED
    BY <1>2, <1>3, <2>2, <2>3, <2>4, ChainReply
<1>5. CASE Knows2(e) /\ ~ dialogs[e].answer2
  <2>1. PICK i : i = StreamInfo(e)
    OBVIOUS
  <2>2. i.entry = e /\ i.call = FirstCall(e)
    BY <2>1 DEF StreamInfo, PlayInfo
  <2>3. Begin("worker", "answer2", i)
    BY <1>5, <2>1, Zenon DEF InviteAnswer2
  <2>4. job'["worker"].step = "answer2" /\ job'["worker"].info = i
    BY <1>1, <2>3, WorkerBegins
  <2>5. e \in Live /\ FirstCall(e) \in Call /\ Holds(e, FirstCall(e))
    BY <1>1, <1>5, CopyOfTable DEF Knows2
  <2>6. \A f \in Live : Holds(f, i.call) => f = e
    BY <1>1, <2>2, <2>5, OneStream
  <2>7. WorkChain'
    <3>1. /\ Live' = Live
          /\ \A f, x : Holds(f, x)' = Holds(f, x)
          /\ \A f : FirstCall(f)' = FirstCall(f)
      BY <1>2 DEF Live, Holds, FirstCall
    <3>2. /\ i.entry \in Live' => ~ dialogs'[i.entry].answer2
          /\ \A f \in Live' : Holds(f, i.call)' => f = i.entry /\ FirstCall(f)' = i.call
      BY <1>2, <1>5, <2>2, <2>6, <3>1
    <3> QED
      BY <2>4, <3>2 DEF WorkChain
  <2>8. PICK d : d = Dialog2(e)
    OBVIOUS
  <2>9. ASSUME NEW c \in Call \ Monitor, NEW f \in Live, Holds(f, c), WaitsFor(c, f, d)
        PROVE  WorkedOn(c)'
    <3>1. WaitsFor(c, f, Dialog2(e))
      BY <2>8, <2>9
    <3>2. FirstCall(e) = c /\ legs[c].call4 = 0
      BY <3>1, WaitsIn
    <3> QED
      BY <1>2, <2>2, <2>4, <3>2 DEF WorkedOn, IsIdle
  <2> QED
    BY <1>2, <1>3, <2>7, <2>8, <2>9, ChainReply
<1> QED
  BY <1>4, <1>5

LEMMA ChainAnswer3 ==
    ASSUME ChainInv, NEW e \in Entry, NEW k \in 1 .. MaxInvite, InviteAnswer3(e, k)
    PROVE  ChainParts'
<1>1. ChainParts /\ BaseInv
  BY DEF ChainInv, AskedInv
<1>2. /\ IsIdle("worker") /\ UNCHANGED <<cams, dialogs, legs, sent>>
      /\ Reply("ok", Dialog3(e, k))
  BY DEF InviteAnswer3, Received, tableVars
<1>3. \A x : Pending(x) => Pending(x)' \/ x = Dialog3(e, k)
  BY <1>2, ReplyEnds
<1>4. PICK d : d = Dialog3(e, k)
  OBVIOUS
<1>5. CASE ~ (Knows3(e, k) /\ ~ dialogs[e].answer3)
  <2>1. UNCHANGED job
    BY <1>5, Zenon DEF InviteAnswer3
  <2>2. WorkChain'
    BY <1>2, <2>1, WorkDone DEF IsIdle
  <2>3. \A c \in Call \ Monitor, f \in Live :
           Holds(f, c) /\ WaitsFor(c, f, d) => WorkedOn(c)' \/ Pending(d)'
    <3> SUFFICES ASSUME NEW c, NEW f \in Live, WaitsFor(c, f, Dialog3(e, k))
                 PROVE  FALSE
      BY <1>4
    <3>1. f = e /\ dialogs[f].call3 = k /\ ~ dialogs[f].answer3
      BY WaitsIn
    <3> QED
      BY <1>5, <3>1 DEF Knows3
  <2> QED
    BY <1>2, <1>3, <1>4, <2>2, <2>3, ChainReply
<1>6. CASE Knows3(e, k) /\ ~ dialogs[e].answer3
  <2>1. PICK i : i = StreamInfo(e)
    OBVIOUS
  <2>2. i.entry = e /\ i.call = FirstCall(e)
    BY <2>1 DEF StreamInfo, PlayInfo
  <2>3. Begin("worker", "answer3", i)
    BY <1>6, <2>1, Zenon DEF InviteAnswer3
  <2>4. job'["worker"].step = "answer3" /\ job'["worker"].info = i
    BY <1>1, <2>3, WorkerBegins
  <2>5. e \in Live /\ dialogs[e].call3 # 0
    BY <1>6 DEF Knows3
  <2>6. WorkChain'
    <3>1. Live' = Live /\ \A f, x : Holds(f, x)' = Holds(f, x)
      BY <1>2 DEF Live, Holds
    <3>2. dialogs[e].answer2
      BY <1>1, <2>5 DEF ChainParts, DialogOrder
    <3>3. \A x \in Call : Holds(e, x) /\ legs[x].call4 = 0 => x = i.call
      BY <1>1, <1>2, <2>2, <2>5 DEF ChainParts, FirstOnly, IsIdle
    <3>4. /\ i.entry \in Live' => dialogs'[i.entry].answer2
          /\ \A x \in Call :
                i.entry \in Live' /\ Holds(i.entry, x)' /\ legs'[x].call4 = 0 => x = i.call
      BY <1>2, <2>2, <3>1, <3>2, <3>3
    <3> QED
      BY <2>4, <3>4 DEF WorkChain
  <2>7. ASSUME NEW c \in Call \ Monitor, NEW f \in Live, Holds(f, c), WaitsFor(c, f, d)
        PROVE  WorkedOn(c)'
    <3>1. WaitsFor(c, f, Dialog3(e, k))
      BY <1>4, <2>7
    <3>2. FirstCall(e) = c /\ legs[c].call4 = 0
      <4>1. f = e /\ FirstCall(f) = c /\ legs[c].call4 = 0
        BY <3>1, WaitsIn
      <4> QED
        BY <4>1
    <3> QED
      BY <1>2, <2>2, <2>4, <3>2 DEF WorkedOn, IsIdle
  <2> QED
    BY <1>2, <1>3, <1>4, <2>6, <2>7, ChainReply
<1> QED
  BY <1>5, <1>6

\* The handlers that copy the call they go on with, or end it.
LEMMA ChainCopies ==
    ASSUME ChainInv, IsIdle("worker"), UNCHANGED <<cams, dialogs, legs, sent>>, NEW d,
           \A x : Pending(x) => Pending(x)' \/ x = d,
           NEW step \in {"answer4"} \cup Releases, NEW c,
           \/ /\ UNCHANGED job
              /\ \A x \in Call \ Monitor, f \in Live :
                    ~ (Holds(f, x) /\ WaitsFor(x, f, d)) \/ Pending(d)'
           \/ /\ \E info : Begin("worker", step, info) /\ info.call = c
              /\ \A x \in Call \ Monitor, f \in Live :
                    Holds(f, x) /\ WaitsFor(x, f, d) => x = c \/ Pending(d)'
    PROVE  ChainParts'
<1>1. BaseInv
  BY DEF ChainInv, AskedInv
<1>2. CASE /\ UNCHANGED job
           /\ \A x \in Call \ Monitor, f \in Live :
                 ~ (Holds(f, x) /\ WaitsFor(x, f, d)) \/ Pending(d)'
  <2>1. WorkChain'
    BY <1>2, WorkDone DEF IsIdle
  <2> QED
    BY <1>2, <2>1, ChainReply
<1>3. CASE /\ \E info : Begin("worker", step, info) /\ info.call = c
           /\ \A x \in Call \ Monitor, f \in Live :
                 Holds(f, x) /\ WaitsFor(x, f, d) => x = c \/ Pending(d)'
  <2>1. PICK info : Begin("worker", step, info) /\ info.call = c
    BY <1>3
  <2>2. job'["worker"].step = step /\ job'["worker"].info.call = c
    BY <1>1, <2>1, WorkerBegins
  <2>3. WorkChain'
    BY <2>2, WorkDone
  <2>4. WorkedOn(c)'
    BY <2>2 DEF WorkedOn, IsIdle, Releases
  <2>5. \A x \in Call \ Monitor, f \in Live :
           Holds(f, x) /\ WaitsFor(x, f, d) => WorkedOn(x)' \/ Pending(d)'
    BY <1>3, <2>4
  <2> QED
    BY <2>3, <2>5, ChainReply
<1> QED
  BY <1>2, <1>3

LEMMA ChainAnswer4 ==
    ASSUME ChainInv, NEW c \in Call, NEW k \in 1 .. MaxInvite, InviteAnswer4(c, k)
    PROVE  ChainParts'
<1>1. /\ IsIdle("worker") /\ UNCHANGED <<cams, dialogs, legs, sent>>
      /\ Reply("ok", Dialog4(c, k))
  BY DEF InviteAnswer4, Received, tableVars
<1>2. PICK d : d = Dialog4(c, k)
  OBVIOUS
<1>3. \A x : Pending(x) => Pending(x)' \/ x = d
  BY <1>1, <1>2, ReplyEnds
<1>4. ASSUME NEW x \in Call \ Monitor, NEW f \in Live, Holds(f, x), WaitsFor(x, f, d)
      PROVE  x = c /\ Knows4(c, k) /\ legs[c].answer = 0
  <2>1. WaitsFor(x, f, Dialog4(c, k))
    BY <1>2, <1>4
  <2>2. x = c /\ legs[x].call4 = k /\ legs[x].answer = 0
    BY <2>1, WaitsIn
  <2> QED
    BY <1>4, <2>2 DEF Knows4, InTable
<1>5. CASE Knows4(c, k) /\ legs[c].answer = 0
  <2>1. PICK step, info : step = "answer4" /\ info = LegInfo(c) /\ info.call = c
    <3>1. PICK info : info = LegInfo(c)
      OBVIOUS
    <3> QED
      BY <3>1 DEF LegInfo, PlayInfo
  <2>2. Begin("worker", step, info)
    BY <1>5, <2>1, Zenon DEF InviteAnswer4
  <2>3. \E i : Begin("worker", step, i) /\ i.call = c
    BY <2>1, <2>2
  <2>4. \A x \in Call \ Monitor, f \in Live : Holds(f, x) /\ WaitsFor(x, f, d) => x = c
    BY <1>4
  <2>5. step \in {"answer4"} \cup Releases
    BY <2>1
  <2> QED
    BY <1>1, <1>3, <2>3, <2>4, <2>5, ChainCopies, Zenon
<1>6. CASE ~ (Knows4(c, k) /\ legs[c].answer = 0)
  <2>1. UNCHANGED job
    BY <1>6, Zenon DEF InviteAnswer4
  <2>2. PICK step : step = "answer4"
    OBVIOUS
  <2> QED
    BY <1>1, <1>3, <1>4, <1>6, <2>1, <2>2, ChainCopies
<1> QED
  BY <1>5, <1>6

\* A message that answers no INVITE.
LEMMA ChainNoReply ==
    ASSUME ChainInv, IsIdle("worker"), UNCHANGED <<cams, dialogs, legs, sent>>, NEW y,
           \A x : Pending(x) => Pending(x)' \/ x = Dialog5(y),
           NEW step \in {"answer4"} \cup Releases,
           UNCHANGED job \/ \E info : Begin("worker", step, info)
    PROVE  ChainParts'
<1>1. PICK d : d = Dialog5(y)
  OBVIOUS
<1>2. \A x, f : ~ WaitsFor(x, f, d)
  BY <1>1, WaitsIn
<1>3. \A x : Pending(x) => Pending(x)' \/ x = d
  BY <1>1
<1>4. CASE UNCHANGED job
  <2>1. PICK c : c = 0
    OBVIOUS
  <2> QED
    BY <1>2, <1>3, <1>4, <2>1, ChainCopies
<1>5. ASSUME NEW info, Begin("worker", step, info)
      PROVE  ChainParts'
  <2>1. PICK c : info.call = c
    OBVIOUS
  <2> QED
    BY <1>2, <1>3, <1>5, <2>1, ChainCopies
<1> QED
  BY <1>4, <1>5

LEMMA ChainMessages ==
    ASSUME ChainInv,
           \/ \E c \in Call : InviteAnswer5(c)
           \/ \E c \in Call : CancelMsgRecv(c) \/ ByeMsgRecv(c)
           \/ PeerByeMsgRecv
    PROVE  ChainParts'
<1> DEFINE Same == IsIdle("worker") /\ UNCHANGED <<cams, dialogs, legs, sent>>
           Ends(step) == UNCHANGED job \/ \E info : Begin("worker", step, info)
<1>1. ASSUME NEW c \in Call, InviteAnswer5(c)
      PROVE  ChainParts'
  <2>1. Same /\ UNCHANGED job /\ Reply("ok", Dialog5(c))
    BY <1>1 DEF InviteAnswer5, Received, tableVars
  <2>2. \A x : Pending(x) => Pending(x)' \/ x = Dialog5(c)
    BY <2>1, ReplyEnds
  <2>3. PICK step : step = "answer4"
    OBVIOUS
  <2> QED
    BY <2>1, <2>2, <2>3, ChainNoReply
<1>2. ASSUME UNCHANGED said, Same, NEW step \in Releases, Ends(step)
      PROVE  ChainParts'
  <2>1. \A x : Pending(x) => Pending(x)'
    BY <1>2 DEF Pending, Invited
  <2>2. PICK y : y = 0
    OBVIOUS
  <2> QED
    BY <1>2, <2>1, <2>2, ChainNoReply
<1>3. ASSUME NEW c \in Call, CancelMsgRecv(c) \/ ByeMsgRecv(c)
      PROVE  ChainParts'
  <2>1. PICK step \in {"cancel", "bye"} : ClientLeaves(c, step)
    BY <1>3, Zenon DEF CancelMsgRecv, ByeMsgRecv
  <2>2. Same /\ UNCHANGED said
    BY <2>1 DEF ClientLeaves, tableVars
  <2>3. Ends(step)
    BY <2>1, Zenon DEF ClientLeaves
  <2>4. step \in Releases
    BY <2>1 DEF Releases
  <2> QED
    BY <1>2, <2>2, <2>3, <2>4
<1>4. ASSUME PeerByeMsgRecv
      PROVE  ChainParts'
  <2>1. Same /\ UNCHANGED said
    BY <1>4 DEF PeerByeMsgRecv, Received, tableVars
  <2>2. PICK step \in {"hangup", "hangup2"} : \E info : Begin("worker", step, info)
    BY <1>4, Zenon DEF PeerByeMsgRecv
  <2>3. step \in Releases
    BY <2>2 DEF Releases
  <2> QED
    BY <1>2, <2>1, <2>2, <2>3
<1> QED
  BY <1>1, <1>3, <1>4

LEMMA ChainFailure ==
    ASSUME ChainInv, InviteFailure
    PROVE  ChainParts'
<1>1. IsIdle("worker") /\ UNCHANGED <<cams, dialogs, legs, sent>>
  BY DEF InviteFailure, Received, tableVars
<1>2. PICK step : step = "failure" /\ step \in Releases
  BY DEF Releases
<1>3. ASSUME NEW e \in Entry, Reply("reject", Dialog2(e)),
             IF Knows2(e) THEN Begin("worker", "failure", StreamInfo(e)) ELSE UNCHANGED job
      PROVE  ChainParts'
  <2>1. PICK d, c, info : d = Dialog2(e) /\ c = FirstCall(e) /\ info = StreamInfo(e)
    OBVIOUS
  <2>2. \A x : Pending(x) => Pending(x)' \/ x = d
    BY <1>1, <1>3, <2>1, ReplyEnds
  <2>3. \A x \in Call \ Monitor, f \in Live : WaitsFor(x, f, d) => x = c /\ Knows2(e)
    <3> SUFFICES ASSUME NEW x, NEW f \in Live, WaitsFor(x, f, Dialog2(e))
                 PROVE  x = c /\ Knows2(e)
      BY <2>1
    <3>1. f = e /\ dialogs[f].msg2 /\ FirstCall(f) = x
      BY WaitsIn
    <3> QED
      BY <2>1, <3>1 DEF Knows2
  <2>4. info.call = c
    BY <2>1 DEF StreamInfo, PlayInfo
  <2>5. CASE Knows2(e)
    BY <1>1, <1>2, <1>3, <2>1, <2>2, <2>3, <2>4, <2>5, ChainCopies
  <2>6. CASE ~ Knows2(e)
    BY <1>1, <1>2, <1>3, <2>2, <2>3, <2>6, ChainCopies
  <2> QED
    BY <2>5, <2>6
<1>4. ASSUME NEW e \in Entry, NEW k \in 1 .. MaxInvite, Reply("reject", Dialog3(e, k)),
             IF Knows3(e, k)
               THEN Begin("worker", "failure", [StreamInfo(e) EXCEPT !.answer3 = TRUE])
               ELSE UNCHANGED job
      PROVE  ChainParts'
  <2>1. PICK d, c, info : /\ d = Dialog3(e, k) /\ c = FirstCall(e)
                          /\ info = [StreamInfo(e) EXCEPT !.answer3 = TRUE]
    OBVIOUS
  <2>2. \A x : Pending(x) => Pending(x)' \/ x = d
    BY <1>1, <1>4, <2>1, ReplyEnds
  <2>3. \A x \in Call \ Monitor, f \in Live : WaitsFor(x, f, d) => x = c /\ Knows3(e, k)
    <3> SUFFICES ASSUME NEW x, NEW f \in Live, WaitsFor(x, f, Dialog3(e, k))
                 PROVE  x = c /\ Knows3(e, k)
      BY <2>1
    <3>1. f = e /\ dialogs[f].call3 = k /\ FirstCall(f) = x
      BY WaitsIn
    <3> QED
      BY <2>1, <3>1 DEF Knows3
  <2>4. info.call = c
    BY <2>1 DEF StreamInfo, PlayInfo
  <2>5. CASE Knows3(e, k)
    <3>1. Begin("worker", "failure", [StreamInfo(e) EXCEPT !.answer3 = TRUE])
      BY <1>4, <2>5
    <3>2. Begin("worker", step, info)
      BY <1>2, <2>1, <3>1, Zenon
    <3> QED
      BY <1>1, <1>2, <2>2, <2>3, <2>4, <3>2, ChainCopies
  <2>6. CASE ~ Knows3(e, k)
    BY <1>1, <1>2, <1>4, <2>2, <2>3, <2>6, ChainCopies
  <2> QED
    BY <2>5, <2>6
<1>5. ASSUME NEW c \in Call, NEW k \in 1 .. MaxInvite, Reply("reject", Dialog4(c, k)),
             IF Knows4(c, k) THEN Begin("worker", "failure", LegInfo(c)) ELSE UNCHANGED job
      PROVE  ChainParts'
  <2>1. PICK d, info : d = Dialog4(c, k) /\ info = LegInfo(c)
    OBVIOUS
  <2>2. \A x : Pending(x) => Pending(x)' \/ x = d
    BY <1>1, <1>5, <2>1, ReplyEnds
  <2>3. \A x \in Call \ Monitor, f \in Live :
           Holds(f, x) /\ WaitsFor(x, f, d) => x = c /\ Knows4(c, k)
    <3> SUFFICES ASSUME NEW x, NEW f \in Live, Holds(f, x), WaitsFor(x, f, Dialog4(c, k))
                 PROVE  x = c /\ Knows4(c, k)
      BY <2>1
    <3>1. x = c /\ legs[x].call4 = k
      BY WaitsIn
    <3> QED
      BY <3>1 DEF Knows4, InTable
  <2>4. info.call = c
    BY <2>1 DEF LegInfo, PlayInfo
  <2>5. CASE Knows4(c, k)
    BY <1>1, <1>2, <1>5, <2>1, <2>2, <2>3, <2>4, <2>5, ChainCopies
  <2>6. CASE ~ Knows4(c, k)
    BY <1>1, <1>2, <1>5, <2>2, <2>3, <2>6, ChainCopies
  <2> QED
    BY <2>5, <2>6
<1> QED
  BY <1>3, <1>4, <1>5, Zenon DEF InviteFailure

(***************************************************************************)
(* All steps.                                                              *)
(***************************************************************************)
LEMMA ChainStep ==
    ASSUME ChainInv, [Next]_vars
    PROVE  ChainInv'
<1>1. AskedInv'
  BY AskedStep DEF ChainInv
<1> SUFFICES ChainParts'
  BY <1>1 DEF ChainInv
<1>2. CASE InviteSend \/ InviteCamera \/ ForwardStream
  BY <1>2, ChainInviteSend, ChainInviteCamera, ChainForwardStream
<1>3. CASE ~ InviteSend /\ ~ InviteCamera /\ ~ ForwardStream
  <2>1. \A d : Invited(d)' = Invited(d)
    BY <1>3, InvitesSame
  <2>2. ASSUME UNCHANGED <<dialogs, legs, said>>, job'["worker"] = job["worker"],
               UNCHANGED cams \/ \E s \in Server : GetRTPStreamInfo(s)
        PROVE  ChainParts'
    BY <2>1, <2>2, ChainBeside
  <2>3. CASE UNCHANGED vars
    BY <2>2, <2>3 DEF vars, flowVars, tableVars
  <2>4. ASSUME NEW c \in Call, InviteMsgRecv(c)
        PROVE  ChainParts'
    <3>1. ~ InTable(c) /\ IsIdle("worker") /\ UNCHANGED said
      BY <2>4 DEF InviteMsgRecv
    <3>2. CASE InviteRefused(c) \/ InviteDropped(c)
      BY <2>2, <3>1, <3>2 DEF InviteRefused, InviteDropped, tableVars
    <3> QED
      BY <2>4, <3>1, <3>2, ChainJoins, ChainPlaces DEF InviteMsgRecv
  <2>5. ASSUME NEW c \in Call, InviteRepeated(c) \/ InviteAckRecv(c)
        PROVE  ChainParts'
    BY <2>2, <2>5 DEF InviteRepeated, InviteAckRecv, tableVars
  <2>6. ASSUME NEW t \in Thread, NEW step, NEW info, t # "worker", Begin(t, step, info)
        PROVE  job'["worker"] = job["worker"]
    <3>1. job = [u \in Thread |-> job[u]] /\ "worker" \in Thread \ {t}
      BY <2>6 DEF ChainInv, AskedInv, BaseInv, FlowInv, Thread
    <3> QED
      BY <2>6, <3>1, BeginFacts
  <2>7. ASSUME NEW e \in Entry, NEW k \in 1 .. MaxInvite, ReplayMediaStatusRecv(e, k)
        PROVE  ChainParts'
    <3>1. PICK info : Begin("media", "mediaend", info)
      BY <2>7 DEF ReplayMediaStatusRecv
    <3>2. job'["worker"] = job["worker"]
      BY <2>6, <3>1 DEF Thread
    <3> QED
      BY <2>2, <2>7, <3>2 DEF ReplayMediaStatusRecv, Received, tableVars
  <2>8. ASSUME SweepNext
        PROVE  ChainParts'
    <3>1. UNCHANGED job \/ \E info : Begin("sweeper", "sweep", info)
      BY <2>8, Zenon DEF SweepNext
    <3>2. job'["worker"] = job["worker"]
      BY <2>6, <3>1 DEF Thread
    <3> QED
      BY <2>2, <2>8, <3>2 DEF SweepNext, tableVars
  <2>9. ASSUME NEW s \in Server,
               CheckRTPStreamAction(s) \/ SetRTPServerStatus(s) \/ GetRTPStreamInfo(s)
        PROVE  ChainParts'
    <3>1. UNCHANGED <<dialogs, legs, said, job>>
      BY <2>9 DEF CheckRTPStreamAction, SetRTPServerStatus, GetRTPStreamInfo, flowVars
    <3>2. UNCHANGED cams \/ GetRTPStreamInfo(s)
      BY <2>9 DEF CheckRTPStreamAction, SetOffline, SetRTPServerStatus, SetOnline
    <3> QED
      BY <2>2, <3>1, <3>2
  <2>10. CASE Continue
    BY <1>3, <2>1, <2>10, ChainAckCamera, ChainAnswerClient, ChainReleases DEF Continue
  <2>11. CASE Next /\ ~ Continue
    BY <2>4, <2>5, <2>7, <2>8, <2>9, <2>11, ChainAnswer2, ChainAnswer3, ChainAnswer4,
       ChainMessages, ChainFailure DEF Next
  <2> QED
    BY <2>3, <2>10, <2>11
<1> QED
  BY <1>2, <1>3

\* A call in the table that was not answered always has its next move, under
\* every fault, however often a message is repeated and whoever ends calls
\* beside the worker: the safety that the progress of the chain rests on.
THEOREM ChainStaysUnbroken == Spec => []ChainUnbroken
<1>1. Init => ChainInv
  <2> SUFFICES ASSUME Init
               PROVE  ChainInv
    OBVIOUS
  <2>1. /\ cams = [e \in Entry |-> NoCam] /\ born = {} /\ sent = {} /\ said = {}
        /\ legs = [c \in Call |-> NoLeg] /\ job = [t \in Thread |-> Idle]
        /\ dialogs = [e \in Entry |-> NoDialog]
    BY DEF Init
  <2>2. BaseInv
    BY InitWorker DEF WorkerInv
  <2>3. Live = {} /\ job["worker"].step = "idle" /\ \A d : ~ Invited(d)
    BY <2>1 DEF Live, Thread, Idle, Invited
  <2>4. CamInv
    <3>1. dialogs \in Dialogs
      BY <2>1 DEF Dialogs, DialogRec, NoDialog
    <3>2. job = [t \in Thread |-> job[t]]
      BY <2>1
    <3> QED
      BY <2>1, <2>2, <2>3, <3>1, <3>2 DEF CamInv, BaseInv, FlowInv, CameraAsked
  <2>5. SaidAsked /\ BornAsked
    BY <2>1, <2>3 DEF SaidAsked, BornAsked
  <2>6. Numbered
    <3>1. ASSUME NEW c \in Call
          PROVE  NumberedTo(c, 0)
      <4>1. \A k \in 1 .. MaxInvite : ~ (k <= 0)
        BY FlowAssumption
      <4> QED
        BY <2>3, <4>1 DEF NumberedTo
    <3>2. 0 \in 0 .. MaxInvite
      BY FlowAssumption
    <3> QED
      BY <3>1, <3>2 DEF Numbered
  <2>7. ChainParts
    <3>1. DialogOrder /\ FirstOnly /\ Chained
      BY <2>3 DEF DialogOrder, FirstOnly, Chained
    <3>2. AnswerTold
      BY <2>1 DEF AnswerTold, NoLeg
    <3>3. WorkChain
      BY <2>3 DEF WorkChain
    <3> QED
      BY <3>1, <3>2, <3>3 DEF ChainParts
  <2> QED
    BY <2>2, <2>4, <2>5, <2>6, <2>7 DEF ChainInv, AskedInv
<1>2. ChainInv /\ [Next]_vars => ChainInv'
  BY ChainStep
<1>3. ChainInv => ChainUnbroken
  BY ChainHolds
<1> QED
  BY <1>1, <1>2, <1>3, PTL DEF Spec
=============================================================================

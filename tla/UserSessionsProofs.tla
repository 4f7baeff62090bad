------------------------- MODULE UserSessionsProofs -------------------------
(***************************************************************************)
(* What a logout gives back and what it spares, and that a camera is only  *)
(* controlled by right: for any users, calls, cameras and levels, while    *)
(* calls end and servers come and go at any step of the logout.            *)
(***************************************************************************)
EXTENDS UserSessions, StreamTableProofs

(***************************************************************************)
(* What a logout takes out of the table.                                   *)
(***************************************************************************)
\* Each call is given back on its own.
LEMMA ReduceSpares ==
    ASSUME TableTypeOK, NTranmitExact, NEW c \in Call, Reduce(c),
           NEW x \in Call, x # c, InTable(x)
    PROVE  InTable(x)'
  BY DeletesOne DEF Reduce

(***************************************************************************)
(* The inductive invariant.                                                *)
(***************************************************************************)
\* Whose logout is in progress is no longer registered; the call it has found
\* is its own; and when it found none, it has none until the end.
ClearingOwn ==
    clear # NoOne =>
        /\ clear.user \in known \ reg
        /\ clear.step = "reduce" => UserOf[clear.call] = clear.user
        /\ clear.step = "locks" => CallsOf(clear.user) = {}

\* A control message in progress is still allowed.
ControlAllowed == ptz # NoOne => MayControl(ptz.user, ptz.camera, ptz.level)

HoldInv ==
    /\ UserTypeOK
    /\ NTranmitExact
    /\ ClearingOwn
    /\ ControlAllowed
    /\ LogoutClears

LEMMA InitHold == Init => HoldInv
<1> SUFFICES ASSUME Init PROVE HoldInv
  OBVIOUS
<1>1. TableTypeOK /\ NTranmitExact
  BY InitType DEF Init
<1>2. UserTypeOK
  BY <1>1 DEF Init, UserTypeOK
<1>3. ClearingOwn /\ ControlAllowed /\ LogoutClears
  BY DEF Init, ClearingOwn, ControlAllowed, LogoutClears
<1> QED
  BY <1>1, <1>2, <1>3 DEF HoldInv

LEMMA TableKept ==
    ASSUME UNCHANGED tableVars, NEW x
    PROVE  InTable(x)' <=> InTable(x)
  BY DEF tableVars, InTable, Live, Holds

\* The steps that leave the table as it is.
LEMMA QuietSteps ==
    /\ \A u \in User : Register(u) \/ TimeOut(u) \/ Unregister(u) \/ UnregisterOpen(u) => UNCHANGED tableVars
    /\ FindStream \/ EraseLocks \/ PTZMsgRecv \/ PTZControlSend => UNCHANGED tableVars
<1>1. \A u \in User : Register(u) \/ TimeOut(u) \/ Unregister(u) \/ UnregisterOpen(u) => UNCHANGED tableVars
  BY DEF Register, TimeOut, Unregister, UnregisterOpen
<1>2. FindStream \/ EraseLocks \/ PTZControlSend => UNCHANGED tableVars
  BY DEF FindStream, EraseLocks, PTZControlSend
<1>3. PTZMsgRecv => UNCHANGED tableVars
  BY DEF PTZMsgRecv, LockCam, UnlockCam, ControlCam
<1> QED
  BY <1>1, <1>2, <1>3

\* Every step changes the table by one of its operations or not at all.
LEMMA HoldSteps ==
    ASSUME HoldInv, [Next]_vars
    PROVE  [TableNext]_tableVars
<1>1. CASE UNCHANGED vars
  BY <1>1 DEF vars
<1>2. CASE ReduceStream
  <2>1. CASE Reduce(clear.call)
    <3>1. PICK e \in Live : DeleteStream(e, clear.call, FALSE) \/ DeleteLeg(e, clear.call)
      BY <2>1 DEF Reduce
    <3>2. clear.call \in Call
      BY <1>2 DEF ReduceStream, HoldInv, UserTypeOK
    <3>3. ReduceRTPTotal(clear.call)
      BY <3>1 DEF ReduceRTPTotal
    <3> QED
      BY <3>2, <3>3 DEF TableNext
  <2> QED
    BY <1>2, <2>1 DEF ReduceStream
<1>3. ASSUME NEW c \in Call, InviteMsgRecv(c) \/ EndCall(c)
      PROVE  [TableNext]_tableVars
  BY <1>3 DEF InviteMsgRecv, EndCall, TableNext
<1>4. ASSUME NEW s \in Server, GetRTPStreamInfo(s) \/ SetRTPServerStatus(s)
      PROVE  [TableNext]_tableVars
  BY <1>4 DEF GetRTPStreamInfo, SetRTPServerStatus, TableNext
<1> QED
  BY <1>1, <1>2, <1>3, <1>4, QuietSteps DEF Next, ClearUserStream

\* A call only comes into the table by its INVITE.
LEMMA OnlyInvites ==
    ASSUME HoldInv, [Next]_vars, NEW x \in Call, InTable(x)'
    PROVE  InTable(x) \/ InviteMsgRecv(x)
<1> TableTypeOK
  BY DEF HoldInv, UserTypeOK
<1>1. CASE UNCHANGED tableVars
  BY <1>1, TableKept
<1>2. CASE ReduceStream
  <2>1. CASE Reduce(clear.call)
    <3>1. PICK e \in Live : DeleteStream(e, clear.call, FALSE) \/ DeleteLeg(e, clear.call)
      BY <2>1 DEF Reduce
    <3>2. clear.call \in Call
      BY <1>2 DEF ReduceStream, HoldInv, UserTypeOK
    <3> QED
      BY <3>1, <3>2, DeletesOnly
  <2> QED
    BY <1>1, <1>2, <2>1 DEF ReduceStream
<1>3. ASSUME NEW c \in Call, InviteMsgRecv(c)
      PROVE  InTable(x) \/ InviteMsgRecv(x)
  BY <1>3, PlacesOnly DEF InviteMsgRecv
<1>4. ASSUME NEW c \in Call, EndCall(c)
      PROVE  InTable(x)
  <2>1. PICK e \in Live : \/ \E d \in BOOLEAN : DeleteStream(e, c, d)
                          \/ DeleteLeg(e, c)
    BY <1>4 DEF EndCall, ReduceRTPTotal
  <2> QED
    BY <2>1, DeletesOnly
<1>5. ASSUME NEW s \in Server, GetRTPStreamInfo(s) \/ SetRTPServerStatus(s)
      PROVE  InTable(x)
  BY <1>5, ServersOnly DEF GetRTPStreamInfo, SetRTPServerStatus
<1>6. CASE UNCHANGED vars
  BY <1>1, <1>6 DEF vars
<1> QED
  BY <1>1, <1>2, <1>3, <1>4, <1>5, <1>6, QuietSteps DEF Next, ClearUserStream

(***************************************************************************)
(* Every step keeps it.                                                    *)
(***************************************************************************)
\* The steps that touch neither who is registered nor what is in progress.
LEMMA TableOnly ==
    /\ \A c \in Call : InviteMsgRecv(c) =>
          Heard(UserOf[c]) /\ UNCHANGED <<auth, known, reg, lock, clear, ptz>>
    /\ \A c \in Call : EndCall(c) => UNCHANGED userVars
    /\ \A s \in Server : GetRTPStreamInfo(s) \/ SetRTPServerStatus(s) => UNCHANGED userVars
  BY DEF InviteMsgRecv, EndCall, GetRTPStreamInfo, SetRTPServerStatus

\* UserTypeOK without what it says of the table.
UsersTyped ==
    /\ auth \in BOOLEAN
    /\ known \subseteq User
    /\ reg \subseteq known
    /\ lock \in [Camera -> Lock \cup {NoOne}]
    /\ clear \in Clearing \cup {NoOne}
    /\ clear # NoOne /\ clear.step = "reduce" => clear.call \in Call
    /\ ptz \in Control \cup {NoOne}
    /\ gone \subseteq known \ reg
    /\ timedOut \subseteq known \ reg

LEMMA StepUserType ==
    ASSUME HoldInv, [Next]_vars
    PROVE  UserTypeOK' /\ NTranmitExact'
<1>1. TableTypeOK' /\ NTranmitExact'
  BY HoldSteps, StepType DEF HoldInv, UserTypeOK
<1>2. UsersTyped /\ ClearingOwn
  BY DEF HoldInv, UserTypeOK, UsersTyped
<1> USE <1>2 DEF UsersTyped
<1>3. ASSUME NEW u \in User, Register(u) \/ TimeOut(u) \/ UnregisterOpen(u)
      PROVE  UsersTyped'
  BY <1>3 DEF Register, TimeOut, UnregisterOpen, Heard
<1>4. ASSUME NEW u \in User, Unregister(u)
      PROVE  UsersTyped'
  <2>1. clear' \in Clearing /\ clear'.step = "find"
    BY <1>4 DEF Unregister, Clearing
  <2> QED
    BY <1>4, <2>1 DEF Unregister, Heard
<1>5. ASSUME FindStream
      PROVE  UsersTyped'
  <2>1. UNCHANGED <<auth, known, reg, lock, ptz, gone, timedOut>> /\ clear \in Clearing
    BY <1>5 DEF FindStream
  <2>2. clear' \in Clearing /\ (clear'.step = "reduce" => clear'.call \in Call)
    BY <1>5, <2>1 DEF FindStream, Clearing, CallsOf
  <2> QED
    BY <2>1, <2>2
<1>6. ASSUME ReduceStream
      PROVE  UsersTyped'
  <2>1. UNCHANGED <<auth, known, reg, lock, ptz, gone, timedOut>> /\ clear \in Clearing
    BY <1>6 DEF ReduceStream
  <2>2. clear' \in Clearing /\ clear'.step = "find"
    BY <1>6, <2>1 DEF ReduceStream, Cleared, Clearing
  <2> QED
    BY <2>1, <2>2
<1>7. ASSUME EraseLocks
      PROVE  UsersTyped'
  <2>1. clear.user \in known \ reg
    BY <1>7 DEF EraseLocks, ClearingOwn
  <2>2. lock' \in [Camera -> Lock \cup {NoOne}]
    BY <1>7 DEF EraseLocks, Without
  <2> QED
    BY <1>7, <2>1, <2>2 DEF EraseLocks
<1>8. ASSUME NEW u \in User, NEW cam \in Camera, NEW n \in Level,
             LockCam(u, cam, n) \/ UnlockCam(u, cam, n)
      PROVE  UsersTyped'
  <2>1. [user |-> u, level |-> n] \in Lock
    BY DEF Lock
  <2>2. lock' \in [Camera -> Lock \cup {NoOne}]
    BY <1>8, <2>1 DEF LockCam, UnlockCam
  <2> QED
    BY <1>8, <2>2 DEF LockCam, UnlockCam, Heard
<1>9. ASSUME NEW u \in User, NEW cam \in Camera, NEW n \in Level, ControlCam(u, cam, n)
      PROVE  UsersTyped'
  <2>1. ptz' \in Control
    BY <1>9 DEF ControlCam, Control
  <2> QED
    BY <1>9, <2>1 DEF ControlCam, Heard
<1>10. ASSUME PTZControlSend
       PROVE  UsersTyped'
  BY <1>10 DEF PTZControlSend
<1>11. ASSUME NEW c \in Call, InviteMsgRecv(c)
       PROVE  UsersTyped'
  BY <1>11, TableOnly DEF Heard
<1>12. ASSUME UNCHANGED userVars
       PROVE  UsersTyped'
  BY <1>12 DEF userVars
<1>13. UsersTyped'
  BY <1>3, <1>4, <1>5, <1>6, <1>7, <1>8, <1>9, <1>10, <1>11, <1>12, TableOnly
     DEF Next, ClearUserStream, PTZMsgRecv, vars
<1> QED
  BY <1>1, <1>13 DEF UserTypeOK

\* What is in progress stays in order.
LEMMA StepClearing ==
    ASSUME HoldInv, [Next]_vars
    PROVE  ClearingOwn'
<1> USE DEF HoldInv
<1>1. CASE clear' = clear /\ known' = known /\ reg' = reg /\ clear # NoOne
  <2>1. \A c \in Call : ~ InviteMsgRecv(c)
    BY <1>1 DEF InviteMsgRecv
  <2>2. \A c \in Call : InTable(c)' => InTable(c)
    BY <2>1, OnlyInvites
  <2> QED
    BY <1>1, <2>2 DEF ClearingOwn, CallsOf
<1>2. CASE clear' = NoOne
  BY <1>2 DEF ClearingOwn
<1>3. ASSUME NEW u \in User, Unregister(u)
      PROVE  ClearingOwn'
  <2>1. /\ clear'.user = u
        /\ clear'.step = "find"
        /\ u \in known' \ reg'
    BY <1>3 DEF Unregister
  <2> QED
    BY <2>1 DEF ClearingOwn
<1>4. CASE FindStream
  <2>1. /\ clear # NoOne
        /\ known' = known /\ reg' = reg
        /\ \A c \in Call : InTable(c)' <=> InTable(c)
    BY <1>4, TableKept, QuietSteps DEF FindStream
  <2>2. ASSUME NEW c \in CallsOf(clear.user),
               clear' = [user |-> clear.user, step |-> "reduce", call |-> c]
        PROVE  ClearingOwn'
    BY <2>1, <2>2 DEF ClearingOwn, CallsOf
  <2>3. CASE /\ CallsOf(clear.user) = {}
             /\ clear' = [user |-> clear.user, step |-> "locks", call |-> NoOne]
    BY <2>1, <2>3 DEF ClearingOwn, CallsOf
  <2> QED
    BY <1>4, <2>2, <2>3 DEF FindStream
<1>5. CASE ReduceStream
  <2>1. /\ clear # NoOne
        /\ known' = known /\ reg' = reg
        /\ clear'.user = clear.user
        /\ clear'.step = "find"
    BY <1>5 DEF ReduceStream, Cleared
  <2> QED
    BY <2>1 DEF ClearingOwn
<1>6. CASE EraseLocks
  BY <1>2, <1>6 DEF EraseLocks
<1>7. ASSUME NEW u \in User, Register(u) \/ TimeOut(u) \/ UnregisterOpen(u)
      PROVE  clear' = NoOne
  BY <1>7 DEF Register, TimeOut, UnregisterOpen
<1>8. CASE PTZMsgRecv \/ PTZControlSend
  <2>1. clear' = clear /\ known' = known /\ reg' = reg
    BY <1>8 DEF PTZMsgRecv, LockCam, UnlockCam, ControlCam, PTZControlSend
  <2> QED
    BY <1>1, <1>2, <2>1
<1>9. ASSUME NEW c \in Call, InviteMsgRecv(c) \/ EndCall(c)
      PROVE  ClearingOwn'
  BY <1>1, <1>2, <1>9, TableOnly DEF userVars
<1>10. ASSUME NEW s \in Server, GetRTPStreamInfo(s) \/ SetRTPServerStatus(s)
       PROVE  ClearingOwn'
  BY <1>1, <1>2, <1>10, TableOnly DEF userVars
<1>11. CASE UNCHANGED vars
  BY <1>1, <1>2, <1>11 DEF vars, userVars
<1> QED
  BY <1>2, <1>3, <1>4, <1>5, <1>6, <1>7, <1>8, <1>9, <1>10, <1>11
     DEF Next, ClearUserStream

\* No lock is made or taken back while a control message is in progress.
LEMMA StepControl ==
    ASSUME HoldInv, [Next]_vars
    PROVE  ControlAllowed'
<1> USE DEF HoldInv
<1>1. ASSUME UNCHANGED <<lock, ptz>>
      PROVE  ControlAllowed'
  BY <1>1 DEF ControlAllowed, MayControl
<1>2. ASSUME ptz' = NoOne
      PROVE  ControlAllowed'
  BY <1>2 DEF ControlAllowed
<1>3. ASSUME NEW u \in User, Register(u) \/ TimeOut(u) \/ Unregister(u) \/ UnregisterOpen(u)
      PROVE  UNCHANGED <<lock, ptz>>
  BY <1>3 DEF Register, TimeOut, Unregister, UnregisterOpen
<1>4. ASSUME FindStream \/ ReduceStream
      PROVE  UNCHANGED <<lock, ptz>>
  BY <1>4 DEF FindStream, ReduceStream
<1>5. ASSUME EraseLocks \/ PTZControlSend
      PROVE  ptz' = NoOne
  BY <1>5 DEF EraseLocks, PTZControlSend
<1>6. ASSUME NEW u \in User, NEW cam \in Camera, NEW n \in Level,
             LockCam(u, cam, n) \/ UnlockCam(u, cam, n)
      PROVE  ptz' = NoOne
  BY <1>6 DEF LockCam, UnlockCam
<1>7. ASSUME NEW u \in User, NEW cam \in Camera, NEW n \in Level, ControlCam(u, cam, n)
      PROVE  ControlAllowed'
  <2>1. /\ MayControl(u, cam, n)
        /\ lock' = lock
        /\ ptz'.user = u /\ ptz'.camera = cam /\ ptz'.level = n
    BY <1>7 DEF ControlCam
  <2> QED
    BY <2>1 DEF ControlAllowed, MayControl
<1>8. ASSUME NEW c \in Call, InviteMsgRecv(c)
      PROVE  UNCHANGED <<lock, ptz>>
  BY <1>8, TableOnly
<1>9. ASSUME UNCHANGED userVars
      PROVE  UNCHANGED <<lock, ptz>>
  BY <1>9 DEF userVars
<1> QED
  BY <1>1, <1>2, <1>3, <1>4, <1>5, <1>6, <1>7, <1>8, <1>9, TableOnly
     DEF Next, ClearUserStream, PTZMsgRecv, vars

\* The configuration stays.
LEMMA AuthFixed ==
    ASSUME [Next]_vars
    PROVE  auth' = auth
<1>1. ASSUME NEW u \in User, Register(u) \/ TimeOut(u) \/ Unregister(u) \/ UnregisterOpen(u)
      PROVE  auth' = auth
  BY <1>1 DEF Register, TimeOut, Unregister, UnregisterOpen
<1>2. ASSUME ClearUserStream \/ PTZControlSend
      PROVE  auth' = auth
  BY <1>2 DEF ClearUserStream, FindStream, ReduceStream, EraseLocks, PTZControlSend
<1>3. ASSUME PTZMsgRecv
      PROVE  auth' = auth
  BY <1>3 DEF PTZMsgRecv, LockCam, UnlockCam, ControlCam
<1>4. ASSUME NEW c \in Call, InviteMsgRecv(c)
      PROVE  auth' = auth
  BY <1>4, TableOnly
<1>5. ASSUME UNCHANGED userVars
      PROVE  auth' = auth
  BY <1>5 DEF userVars
<1> QED
  BY <1>1, <1>2, <1>3, <1>4, <1>5, TableOnly DEF Next, vars

\* Who left gets nothing back: a call or a lock of its own makes it no longer
\* one of those that left, and the one that leaves now has no call.
LEMMA StepGone ==
    ASSUME HoldInv, [Next]_vars
    PROVE  LogoutClears'
<1> SUFFICES ASSUME auth
             PROVE  LogoutClears'
  BY AuthFixed DEF LogoutClears
<1> USE DEF HoldInv
<1>1. ASSUME NEW u \in gone, u \in gone', NEW c \in Call, UserOf[c] = u
      PROVE  ~ InTable(c)'
  <2>1. ~ InTable(c)
    BY <1>1 DEF LogoutClears, CallsOf
  <2>2. ~ InviteMsgRecv(c)
    BY <1>1 DEF InviteMsgRecv, Heard
  <2> QED
    BY <2>1, <2>2, OnlyInvites
<1>2. ASSUME NEW u \in gone, u \in gone', NEW cam \in Camera, lock'[cam] # NoOne
      PROVE  lock'[cam].user # u
  <2>1. lock[cam] # NoOne => lock[cam].user # u
    BY <1>2 DEF LogoutClears
  <2>2. ASSUME lock' = lock
        PROVE  lock'[cam].user # u
    BY <1>2, <2>1, <2>2
  <2>3. ASSUME EraseLocks
        PROVE  lock'[cam].user # u
    BY <1>2, <2>1, <2>3 DEF EraseLocks, Without
  <2>4. ASSUME NEW v \in User, NEW d \in Camera, NEW n \in Level,
               LockCam(v, d, n) \/ UnlockCam(v, d, n)
        PROVE  lock'[cam].user # u
    <3>1. v # u
      BY <1>2, <2>4 DEF LockCam, UnlockCam, Heard
    <3>2. lock \in [Camera -> Lock \cup {NoOne}]
      BY DEF UserTypeOK
    <3>3. CASE cam # d
      <4>1. lock'[cam] = lock[cam]
        BY <2>4, <3>2, <3>3 DEF LockCam, UnlockCam
      <4> QED
        BY <1>2, <2>1, <4>1
    <3>4. CASE cam = d
      <4>1. lock'[cam] = [user |-> v, level |-> n] \/ lock'[cam] = NoOne
        BY <2>4, <3>2, <3>4 DEF LockCam, UnlockCam
      <4> QED
        BY <1>2, <3>1, <4>1
    <3> QED
      BY <3>3, <3>4
  <2>5. ASSUME NEW v \in User, Register(v) \/ TimeOut(v) \/ Unregister(v) \/ UnregisterOpen(v)
        PROVE  lock' = lock
    BY <2>5 DEF Register, TimeOut, Unregister, UnregisterOpen
  <2>6. ASSUME FindStream \/ ReduceStream \/ PTZControlSend
        PROVE  lock' = lock
    BY <2>6 DEF FindStream, ReduceStream, PTZControlSend
  <2>7. ASSUME NEW v \in User, NEW d \in Camera, NEW n \in Level, ControlCam(v, d, n)
        PROVE  lock' = lock
    BY <2>7 DEF ControlCam
  <2>8. ASSUME NEW c \in Call, InviteMsgRecv(c)
        PROVE  lock' = lock
    BY <2>8, TableOnly
  <2>9. ASSUME UNCHANGED userVars
        PROVE  lock' = lock
    BY <2>9 DEF userVars
  <2> QED
    BY <2>2, <2>3, <2>4, <2>5, <2>6, <2>7, <2>8, <2>9, TableOnly
       DEF Next, ClearUserStream, PTZMsgRecv, vars
<1>3. ASSUME EraseLocks
      PROVE  /\ \A c \in Call : UserOf[c] = clear.user => ~ InTable(c)'
             /\ \A cam \in Camera : lock'[cam] # NoOne => lock'[cam].user # clear.user
             /\ gone' = gone \cup {clear.user}
  <2>1. CallsOf(clear.user) = {}
    BY <1>3 DEF EraseLocks, ClearingOwn
  <2>2. \A c \in Call : InTable(c)' <=> InTable(c)
    <3>1. UNCHANGED tableVars
      BY <1>3 DEF EraseLocks
    <3> QED
      BY <3>1, TableKept
  <2>3. \A c \in Call : UserOf[c] = clear.user => ~ InTable(c)'
    BY <2>1, <2>2 DEF CallsOf
  <2>4. /\ lock' = Without(clear.user)
        /\ gone' = gone \cup {clear.user}
    BY <1>3 DEF EraseLocks
  <2>5. \A cam \in Camera : lock'[cam] # NoOne => lock'[cam].user # clear.user
    BY <2>4 DEF Without
  <2> QED
    BY <2>3, <2>4, <2>5
<1>4. ASSUME ~ EraseLocks
      PROVE  gone' \subseteq gone
  <2>1. ASSUME NEW u \in User, Register(u) \/ TimeOut(u) \/ Unregister(u) \/ UnregisterOpen(u)
        PROVE  gone' \subseteq gone
    BY <2>1 DEF Register, TimeOut, Unregister, UnregisterOpen, Heard
  <2>2. ASSUME FindStream \/ ReduceStream \/ PTZControlSend
        PROVE  gone' \subseteq gone
    BY <2>2 DEF FindStream, ReduceStream, PTZControlSend
  <2>3. ASSUME PTZMsgRecv
        PROVE  gone' \subseteq gone
    BY <2>3 DEF PTZMsgRecv, LockCam, UnlockCam, ControlCam, Heard
  <2>4. ASSUME NEW c \in Call, InviteMsgRecv(c)
        PROVE  gone' \subseteq gone
    BY <2>4 DEF InviteMsgRecv, Heard
  <2>5. ASSUME UNCHANGED userVars
        PROVE  gone' \subseteq gone
    BY <2>5 DEF userVars
  <2> QED
    BY <1>4, <2>1, <2>2, <2>3, <2>4, <2>5, TableOnly DEF Next, ClearUserStream, vars
<1>5. ASSUME NEW u \in gone'
      PROVE  /\ \A c \in Call : UserOf[c] = u => ~ InTable(c)'
             /\ \A cam \in Camera : lock'[cam] # NoOne => lock'[cam].user # u
  <2>1. CASE u \in gone
    BY <1>1, <1>2, <2>1
  <2>2. CASE u \notin gone
    <3>1. EraseLocks /\ u = clear.user
      BY <1>3, <1>4, <1>5, <2>2
    <3> QED
      BY <1>3, <3>1
  <2> QED
    BY <2>1, <2>2
<1> QED
  BY <1>5 DEF LogoutClears, CallsOf

LEMMA StepHold == HoldInv /\ [Next]_vars => HoldInv'
  BY StepUserType, StepClearing, StepControl, StepGone DEF HoldInv

(***************************************************************************)
(* The theorems.                                                           *)
(***************************************************************************)
\* Registrations, logouts, locks and control messages are well typed beside a
\* well typed table.
THEOREM UserTypes == Spec => []UserTypeOK
<1>1. HoldInv => UserTypeOK
  BY DEF HoldInv
<1> QED
  BY <1>1, InitHold, StepHold, PTL DEF Spec

\* Where users authenticate, one that has logged out holds no call and no lock
\* (ClearUserStream and the end of DeviceRegAnswer), whatever MediaStatus, the
\* sweeper and PTZ messages did between the steps of the logout.
THEOREM LogoutGivesBack == Spec => []LogoutClears
<1>1. HoldInv => LogoutClears
  BY DEF HoldInv
<1> QED
  BY <1>1, InitHold, StepHold, PTL DEF Spec

\* ClearUserStream takes no call of another user out of the table, also where
\* both share the stream it reduces.
THEOREM LogoutSpares == Spec => LogoutSparesOthers
<1>1. HoldInv /\ [Next]_vars =>
        [ReduceStream =>
           \A c \in Call : InTable(c) /\ UserOf[c] # clear.user => InTable(c)']_vars
  <2> SUFFICES ASSUME HoldInv, ReduceStream, NEW c \in Call,
                      InTable(c), UserOf[c] # clear.user
               PROVE  InTable(c)'
    OBVIOUS
  <2>1. clear.call \in Call /\ UserOf[clear.call] = clear.user
    BY DEF ReduceStream, HoldInv, UserTypeOK, ClearingOwn
  <2>2. c # clear.call
    BY <2>1
  <2>3. CASE Reduce(clear.call)
    BY <2>1, <2>2, <2>3, ReduceSpares DEF HoldInv, UserTypeOK
  <2>4. CASE UNCHANGED tableVars
    BY <2>4, TableKept
  <2> QED
    BY <2>3, <2>4 DEF ReduceStream
<1> QED
  BY <1>1, InitHold, StepHold, PTL DEF Spec, LogoutSparesOthers

\* A control message is sent by right: m_PTZLock keeps every LOCK, UNLOCK and
\* logout from changing the locks between its check and its sending.
THEOREM ControlledByRight == Spec => ControlByRight
<1>1. HoldInv =>
        [ptz # NoOne /\ ptz' = NoOne => MayControl(ptz.user, ptz.camera, ptz.level)]_vars
  BY DEF HoldInv, ControlAllowed
<1> QED
  BY <1>1, InitHold, StepHold, PTL DEF Spec, ControlByRight

\* Users, logouts and PTZ locks leave the table to its operations: calls are
\* still placed and released as StreamPlacement says.
THEOREM UsersKeepPlacement == Spec => ImplementsPlacement
<1>1. Init => TableInit
  BY DEF Init
<1>2. HoldInv /\ [Next]_vars => [TableNext]_tableVars
  BY HoldSteps
<1>3. PlaceInv /\ PlaceInv' /\ [TableNext]_tableVars => [Abstract!Next]_<<Practicable, Placement>>
  BY TableStepsPlace
<1> QED
  BY <1>1, <1>2, <1>3, InitHold, StepHold, InitPlaceInv, StepPlaceInv, InitPlace, PTL
     DEF Spec, ImplementsPlacement, Abstract!Spec

(***************************************************************************)
(* A logout gets on.                                                       *)
(***************************************************************************)
\* How many passes the loop of ClearUserStream has left, at two steps for each
\* call of the user: it falls when the loop finds a call and when it reduces
\* one, and also MediaStatus or the sweeper only ever spare it a pass.
ToDo ==
    2 * Cardinality(CallsOf(clear.user))
      + (IF clear.step = "find" THEN 1
         ELSE IF clear.step = "reduce" /\ ~ InTable(clear.call) THEN 2 ELSE 0)

Kept == {c \in Call : InTable(c)}

LogoutInv ==
    /\ HoldInv
    /\ PlaceInv
    /\ IsFiniteSet(Kept)

\* One call at most comes into the table by a step.
LEMMA StepKept ==
    ASSUME HoldInv, [Next]_vars, IsFiniteSet(Kept)
    PROVE  IsFiniteSet(Kept')
<1>1. CASE \E c \in Call : InviteMsgRecv(c)
  <2>1. PICK c \in Call : InviteMsgRecv(c)
    BY <1>1
  <2>2. \A x \in Call : InTable(x)' => InTable(x) \/ x = c
    BY <2>1, PlacesOnly DEF InviteMsgRecv, HoldInv, UserTypeOK
  <2>3. Kept' \subseteq Kept \cup {c}
    BY <2>2 DEF Kept
  <2> QED
    BY <2>3, FS_AddElement, FS_Subset
<1>2. CASE ~ \E c \in Call : InviteMsgRecv(c)
  <2>1. Kept' \subseteq Kept
    BY <1>2, OnlyInvites DEF Kept
  <2> QED
    BY <2>1, FS_Subset
<1> QED
  BY <1>1, <1>2

LEMMA StepLogout == LogoutInv /\ [Next]_vars => LogoutInv'
<1> SUFFICES ASSUME LogoutInv, [Next]_vars PROVE LogoutInv'
  OBVIOUS
<1>1. PlaceInv'
  BY HoldSteps, StepPlaceInv DEF LogoutInv
<1> QED
  BY <1>1, StepHold, StepKept DEF LogoutInv

LEMMA InitLogout == Init => LogoutInv
<1> SUFFICES ASSUME Init PROVE LogoutInv
  OBVIOUS
<1>1. Kept = {}
  BY DEF Init, TableInit, Kept, InTable, Live
<1> QED
  BY <1>1, InitHold, InitPlaceInv, FS_EmptySet DEF Init, LogoutInv

LEMMA CallsCount ==
    ASSUME LogoutInv, NEW u
    PROVE  /\ IsFiniteSet(CallsOf(u))
           /\ Cardinality(CallsOf(u)) \in Nat
<1>1. CallsOf(u) \subseteq Kept
  BY DEF CallsOf, Kept
<1> QED
  BY <1>1, FS_Subset, FS_CardinalityType DEF LogoutInv

LEMMA ToDoCounts ==
    ASSUME LogoutInv
    PROVE  ToDo \in Nat
<1>1. Cardinality(CallsOf(clear.user)) \in Nat
  BY CallsCount
<1> QED
  BY <1>1 DEF ToDo

\* What a step does to the calls of one user while no INVITE is handled.
LEMMA CallsShrink ==
    ASSUME LogoutInv, NEW u, \A c \in Call : InTable(c)' => InTable(c)
    PROVE  /\ Cardinality(CallsOf(u)') \in Nat
           /\ Cardinality(CallsOf(u)') <= Cardinality(CallsOf(u))
           /\ \A c \in CallsOf(u) : ~ InTable(c)' =>
                 Cardinality(CallsOf(u)') + 1 <= Cardinality(CallsOf(u))
<1>1. CallsOf(u)' \subseteq CallsOf(u)
  BY DEF CallsOf
<1>2. IsFiniteSet(CallsOf(u)) /\ Cardinality(CallsOf(u)) \in Nat
  BY CallsCount
<1>3. Cardinality(CallsOf(u)') \in Nat /\ Cardinality(CallsOf(u)') <= Cardinality(CallsOf(u))
  BY <1>1, <1>2, FS_Subset, FS_CardinalityType
<1>4. ASSUME NEW c \in CallsOf(u), ~ InTable(c)'
      PROVE  Cardinality(CallsOf(u)') # Cardinality(CallsOf(u))
  <2>1. CallsOf(u)' # CallsOf(u)
    BY <1>4 DEF CallsOf
  <2> QED
    BY <1>1, <1>2, <2>1, FS_Subset
<1> QED
  BY <1>2, <1>3, <1>4

\* During a logout no INVITE is handled and nothing else changes where it is.
LEMMA ClearSteps ==
    ASSUME HoldInv, [Next]_vars, clear # NoOne, clear' # NoOne
    PROVE  /\ clear' = clear \/ FindStream \/ ReduceStream
           /\ \A c \in Call : InTable(c)' => InTable(c)
<1>1. \A c \in Call : ~ InviteMsgRecv(c)
  BY DEF InviteMsgRecv
<1>2. \A c \in Call : InTable(c)' => InTable(c)
  BY <1>1, OnlyInvites
<1>3. \A u \in User : ~ (Register(u) \/ TimeOut(u) \/ Unregister(u) \/ UnregisterOpen(u))
  BY DEF Register, TimeOut, Unregister, UnregisterOpen
<1>4. ~ EraseLocks
  BY DEF EraseLocks
<1>5. PTZMsgRecv \/ PTZControlSend => clear' = clear
  BY DEF PTZMsgRecv, LockCam, UnlockCam, ControlCam, PTZControlSend
<1>6. UNCHANGED userVars => clear' = clear
  BY DEF userVars
<1> QED
  BY <1>1, <1>2, <1>3, <1>4, <1>5, <1>6, TableOnly DEF Next, ClearUserStream, vars

LEMMA StepToDo ==
    ASSUME LogoutInv, [Next]_vars, clear # NoOne, clear' # NoOne
    PROVE  /\ ToDo' <= ToDo
           /\ FindStream \/ ReduceStream => ToDo' < ToDo
<1>1. HoldInv /\ clear \in Clearing
  BY DEF LogoutInv, HoldInv, UserTypeOK
<1>2. PICK u \in User : u = clear.user
  BY <1>1 DEF Clearing
<1>3. /\ clear' = clear \/ FindStream \/ ReduceStream
      /\ \A c \in Call : InTable(c)' => InTable(c)
  BY <1>1, ClearSteps
<1>4. PICK k \in Nat, l \in Nat :
        /\ k = Cardinality(CallsOf(u))
        /\ l = Cardinality(CallsOf(u)')
        /\ l <= k
        /\ \A c \in CallsOf(u) : ~ InTable(c)' => l + 1 <= k
  BY <1>3, CallsShrink, CallsCount
<1>5. ToDo = 2 * k + (IF clear.step = "find" THEN 1
                      ELSE IF clear.step = "reduce" /\ ~ InTable(clear.call) THEN 2 ELSE 0)
  BY <1>2, <1>4 DEF ToDo
<1>6. clear'.user = u =>
        ToDo' = 2 * l + (IF clear'.step = "find" THEN 1
                          ELSE IF clear'.step = "reduce" /\ ~ InTable(clear.call)' THEN 2 ELSE 0)
  BY <1>4 DEF ToDo
<1>7. clear'.user = u /\ ToDo' < ToDo => ToDo' <= ToDo
  BY <1>4, <1>5, <1>6
<1>8. CASE clear' = clear
  <2>1. ~ (FindStream \/ ReduceStream)
    BY <1>8 DEF FindStream, ReduceStream, Cleared
  <2>2. CASE clear.step = "reduce"
    <3>1. PICK c \in Call : c = clear.call
      BY <1>1, <2>2 DEF HoldInv, UserTypeOK
    <3>2. UserOf[c] = u
      BY <1>1, <1>2, <2>2, <3>1 DEF HoldInv, ClearingOwn
    <3>3. InTable(clear.call)' <=> InTable(c)'
      BY <1>8, <3>1
    <3>4. InTable(c) /\ ~ InTable(c)' => l + 1 <= k
      BY <1>4, <3>2 DEF CallsOf
    <3>5. InTable(c)' => InTable(c)
      BY <1>3
    <3>6. /\ ToDo = 2 * k + (IF InTable(c) THEN 0 ELSE 2)
          /\ ToDo' = 2 * l + (IF InTable(c)' THEN 0 ELSE 2)
      BY <1>2, <1>5, <1>6, <1>8, <2>2, <3>1, <3>3
    <3>7. ToDo' <= ToDo
      BY <1>4, <3>4, <3>5, <3>6
    <3> QED
      BY <2>1, <3>7
  <2>3. CASE clear.step # "reduce"
    <3>1. ToDo' <= ToDo
      BY <1>2, <1>4, <1>5, <1>6, <1>8, <2>3
    <3> QED
      BY <2>1, <3>1
  <2> QED
    BY <2>2, <2>3
<1>9. CASE FindStream
  <2>1. /\ \A c \in Call : InTable(c)' <=> InTable(c)
        /\ clear.step = "find"
    BY <1>9, QuietSteps, TableKept DEF FindStream
  <2>2. l = k
    BY <1>4, <2>1 DEF CallsOf
  <2>3. ASSUME NEW c \in CallsOf(clear.user),
               clear' = [user |-> clear.user, step |-> "reduce", call |-> c]
        PROVE  ToDo' < ToDo
    <3>1. InTable(clear.call)'
      BY <2>1, <2>3 DEF CallsOf
    <3>2. ToDo' = 2 * l
      BY <1>2, <1>4, <1>6, <2>3, <3>1
    <3> QED
      BY <1>4, <1>5, <2>1, <2>2, <3>2
  <2>4. CASE clear' = [user |-> clear.user, step |-> "locks", call |-> NoOne]
    BY <1>2, <1>4, <1>5, <1>6, <2>1, <2>2, <2>4
  <2>5. ToDo' < ToDo
    BY <1>9, <2>3, <2>4 DEF FindStream
  <2>6. clear'.user = u
    BY <1>2, <1>9 DEF FindStream
  <2> QED
    BY <1>7, <2>5, <2>6
<1>10. CASE ReduceStream
  <2>1. PICK c \in Call : c = clear.call
    BY <1>1, <1>10 DEF ReduceStream, HoldInv, UserTypeOK
  <2>2. /\ UserOf[c] = u
        /\ clear.step = "reduce"
        /\ clear'.user = u /\ clear'.step = "find"
    BY <1>1, <1>2, <1>10, <2>1 DEF ReduceStream, Cleared, HoldInv, ClearingOwn
  <2>3. /\ ToDo' = 2 * l + 1
        /\ ToDo = 2 * k + (IF InTable(c) THEN 0 ELSE 2)
    BY <1>5, <1>6, <2>1, <2>2
  <2>4. ASSUME Reduce(c)
        PROVE  ToDo' < ToDo
    <3>1. InTable(c) /\ ~ InTable(c)'
      <4>1. PICK e \in Live : DeleteStream(e, c, FALSE) \/ DeleteLeg(e, c)
        BY <2>4 DEF Reduce
      <4>2. ~ InTable(c)'
        BY <4>1, CallGone DEF LogoutInv
      <4> QED
        BY <4>1, <4>2 DEF DeleteStream, DeleteLeg, InTable
    <3>2. l + 1 <= k
      BY <1>4, <2>2, <3>1 DEF CallsOf
    <3> QED
      BY <1>4, <2>3, <3>1, <3>2
  <2>5. ASSUME ~ InTable(c)
        PROVE  ToDo' < ToDo
    BY <1>4, <2>3, <2>5
  <2>6. ToDo' < ToDo
    BY <1>10, <2>1, <2>4, <2>5 DEF ReduceStream
  <2> QED
    BY <1>7, <2>2, <2>6
<1> QED
  BY <1>3, <1>8, <1>9, <1>10

\* The loop of ClearUserStream gets on: each of its steps leaves it less to do,
\* and no other thread gives it more, so a logout of a user with n calls is at
\* its last lock after 2n + 1 steps of its own at most.  That it ends at all
\* needs fairness, which LogoutEnds assumes.
THEOREM LogoutGetsOn ==
    Spec => /\ [](clear # NoOne => ToDo \in Nat)
            /\ [][/\ clear # NoOne /\ clear' # NoOne => ToDo' <= ToDo
                  /\ FindStream \/ ReduceStream => ToDo' < ToDo]_vars
<1>1. LogoutInv => (clear # NoOne => ToDo \in Nat)
  BY ToDoCounts
<1>2. LogoutInv /\ [Next]_vars =>
        [/\ clear # NoOne /\ clear' # NoOne => ToDo' <= ToDo
         /\ FindStream \/ ReduceStream => ToDo' < ToDo]_vars
  <2>1. FindStream \/ ReduceStream => clear # NoOne
    BY DEF FindStream, ReduceStream
  <2>2. ASSUME LogoutInv, FindStream \/ ReduceStream
        PROVE  clear' # NoOne
    <3>1. clear \in Clearing
      BY <2>1, <2>2 DEF LogoutInv, HoldInv, UserTypeOK
    <3>2. clear' \in Clearing
      BY <2>2, <3>1 DEF FindStream, ReduceStream, Cleared, Clearing, CallsOf
    <3> QED
      BY <3>2, UserAssumption DEF Clearing
  <2> QED
    BY <2>1, <2>2, StepToDo
<1> QED
  BY <1>1, <1>2, InitLogout, StepLogout, PTL DEF Spec
=============================================================================

---------------------------- MODULE UserSessions ----------------------------
(***************************************************************************)
(* What users hold: calls in the table of streams, and locks on the PTZ    *)
(* control of cameras (m_LockedDeviceMap); and how they give it back when  *)
(* they log out, which they only do where the server authenticates them.   *)
(*                                                                         *)
(* The threads: an IO thread in DeviceRegAnswer holds m_csLock and m_vLock *)
(* through the whole logout, so no INVITE, BYE or reload comes between its *)
(* steps; MediaStatus, the sweeper and PTZ messages do not take these      *)
(* locks.  PTZMsgRecv and what it sends are one critical section of        *)
(* m_PTZLock, and so is the end of the logout.  The messages to the peers  *)
(* of a call are those of CallFlow.                                        *)
(***************************************************************************)
EXTENDS StreamTable

CONSTANTS
    User,
    UserOf,   \* whose call a Call-ID is (sMediaRecvID)
    Level,    \* ControlPriority of the messages
    NoOne     \* no lock, no logout, no control in progress

ASSUME UserAssumption ==
    /\ UserOf \in [Call -> User]
    /\ Level \subseteq Nat
    /\ NoOne \notin [user : User, level : Level]
    /\ NoOne \notin [user : User, step : {"find", "reduce", "locks"}, call : Call \cup {NoOne}]
    /\ NoOne \notin [user : User, camera : Camera, level : Level]

VARIABLES
    auth,      \* m_bAuth, read from the configuration when the server starts
    known,     \* users in m_mapDevice
    reg,       \* those with bReg
    lock,      \* m_LockedDeviceMap
    clear,     \* the logout in progress
    ptz,       \* the control message in progress, which holds m_PTZLock
    gone,      \* users that logged out and sent nothing since
    timedOut   \* users that timed out and sent nothing since

userVars == <<auth, known, reg, lock, clear, ptz, gone, timedOut>>
vars == <<tableVars, userVars>>

Lock == [user : User, level : Level]
Clearing == [user : User, step : {"find", "reduce", "locks"}, call : Call \cup {NoOne}]
Control == [user : User, camera : Camera, level : Level]

CallsOf(u) == {c \in Call : UserOf[c] = u /\ InTable(c)}

\* GetPlayInfoByID of a camera: a live picture of it is in the table.
Playing(cam) == \E e \in Live : cams[e].camera = cam /\ cams[e].type = "play"

\* The owner may raise the level of its lock, another user override it.
MayLock(cam, n) == lock[cam] # NoOne => n > lock[cam].level

MayControl(u, cam, n) ==
    lock[cam] # NoOne => lock[cam].user = u \/ n > lock[cam].level

\* A message of u: what it did not hold when it left it may hold again.
Heard(u) == gone' = gone \ {u} /\ timedOut' = timedOut \ {u}

(***************************************************************************)
(* Registration.                                                           *)
(***************************************************************************)
Init ==
    /\ TableInit
    /\ auth \in BOOLEAN
    /\ known = {}
    /\ reg = {}
    /\ lock = [cam \in Camera |-> NoOne]
    /\ clear = NoOne
    /\ ptz = NoOne
    /\ gone = {}
    /\ timedOut = {}

Register(u) ==
    /\ clear = NoOne
    /\ known' = known \cup {u}
    /\ reg' = reg \cup {u}
    /\ Heard(u)
    /\ UNCHANGED <<tableVars, auth, lock, clear, ptz>>

\* CheckDeviceStatus: only the flag is reset.  It puts no user on its list of
\* those whose streams it clears, because it asks IsUser about pDeviceCode,
\* which DeviceRegAnswer leaves empty.
TimeOut(u) ==
    /\ clear = NoOne
    /\ u \in reg
    /\ reg' = reg \ {u}
    /\ timedOut' = timedOut \cup {u}
    /\ UNCHANGED <<tableVars, auth, known, lock, clear, ptz, gone>>

\* REGISTER with Expires 0 and the right response.
Unregister(u) ==
    /\ auth
    /\ clear = NoOne
    /\ u \in known
    /\ reg' = reg \ {u}
    /\ clear' = [user |-> u, step |-> "find", call |-> NoOne]
    /\ Heard(u)
    /\ UNCHANGED <<tableVars, auth, known, lock, ptz>>

\* REGISTER with Expires 0 where none is asked to authenticate: only the flag
\* is reset, calls and locks stay.
UnregisterOpen(u) ==
    /\ ~ auth
    /\ clear = NoOne
    /\ u \in known
    /\ reg' = reg \ {u}
    /\ gone' = gone \cup {u}
    /\ timedOut' = timedOut \ {u}
    /\ UNCHANGED <<tableVars, auth, known, lock, clear, ptz>>

(***************************************************************************)
(* The steps of the logout.                                                *)
(***************************************************************************)
\* GetPlayInfoByID of the user: any of its calls, or none is left.
FindStream ==
    /\ clear # NoOne
    /\ clear.step = "find"
    /\ \/ \E c \in CallsOf(clear.user) :
             clear' = [user |-> clear.user, step |-> "reduce", call |-> c]
       \/ /\ CallsOf(clear.user) = {}
          /\ clear' = [user |-> clear.user, step |-> "locks", call |-> NoOne]
    /\ UNCHANGED <<tableVars, auth, known, reg, lock, ptz, gone, timedOut>>

\* Mutant: the whole stream is deleted.
ReduceWhole(c) == \E e \in Live : DeleteStream(e, c, TRUE)

\* ReduceRTPTotal(CallID1), which finds the call or not.
Reduce(c) == \E e \in Live : DeleteStream(e, c, FALSE) \/ DeleteLeg(e, c)

\* Mutant: if for while.
ClearedOnce == [user |-> clear.user, step |-> "locks", call |-> NoOne]

\* The loop of ClearUserStream goes on.
Cleared == [user |-> clear.user, step |-> "find", call |-> NoOne]

ReduceStream ==
    /\ clear # NoOne
    /\ clear.step = "reduce"
    /\ \/ Reduce(clear.call)
       \/ ~ InTable(clear.call) /\ UNCHANGED tableVars
    /\ clear' = Cleared
    /\ UNCHANGED <<auth, known, reg, lock, ptz, gone, timedOut>>

\* All the locks of a user.
Without(u) ==
    [cam \in Camera |-> IF lock[cam] # NoOne /\ lock[cam].user = u THEN NoOne ELSE lock[cam]]

EraseLocks ==
    /\ clear # NoOne
    /\ clear.step = "locks"
    /\ ptz = NoOne
    /\ lock' = Without(clear.user)
    /\ clear' = NoOne
    /\ gone' = gone \cup {clear.user}
    /\ UNCHANGED <<tableVars, auth, known, reg, ptz, timedOut>>

(***************************************************************************)
(* PTZ messages.  None of them asks whether the user is registered.        *)
(***************************************************************************)
\* Mutant: LOCK is handled outside m_PTZLock.
LockCamUnguarded(u, cam, n) ==
    /\ Playing(cam)
    /\ MayLock(cam, n)
    /\ lock' = [lock EXCEPT ![cam] = [user |-> u, level |-> n]]
    /\ Heard(u)
    /\ UNCHANGED <<tableVars, auth, known, reg, clear, ptz>>

LockCam(u, cam, n) ==
    /\ ptz = NoOne
    /\ Playing(cam)
    /\ MayLock(cam, n)
    /\ lock' = [lock EXCEPT ![cam] = [user |-> u, level |-> n]]
    /\ Heard(u)
    /\ UNCHANGED <<tableVars, auth, known, reg, clear, ptz>>

\* Only while the camera plays, and with the level of the LOCK.
UnlockCam(u, cam, n) ==
    /\ ptz = NoOne
    /\ Playing(cam)
    /\ lock[cam] = [user |-> u, level |-> n]
    /\ lock' = [lock EXCEPT ![cam] = NoOne]
    /\ Heard(u)
    /\ UNCHANGED <<tableVars, auth, known, reg, clear, ptz>>

\* A control message is answered 200,
ControlCam(u, cam, n) ==
    /\ ptz = NoOne
    /\ Playing(cam)
    /\ MayControl(u, cam, n)
    /\ ptz' = [user |-> u, camera |-> cam, level |-> n]
    /\ Heard(u)
    /\ UNCHANGED <<tableVars, auth, known, reg, lock, clear>>

\* and sent on, whether or not the camera plays still.
PTZControlSend ==
    /\ ptz # NoOne
    /\ ptz' = NoOne
    /\ UNCHANGED <<tableVars, auth, known, reg, lock, clear, gone, timedOut>>

PTZMsgRecv ==
    \E u \in User, cam \in Camera, n \in Level :
        LockCam(u, cam, n) \/ UnlockCam(u, cam, n) \/ ControlCam(u, cam, n)

(***************************************************************************)
(* The table under the other handlers and threads.                         *)
(***************************************************************************)
\* Mutant: INVITE is handled outside m_csLock.
InviteMsgRecvUnguarded(c) ==
    /\ GetPracticableRTPServer(c)
    /\ Heard(UserOf[c])
    /\ UNCHANGED <<auth, known, reg, lock, clear, ptz>>

InviteMsgRecv(c) ==
    /\ clear = NoOne
    /\ GetPracticableRTPServer(c)
    /\ Heard(UserOf[c])
    /\ UNCHANGED <<auth, known, reg, lock, clear, ptz>>

\* A call ends: by its BYE, a failure, MediaStatus or the sweeper.  Those
\* that hold m_csLock cannot come during a logout, the last two can.
EndCall(c) ==
    /\ ReduceRTPTotal(c)
    /\ UNCHANGED userVars

\* GetRTPStreamInfo, in the thread that reads the database under m_vLock.
GetRTPStreamInfo(s) ==
    /\ clear = NoOne
    /\ InsertRTPInfo(s) \/ EraseRTPInfo(s)
    /\ UNCHANGED userVars

SetRTPServerStatus(s) == (SetOnline(s) \/ SetOffline(s)) /\ UNCHANGED userVars

ClearUserStream == FindStream \/ ReduceStream \/ EraseLocks

Next ==
    \/ \E u \in User : Register(u)
    \/ \E u \in User : TimeOut(u)
    \/ \E u \in User : Unregister(u)
    \/ \E u \in User : UnregisterOpen(u)
    \/ ClearUserStream
    \/ PTZMsgRecv
    \/ PTZControlSend
    \/ \E c \in Call : InviteMsgRecv(c)
    \/ \E c \in Call : EndCall(c)
    \/ \E s \in Server : GetRTPStreamInfo(s)
    \/ \E s \in Server : SetRTPServerStatus(s)

Spec == Init /\ [][Next]_vars

\* The threads run; a thread that waits for m_PTZLock gets it if it is released
\* again and again.
FairSpec ==
    /\ Spec
    /\ WF_vars(FindStream \/ ReduceStream)
    /\ SF_vars(EraseLocks)
    /\ WF_vars(PTZControlSend)

(***************************************************************************)
(* Correctness.                                                            *)
(***************************************************************************)
\* Only known users are registered, left or timed out, a lock and a control
\* message have an owner, and the logout is at one of its steps.
UserTypeOK ==
    /\ TableTypeOK
    /\ auth \in BOOLEAN
    /\ known \subseteq User
    /\ reg \subseteq known
    /\ lock \in [Camera -> Lock \cup {NoOne}]
    /\ clear \in Clearing \cup {NoOne}
    /\ clear # NoOne /\ clear.step = "reduce" => clear.call \in Call
    /\ ptz \in Control \cup {NoOne}
    /\ gone \subseteq known \ reg
    /\ timedOut \subseteq known \ reg

\* Where users authenticate, one that has logged out and has sent nothing since
\* holds no call and no lock, although calls end at any time while
\* ClearUserStream looks for them and locks change while it waits for m_PTZLock.
\* Without authentication a logout only resets bReg and gives nothing back.
LogoutClears ==
    auth => \A u \in gone : /\ CallsOf(u) = {}
                            /\ \A cam \in Camera : lock[cam] # NoOne => lock[cam].user # u

\* A logout ends no call of another user, also where the two share a stream.
LogoutSparesOthers ==
    [][ReduceStream =>
          \A c \in Call : InTable(c) /\ UserOf[c] # clear.user => InTable(c)']_vars

\* A control message goes out by right: when it is sent no other user holds a
\* lock of its level or a higher one, not even one made since it was allowed.
ControlByRight ==
    [][ptz # NoOne /\ ptz' = NoOne => MayControl(ptz.user, ptz.camera, ptz.level)]_vars

\* A logout ends, and with it the time it keeps m_csLock and m_vLock from all
\* other handlers: ClearUserStream finds each call only once.
LogoutEnds == clear # NoOne ~> clear = NoOne

\* CheckDeviceStatus clears the streams of a user that timed out, as the code
\* at its end says.
TimedOutCleared ==
    \A c \in Call : UserOf[c] \in timedOut ~> UserOf[c] \notin timedOut \/ ~ InTable(c)
==============================================================================

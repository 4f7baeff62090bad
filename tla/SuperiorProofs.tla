--------------------------- MODULE SuperiorProofs ---------------------------
(***************************************************************************)
(* Type correctness of the registration with superiors, the bound of a      *)
(* superior's silence and that of the time between two REGISTERs.           *)
(***************************************************************************)
EXTENDS SuperiorRegistration, TLAPS

\* While the thread sleeps it has nothing left to do, and before it sleeps
\* again nHeartbit is below Refresh.
ThreadPlaced ==
    /\ mode = "sleep" => todo = {} /\ counting = NoOne
    /\ mode = "refresh" => nHeartbit = 0 /\ counting = NoOne
    /\ mode = "beat" => nHeartbit < Refresh

\* The address is set before a keepalive is counted.
AddressSet ==
    /\ counting # NoOne => addr # NoOne
    /\ \A s \in Superior : nNoAns[s] > 0 => addr # NoOne

\* Only a count below NoAnswers is raised.
CountsBelow == counting # NoOne => nNoAns[counting] < NoAnswers

Placed == SuperiorTypeOK /\ ThreadPlaced /\ AddressSet /\ CountsBelow

USE SuperiorAssumption

LEMMA InitPlaced == Init => Placed
<1> SUFFICES ASSUME Init PROVE Placed
  OBVIOUS
<1>1. net \subseteq Msg
  BY DEF Init, Msg, Request
<1>2. /\ nNoAns \in [Superior -> 0 .. NoAnswers]
      /\ quiet \in [Superior -> Nat]
      /\ unsent \in [Superior -> Nat]
      /\ \A s \in Superior : nNoAns[s] = 0
  BY DEF Init
<1>3. SuperiorTypeOK
  <2>1. /\ listed = Superior /\ bReg = {} /\ todo = {} /\ holds = {}
        /\ mode = "sleep" /\ nHeartbit = 0 /\ reboots = 0 /\ losses = 0
        /\ counting = NoOne /\ addr = NoOne
    BY DEF Init
  <2>2. registerOut \in BOOLEAN
    BY Zenon DEF Init
  <2>3. nHeartbit \in 0 .. Refresh /\ reboots \in 0 .. MaxReboot /\ losses \in 0 .. MaxLoss
    BY <2>1
  <2>4. QED
    BY <1>1, <1>2, <2>1, <2>2, <2>3 DEF SuperiorTypeOK
<1>4. ThreadPlaced /\ AddressSet /\ CountsBelow
  BY <1>2 DEF Init, ThreadPlaced, AddressSet, CountsBelow
<1>5. QED
  BY <1>3, <1>4 DEF Placed

\* The sets of messages in flight stay messages.
LEMMA NetKept ==
    ASSUME net \subseteq Msg, NEW s \in Superior, NEW k \in Request \cup Answer, NEW m
    PROVE  /\ net \cup {<<s, k>>} \subseteq Msg
           /\ net \ {m} \subseteq Msg
           /\ (net \ {m}) \cup {<<s, k>>} \subseteq Msg
BY DEF Msg

LEMMA PassPlaced == Placed /\ Pass => Placed'
<1> SUFFICES ASSUME Placed, Pass PROVE Placed'
  OBVIOUS
<1> USE DEF Placed, SuperiorTypeOK, ThreadPlaced, AddressSet, CountsBelow
<1>1. CASE BeginPass
  BY <1>1 DEF BeginPass, RefreshDue, serverVars, bounds, history
<1>2. CASE \E s \in Superior : RefreshTurn(s)
  <2> PICK s \in Superior : RefreshTurn(s)
    BY <1>2
  <2>1. net' \subseteq Msg
    BY NetKept DEF RefreshTurn, Request
  <2>2. /\ unsent' \in [Superior -> Nat]
        /\ quiet' \in [Superior -> Nat]
    BY DEF RefreshTurn, Sent, Waited, Turn
  <2>3. QED
    BY <2>1, <2>2 DEF RefreshTurn, bounds
<1>3. CASE \E s \in Superior : BeatTurn(s)
  <2> PICK s \in Superior : BeatTurn(s)
    BY <1>3
  <2>1. quiet' \in [Superior -> Nat]
    BY DEF BeatTurn, Turn
  <2>2. CASE s \in bReg /\ SilentTurn(s)
    <3>1. addr \in Superior
      BY <2>2 DEF SilentTurn
    <3>2. net' \subseteq Msg
      BY <2>2, <3>1, NetKept DEF SilentTurn, Request
    <3>3. unsent' \in [Superior -> Nat]
      BY <2>2, <3>1 DEF SilentTurn, Waited
    <3>4. nNoAns' = [nNoAns EXCEPT ![s] = 0]
      BY <2>2 DEF SilentTurn
    <3>5. QED
      BY <2>1, <2>2, <3>1, <3>2, <3>3, <3>4 DEF BeatTurn, SilentTurn, bounds
  <2>3. CASE s \in bReg /\ KeepaliveTurn(s)
    <3>1. /\ net' \subseteq Msg
          /\ unsent' \in [Superior -> Nat]
      BY <2>3, NetKept DEF KeepaliveTurn, Waited, Request
    <3>2. QED
      BY <2>1, <2>3, <3>1 DEF BeatTurn, KeepaliveTurn, bounds
  <2>4. CASE s \notin bReg /\ RegisterTurn(s)
    <3>1. /\ net' \subseteq Msg
          /\ unsent' \in [Superior -> Nat]
      BY <2>4, NetKept DEF RegisterTurn, Sent, Request
    <3>2. /\ nNoAns' \in [Superior -> 0 .. NoAnswers]
          /\ addr' = s /\ bReg' = bReg /\ counting' = counting /\ counting = NoOne
      BY <2>4 DEF RegisterTurn, BeatTurn
    <3>3. AddressSet' /\ CountsBelow'
      BY <3>2
    <3>4. QED
      BY <2>1, <3>1, <3>2, <3>3 DEF BeatTurn, bounds
  <2>5. QED
    BY <2>2, <2>3, <2>4 DEF BeatTurn
<1>4. CASE CountKeepalive
  BY <1>4 DEF CountKeepalive, bounds, history
<1>5. CASE EndPass
  BY <1>5 DEF EndPass, serverVars, bounds, history
<1>6. QED
  BY <1>1, <1>2, <1>3, <1>4, <1>5 DEF Pass

LEMMA ExchangePlaced == Placed /\ Exchange => Placed'
<1> SUFFICES ASSUME Placed, Exchange PROVE Placed'
  OBVIOUS
<1> USE DEF Placed, SuperiorTypeOK, ThreadPlaced, AddressSet, CountsBelow
<1>1. CASE \E s \in Superior : SuperiorRegAnswer(s)
  <2> PICK s \in Superior : SuperiorRegAnswer(s)
    BY <1>1
  <2>1. CASE Registered(s)
    BY <2>1 DEF Registered, Heard, threadVars, bounds
  <2>2. CASE LoggedOut(s)
    <3>1. /\ net' \subseteq Msg
          /\ unsent' \in [Superior -> Nat]
          /\ quiet' \in [Superior -> Nat]
      BY <2>2, NetKept DEF LoggedOut, Sent, Heard, Request
    <3>2. QED
      BY <2>2, <3>1 DEF LoggedOut, AfterLogout, threadVars, bounds
  <2>3. CASE Challenged(s)
    <3>1. /\ net' \subseteq Msg
          /\ unsent' \in [Superior -> Nat]
      BY <2>3, NetKept DEF Challenged, Sent, Request
    <3>2. QED
      BY <2>3, <3>1 DEF Challenged, serverVars, threadVars, bounds
  <2>4. QED
    BY <2>1, <2>2, <2>3 DEF SuperiorRegAnswer
<1>2. CASE \E s \in Superior : SuperiorKeepaliveAns(s)
  <2> PICK s \in Superior : SuperiorKeepaliveAns(s)
    BY <1>2
  <2>1. /\ nNoAns' \in [Superior -> 0 .. NoAnswers]
        /\ \A t \in Superior : nNoAns'[t] <= nNoAns[t]
    BY DEF SuperiorKeepaliveAns
  <2>2. /\ net' \subseteq Msg
        /\ quiet' \in [Superior -> Nat]
    BY DEF SuperiorKeepaliveAns, Heard
  <2>3. UNCHANGED <<listed, bReg, registerOut, nHeartbit, mode, todo, counting, addr, holds,
                    reboots, losses, unsent>>
    BY DEF SuperiorKeepaliveAns, threadVars, bounds
  <2>4. AddressSet'
    BY <2>1, <2>3
  <2>5. CountsBelow'
    BY <2>1, <2>3
  <2>6. QED
    BY <2>1, <2>2, <2>3, <2>4, <2>5
<1>3. CASE \E s \in Superior, k \in Request : SuperiorRecv(s, k)
  <2> PICK s \in Superior, k \in Request : SuperiorRecv(s, k)
    BY <1>3
  <2>1. net' \subseteq Msg /\ holds' \subseteq Superior
    BY NetKept DEF SuperiorRecv, Answer
  <2>2. QED
    BY <2>1 DEF SuperiorRecv, serverVars, threadVars, bounds, history
<1>4. QED
  BY <1>1, <1>2, <1>3 DEF Exchange

LEMMA StepPlaced == Placed /\ [Next]_vars => Placed'
<1> SUFFICES ASSUME Placed, [Next]_vars PROVE Placed'
  OBVIOUS
<1> USE DEF Placed, SuperiorTypeOK, ThreadPlaced, AddressSet, CountsBelow
<1>1. CASE Pass
  BY <1>1, PassPlaced
<1>2. CASE Exchange
  BY <1>2, ExchangePlaced
<1>3. CASE \E s \in Superior : RebootMsgRecv(s)
  <2> PICK s \in Superior : RebootMsgRecv(s)
    BY <1>3
  <2>1. net' \subseteq Msg
    BY NetKept DEF RebootMsgRecv, Request
  <2>2. QED
    BY <2>1 DEF RebootMsgRecv, threadVars, history
<1>4. CASE ReadSuperiors
  <2> PICK now \in SUBSET Superior :
        /\ listed' = now
        /\ bReg' = bReg \cap now
        /\ nNoAns' = [s \in Superior |-> IF s \in listed \cap now THEN nNoAns[s] ELSE 0]
        /\ unsent' = [s \in Superior |-> IF s \in listed \cap now THEN unsent[s] ELSE 0]
        /\ quiet' = [s \in Superior |-> IF s \in listed \cap now THEN quiet[s] ELSE 0]
    BY <1>4 DEF ReadSuperiors
  <2> QED
    BY <1>4 DEF ReadSuperiors, threadVars, bounds
<1>5. CASE \E m \in net : Lose(m)
  BY <1>5 DEF Lose, serverVars, threadVars, history
<1>6. CASE \E s \in Superior : Forget(s)
  BY <1>6 DEF Forget, serverVars, threadVars, history
<1>7. CASE UNCHANGED vars
  BY <1>7 DEF vars, serverVars, threadVars, bounds, history
<1>8. QED
  BY <1>1, <1>2, <1>3, <1>4, <1>5, <1>6, <1>7 DEF Next

\* The registration with superiors is well typed.
THEOREM SuperiorTypes == Spec => []SuperiorTypeOK
<1>1. Placed => SuperiorTypeOK
  BY DEF Placed
<1>2. QED
  BY InitPlaced, StepPlaced, <1>1, PTL DEF Spec

(***************************************************************************)
(* Silence.                                                                *)
(***************************************************************************)
\* The turns of a registered superior without an answer are counted by
\* nNoAnsKeepalive, but for the one whose keepalive was just sent.
SilenceCounted ==
    \A s \in bReg : quiet[s] <= nNoAns[s] + (IF counting = s THEN 1 ELSE 0)

LEMMA InitCounted == Init => SilenceCounted
BY DEF Init, SilenceCounted

LEMMA PassCounted == Placed /\ SilenceCounted /\ Pass => SilenceCounted'
<1> SUFFICES ASSUME Placed, SilenceCounted, Pass, NEW t \in bReg'
             PROVE  quiet'[t] <= nNoAns'[t] + (IF counting' = t THEN 1 ELSE 0)
  BY DEF SilenceCounted
<1> USE DEF SilenceCounted
<1>0. /\ nNoAns \in [Superior -> 0 .. NoAnswers]
      /\ quiet \in [Superior -> Nat]
      /\ bReg \subseteq Superior /\ listed \subseteq Superior
      /\ counting \in Superior \cup {NoOne}
      /\ mode = "refresh" => counting = NoOne
  BY DEF Placed, SuperiorTypeOK, ThreadPlaced
<1>1. CASE BeginPass
  BY <1>0, <1>1 DEF BeginPass, serverVars, history
<1>2. CASE \E s \in Superior : RefreshTurn(s)
  <2> PICK s \in Superior : RefreshTurn(s)
    BY <1>2
  <2>1. t \in bReg /\ t # s /\ t \in Superior
    BY <1>0 DEF RefreshTurn
  <2>2. quiet'[t] = quiet[t]
    BY <1>0, <2>1 DEF RefreshTurn, Turn
  <2>3. QED
    BY <1>0, <2>1, <2>2 DEF RefreshTurn
<1>3. CASE \E s \in Superior : BeatTurn(s)
  <2> PICK s \in Superior : BeatTurn(s)
    BY <1>3
  <2>0. quiet' = [quiet EXCEPT ![s] = @ + 1] /\ counting = NoOne
    BY DEF BeatTurn, Turn
  <2>1. CASE s \in bReg /\ SilentTurn(s)
    BY <1>0, <2>0, <2>1 DEF SilentTurn
  <2>2. CASE s \in bReg /\ KeepaliveTurn(s)
    BY <1>0, <2>0, <2>2 DEF KeepaliveTurn
  <2>3. CASE s \notin bReg /\ RegisterTurn(s)
    BY <1>0, <2>0, <2>3 DEF RegisterTurn
  <2>4. QED
    BY <2>1, <2>2, <2>3 DEF BeatTurn
<1>4. CASE CountKeepalive
  BY <1>0, <1>4 DEF CountKeepalive, history
<1>5. CASE EndPass
  BY <1>0, <1>5 DEF EndPass, serverVars, history
<1>6. QED
  BY <1>1, <1>2, <1>3, <1>4, <1>5 DEF Pass

LEMMA OtherCounted ==
    ASSUME Placed, SilenceCounted, [Next]_vars, ~ Pass
    PROVE  SilenceCounted'
<1> SUFFICES ASSUME NEW t \in bReg'
             PROVE  quiet'[t] <= nNoAns'[t] + (IF counting' = t THEN 1 ELSE 0)
  BY DEF SilenceCounted
<1> USE DEF SilenceCounted
<1>0. /\ nNoAns \in [Superior -> 0 .. NoAnswers]
      /\ quiet \in [Superior -> Nat]
      /\ bReg \subseteq listed /\ listed \subseteq Superior
  BY DEF Placed, SuperiorTypeOK
<1>1. CASE \E s \in Superior : SuperiorRegAnswer(s)
  <2> PICK s \in Superior : SuperiorRegAnswer(s)
    BY <1>1
  <2>1. CASE Registered(s)
    BY <1>0, <2>1 DEF Registered, Heard, threadVars
  <2>2. CASE LoggedOut(s)
    BY <1>0, <2>2 DEF LoggedOut, Heard, threadVars
  <2>3. CASE Challenged(s)
    BY <1>0, <2>3 DEF Challenged, serverVars, threadVars
  <2>4. QED
    BY <2>1, <2>2, <2>3 DEF SuperiorRegAnswer
<1>2. CASE \E s \in Superior : SuperiorKeepaliveAns(s)
  BY <1>0, <1>2 DEF SuperiorKeepaliveAns, Heard, threadVars
<1>3. CASE \E s \in Superior, k \in Request : SuperiorRecv(s, k)
  BY <1>0, <1>3 DEF SuperiorRecv, serverVars, threadVars, history
<1>4. CASE \E s \in Superior : RebootMsgRecv(s)
  BY <1>0, <1>4 DEF RebootMsgRecv, threadVars, history
<1>5. CASE ReadSuperiors
  BY <1>0, <1>5 DEF ReadSuperiors, threadVars
<1>6. CASE (\E m \in net : Lose(m)) \/ (\E s \in Superior : Forget(s))
  BY <1>0, <1>6 DEF Lose, Forget, serverVars, threadVars, history
<1>7. CASE UNCHANGED vars
  BY <1>0, <1>7 DEF vars, serverVars, threadVars, history
<1>8. QED
  BY <1>1, <1>2, <1>3, <1>4, <1>5, <1>6, <1>7 DEF Next, Exchange

\* A registered superior has answered within NoAnswers keepalives, for any
\* superiors and any race of answers with the count.
THEOREM SilenceIsNoticed == Spec => []SilenceNoticed
<1>1. Init => Placed /\ SilenceCounted
  BY InitPlaced, InitCounted
<1>2. Placed /\ SilenceCounted /\ [Next]_vars => (Placed /\ SilenceCounted)'
  BY StepPlaced, PassCounted, OtherCounted
<1>3. Placed /\ SilenceCounted => SilenceNoticed
  <2> SUFFICES ASSUME Placed, SilenceCounted, NEW s \in bReg
               PROVE  quiet[s] <= NoAnswers
    BY DEF SilenceNoticed
  <2>1. /\ s \in Superior
        /\ nNoAns[s] \in 0 .. NoAnswers
        /\ quiet[s] \in Nat
        /\ counting = s => nNoAns[s] < NoAnswers
    BY DEF Placed, SuperiorTypeOK, CountsBelow
  <2>2. QED
    BY <2>1 DEF SilenceCounted
<1>4. QED
  BY <1>1, <1>2, <1>3, PTL DEF Spec

(***************************************************************************)
(* Refreshing.                                                             *)
(***************************************************************************)
\* A REGISTER or its 200 is on the way.
Coming(s) == \E k \in {"register", "registerAuth", "ok"} : <<s, k>> \in net

\* It was sent in this pass, so that a superior enters bReg with its waiting
\* just begun.
ComingIsFresh ==
    \A s \in Superior : Coming(s) =>
        unsent[s] <= IF s \in todo \/ (mode = "sleep" /\ nHeartbit = 0) THEN 0 ELSE 1

\* Before its turn in the pass counted by nHeartbit: only a superior that was
\* passed over by a refresh has waited longer.
Before(s) == IF nHeartbit = 1 /\ s \notin bReg THEN Refresh + 1 ELSE nHeartbit

\* In a refresh, before and after its turn.
InRefresh(s) == IF s \in todo THEN Refresh ELSE IF s \in bReg THEN 1 ELSE Refresh + 1

UnsentBounded ==
    \A s \in listed :
        /\ mode = "sleep" => unsent[s] <= Before(s)
        /\ mode = "beat" /\ s \in todo => unsent[s] <= Before(s)
        /\ mode = "beat" /\ s \notin todo => unsent[s] <= nHeartbit + 1
        /\ mode = "refresh" => unsent[s] <= InRefresh(s)

LEMMA ComingStep == Placed /\ ComingIsFresh /\ [Next]_vars => ComingIsFresh'
<1> SUFFICES ASSUME Placed, ComingIsFresh, [Next]_vars, NEW t \in Superior, Coming(t)'
             PROVE  unsent'[t] <= IF t \in todo' \/ (mode' = "sleep" /\ nHeartbit' = 0)
                                    THEN 0 ELSE 1
  BY DEF ComingIsFresh
<1>0. /\ unsent \in [Superior -> Nat]
      /\ nHeartbit \in Nat
      /\ todo \subseteq listed /\ listed \subseteq Superior
      /\ mode = "sleep" => todo = {}
      /\ Coming(t) => unsent[t] <= IF t \in todo \/ (mode = "sleep" /\ nHeartbit = 0)
                                     THEN 0 ELSE 1
  BY DEF Placed, SuperiorTypeOK, ThreadPlaced, ComingIsFresh
<1>1. CASE BeginPass
  BY <1>1 DEF BeginPass, Coming
<1>2. CASE \E s \in Superior : RefreshTurn(s)
  <2> PICK s \in Superior : RefreshTurn(s)
    BY <1>2
  <2>1. mode' = "refresh" /\ todo' = todo \ {s} /\ mode # "sleep" /\ s \in todo
    BY DEF RefreshTurn
  <2>2. CASE s \in bReg
    <3>1. net' = net \cup {<<s, "register">>} /\ unsent' = [unsent EXCEPT ![s] = 0]
      BY <2>2 DEF RefreshTurn, Sent
    <3>2. QED
      BY <1>0, <2>1, <3>1 DEF Coming
  <2>3. CASE s \notin bReg
    <3>1. net' = net /\ unsent' = [unsent EXCEPT ![s] = @ + 1]
      BY <2>3 DEF RefreshTurn, Waited
    <3>2. Coming(t)
      BY <3>1 DEF Coming
    <3>3. QED
      BY <1>0, <2>1, <3>1, <3>2
  <2>4. QED
    BY <2>2, <2>3
<1>3. CASE \E s \in Superior : BeatTurn(s)
  <2> PICK s \in Superior : BeatTurn(s)
    BY <1>3
  <2>1. mode' = "beat" /\ mode = "beat" /\ todo' = todo \ {s} /\ s \in todo
    BY DEF BeatTurn
  <2>2. CASE s \in bReg /\ SilentTurn(s)
    <3>1. addr \in Superior
      BY <2>2 DEF SilentTurn, Placed, SuperiorTypeOK, AddressSet
    <3>2. /\ net' = net \cup {<<addr, "register">>}
          /\ unsent' = [[unsent EXCEPT ![s] = @ + 1] EXCEPT ![addr] = 0]
      BY <2>2 DEF SilentTurn, Waited
    <3>3. CASE t = addr
      BY <1>0, <3>1, <3>2, <3>3
    <3>4. CASE t # addr
      <4>1. Coming(t)
        BY <3>2, <3>4 DEF Coming
      <4>2. unsent'[t] = IF t = s THEN unsent[t] + 1 ELSE unsent[t]
        BY <1>0, <3>1, <3>2, <3>4
      <4>3. QED
        BY <1>0, <2>1, <4>1, <4>2
    <3>5. QED
      BY <3>3, <3>4
  <2>3. CASE s \in bReg /\ KeepaliveTurn(s)
    <3>1. /\ net' = net \cup {<<s, "keepalive">>}
          /\ unsent' = [unsent EXCEPT ![s] = @ + 1]
      BY <2>3 DEF KeepaliveTurn, Waited
    <3>2. Coming(t)
      BY <3>1 DEF Coming
    <3>3. QED
      BY <1>0, <2>1, <3>1, <3>2
  <2>4. CASE s \notin bReg /\ RegisterTurn(s)
    <3>1. net' = net \cup {<<s, "register">>} /\ unsent' = [unsent EXCEPT ![s] = 0]
      BY <2>4 DEF RegisterTurn, Sent
    <3>2. QED
      BY <1>0, <2>1, <3>1 DEF Coming
  <2>5. QED
    BY <2>2, <2>3, <2>4 DEF BeatTurn
<1>4. CASE CountKeepalive \/ EndPass
  <2>1. net' = net /\ unsent' = unsent /\ todo' = todo
    BY <1>4 DEF CountKeepalive, EndPass, history
  <2>2. /\ mode' = "sleep" /\ nHeartbit' = 0 => mode = "sleep" /\ nHeartbit = 0
    BY <1>0, <1>4 DEF CountKeepalive, EndPass
  <2>3. QED
    BY <1>0, <2>1, <2>2 DEF Coming
<1>5. CASE Exchange
  <2>1. UNCHANGED <<todo, mode, nHeartbit>>
    BY <1>5 DEF Exchange, SuperiorRegAnswer, Registered, LoggedOut, Challenged,
                SuperiorKeepaliveAns, SuperiorRecv, threadVars
  <2>2. (Coming(t) /\ unsent'[t] = unsent[t]) \/ unsent'[t] = 0
    <3>1. CASE \E s \in Superior : SuperiorRegAnswer(s)
      <4> PICK s \in Superior : SuperiorRegAnswer(s)
        BY <3>1
      <4>1. CASE Registered(s)
        BY <4>1 DEF Registered, Coming
      <4>2. CASE LoggedOut(s)
        <5>1. CASE t = s /\ s \in bReg
          BY <1>0, <4>2, <5>1 DEF LoggedOut, Sent
        <5>2. CASE t # s /\ s \in bReg
          <6>1. Coming(t) /\ unsent'[t] = unsent[t]
            BY <1>0, <4>2, <5>2 DEF LoggedOut, Sent, Coming
          <6>2. QED
            BY <6>1
        <5>3. CASE s \notin bReg
          BY <4>2, <5>3 DEF LoggedOut, Coming
        <5>4. QED
          BY <5>1, <5>2, <5>3
      <4>3. CASE Challenged(s)
        <5>1. CASE registerOut
          BY <4>3, <5>1 DEF Challenged, Coming
        <5>2. CASE ~ registerOut /\ t = s
          BY <1>0, <4>3, <5>2 DEF Challenged, Sent
        <5>3. CASE ~ registerOut /\ t # s
          BY <1>0, <4>3, <5>3 DEF Challenged, Sent, Coming
        <5>4. QED
          BY <5>1, <5>2, <5>3
      <4>4. QED
        BY <4>1, <4>2, <4>3 DEF SuperiorRegAnswer
    <3>2. CASE \E s \in Superior : SuperiorKeepaliveAns(s)
      BY <3>2 DEF SuperiorKeepaliveAns, Coming
    <3>3. CASE \E s \in Superior, k \in Request : SuperiorRecv(s, k)
      BY <3>3 DEF SuperiorRecv, Accepted, Request, Coming, history
    <3>4. QED
      BY <1>5, <3>1, <3>2, <3>3 DEF Exchange
  <2>3. QED
    BY <1>0, <2>1, <2>2
<1>6. CASE ReadSuperiors
  <2>1. /\ UNCHANGED <<todo, mode, nHeartbit, net>>
        /\ unsent'[t] = unsent[t] \/ unsent'[t] = 0
    BY <1>6 DEF ReadSuperiors, threadVars
  <2>2. QED
    BY <1>0, <2>1 DEF Coming
<1>7. CASE \/ \E s \in Superior : RebootMsgRecv(s)
           \/ \E m \in net : Lose(m)
           \/ \E s \in Superior : Forget(s)
           \/ UNCHANGED vars
  <2>1. UNCHANGED <<todo, mode, nHeartbit, unsent>>
    BY <1>7 DEF RebootMsgRecv, Lose, Forget, vars, threadVars, history
  <2>2. Coming(t)
    BY <1>7 DEF RebootMsgRecv, Lose, Forget, vars, Coming
  <2>3. QED
    BY <1>0, <2>1, <2>2
<1>8. QED
  BY <1>1, <1>2, <1>3, <1>4, <1>5, <1>6, <1>7 DEF Next, Pass

LEMMA UnsentStep == Placed /\ ComingIsFresh /\ UnsentBounded /\ [Next]_vars => UnsentBounded'
<1> SUFFICES ASSUME Placed, ComingIsFresh, UnsentBounded, [Next]_vars, NEW t \in listed'
             PROVE  /\ mode' = "sleep" => unsent'[t] <= Before(t)'
                    /\ mode' = "beat" /\ t \in todo' => unsent'[t] <= Before(t)'
                    /\ mode' = "beat" /\ t \notin todo' => unsent'[t] <= nHeartbit' + 1
                    /\ mode' = "refresh" => unsent'[t] <= InRefresh(t)'
  BY DEF UnsentBounded
<1> USE DEF Before, InRefresh
<1>0. /\ unsent \in [Superior -> Nat]
      /\ nHeartbit \in 0 .. Refresh
      /\ bReg \subseteq listed /\ todo \subseteq listed /\ listed \subseteq Superior
      /\ mode \in {"sleep", "refresh", "beat"}
      /\ mode = "sleep" => todo = {}
      /\ mode = "refresh" => nHeartbit = 0
      /\ mode = "beat" => nHeartbit < Refresh
  BY DEF Placed, SuperiorTypeOK, ThreadPlaced
<1>b. ASSUME t \in listed
      PROVE  /\ mode = "sleep" => unsent[t] <= Before(t)
             /\ mode = "beat" /\ t \in todo => unsent[t] <= Before(t)
             /\ mode = "beat" /\ t \notin todo => unsent[t] <= nHeartbit + 1
             /\ mode = "refresh" => unsent[t] <= InRefresh(t)
  BY <1>b DEF UnsentBounded
<1>1. CASE BeginPass
  <2>1. mode = "sleep" /\ todo' = listed /\ t \in listed /\ unsent' = unsent /\ bReg' = bReg
    BY <1>1 DEF BeginPass, serverVars, history
  <2>2. CASE RefreshDue
    BY <1>0, <1>1, <1>b, <2>1, <2>2 DEF BeginPass, RefreshDue
  <2>3. CASE ~ RefreshDue
    BY <1>0, <1>1, <1>b, <2>1, <2>3 DEF BeginPass
  <2>4. QED
    BY <2>2, <2>3
<1>2. CASE \E s \in Superior : RefreshTurn(s)
  <2> PICK s \in Superior : RefreshTurn(s)
    BY <1>2
  <2>1. /\ mode' = "refresh" /\ mode = "refresh" /\ todo' = todo \ {s} /\ s \in todo
        /\ bReg' = bReg \ {s} /\ listed' = listed
    BY DEF RefreshTurn
  <2>2. CASE t = s /\ s \in bReg
    BY <1>0, <2>1, <2>2 DEF RefreshTurn, Sent
  <2>3. CASE t = s /\ s \notin bReg
    BY <1>0, <1>b, <2>1, <2>3 DEF RefreshTurn, Waited
  <2>4. CASE t # s
    <3>1. unsent'[t] = unsent[t]
      BY <1>0, <2>1, <2>4 DEF RefreshTurn, Waited, Sent
    <3>2. QED
      BY <1>0, <1>b, <2>1, <2>4, <3>1
  <2>5. QED
    BY <2>2, <2>3, <2>4
<1>3. CASE \E s \in Superior : BeatTurn(s)
  <2> PICK s \in Superior : BeatTurn(s)
    BY <1>3
  <2>1. /\ mode' = "beat" /\ mode = "beat" /\ todo' = todo \ {s} /\ s \in todo
        /\ listed' = listed /\ nHeartbit' = nHeartbit
    BY DEF BeatTurn
  <2>2. bReg' \subseteq bReg /\ bReg \ {s} \subseteq bReg'
    BY DEF BeatTurn, SilentTurn, KeepaliveTurn, RegisterTurn
  <2>3. \/ unsent'[t] = 0
        \/ t # s /\ unsent'[t] = unsent[t]
        \/ t = s /\ s \in bReg /\ unsent'[t] = unsent[t] + 1
    <3>1. CASE s \in bReg /\ SilentTurn(s)
      <4>1. addr \in Superior
        BY <3>1 DEF SilentTurn, Placed, SuperiorTypeOK, AddressSet
      <4>2. unsent' = [[unsent EXCEPT ![s] = @ + 1] EXCEPT ![addr] = 0]
        BY <3>1 DEF SilentTurn, Waited
      <4>3. t \in Superior
        BY <1>0, <2>1
      <4>4. CASE t = addr
        BY <1>0, <4>1, <4>2, <4>4
      <4>5. CASE t # addr
        BY <1>0, <3>1, <4>1, <4>2, <4>3, <4>5
      <4>6. QED
        BY <4>4, <4>5
    <3>2. CASE s \in bReg /\ KeepaliveTurn(s)
      BY <1>0, <2>1, <3>2 DEF KeepaliveTurn, Waited
    <3>3. CASE s \notin bReg /\ RegisterTurn(s)
      BY <1>0, <2>1, <3>3 DEF RegisterTurn, Sent
    <3>4. QED
      BY <3>1, <3>2, <3>3 DEF BeatTurn
  <2>4. QED
    BY <1>0, <1>b, <2>1, <2>2, <2>3
<1>4. CASE CountKeepalive
  <2>1. UNCHANGED <<listed, bReg, nHeartbit, mode, todo, unsent>>
    BY <1>4 DEF CountKeepalive, history
  <2>2. QED
    BY <1>0, <1>b, <2>1
<1>5. CASE EndPass
  BY <1>0, <1>5, <1>b DEF EndPass, serverVars, history
<1>6. CASE Exchange
  <2>1. UNCHANGED <<listed, nHeartbit, mode, todo>>
    BY <1>6 DEF Exchange, SuperiorRegAnswer, Registered, LoggedOut, Challenged,
                SuperiorKeepaliveAns, SuperiorRecv, serverVars, threadVars
  <2>2. \/ unsent'[t] = 0
        \/ unsent'[t] = unsent[t] /\ (t \in bReg' <=> t \in bReg)
        \/ unsent'[t] = unsent[t] /\ Coming(t)
    <3>0. t \in Superior
      BY <1>0, <2>1
    <3>1. CASE \E s \in Superior : SuperiorRegAnswer(s)
      <4> PICK s \in Superior : SuperiorRegAnswer(s)
        BY <3>1
      <4>1. CASE Registered(s)
        BY <4>1 DEF Registered, Coming
      <4>2. CASE LoggedOut(s)
        <5>1. CASE t = s /\ s \in bReg
          BY <1>0, <3>0, <4>2, <5>1 DEF LoggedOut, Sent
        <5>2. CASE t # s
          <6>1. unsent'[t] = unsent[t]
            BY <1>0, <3>0, <4>2, <5>2 DEF LoggedOut, Sent
          <6>2. bReg' = bReg \ {s}
            BY <4>2 DEF LoggedOut
          <6>3. QED
            BY <5>2, <6>1, <6>2
        <5>3. CASE s \notin bReg
          <6>1. unsent' = unsent /\ bReg' = bReg \ {s}
            BY <4>2, <5>3 DEF LoggedOut
          <6>2. QED
            BY <5>3, <6>1
        <5>4. QED
          BY <5>1, <5>2, <5>3
      <4>3. CASE Challenged(s)
        <5>0. bReg' = bReg
          BY <4>3 DEF Challenged, serverVars
        <5>1. unsent' = unsent \/ unsent' = Sent(s)
          BY <4>3 DEF Challenged
        <5>2. CASE unsent' = unsent
          BY <5>0, <5>2
        <5>3. CASE unsent' = Sent(s)
          <6>1. unsent'[t] = 0 \/ unsent'[t] = unsent[t]
            BY <1>0, <3>0, <5>3 DEF Sent
          <6>2. QED
            BY <5>0, <6>1
        <5>4. QED
          BY <5>1, <5>2, <5>3
      <4>4. QED
        BY <4>1, <4>2, <4>3 DEF SuperiorRegAnswer
    <3>2. CASE \E s \in Superior : SuperiorKeepaliveAns(s)
      <4>1. unsent' = unsent /\ bReg' = bReg
        BY <3>2 DEF SuperiorKeepaliveAns
      <4>2. QED
        BY <4>1
    <3>3. CASE \E s \in Superior, k \in Request : SuperiorRecv(s, k)
      <4>1. unsent' = unsent /\ bReg' = bReg
        BY <3>3 DEF SuperiorRecv, serverVars, history
      <4>2. QED
        BY <4>1
    <3>4. QED
      BY <1>6, <3>1, <3>2, <3>3 DEF Exchange
  <2>3. Coming(t) => unsent[t] <= IF t \in todo \/ (mode = "sleep" /\ nHeartbit = 0) THEN 0 ELSE 1
    BY <1>0, <2>1 DEF ComingIsFresh
  <2>4. CASE unsent'[t] = 0
    BY <1>0, <2>1, <2>4
  <2>5. CASE unsent'[t] = unsent[t] /\ (t \in bReg' <=> t \in bReg)
    BY <1>0, <1>b, <2>1, <2>5
  <2>6. CASE unsent'[t] = unsent[t] /\ Coming(t)
    BY <1>0, <2>1, <2>3, <2>6
  <2>7. QED
    BY <2>2, <2>4, <2>5, <2>6
<1>7. CASE ReadSuperiors
  <2>1. UNCHANGED <<mode, nHeartbit, todo>> /\ mode = "sleep"
    BY <1>7 DEF ReadSuperiors, threadVars
  <2>2. \/ unsent'[t] = 0
        \/ t \in listed /\ unsent'[t] = unsent[t] /\ (t \in bReg' <=> t \in bReg)
    BY <1>0, <1>7 DEF ReadSuperiors
  <2>3. QED
    BY <1>0, <1>b, <2>1, <2>2
<1>8. CASE \/ \E s \in Superior : RebootMsgRecv(s)
           \/ \E m \in net : Lose(m)
           \/ \E s \in Superior : Forget(s)
           \/ UNCHANGED vars
  <2>1. UNCHANGED <<listed, bReg, todo, mode, nHeartbit, unsent>>
    BY <1>8 DEF RebootMsgRecv, Lose, Forget, vars, serverVars, threadVars, history
  <2>2. QED
    BY <1>0, <1>b, <2>1
<1>9. QED
  BY <1>1, <1>2, <1>3, <1>4, <1>5, <1>6, <1>7, <1>8 DEF Next, Pass

\* Every superior is sent a REGISTER within Refresh + 1 passes, for any
\* superiors, losses and reboots.
THEOREM RefreshIsInTime == Spec => []RefreshInTime
<1>1. Init => Placed /\ ComingIsFresh /\ UnsentBounded
  <2> SUFFICES ASSUME Init PROVE ComingIsFresh /\ UnsentBounded
    BY InitPlaced
  <2>1. \A s \in Superior : unsent[s] = 0
    BY DEF Init
  <2>2. mode = "sleep" /\ nHeartbit = 0 /\ listed = Superior
    BY DEF Init
  <2>3. QED
    BY <2>1, <2>2 DEF ComingIsFresh, UnsentBounded, Before
<1>2. Placed /\ ComingIsFresh /\ UnsentBounded /\ [Next]_vars
        => (Placed /\ ComingIsFresh /\ UnsentBounded)'
  BY StepPlaced, ComingStep, UnsentStep
<1>3. Placed /\ UnsentBounded => RefreshInTime
  <2> SUFFICES ASSUME Placed, UnsentBounded, NEW s \in listed
               PROVE  unsent[s] <= Refresh + 1
    BY DEF RefreshInTime
  <2>1. /\ unsent[s] \in Nat
        /\ nHeartbit \in 0 .. Refresh
        /\ mode \in {"sleep", "refresh", "beat"}
        /\ mode = "beat" => nHeartbit < Refresh
    BY DEF Placed, SuperiorTypeOK, ThreadPlaced
  <2>2. QED
    BY <2>1 DEF UnsentBounded, Before, InRefresh
<1>4. QED
  BY <1>1, <1>2, <1>3, PTL DEF Spec
==============================================================================

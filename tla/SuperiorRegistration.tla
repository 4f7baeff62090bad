------------------------ MODULE SuperiorRegistration ------------------------
(***************************************************************************)
(* The server's own registration with superior platforms (m_mapSuperior).  *)
(* One thread makes a pass over them every 30 s (SuperiorSendKeepalive):   *)
(* it sends keepalives, and registers again after Refresh passes or after  *)
(* NoAnswers keepalives without an answer.  IO threads handle the answers  *)
(* and the reboot command; no lock is taken.                               *)
(*                                                                         *)
(* No message outlives the pass it was sent in: CSIPProtocol drops answers *)
(* that come later than its resends (ResendProtocol, MapDrains).  Every    *)
(* superior has an IP address of its own.                                  *)
(***************************************************************************)
EXTENDS Naturals

CONSTANTS
    Superior,
    NeedsAuth,   \* superiors that ask for authentication
    Refresh,     \* passes between two registrations, 60
    NoAnswers,   \* KEEPALIVENOANS, 5
    NoOne,
    MaxReboot,   \* bound of reboot commands
    MaxLoss      \* bound of lost messages and forgotten registrations

ASSUME SuperiorAssumption ==
    /\ NeedsAuth \subseteq Superior
    /\ Refresh \in Nat /\ Refresh > 1
    /\ NoAnswers \in Nat \ {0}
    /\ NoOne \notin Superior
    /\ MaxReboot \in Nat
    /\ MaxLoss \in Nat

VARIABLES
    listed,       \* superiors in m_mapSuperior
    bReg,
    nNoAns,       \* nNoAnsKeepalive
    registerOut,  \* m_bRegisterOut, one for all of them
    nHeartbit,
    mode,         \* what the thread does in this pass
    todo,         \* superiors it has not come to
    counting,     \* keepalive sent, not yet counted
    addr,         \* the thread's local address
    net,          \* messages in flight
    holds,        \* superiors that hold a registration of this server
    reboots,
    losses,
    quiet,        \* turns since an answer of a superior was handled
    unsent        \* turns since it was sent a REGISTER

serverVars == <<listed, bReg, nNoAns, registerOut>>
threadVars == <<nHeartbit, mode, todo, counting, addr>>
bounds == <<reboots, losses>>
history == <<quiet, unsent>>
vars == <<serverVars, threadVars, net, holds, bounds, history>>

Request == {"register", "registerAuth", "out", "outAuth", "keepalive"}
Answer == {"ok", "okOut", "401", "alive"}
Msg == Superior \X (Request \cup Answer)

\* A REGISTER with Expires 3600 that goes to s.
Sent(s) == [unsent EXCEPT ![s] = 0]

\* An answer of s.
Heard(s) == [quiet EXCEPT ![s] = 0]

\* A turn of s that sends it no REGISTER, and one that does.
Waited(s) == [unsent EXCEPT ![s] = @ + 1]
Turn(s) == quiet' = [quiet EXCEPT ![s] = @ + 1]

(***************************************************************************)
(* The thread.                                                             *)
(***************************************************************************)
\* SuperiorSendRegMsg has sent the first REGISTERs; the thread sleeps 5 s.
Init ==
    /\ listed = Superior
    /\ bReg = {}
    /\ nNoAns = [s \in Superior |-> 0]
    /\ registerOut = FALSE
    /\ nHeartbit = 0
    /\ mode = "sleep"
    /\ todo = {}
    /\ counting = NoOne
    /\ addr = NoOne
    /\ net = Superior \X {"register"}
    /\ holds = {}
    /\ reboots = 0
    /\ losses = 0
    /\ quiet = [s \in Superior |-> 0]
    /\ unsent = [s \in Superior |-> 0]

\* Mutant: off by one.
RefreshDueLate == nHeartbit > Refresh

RefreshDue == nHeartbit >= Refresh

BeginPass ==
    /\ mode = "sleep"
    /\ net = {}
    /\ todo' = listed
    /\ IF RefreshDue
         THEN mode' = "refresh" /\ nHeartbit' = 0
         ELSE mode' = "beat" /\ UNCHANGED nHeartbit
    /\ UNCHANGED <<serverVars, counting, addr, net, holds, bounds, history>>

\* The registration is forgotten and made again.  A superior that was not
\* registered is passed over.
RefreshTurn(s) ==
    /\ mode = "refresh"
    /\ s \in todo
    /\ todo' = todo \ {s}
    /\ bReg' = bReg \ {s}
    /\ IF s \in bReg
         THEN /\ addr' = s
              /\ net' = net \cup {<<s, "register">>}
              /\ unsent' = Sent(s)
         ELSE /\ unsent' = Waited(s)
              /\ UNCHANGED <<addr, net>>
    /\ Turn(s)
    /\ UNCHANGED <<listed, nNoAns, registerOut, nHeartbit, mode, counting, holds, bounds>>

\* Mutant: bReg stays.
SilentTurnKept(s) ==
    /\ nNoAns[s] >= NoAnswers
    /\ net' = net \cup {<<addr, "register">>}
    /\ unsent' = [Waited(s) EXCEPT ![addr] = 0]
    /\ nNoAns' = [nNoAns EXCEPT ![s] = 0]
    /\ UNCHANGED <<bReg, addr, counting>>

\* Keepalives were not answered.  The REGISTER goes to the address set last,
\* which may be that of another superior.
SilentTurn(s) ==
    /\ nNoAns[s] >= NoAnswers
    /\ bReg' = bReg \ {s}
    /\ net' = net \cup {<<addr, "register">>}
    /\ unsent' = [Waited(s) EXCEPT ![addr] = 0]
    /\ nNoAns' = [nNoAns EXCEPT ![s] = 0]
    /\ UNCHANGED <<addr, counting>>

KeepaliveTurn(s) ==
    /\ nNoAns[s] < NoAnswers
    /\ addr' = s
    /\ net' = net \cup {<<s, "keepalive">>}
    /\ counting' = s
    /\ unsent' = Waited(s)
    /\ UNCHANGED <<bReg, nNoAns>>

RegisterTurn(s) ==
    /\ addr' = s
    /\ net' = net \cup {<<s, "register">>}
    /\ nNoAns' = [nNoAns EXCEPT ![s] = 0]
    /\ unsent' = Sent(s)
    /\ UNCHANGED <<bReg, counting>>

BeatTurn(s) ==
    /\ mode = "beat"
    /\ counting = NoOne
    /\ s \in todo
    /\ todo' = todo \ {s}
    /\ IF s \in bReg THEN SilentTurn(s) \/ KeepaliveTurn(s) ELSE RegisterTurn(s)
    /\ Turn(s)
    /\ UNCHANGED <<listed, registerOut, nHeartbit, mode, holds, bounds>>

\* After sendBuf has returned: the answer may have been handled already.
CountKeepalive ==
    /\ counting # NoOne
    /\ nNoAns' = [nNoAns EXCEPT ![counting] = @ + 1]
    /\ counting' = NoOne
    /\ UNCHANGED <<listed, bReg, registerOut, nHeartbit, mode, todo, addr, net, holds,
                   bounds, history>>

EndPass ==
    /\ mode # "sleep"
    /\ todo = {}
    /\ counting = NoOne
    /\ mode' = "sleep"
    /\ nHeartbit' = nHeartbit + 1
    /\ UNCHANGED <<serverVars, todo, counting, addr, net, holds, bounds, history>>

(***************************************************************************)
(* The IO threads.                                                         *)
(***************************************************************************)
\* 200 with Expires: a removed superior is not found.
Registered(s) ==
    /\ <<s, "ok">> \in net
    /\ net' = net \ {<<s, "ok">>}
    /\ bReg' = bReg \cup ({s} \cap listed)
    /\ quiet' = Heard(s)
    /\ UNCHANGED <<listed, nNoAns, registerOut, threadVars, holds, bounds, unsent>>

\* Mutant: m_bRegisterOut stays.
AfterLogoutKept == registerOut

\* 200 with Expires 0.
AfterLogout == FALSE

LoggedOut(s) ==
    /\ <<s, "okOut">> \in net
    /\ registerOut' = IF s \in listed THEN AfterLogout ELSE registerOut
    /\ bReg' = bReg \ {s}
    /\ IF s \in bReg
         THEN /\ net' = (net \ {<<s, "okOut">>}) \cup {<<s, "register">>}
              /\ unsent' = Sent(s)
         ELSE /\ net' = net \ {<<s, "okOut">>}
              /\ UNCHANGED unsent
    /\ quiet' = Heard(s)
    /\ UNCHANGED <<listed, nNoAns, threadVars, holds, bounds>>

\* 401: again, with authentication, a logout if one is in progress, whoever
\* it was for.
Challenged(s) ==
    /\ <<s, "401">> \in net
    /\ IF registerOut
         THEN /\ net' = (net \ {<<s, "401">>}) \cup {<<s, "outAuth">>}
              /\ UNCHANGED unsent
         ELSE /\ net' = (net \ {<<s, "401">>}) \cup {<<s, "registerAuth">>}
              /\ unsent' = Sent(s)
    /\ UNCHANGED <<serverVars, threadVars, holds, bounds, quiet>>

SuperiorRegAnswer(s) == Registered(s) \/ LoggedOut(s) \/ Challenged(s)

\* The reset may fall between the reading and the writing of the thread's
\* increment, and be lost.
SuperiorKeepaliveAns(s) ==
    /\ <<s, "alive">> \in net
    /\ net' = net \ {<<s, "alive">>}
    /\ \/ nNoAns' = [nNoAns EXCEPT ![s] = 0]
       \/ counting = s /\ UNCHANGED nNoAns
    /\ quiet' = Heard(s)
    /\ UNCHANGED <<listed, bReg, registerOut, threadVars, holds, bounds, unsent>>

RebootMsgRecv(s) ==
    /\ s \in listed
    /\ reboots < MaxReboot
    /\ reboots' = reboots + 1
    /\ registerOut' = TRUE
    /\ net' = net \cup {<<s, "out">>}
    /\ UNCHANGED <<listed, bReg, nNoAns, threadVars, holds, losses, history>>

\* Init(true): superiors are added and removed as the configuration says.  One
\* that is removed is not logged out.  Nothing keeps this from the middle of a
\* pass, whose iterator it may erase; the model has it while the thread sleeps.
ReadSuperiors ==
    /\ mode = "sleep"
    /\ \E now \in SUBSET Superior :
          /\ listed' = now
          /\ bReg' = bReg \cap now
          /\ nNoAns' = [s \in Superior |-> IF s \in listed \cap now THEN nNoAns[s] ELSE 0]
          /\ unsent' = [s \in Superior |-> IF s \in listed \cap now THEN unsent[s] ELSE 0]
          /\ quiet' = [s \in Superior |-> IF s \in listed \cap now THEN quiet[s] ELSE 0]
    /\ UNCHANGED <<registerOut, threadVars, net, holds, bounds>>

(***************************************************************************)
(* The superiors and the network.                                          *)
(***************************************************************************)
\* The requests that s accepts.
Accepted(s, plain, auth) == IF s \in NeedsAuth THEN {auth} ELSE {plain, auth}

\* A keepalive of a server that is not registered is answered 403, which the
\* server ignores.
SuperiorRecv(s, k) ==
    /\ <<s, k>> \in net
    /\ \/ /\ k \in {"register", "out"}
          /\ s \in NeedsAuth
          /\ net' = (net \ {<<s, k>>}) \cup {<<s, "401">>}
          /\ UNCHANGED holds
       \/ /\ k \in Accepted(s, "register", "registerAuth")
          /\ net' = (net \ {<<s, k>>}) \cup {<<s, "ok">>}
          /\ holds' = holds \cup {s}
       \/ /\ k \in Accepted(s, "out", "outAuth")
          /\ net' = (net \ {<<s, k>>}) \cup {<<s, "okOut">>}
          /\ holds' = holds \ {s}
       \/ /\ k = "keepalive"
          /\ net' = (net \ {<<s, k>>}) \cup (IF s \in holds THEN {<<s, "alive">>} ELSE {})
          /\ UNCHANGED holds
    /\ UNCHANGED <<serverVars, threadVars, bounds, history>>

Lose(m) ==
    /\ m \in net
    /\ losses < MaxLoss
    /\ losses' = losses + 1
    /\ net' = net \ {m}
    /\ UNCHANGED <<serverVars, threadVars, holds, reboots, history>>

\* A superior restarts.
Forget(s) ==
    /\ s \in holds
    /\ losses < MaxLoss
    /\ losses' = losses + 1
    /\ holds' = holds \ {s}
    /\ UNCHANGED <<serverVars, threadVars, net, reboots, history>>

Pass ==
    \/ BeginPass
    \/ \E s \in Superior : RefreshTurn(s)
    \/ \E s \in Superior : BeatTurn(s)
    \/ CountKeepalive
    \/ EndPass

Exchange ==
    \/ \E s \in Superior : SuperiorRegAnswer(s)
    \/ \E s \in Superior : SuperiorKeepaliveAns(s)
    \/ \E s \in Superior, k \in Request : SuperiorRecv(s, k)

Next ==
    \/ Pass
    \/ Exchange
    \/ \E s \in Superior : RebootMsgRecv(s)
    \/ ReadSuperiors
    \/ \E m \in net : Lose(m)
    \/ \E s \in Superior : Forget(s)

Spec == Init /\ [][Next]_vars

\* The thread runs, and messages that are not lost arrive and are handled.
FairSpec == Spec /\ WF_vars(Pass) /\ WF_vars(Exchange)

(***************************************************************************)
(* Correctness.                                                            *)
(***************************************************************************)
SuperiorTypeOK ==
    /\ listed \subseteq Superior
    /\ bReg \subseteq listed
    /\ nNoAns \in [Superior -> 0 .. NoAnswers]
    /\ registerOut \in BOOLEAN
    /\ nHeartbit \in 0 .. Refresh
    /\ mode \in {"sleep", "refresh", "beat"}
    /\ todo \subseteq listed
    /\ counting \in listed \cup {NoOne}
    /\ addr \in Superior \cup {NoOne}
    /\ net \subseteq Msg
    /\ holds \subseteq Superior
    /\ reboots \in 0 .. MaxReboot
    /\ losses \in 0 .. MaxLoss
    /\ quiet \in [Superior -> Nat]
    /\ unsent \in [Superior -> Nat]

\* A superior is only taken for registered while it answers: after NoAnswers
\* keepalives without an answer it is registered again, although registrations
\* in between leave the count and answers race with its increment.
SilenceNoticed == \A s \in bReg : quiet[s] <= NoAnswers

\* Every superior is sent a REGISTER within Refresh + 1 passes (1830 s), before
\* the 3600 s of its registration are over, also when the one after unanswered
\* keepalives went astray right before a refresh.
RefreshInTime == \A s \in listed : unsent[s] <= Refresh + 1

\* Whatever was lost or forgotten, or logged out by a reboot command of another
\* superior, each one comes to hold a registration again and the server to know.
KeptRegistered == \A s \in Superior : []<>(s \in listed => s \in bReg \cap holds)

\* A reboot command does not leave the server logging out for ever, while a
\* superior that asks for authentication is there.
RebootEnds == registerOut ~> (~ registerOut \/ listed \cap NeedsAuth = {})
==============================================================================

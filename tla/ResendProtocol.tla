--------------------------- MODULE ResendProtocol ---------------------------
(***************************************************************************)
(* CSIPProtocol over UDP: sendBuf remembers the last request it sent for   *)
(* each Call-ID (m_mapResendMsgInfo), the resend thread repeats it after   *)
(* Base, 2 Base and 4 Base units of time, and the IO threads pass an answer *)
(* on only while its Call-ID is in the map.                                *)
(*                                                                         *)
(* Time is discrete.  The resend thread looks at the whole map, under      *)
(* m_mapLock, every MinScan to MaxScan units: it sleeps MinScan and may be *)
(* late.  Messages are lost by never being answered.                       *)
(***************************************************************************)
EXTENDS Integers

CONSTANTS
    CallID,
    Msg,       \* the requests the server sends, and its 200s of an INVITE
    CallOf,    \* the Call-ID of each
    NoEntry,   \* not in the map
    Base,      \* 500 ms
    MinScan,   \* the Sleep between two scans, 500 ms
    MaxScan,   \* and how late a scan may be
    MaxAge     \* bound of the clocks

\* The longest time a request is in the map.
Longest == 7 * Base + 4 * MaxScan

ASSUME ResendAssumption ==
    /\ CallOf \in [Msg -> CallID]
    /\ Base \in Nat \ {0}
    /\ MinScan \in Nat \ {0}
    /\ MaxScan \in Nat
    /\ MinScan <= MaxScan
    /\ MaxAge \in Nat
    /\ MaxAge > Longest
    /\ NoEntry \notin [msg : Msg, age : Nat, count : Nat, rep : BOOLEAN]

VARIABLES
    entry,      \* m_mapResendMsgInfo; age is the time since nSendTime
    stage,      \* how far sendBuf has come with each message
    copies,     \* how often each message went out
    delivered,  \* messages whose answer was passed to a handler
    phase,      \* time since the last scan
    since,      \* time since a message with this Call-ID was recorded
    heard       \* Call-IDs with an answer or a failed send since then

vars == <<entry, stage, copies, delivered, phase, since, heard>>

Entry == [msg : Msg, age : Nat, count : 0 .. 3, rep : BOOLEAN]

Pending == {d \in CallID : entry[d] # NoEntry}

\* 500 * 2^n.
Wait == [n \in 0 .. 3 |-> IF n = 0 THEN Base ELSE IF n = 1 THEN 2 * Base
                          ELSE IF n = 2 THEN 4 * Base ELSE 8 * Base]

Recorded(m) == [msg |-> m, age |-> 0, count |-> 0, rep |-> FALSE]
Resent(r) == [msg |-> r.msg, age |-> 0, count |-> r.count + 1, rep |-> r.rep]
Answered(r) == [msg |-> r.msg, age |-> r.age, count |-> r.count, rep |-> TRUE]
Older(r) == [msg |-> r.msg, age |-> r.age + 1, count |-> r.count, rep |-> r.rep]

\* Mutant: one resend more.
FinishedLate(d) == d \in Pending /\ (entry[d].rep \/ entry[d].count > 3)

\* Mutant: only an answer ends it.
FinishedAnswered(d) == d \in Pending /\ entry[d].rep

\* Mutant: one resend less.
FinishedEarly(d) == d \in Pending /\ (entry[d].rep \/ entry[d].count >= 2)

\* What the scan drops, and what it sends again.
Finished(d) == d \in Pending /\ (entry[d].rep \/ entry[d].count >= 3)

Due(d) == d \in Pending /\ ~ Finished(d) /\ entry[d].age > Wait[entry[d].count]

(***************************************************************************)
(* Operations.                                                             *)
(***************************************************************************)
Init ==
    /\ entry = [d \in CallID |-> NoEntry]
    /\ stage = [m \in Msg |-> "new"]
    /\ copies = [m \in Msg |-> 0]
    /\ delivered = {}
    /\ phase = 0
    /\ since = [d \in CallID |-> MaxAge]
    /\ heard = {}

\* sendBuf first takes the place of whatever its Call-ID has in the map.
Record(m) ==
    /\ stage[m] = "new"
    /\ stage' = [stage EXCEPT ![m] = "recorded"]
    /\ entry' = [entry EXCEPT ![CallOf[m]] = Recorded(m)]
    /\ since' = [since EXCEPT ![CallOf[m]] = 0]
    /\ heard' = heard \ {CallOf[m]}
    /\ UNCHANGED <<copies, delivered, phase>>

\* Then it sends,
Transmit(m) ==
    /\ stage[m] = "recorded"
    /\ stage' = [stage EXCEPT ![m] = "sent"]
    /\ copies' = [copies EXCEPT ![m] = @ + 1]
    /\ UNCHANGED <<entry, delivered, phase, since, heard>>

\* or fails to, and drops what the Call-ID has in the map by then.
TransmitFails(m) ==
    /\ stage[m] = "recorded"
    /\ stage' = [stage EXCEPT ![m] = "failed"]
    /\ entry' = [entry EXCEPT ![CallOf[m]] = NoEntry]
    /\ heard' = heard \cup {CallOf[m]}
    /\ UNCHANGED <<copies, delivered, phase, since>>

\* A send that is not kept for resending, of an ACK or of a reply, drops what
\* its Call-ID has in the map as well when it fails.
ReplyFails(d) ==
    /\ d \in Pending
    /\ entry' = [entry EXCEPT ![d] = NoEntry]
    /\ heard' = heard \cup {d}
    /\ UNCHANGED <<stage, copies, delivered, phase, since>>

\* Mutant: the answer does not stop the resends.
ServerWorkerDeaf(m) ==
    /\ copies[m] > 0
    /\ CallOf[m] \in Pending
    /\ delivered' = delivered \cup {m}
    /\ heard' = heard \cup {CallOf[m]}
    /\ UNCHANGED <<entry, stage, copies, phase, since>>

\* ServerWorker: the answer of a message, whichever message of its Call-ID the
\* map holds by now.  Without an entry it is dropped, and nothing changes.
ServerWorker(m) ==
    /\ copies[m] > 0
    /\ CallOf[m] \in Pending
    /\ entry' = [entry EXCEPT ![CallOf[m]] = Answered(@)]
    /\ delivered' = delivered \cup {m}
    /\ heard' = heard \cup {CallOf[m]}
    /\ UNCHANGED <<stage, copies, phase, since>>

\* ResendMsgAction, one pass over the map.
ResendMsgAction ==
    /\ phase >= MinScan
    /\ phase' = 0
    /\ entry' = [d \in CallID |-> IF Finished(d) THEN NoEntry
                                  ELSE IF Due(d) THEN Resent(entry[d])
                                  ELSE entry[d]]
    /\ copies' = [m \in Msg |-> IF Due(CallOf[m]) /\ entry[CallOf[m]].msg = m
                                  THEN copies[m] + 1 ELSE copies[m]]
    /\ UNCHANGED <<stage, delivered, since, heard>>

Tick ==
    /\ phase < MaxScan
    /\ phase' = phase + 1
    /\ entry' = [d \in CallID |-> IF d \in Pending THEN Older(entry[d]) ELSE NoEntry]
    /\ since' = [d \in CallID |-> IF since[d] < MaxAge THEN since[d] + 1 ELSE MaxAge]
    /\ UNCHANGED <<stage, copies, delivered, heard>>

Next ==
    \/ \E m \in Msg : Record(m)
    \/ \E m \in Msg : Transmit(m)
    \/ \E m \in Msg : TransmitFails(m)
    \/ \E d \in CallID : ReplyFails(d)
    \/ \E m \in Msg : ServerWorker(m)
    \/ ResendMsgAction
    \/ Tick

Spec == Init /\ [][Next]_vars

(***************************************************************************)
(* Correctness.                                                            *)
(***************************************************************************)

\* Types; an entry belongs to its Call-ID and to a message that was recorded.
ResendTypeOK ==
    /\ entry \in [CallID -> Entry \cup {NoEntry}]
    /\ stage \in [Msg -> {"new", "recorded", "sent", "failed"}]
    /\ copies \in [Msg -> Nat]
    /\ delivered \subseteq Msg
    /\ phase \in 0 .. MaxScan
    /\ since \in [CallID -> 0 .. MaxAge]
    /\ heard \subseteq CallID
    /\ \A d \in Pending : CallOf[entry[d].msg] = d /\ stage[entry[d].msg] # "new"

\* A message goes out four times at most, however sendBuf, the resend thread
\* and the answers interleave.
AtMostFourCopies == \A m \in Msg : copies[m] <= 4

\* No answer is dropped for being late within the times of the resends and one
\* more scan, four seconds with the code's numbers: unless an answer with its
\* Call-ID has come, or a send failed, the Call-ID is still in the map.
AnswersAwaited ==
    \A d \in CallID :
        since[d] <= 7 * Base + MinScan /\ d \notin heard => d \in Pending

\* The map holds no request for longer than its resends take, answered or not:
\* it does not grow with the calls of the past.
MapDrains == \A d \in Pending : since[d] <= Longest

\* A message whose answer a handler has seen is not sent again, once sendBuf is
\* through with it.
AnsweredIsQuiet ==
    [][\A m \in delivered : stage[m] # "recorded" => copies'[m] = copies[m]]_vars
==============================================================================

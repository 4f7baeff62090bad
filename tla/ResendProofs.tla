---------------------------- MODULE ResendProofs ----------------------------
(***************************************************************************)
(* Proofs about ResendProtocol, for any dialogs and messages and any times. *)
(***************************************************************************)
EXTENDS ResendProtocol, TLAPS

\* The earliest and the latest time, from the recording of a request, of its
\* n-th resend.
Earliest == [n \in 0 .. 3 |-> IF n = 0 THEN 0 ELSE IF n = 1 THEN Base + 1
                              ELSE IF n = 2 THEN 3 * Base + 2 ELSE 7 * Base + 3]
Latest == [n \in 0 .. 3 |-> IF n = 0 THEN 0 ELSE IF n = 1 THEN Base + MaxScan
                            ELSE IF n = 2 THEN 3 * Base + 2 * MaxScan
                            ELSE 7 * Base + 3 * MaxScan]

\* The copies of a message are the resends counted in its entry and, once
\* sendBuf is through, its own; out of the map they stay within the bound.
CopiesCounted(m) ==
    /\ stage[m] = "new" => copies[m] = 0 /\ m \notin delivered
    /\ stage[m] # "sent" => copies[m] <= 3
    /\ copies[m] <= 4

EntryCounted(d) ==
    LET m == entry[d].msg
    IN /\ stage[m] = "recorded" => copies[m] = entry[d].count
       /\ stage[m] = "sent" => copies[m] = entry[d].count + 1
       /\ stage[m] \in {"recorded", "sent"}
       /\ m \in delivered => entry[d].rep

\* The clocks of an entry agree with the resends it counts.
EntryTimed(d) ==
    /\ since[d] <= entry[d].age + Latest[entry[d].count]
    /\ since[d] >= entry[d].age + Earliest[entry[d].count]
    /\ entry[d].count < 3 => entry[d].age <= Wait[entry[d].count] + phase
    /\ entry[d].count = 3 => entry[d].age = phase

Awaited(d) ==
    since[d] <= 7 * Base + MinScan /\ d \notin heard => d \in Pending /\ ~ entry[d].rep

ResendInv ==
    /\ ResendTypeOK
    /\ \A m \in Msg : CopiesCounted(m)
    /\ \A d \in Pending : EntryCounted(d)
    /\ \A d \in Pending : EntryTimed(d)
    /\ \A d \in CallID : Awaited(d)

(***************************************************************************)
(* The tables of times, and the entries.                                   *)
(***************************************************************************)
LEMMA Times ==
    /\ Wait[0] = Base /\ Wait[1] = 2 * Base /\ Wait[2] = 4 * Base /\ Wait[3] = 8 * Base
    /\ Earliest[0] = 0 /\ Earliest[1] = Base + 1
    /\ Earliest[2] = 3 * Base + 2 /\ Earliest[3] = 7 * Base + 3
    /\ Latest[0] = 0 /\ Latest[1] = Base + MaxScan
    /\ Latest[2] = 3 * Base + 2 * MaxScan /\ Latest[3] = 7 * Base + 3 * MaxScan
BY ResendAssumption, SMT DEF Wait, Earliest, Latest

LEMMA Entries ==
    ASSUME ResendTypeOK, NEW d \in Pending
    PROVE  /\ d \in CallID /\ entry[d] \in Entry /\ entry[d] # NoEntry
           /\ entry[d].msg \in Msg /\ CallOf[entry[d].msg] = d
           /\ entry[d].age \in Nat
           /\ entry[d].count \in 0 .. 3 /\ entry[d].rep \in BOOLEAN
BY DEF ResendTypeOK, Pending, Entry

LEMMA NoEntryApart == \A r \in Entry : r # NoEntry
BY ResendAssumption DEF Entry

LEMMA Constructors ==
    ASSUME NEW r \in Entry
    PROVE  /\ Answered(r) \in Entry /\ Older(r) \in Entry
           /\ r.count < 3 => Resent(r) \in Entry
BY DEF Entry, Answered, Older, Resent

\* What one pass of the resend thread does to a dialog.
LEMMA ScanOfDialog ==
    ASSUME ResendTypeOK, ResendMsgAction, NEW d \in CallID
    PROVE  /\ d \notin Pending => entry'[d] = NoEntry
           /\ Finished(d) => entry'[d] = NoEntry
           /\ d \in Pending /\ ~ Finished(d) =>
                /\ entry[d].rep = FALSE /\ entry[d].count < 3
                /\ Due(d) => entry'[d] = Resent(entry[d]) /\ Resent(entry[d]) \in Entry
                /\ ~ Due(d) => entry'[d] = entry[d] /\ entry[d].age <= Wait[entry[d].count]
<1>1. entry'[d] = IF Finished(d) THEN NoEntry ELSE IF Due(d) THEN Resent(entry[d])
                  ELSE entry[d]
  BY DEF ResendMsgAction
<1>2. CASE d \notin Pending
  BY <1>1, <1>2 DEF Pending, Finished, Due
<1>3. CASE d \in Pending
  <2>1. entry[d].count \in 0 .. 3 /\ entry[d].rep \in BOOLEAN /\ entry[d] \in Entry
        /\ entry[d].age \in Nat
    BY <1>3, Entries
  <2>2. ~ Finished(d) => entry[d].rep = FALSE /\ entry[d].count < 3
    BY <1>3, <2>1 DEF Finished
  <2>3. ~ Finished(d) /\ Due(d) => Resent(entry[d]) \in Entry
    BY <2>1, <2>2, Constructors
  <2>4. Wait[entry[d].count] \in Nat
    BY <2>1, ResendAssumption, SMT DEF Wait
  <2>5. ~ Finished(d) /\ ~ Due(d) => entry[d].age <= Wait[entry[d].count]
    BY <1>3, <2>1, <2>4, SMT DEF Due
  <2> QED
    BY <1>1, <1>3, <2>2, <2>3, <2>5
<1> QED
  BY <1>2, <1>3

(***************************************************************************)
(* Types.                                                                  *)
(***************************************************************************)
LEMMA TypesOfStep ==
    ASSUME ResendTypeOK, [Next]_vars
    PROVE  ResendTypeOK'
<1> DEFINE EntryOK(d) == entry'[d] # NoEntry =>
                           CallOf[entry'[d].msg] = d /\ stage'[entry'[d].msg] # "new"
           Shape == /\ entry' \in [CallID -> Entry \cup {NoEntry}]
                    /\ stage' \in [Msg -> {"new", "recorded", "sent", "failed"}]
                    /\ copies' \in [Msg -> Nat]
                    /\ delivered' \subseteq Msg
                    /\ phase' \in 0 .. MaxScan
                    /\ since' \in [CallID -> 0 .. MaxAge]
                    /\ heard' \subseteq CallID
<1>0. SUFFICES Shape /\ \A d \in CallID : EntryOK(d)
  BY DEF ResendTypeOK, Pending
<1>c. \A m \in Msg : CallOf[m] \in CallID
  BY ResendAssumption
<1>o. ASSUME NEW d \in CallID, entry[d] # NoEntry
      PROVE  /\ entry[d] \in Entry /\ entry[d].msg \in Msg
             /\ CallOf[entry[d].msg] = d /\ stage[entry[d].msg] # "new"
  BY <1>o DEF ResendTypeOK, Pending, Entry
<1>1. ASSUME NEW m \in Msg, Record(m) PROVE Shape /\ \A d \in CallID : EntryOK(d)
  <2>1. Recorded(m) \in Entry /\ Recorded(m).msg = m
    BY DEF Entry, Recorded
  <2>2. 0 \in 0 .. MaxAge
    BY ResendAssumption
  <2>3. Shape
    BY <1>1, <1>c, <2>1, <2>2 DEF Record, ResendTypeOK
  <2>4. ASSUME NEW d \in CallID PROVE EntryOK(d)
    <3>1. CASE d = CallOf[m]
      <4>1. entry'[d] = Recorded(m) /\ stage'[m] = "recorded"
        BY <1>1, <3>1 DEF Record, ResendTypeOK
      <4> QED
        BY <4>1, <2>1, <3>1
    <3>2. CASE d # CallOf[m]
      <4>1. entry'[d] = entry[d] /\ stage' = [stage EXCEPT ![m] = "recorded"]
        BY <1>1, <3>2 DEF Record, ResendTypeOK
      <4> QED
        BY <4>1, <1>o DEF ResendTypeOK
    <3> QED
      BY <3>1, <3>2
  <2> QED
    BY <2>3, <2>4
<1>2. ASSUME NEW m \in Msg, Transmit(m) PROVE Shape /\ \A d \in CallID : EntryOK(d)
  <2>1. Shape
    BY <1>2 DEF Transmit, ResendTypeOK
  <2>2. ASSUME NEW d \in CallID PROVE EntryOK(d)
    BY <1>2, <1>o DEF Transmit, ResendTypeOK
  <2> QED
    BY <2>1, <2>2
<1>3. ASSUME NEW m \in Msg, TransmitFails(m) PROVE Shape /\ \A d \in CallID : EntryOK(d)
  <2>1. Shape
    BY <1>3, <1>c DEF TransmitFails, ResendTypeOK
  <2>2. ASSUME NEW d \in CallID PROVE EntryOK(d)
    BY <1>3, <1>o DEF TransmitFails, ResendTypeOK
  <2> QED
    BY <2>1, <2>2
<1>8. ASSUME NEW c \in CallID, ReplyFails(c) PROVE Shape /\ \A d \in CallID : EntryOK(d)
  <2>1. Shape
    BY <1>8 DEF ReplyFails, ResendTypeOK
  <2>2. ASSUME NEW d \in CallID PROVE EntryOK(d)
    BY <1>8, <1>o DEF ReplyFails, ResendTypeOK
  <2> QED
    BY <2>1, <2>2
<1>4. ASSUME NEW m \in Msg, ServerWorker(m) PROVE Shape /\ \A d \in CallID : EntryOK(d)
  <2>1. CallOf[m] \in CallID /\ entry[CallOf[m]] # NoEntry
    BY <1>4, <1>c DEF ServerWorker, Pending
  <2>2. Answered(entry[CallOf[m]]) \in Entry
    BY <2>1, <1>o, Constructors
  <2>3. Shape
    BY <1>4, <2>1, <2>2 DEF ServerWorker, ResendTypeOK
  <2>4. Answered(entry[CallOf[m]]).msg = entry[CallOf[m]].msg
    BY DEF Answered
  <2>5. ASSUME NEW d \in CallID PROVE EntryOK(d)
    BY <1>4, <1>o, <2>1, <2>4 DEF ServerWorker, ResendTypeOK
  <2> QED
    BY <2>3, <2>5
<1>5. ASSUME ResendMsgAction PROVE Shape /\ \A d \in CallID : EntryOK(d)
  <2>1. ASSUME NEW d \in CallID
        PROVE  /\ entry'[d] \in Entry \cup {NoEntry}
               /\ entry'[d] # NoEntry => entry[d] # NoEntry /\ entry'[d].msg = entry[d].msg
    <3>1. Resent(entry[d]).msg = entry[d].msg
      BY DEF Resent
    <3>2. entry[d] # NoEntry <=> d \in Pending
      BY DEF Pending
    <3> QED
      BY <1>5, <1>o, <3>1, <3>2, ScanOfDialog
  <2>2. entry' \in [CallID -> Entry \cup {NoEntry}]
    BY <1>5, <2>1 DEF ResendMsgAction
  <2>3. copies' \in [Msg -> Nat]
    BY <1>5 DEF ResendMsgAction, ResendTypeOK
  <2>4. phase' \in 0 .. MaxScan
    BY <1>5, ResendAssumption DEF ResendMsgAction
  <2>5. Shape
    BY <1>5, <2>2, <2>3, <2>4 DEF ResendMsgAction, ResendTypeOK
  <2>6. stage' = stage
    BY <1>5 DEF ResendMsgAction
  <2> QED
    BY <2>1, <2>5, <2>6, <1>o
<1>6. ASSUME Tick PROVE Shape /\ \A d \in CallID : EntryOK(d)
  <2>1. ASSUME NEW d \in CallID
        PROVE  /\ entry'[d] \in Entry \cup {NoEntry}
               /\ entry'[d] # NoEntry => entry[d] # NoEntry /\ entry'[d].msg = entry[d].msg
    <3>1. entry'[d] = IF entry[d] # NoEntry THEN Older(entry[d]) ELSE NoEntry
      BY <1>6 DEF Tick, Pending
    <3>2. Older(entry[d]).msg = entry[d].msg
      BY DEF Older
    <3>3. entry[d] # NoEntry => Older(entry[d]) \in Entry
      BY <1>o, Constructors
    <3> QED
      BY <3>1, <3>2, <3>3
  <2>2. entry' \in [CallID -> Entry \cup {NoEntry}]
    BY <1>6, <2>1 DEF Tick
  <2>3. since' \in [CallID -> 0 .. MaxAge]
    BY <1>6, ResendAssumption DEF Tick, ResendTypeOK
  <2>4. phase' \in 0 .. MaxScan
    BY <1>6, ResendAssumption DEF Tick, ResendTypeOK
  <2>5. Shape
    BY <1>6, <2>2, <2>3, <2>4 DEF Tick, ResendTypeOK
  <2>6. stage' = stage
    BY <1>6 DEF Tick
  <2> QED
    BY <2>1, <2>5, <2>6, <1>o
<1>7. CASE UNCHANGED vars
  <2>1. Shape
    BY <1>7 DEF vars, ResendTypeOK
  <2> QED
    BY <1>7, <1>o, <2>1 DEF vars
<1> QED
  BY <1>1, <1>2, <1>3, <1>4, <1>5, <1>6, <1>7, <1>8 DEF Next

(***************************************************************************)
(* Copies and answers.                                                     *)
(***************************************************************************)
Counted == /\ \A m \in Msg : CopiesCounted(m)
           /\ \A d \in Pending : EntryCounted(d)

LEMMA CountedOfRecord ==
    ASSUME ResendTypeOK, Counted, NEW m \in Msg, Record(m)
    PROVE  Counted'
<1>1. /\ stage[m] = "new" /\ stage' = [stage EXCEPT ![m] = "recorded"]
      /\ entry' = [entry EXCEPT ![CallOf[m]] = Recorded(m)]
      /\ copies' = copies /\ delivered' = delivered
  BY DEF Record
<1>2. ASSUME NEW n \in Msg PROVE CopiesCounted(n)'
  <2>1. CopiesCounted(n)
    BY DEF Counted
  <2>2. CASE n = m
    <3>1. copies[m] = 0 /\ stage'[m] = "recorded"
      BY <1>1, <2>1, <2>2 DEF CopiesCounted, ResendTypeOK
    <3> QED
      BY <3>1, <2>2, <1>1 DEF CopiesCounted
  <2>3. CASE n # m
    <3>1. stage'[n] = stage[n]
      BY <1>1, <2>3 DEF ResendTypeOK
    <3> QED
      BY <3>1, <2>1, <1>1 DEF CopiesCounted
  <2> QED
    BY <2>2, <2>3
<1>3. ASSUME NEW d \in CallID, entry'[d] # NoEntry PROVE EntryCounted(d)'
  <2>1. CASE d = CallOf[m]
    <3>1. entry'[d] = Recorded(m) /\ stage'[m] = "recorded"
      BY <1>1, <2>1 DEF ResendTypeOK
    <3>2. copies[m] = 0 /\ m \notin delivered
      BY <1>1 DEF Counted, CopiesCounted
    <3>3. Recorded(m).msg = m /\ Recorded(m).count = 0
      BY DEF Recorded
    <3> QED
      BY <1>1, <3>1, <3>2, <3>3 DEF EntryCounted
  <2>2. CASE d # CallOf[m]
    <3>1. entry'[d] = entry[d] /\ d \in Pending
      BY <1>1, <1>3, <2>2 DEF ResendTypeOK, Pending
    <3>2. EntryCounted(d) /\ CallOf[entry[d].msg] = d /\ entry[d].msg \in Msg
      BY <3>1, Entries DEF Counted
    <3>3. stage'[entry[d].msg] = stage[entry[d].msg]
      BY <1>1, <2>2, <3>2 DEF ResendTypeOK
    <3> QED
      BY <1>1, <3>1, <3>2, <3>3 DEF EntryCounted
  <2> QED
    BY <2>1, <2>2
<1> QED
  BY <1>2, <1>3 DEF Counted, Pending

LEMMA CountedOfTransmit ==
    ASSUME ResendTypeOK, Counted, NEW m \in Msg, Transmit(m)
    PROVE  Counted'
<1>1. /\ stage[m] = "recorded" /\ stage' = [stage EXCEPT ![m] = "sent"]
      /\ entry' = entry /\ delivered' = delivered
      /\ copies' = [copies EXCEPT ![m] = @ + 1]
  BY DEF Transmit
<1>2. ASSUME NEW n \in Msg PROVE CopiesCounted(n)'
  <2>1. CopiesCounted(n) /\ copies[n] \in Nat
    BY DEF Counted, ResendTypeOK
  <2>2. CASE n = m
    <3>1. copies'[m] = copies[m] + 1 /\ stage'[m] = "sent" /\ copies[m] <= 3
      BY <1>1, <2>1, <2>2 DEF CopiesCounted, ResendTypeOK
    <3> QED
      BY <3>1, <2>1, <2>2 DEF CopiesCounted
  <2>3. CASE n # m
    <3>1. stage'[n] = stage[n] /\ copies'[n] = copies[n]
      BY <1>1, <2>3 DEF ResendTypeOK
    <3> QED
      BY <3>1, <2>1, <1>1 DEF CopiesCounted
  <2> QED
    BY <2>2, <2>3
<1>3. ASSUME NEW d \in Pending PROVE EntryCounted(d)'
  <2>1. EntryCounted(d) /\ entry[d].msg \in Msg /\ entry[d].count \in 0 .. 3
    BY Entries DEF Counted
  <2>2. CASE entry[d].msg = m
    <3>1. copies'[m] = copies[m] + 1 /\ stage'[m] = "sent"
      BY <1>1 DEF ResendTypeOK
    <3>2. copies[m] = entry[d].count /\ (m \in delivered => entry[d].rep)
      BY <1>1, <2>1, <2>2 DEF EntryCounted
    <3> QED
      BY <1>1, <2>1, <2>2, <3>1, <3>2 DEF EntryCounted
  <2>3. CASE entry[d].msg # m
    <3>1. /\ stage'[entry[d].msg] = stage[entry[d].msg]
          /\ copies'[entry[d].msg] = copies[entry[d].msg]
      BY <1>1, <2>1, <2>3 DEF ResendTypeOK
    <3> QED
      BY <1>1, <2>1, <3>1 DEF EntryCounted
  <2> QED
    BY <2>2, <2>3
<1> QED
  BY <1>1, <1>2, <1>3 DEF Counted, Pending

LEMMA CountedOfTransmitFails ==
    ASSUME ResendTypeOK, Counted, NEW m \in Msg, TransmitFails(m)
    PROVE  Counted'
<1>1. /\ stage[m] = "recorded" /\ stage' = [stage EXCEPT ![m] = "failed"]
      /\ entry' = [entry EXCEPT ![CallOf[m]] = NoEntry]
      /\ delivered' = delivered /\ copies' = copies
  BY DEF TransmitFails
<1>2. ASSUME NEW n \in Msg PROVE CopiesCounted(n)'
  <2>1. CopiesCounted(n)
    BY DEF Counted
  <2>2. stage'[n] = IF n = m THEN "failed" ELSE stage[n]
    BY <1>1 DEF ResendTypeOK
  <2> QED
    BY <1>1, <2>1, <2>2 DEF CopiesCounted
<1>3. ASSUME NEW d \in CallID, entry'[d] # NoEntry PROVE EntryCounted(d)'
  <2>1. d # CallOf[m] /\ entry'[d] = entry[d] /\ d \in Pending
    BY <1>1, <1>3 DEF ResendTypeOK, Pending
  <2>2. EntryCounted(d) /\ CallOf[entry[d].msg] = d /\ entry[d].msg \in Msg
    BY <2>1, Entries DEF Counted
  <2>3. stage'[entry[d].msg] = stage[entry[d].msg]
    BY <1>1, <2>1, <2>2 DEF ResendTypeOK
  <2> QED
    BY <1>1, <2>1, <2>2, <2>3 DEF EntryCounted
<1> QED
  BY <1>2, <1>3 DEF Counted, Pending

LEMMA CountedOfReplyFails ==
    ASSUME ResendTypeOK, Counted, NEW c \in CallID, ReplyFails(c)
    PROVE  Counted'
<1>1. /\ stage' = stage /\ delivered' = delivered /\ copies' = copies
      /\ entry' = [entry EXCEPT ![c] = NoEntry]
  BY DEF ReplyFails
<1>2. ASSUME NEW n \in Msg PROVE CopiesCounted(n)'
  BY <1>1 DEF Counted, CopiesCounted
<1>3. ASSUME NEW d \in CallID, entry'[d] # NoEntry PROVE EntryCounted(d)'
  <2>1. entry'[d] = entry[d] /\ d \in Pending
    BY <1>1, <1>3 DEF ResendTypeOK, Pending
  <2> QED
    BY <1>1, <2>1 DEF Counted, EntryCounted
<1> QED
  BY <1>2, <1>3 DEF Counted, Pending

LEMMA CountedOfServerWorker ==
    ASSUME ResendTypeOK, Counted, NEW m \in Msg, ServerWorker(m)
    PROVE  Counted'
<1>1. /\ copies[m] > 0 /\ CallOf[m] \in Pending
      /\ entry' = [entry EXCEPT ![CallOf[m]] = Answered(@)]
      /\ delivered' = delivered \cup {m} /\ copies' = copies /\ stage' = stage
  BY DEF ServerWorker
<1>2. ASSUME NEW n \in Msg PROVE CopiesCounted(n)'
  <2>1. CopiesCounted(n) /\ copies[n] \in Nat
    BY DEF Counted, ResendTypeOK
  <2> QED
    BY <1>1, <2>1 DEF CopiesCounted
<1>3. ASSUME NEW d \in CallID, entry'[d] # NoEntry PROVE EntryCounted(d)'
  <2>1. CASE d = CallOf[m]
    <3>1. d \in Pending /\ entry'[d] = Answered(entry[d])
      BY <1>1, <2>1 DEF ResendTypeOK
    <3>2. /\ Answered(entry[d]).msg = entry[d].msg /\ Answered(entry[d]).rep
          /\ Answered(entry[d]).count = entry[d].count
      BY DEF Answered
    <3>3. EntryCounted(d)
      BY <3>1 DEF Counted
    <3> QED
      BY <1>1, <3>1, <3>2, <3>3 DEF EntryCounted
  <2>2. CASE d # CallOf[m]
    <3>1. entry'[d] = entry[d] /\ d \in Pending
      BY <1>1, <1>3, <2>2 DEF ResendTypeOK, Pending
    <3>2. EntryCounted(d) /\ CallOf[entry[d].msg] = d
      BY <3>1, Entries DEF Counted
    <3>3. entry[d].msg # m
      BY <2>2, <3>2
    <3> QED
      BY <1>1, <3>1, <3>2, <3>3 DEF EntryCounted
  <2> QED
    BY <2>1, <2>2
<1> QED
  BY <1>2, <1>3 DEF Counted, Pending

LEMMA CountedOfScan ==
    ASSUME ResendTypeOK, Counted, ResendMsgAction
    PROVE  Counted'
<1>1. /\ copies' = [m \in Msg |-> IF Due(CallOf[m]) /\ entry[CallOf[m]].msg = m
                                   THEN copies[m] + 1 ELSE copies[m]]
      /\ stage' = stage /\ delivered' = delivered
  BY DEF ResendMsgAction
<1>2. ASSUME NEW n \in Msg PROVE CopiesCounted(n)'
  <2>1. CopiesCounted(n) /\ copies[n] \in Nat
    BY DEF Counted, ResendTypeOK
  <2>2. CASE Due(CallOf[n]) /\ entry[CallOf[n]].msg = n
    <3>1. CallOf[n] \in Pending /\ ~ Finished(CallOf[n])
      BY <2>2 DEF Due
    <3>2. EntryCounted(CallOf[n]) /\ entry[CallOf[n]].count \in 0 .. 3
      BY <3>1, Entries DEF Counted
    <3>3. entry[CallOf[n]].count < 3 /\ entry[CallOf[n]].rep = FALSE
      BY <3>1, <3>2, ScanOfDialog DEF Pending
    <3>4. /\ stage[n] = "recorded" => copies[n] = entry[CallOf[n]].count
          /\ stage[n] = "sent" => copies[n] = entry[CallOf[n]].count + 1
          /\ stage[n] \in {"recorded", "sent"}
      BY <2>2, <3>2 DEF EntryCounted
    <3>5. copies'[n] = copies[n] + 1
      BY <1>1, <2>2
    <3> QED
      BY <1>1, <2>1, <3>2, <3>3, <3>4, <3>5 DEF CopiesCounted
  <2>3. CASE ~ (Due(CallOf[n]) /\ entry[CallOf[n]].msg = n)
    <3>1. copies'[n] = copies[n]
      BY <1>1, <2>3
    <3> QED
      BY <1>1, <2>1, <3>1 DEF CopiesCounted
  <2> QED
    BY <2>2, <2>3
<1>3. ASSUME NEW d \in CallID, entry'[d] # NoEntry PROVE EntryCounted(d)'
  <2>1. d \in Pending /\ ~ Finished(d)
    BY <1>3, ScanOfDialog
  <2>2. EntryCounted(d) /\ CallOf[entry[d].msg] = d /\ entry[d].msg \in Msg
    BY <2>1, Entries DEF Counted
  <2>3. copies[entry[d].msg] \in Nat /\ entry[d].count \in 0 .. 3
    BY <2>1, <2>2, Entries DEF ResendTypeOK
  <2>4. CASE Due(d)
    <3>1. entry'[d] = Resent(entry[d])
      BY <2>1, <2>4, ScanOfDialog
    <3>2. /\ Resent(entry[d]).msg = entry[d].msg /\ Resent(entry[d]).rep = entry[d].rep
          /\ Resent(entry[d]).count = entry[d].count + 1
      BY DEF Resent
    <3>3. copies'[entry[d].msg] = copies[entry[d].msg] + 1
      BY <1>1, <2>2, <2>4
    <3> QED
      BY <1>1, <2>2, <2>3, <3>1, <3>2, <3>3 DEF EntryCounted
  <2>5. CASE ~ Due(d)
    <3>1. entry'[d] = entry[d]
      BY <2>1, <2>5, ScanOfDialog
    <3>2. copies'[entry[d].msg] = copies[entry[d].msg]
      BY <1>1, <2>2, <2>5
    <3> QED
      BY <1>1, <2>2, <3>1, <3>2 DEF EntryCounted
  <2> QED
    BY <2>4, <2>5
<1> QED
  BY <1>2, <1>3 DEF Counted, Pending

LEMMA CountedOfTick ==
    ASSUME ResendTypeOK, Counted, Tick
    PROVE  Counted'
<1>1. stage' = stage /\ copies' = copies /\ delivered' = delivered
  BY DEF Tick
<1>2. ASSUME NEW n \in Msg PROVE CopiesCounted(n)'
  BY <1>1 DEF Counted, CopiesCounted
<1>3. ASSUME NEW d \in CallID, entry'[d] # NoEntry PROVE EntryCounted(d)'
  <2>1. d \in Pending /\ entry'[d] = Older(entry[d])
    BY <1>3 DEF Tick
  <2>2. /\ Older(entry[d]).msg = entry[d].msg /\ Older(entry[d]).rep = entry[d].rep
        /\ Older(entry[d]).count = entry[d].count
    BY DEF Older
  <2>3. EntryCounted(d)
    BY <2>1 DEF Counted
  <2> QED
    BY <1>1, <2>1, <2>2, <2>3 DEF EntryCounted
<1> QED
  BY <1>2, <1>3 DEF Counted, Pending

LEMMA CountedOfStep ==
    ASSUME ResendTypeOK, Counted, [Next]_vars
    PROVE  Counted'
<1>1. CASE UNCHANGED vars
  BY <1>1 DEF vars, Counted, CopiesCounted, EntryCounted, Pending
<1> QED
  BY <1>1, CountedOfRecord, CountedOfTransmit, CountedOfTransmitFails,
     CountedOfReplyFails, CountedOfServerWorker, CountedOfScan, CountedOfTick DEF Next

(***************************************************************************)
(* The clocks.                                                             *)
(***************************************************************************)
Timed == /\ \A d \in Pending : EntryTimed(d)
         /\ \A d \in CallID : Awaited(d)

LEMMA Clocks ==
    ASSUME ResendTypeOK
    PROVE  /\ phase \in Nat /\ phase <= MaxScan
           /\ \A d \in CallID : since[d] \in Nat /\ since[d] <= MaxAge
BY ResendAssumption DEF ResendTypeOK

\* A request leaves the map after its last resend at the latest.
LEMMA Bounded ==
    ASSUME ResendTypeOK, NEW d \in Pending, EntryTimed(d)
    PROVE  since[d] <= Longest
<1>1. /\ d \in CallID /\ entry[d].age \in Nat /\ entry[d].count \in 0 .. 3
      /\ since[d] \in Nat /\ phase \in Nat /\ phase <= MaxScan
  BY Entries, Clocks
<1>2. /\ since[d] <= entry[d].age + Latest[entry[d].count]
      /\ entry[d].count < 3 => entry[d].age <= Wait[entry[d].count] + phase
      /\ entry[d].count = 3 => entry[d].age = phase
  BY DEF EntryTimed
<1>3. Base \in Nat /\ MaxScan \in Nat
  BY ResendAssumption
<1>4. CASE entry[d].count = 0
  BY <1>1, <1>2, <1>3, <1>4, Times, SMT DEF Longest
<1>5. CASE entry[d].count = 1
  BY <1>1, <1>2, <1>3, <1>5, Times, SMT DEF Longest
<1>6. CASE entry[d].count = 2
  BY <1>1, <1>2, <1>3, <1>6, Times, SMT DEF Longest
<1>7. CASE entry[d].count = 3
  BY <1>1, <1>2, <1>3, <1>7, Times, SMT DEF Longest
<1> QED
  BY <1>1, <1>4, <1>5, <1>6, <1>7

LEMMA TimedOfRecord ==
    ASSUME ResendTypeOK, Timed, NEW m \in Msg, Record(m)
    PROVE  Timed'
<1>1. /\ entry' = [entry EXCEPT ![CallOf[m]] = Recorded(m)]
      /\ since' = [since EXCEPT ![CallOf[m]] = 0]
      /\ heard' = heard \ {CallOf[m]} /\ phase' = phase
  BY DEF Record
<1>2. ASSUME NEW d \in CallID, d = CallOf[m]
      PROVE  entry'[d] # NoEntry /\ EntryTimed(d)' /\ Awaited(d)'
  <2>1. entry'[d] = Recorded(m) /\ since'[d] = 0
    BY <1>1, <1>2 DEF ResendTypeOK
  <2>2. /\ Recorded(m).age = 0 /\ Recorded(m).count = 0 /\ Recorded(m).rep = FALSE
        /\ Recorded(m) \in Entry
    BY DEF Recorded, Entry
  <2>3. phase \in Nat /\ Base \in Nat
    BY Clocks, ResendAssumption
  <2>4. EntryTimed(d)'
    BY <1>1, <2>1, <2>2, <2>3, Times DEF EntryTimed
  <2>5. entry'[d] # NoEntry
    BY <2>1, <2>2, NoEntryApart
  <2> QED
    BY <2>1, <2>2, <2>4, <2>5 DEF Awaited, Pending
<1>3. ASSUME NEW d \in CallID, d # CallOf[m]
      PROVE  entry'[d] = entry[d] /\ since'[d] = since[d] /\ (d \in heard' <=> d \in heard)
  BY <1>1, <1>3 DEF ResendTypeOK
<1>4. ASSUME NEW d \in CallID, d # CallOf[m]
      PROVE  (entry'[d] # NoEntry => EntryTimed(d)') /\ Awaited(d)'
  BY <1>1, <1>3, <1>4 DEF Timed, EntryTimed, Awaited, Pending
<1> QED
  BY <1>2, <1>4 DEF Timed, Pending

LEMMA TimedOfTransmitFails ==
    ASSUME ResendTypeOK, Timed, NEW m \in Msg, TransmitFails(m)
    PROVE  Timed'
<1>1. /\ entry' = [entry EXCEPT ![CallOf[m]] = NoEntry]
      /\ heard' = heard \cup {CallOf[m]} /\ since' = since /\ phase' = phase
  BY DEF TransmitFails
<1>2. ASSUME NEW d \in CallID, d = CallOf[m]
      PROVE  entry'[d] = NoEntry /\ Awaited(d)'
  BY <1>1, <1>2 DEF Awaited, ResendTypeOK
<1>3. ASSUME NEW d \in CallID, d # CallOf[m]
      PROVE  (entry'[d] # NoEntry => EntryTimed(d)') /\ Awaited(d)'
  <2>1. entry'[d] = entry[d] /\ (d \in heard' <=> d \in heard)
    BY <1>1, <1>3 DEF ResendTypeOK
  <2> QED
    BY <1>1, <2>1 DEF Timed, EntryTimed, Awaited, Pending
<1> QED
  BY <1>2, <1>3 DEF Timed, Pending

LEMMA TimedOfReplyFails ==
    ASSUME ResendTypeOK, Timed, NEW c \in CallID, ReplyFails(c)
    PROVE  Timed'
<1>1. /\ entry' = [entry EXCEPT ![c] = NoEntry]
      /\ heard' = heard \cup {c} /\ since' = since /\ phase' = phase
  BY DEF ReplyFails
<1>2. entry'[c] = NoEntry /\ Awaited(c)'
  BY <1>1 DEF Awaited, ResendTypeOK
<1>3. ASSUME NEW d \in CallID, d # c
      PROVE  (entry'[d] # NoEntry => EntryTimed(d)') /\ Awaited(d)'
  <2>1. entry'[d] = entry[d] /\ (d \in heard' <=> d \in heard)
    BY <1>1, <1>3 DEF ResendTypeOK
  <2> QED
    BY <1>1, <2>1 DEF Timed, EntryTimed, Awaited, Pending
<1> QED
  BY <1>2, <1>3 DEF Timed, Pending

LEMMA TimedOfServerWorker ==
    ASSUME ResendTypeOK, Timed, NEW m \in Msg, ServerWorker(m)
    PROVE  Timed'
<1>1. /\ entry' = [entry EXCEPT ![CallOf[m]] = Answered(@)] /\ CallOf[m] \in Pending
      /\ heard' = heard \cup {CallOf[m]} /\ since' = since /\ phase' = phase
  BY DEF ServerWorker
<1>2. ASSUME NEW d \in CallID, d = CallOf[m]
      PROVE  EntryTimed(d)' /\ Awaited(d)'
  <2>1. entry'[d] = Answered(entry[d]) /\ d \in Pending
    BY <1>1, <1>2 DEF ResendTypeOK
  <2>2. Answered(entry[d]).age = entry[d].age /\ Answered(entry[d]).count = entry[d].count
    BY DEF Answered
  <2>3. EntryTimed(d)
    BY <2>1 DEF Timed
  <2>4. EntryTimed(d)'
    BY <1>1, <2>1, <2>2, <2>3 DEF EntryTimed
  <2> QED
    BY <1>1, <1>2, <2>4 DEF Awaited
<1>3. ASSUME NEW d \in CallID, d # CallOf[m]
      PROVE  (entry'[d] # NoEntry => EntryTimed(d)') /\ Awaited(d)'
  <2>1. entry'[d] = entry[d] /\ (d \in heard' <=> d \in heard)
    BY <1>1, <1>3 DEF ResendTypeOK
  <2> QED
    BY <1>1, <2>1 DEF Timed, EntryTimed, Awaited, Pending
<1> QED
  BY <1>2, <1>3 DEF Timed, Pending

\* An entry the thread sends again was due, and the scans are far enough apart
\* and close enough together for its resends.
LEMMA TimedOfScan ==
    ASSUME ResendTypeOK, Timed, ResendMsgAction
    PROVE  Timed'
<1>1. since' = since /\ heard' = heard /\ phase' = 0 /\ phase >= MinScan
  BY DEF ResendMsgAction
<1>2. /\ phase \in Nat /\ phase <= MaxScan /\ Base \in Nat /\ MaxScan \in Nat
      /\ MinScan \in Nat
  BY Clocks, ResendAssumption
<1>3. ASSUME NEW d \in CallID, entry'[d] # NoEntry PROVE EntryTimed(d)'
  <2>1. d \in Pending /\ ~ Finished(d)
    BY <1>3, ScanOfDialog
  <2>2. /\ entry[d].age \in Nat /\ since[d] \in Nat /\ entry[d].count \in 0 .. 3
        /\ entry[d].count < 3
    BY <2>1, Entries, Clocks, ScanOfDialog
  <2>3. /\ since[d] <= entry[d].age + Latest[entry[d].count]
        /\ since[d] >= entry[d].age + Earliest[entry[d].count]
        /\ entry[d].age <= Wait[entry[d].count] + phase
    BY <2>1, <2>2 DEF Timed, EntryTimed
  <2>4. CASE Due(d)
    <3>1. entry'[d] = Resent(entry[d]) /\ entry[d].age > Wait[entry[d].count]
      BY <2>1, <2>4, ScanOfDialog DEF Due
    <3>2. Resent(entry[d]).age = 0 /\ Resent(entry[d]).count = entry[d].count + 1
      BY DEF Resent
    <3>3. /\ since[d] <= Latest[entry[d].count + 1]
          /\ since[d] >= Earliest[entry[d].count + 1]
          /\ Wait[entry[d].count + 1] >= 0
      <4>1. CASE entry[d].count = 0
        BY <1>2, <2>2, <2>3, <3>1, <4>1, Times, SMT
      <4>2. CASE entry[d].count = 1
        BY <1>2, <2>2, <2>3, <3>1, <4>2, Times, SMT
      <4>3. CASE entry[d].count = 2
        BY <1>2, <2>2, <2>3, <3>1, <4>3, Times, SMT
      <4> QED
        BY <2>2, <4>1, <4>2, <4>3
    <3>4. /\ entry'[d].age = 0 /\ entry'[d].count = entry[d].count + 1
      BY <3>1, <3>2
    <3>5. Latest[entry[d].count + 1] \in Nat /\ Earliest[entry[d].count + 1] \in Nat
          /\ Wait[entry[d].count + 1] \in Nat
      BY <1>2, <2>2, SMT DEF Latest, Earliest, Wait
    <3> QED
      BY <1>1, <2>2, <3>3, <3>4, <3>5 DEF EntryTimed
  <2>5. CASE ~ Due(d)
    <3>1. entry'[d] = entry[d] /\ entry[d].age <= Wait[entry[d].count]
      BY <2>1, <2>5, ScanOfDialog
    <3>2. Wait[entry[d].count] \in Nat
      BY <1>2, <2>2, SMT DEF Wait
    <3> QED
      BY <1>1, <2>2, <2>3, <3>1, <3>2 DEF EntryTimed
  <2> QED
    BY <2>4, <2>5
<1>4. ASSUME NEW d \in CallID PROVE Awaited(d)'
  <2>1. CASE since[d] <= 7 * Base + MinScan /\ d \notin heard
    <3>1. d \in Pending /\ ~ entry[d].rep
      BY <2>1 DEF Timed, Awaited
    <3>2. /\ entry[d].age \in Nat /\ since[d] \in Nat /\ entry[d].count \in 0 .. 3
          /\ entry[d].rep \in BOOLEAN
      BY <3>1, Entries, Clocks
    <3>3. EntryTimed(d)
      BY <3>1 DEF Timed
    <3>4. entry[d].count # 3
      <4>1. SUFFICES ASSUME entry[d].count = 3 PROVE FALSE
        OBVIOUS
      <4>2. since[d] >= phase + 7 * Base + 3
        BY <1>2, <3>2, <3>3, <4>1, Times, SMT DEF EntryTimed
      <4> QED
        BY <1>1, <1>2, <2>1, <3>2, <4>2
    <3>5. ~ Finished(d)
      BY <3>1, <3>2, <3>4 DEF Finished
    <3>6. entry'[d] = entry[d] \/ (entry'[d] = Resent(entry[d]) /\ Resent(entry[d]) \in Entry)
      BY <3>1, <3>5, ScanOfDialog DEF Pending
    <3>7. Resent(entry[d]).rep = entry[d].rep
      BY DEF Resent
    <3>8. entry'[d] # NoEntry
      BY <3>1, <3>6, Entries, NoEntryApart
    <3> QED
      BY <3>1, <3>6, <3>7, <3>8 DEF Awaited, Pending
  <2>2. CASE ~ (since[d] <= 7 * Base + MinScan /\ d \notin heard)
    BY <1>1, <2>2 DEF Awaited
  <2> QED
    BY <2>1, <2>2
<1> QED
  BY <1>3, <1>4 DEF Timed, Pending

LEMMA TimedOfTick ==
    ASSUME ResendTypeOK, Timed, Tick
    PROVE  Timed'
<1>1. /\ phase' = phase + 1 /\ heard' = heard
      /\ \A d \in CallID :
           /\ since'[d] = IF since[d] < MaxAge THEN since[d] + 1 ELSE MaxAge
           /\ entry'[d] = IF d \in Pending THEN Older(entry[d]) ELSE NoEntry
  BY DEF Tick
<1>2. phase \in Nat /\ MaxAge \in Nat /\ Longest < MaxAge
  BY Clocks, ResendAssumption, SMT DEF Longest
<1>3. ASSUME NEW d \in Pending PROVE EntryTimed(d)'
  <2>1. /\ d \in CallID /\ entry[d].age \in Nat /\ since[d] \in Nat
        /\ entry[d].count \in 0 .. 3
    BY Entries, Clocks
  <2>2. EntryTimed(d)
    BY DEF Timed
  <2>3. since[d] <= Longest
    BY <2>2, Bounded
  <2>4. since'[d] = since[d] + 1
    <3>1. Longest \in Int
      BY ResendAssumption DEF Longest
    <3>2. since[d] < MaxAge
      BY <3>1, <1>2, <2>1, <2>3
    <3> QED
      BY <1>1, <2>1, <3>2
  <2>5. entry'[d].age = entry[d].age + 1 /\ entry'[d].count = entry[d].count
    <3>1. entry'[d] = Older(entry[d])
      BY <1>1, <2>1
    <3>2. Older(entry[d]).age = entry[d].age + 1 /\ Older(entry[d]).count = entry[d].count
      BY DEF Older
    <3> QED
      BY <3>1, <3>2
  <2>6. /\ Latest[entry[d].count] \in Nat /\ Earliest[entry[d].count] \in Nat
        /\ Wait[entry[d].count] \in Nat
    BY <2>1, ResendAssumption, SMT DEF Latest, Earliest, Wait
  <2> QED
    BY <1>1, <1>2, <2>1, <2>2, <2>4, <2>5, <2>6 DEF EntryTimed
<1>4. ASSUME NEW d \in CallID PROVE Awaited(d)'
  <2>1. Awaited(d) /\ since[d] \in Nat /\ since[d] <= MaxAge
    BY Clocks DEF Timed
  <2>2. since'[d] >= since[d]
    BY <1>1, <1>2, <2>1
  <2>3. 7 * Base + MinScan \in Nat /\ since'[d] \in Nat
    BY <1>1, <1>2, <2>1, ResendAssumption
  <2>4. CASE since'[d] <= 7 * Base + MinScan /\ d \notin heard
    <3>1. since[d] <= 7 * Base + MinScan
      BY <2>1, <2>2, <2>3, <2>4
    <3>2. d \in Pending /\ ~ entry[d].rep
      BY <2>1, <2>4, <3>1 DEF Awaited
    <3>3. entry'[d] = Older(entry[d]) /\ entry[d] \in Entry
      BY <1>1, <3>2, Entries
    <3>4. Older(entry[d]).rep = entry[d].rep /\ Older(entry[d]) \in Entry
      BY <3>3, Constructors DEF Older
    <3> QED
      BY <3>2, <3>3, <3>4, NoEntryApart DEF Awaited, Pending
  <2>5. CASE ~ (since'[d] <= 7 * Base + MinScan /\ d \notin heard)
    BY <1>1, <2>5 DEF Awaited
  <2> QED
    BY <2>4, <2>5
<1>5. ASSUME NEW d \in CallID, entry'[d] # NoEntry PROVE d \in Pending
  BY <1>1, <1>5
<1> QED
  BY <1>3, <1>4, <1>5 DEF Timed, Pending

LEMMA TimedOfStep ==
    ASSUME ResendTypeOK, Timed, [Next]_vars
    PROVE  Timed'
<1>1. CASE UNCHANGED vars
  BY <1>1 DEF vars, Timed, EntryTimed, Awaited, Pending
<1>2. ASSUME NEW m \in Msg, Transmit(m) PROVE Timed'
  BY <1>2 DEF Transmit, Timed, EntryTimed, Awaited, Pending
<1> QED
  BY <1>1, <1>2, TimedOfRecord, TimedOfTransmitFails,
     TimedOfReplyFails, TimedOfServerWorker, TimedOfScan, TimedOfTick DEF Next

(***************************************************************************)
(* The theorems.                                                           *)
(***************************************************************************)
LEMMA InvInitially == Init => ResendInv
<1> SUFFICES ASSUME Init PROVE ResendInv
  OBVIOUS
<1>1. 0 \in 0 .. MaxScan /\ MaxAge \in 0 .. MaxAge
  BY ResendAssumption
<1>2. Pending = {}
  BY DEF Init, Pending
<1>3. ResendTypeOK
  BY <1>1, <1>2 DEF Init, ResendTypeOK
<1>4. \A m \in Msg : CopiesCounted(m)
  BY DEF Init, CopiesCounted
<1>5. MaxAge > 7 * Base + MinScan
  BY ResendAssumption DEF Longest
<1>6. \A d \in CallID : since[d] = MaxAge
  BY DEF Init
<1>7. \A d \in CallID : Awaited(d)
  BY <1>5, <1>6, ResendAssumption DEF Awaited
<1> QED
  BY <1>2, <1>3, <1>4, <1>7 DEF ResendInv

LEMMA InvOfStep == ResendInv /\ [Next]_vars => ResendInv'
BY TypesOfStep, CountedOfStep, TimedOfStep DEF ResendInv, Counted, Timed

LEMMA InvAlways == Spec => []ResendInv
BY InvInitially, InvOfStep, PTL DEF Spec

\* A request goes out four times at most, however sendBuf, the resend thread
\* and the answers interleave.
THEOREM FourCopies == Spec => []AtMostFourCopies
<1>1. ResendInv => AtMostFourCopies
  BY DEF ResendInv, CopiesCounted, AtMostFourCopies
<1> QED
  BY <1>1, InvAlways, PTL

\* No entry outlives the times of its resends: the map does not keep the calls
\* of the past.
THEOREM NoEntryStays == Spec => []MapDrains
<1>1. ResendInv => MapDrains
  BY Bounded DEF ResendInv, MapDrains
<1> QED
  BY <1>1, InvAlways, PTL

\* While nothing has been heard of a dialog, its request waits for the answer
\* during all the resends and the scan after them.
THEOREM AnswersWelcome == Spec => []AnswersAwaited
<1>1. ResendInv => AnswersAwaited
  BY DEF ResendInv, Awaited, AnswersAwaited
<1> QED
  BY <1>1, InvAlways, PTL

\* A step sends no copy of a message whose answer was handled, but for the one
\* sendBuf is still about to send.
LEMMA QuietStep ==
    ASSUME ResendInv, Next, NEW m \in delivered, stage[m] # "recorded"
    PROVE  copies'[m] = copies[m]
<1>0. m \in Msg /\ copies \in [Msg -> Nat]
  BY DEF ResendInv, ResendTypeOK
<1>1. ASSUME NEW n \in Msg, Transmit(n) PROVE copies'[m] = copies[m]
  BY <1>0, <1>1 DEF Transmit
<1>2. ASSUME ResendMsgAction PROVE copies'[m] = copies[m]
  <2>1. ~ (Due(CallOf[m]) /\ entry[CallOf[m]].msg = m)
    <3>1. SUFFICES ASSUME Due(CallOf[m]), entry[CallOf[m]].msg = m PROVE FALSE
      OBVIOUS
    <3>2. CallOf[m] \in Pending /\ ~ entry[CallOf[m]].rep
      BY <3>1 DEF Due, Finished
    <3> QED
      BY <3>1, <3>2 DEF ResendInv, EntryCounted
  <2> QED
    BY <1>0, <1>2, <2>1 DEF ResendMsgAction
<1> QED
  BY <1>1, <1>2 DEF Next, Record, TransmitFails, ReplyFails, ServerWorker, Tick

THEOREM NoResendAfterAnswer == Spec => AnsweredIsQuiet
<1>1. ResendInv /\ [Next]_vars =>
        [\A m \in delivered : stage[m] # "recorded" => copies'[m] = copies[m]]_vars
  BY QuietStep DEF vars
<1> QED
  BY <1>1, InvAlways, PTL DEF Spec, AnsweredIsQuiet
==============================================================================

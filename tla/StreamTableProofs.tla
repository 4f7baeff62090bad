-------------------------- MODULE StreamTableProofs --------------------------
(***************************************************************************)
(* The invariants of StreamTable for every number of servers, cameras and  *)
(* calls, and that it implements StreamPlacement.  TableTypeOK and         *)
(* NTranmitExact support each other and are inductive together; the other  *)
(* three are inductive relative to them.  The refinement needs them all    *)
(* but the last: its mapping forgets counters and lists, and that nTotal   *)
(* is the abstract load rests on exact counters and one leg per call.      *)
(***************************************************************************)
EXTENDS TablePlacement, FiniteSetTheorems, SequenceTheorems, FunctionTheorems, TLAPS

LEMMA RemoveAtFacts ==
    ASSUME NEW S, NEW q \in Seq(S), NEW i \in 1 .. Len(q)
    PROVE  /\ RemoveAt(q, i) \in Seq(S)
           /\ Len(RemoveAt(q, i)) = Len(q) - 1
           /\ \A j \in 1 .. (Len(q) - 1) :
                 RemoveAt(q, i)[j] = IF j < i THEN q[j] ELSE q[j + 1]
<1> DEFINE a == SubSeq(q, 1, i - 1)
           b == SubSeq(q, i + 1, Len(q))
<1>1. Len(q) \in Nat /\ \A j \in 1 .. Len(q) : q[j] \in S
  OBVIOUS
<1>2. /\ a \in Seq(S)
      /\ Len(a) = i - 1
      /\ \A j \in 1 .. (i - 1) : a[j] = q[j]
  BY <1>1, SubSeqProperties
<1>3. /\ b \in Seq(S)
      /\ Len(b) = Len(q) - i
      /\ \A j \in 1 .. (Len(q) - i) : b[j] = q[i + j]
  <2>1. \A j \in (i + 1) .. Len(q) : q[j] \in S
    BY <1>1
  <2>2. /\ b \in Seq(S)
        /\ Len(b) = IF i + 1 <= Len(q) THEN Len(q) - (i + 1) + 1 ELSE 0
        /\ \A j \in 1 .. (Len(q) - (i + 1) + 1) : b[j] = q[i + 1 + j - 1]
    BY <1>1, <2>1, SubSeqProperties
  <2> QED
    BY <1>1, <2>2
<1>4. /\ a \o b \in Seq(S)
      /\ Len(a \o b) = Len(a) + Len(b)
      /\ \A j \in 1 .. (Len(a) + Len(b)) :
            (a \o b)[j] = IF j <= Len(a) THEN a[j] ELSE b[j - Len(a)]
  BY <1>2, <1>3, ConcatProperties
<1>5. RemoveAt(q, i) = a \o b
  BY DEF RemoveAt
<1> HIDE DEF a, b
<1>6. ASSUME NEW j \in 1 .. (Len(q) - 1)
      PROVE  RemoveAt(q, i)[j] = IF j < i THEN q[j] ELSE q[j + 1]
  <2>1. CASE j < i
    BY <1>1, <1>2, <1>3, <1>4, <1>5, <2>1
  <2>2. CASE j >= i
    <3>1. (a \o b)[j] = b[j - (i - 1)]
      BY <1>1, <1>2, <1>3, <1>4, <2>2
    <3>2. j - (i - 1) \in 1 .. (Len(q) - i) /\ i + (j - (i - 1)) = j + 1
      BY <1>1, <2>2
    <3>3. b[j - (i - 1)] = q[i + (j - (i - 1))]
      BY <1>3, <3>2
    <3>4. RemoveAt(q, i)[j] = q[j + 1]
      BY <1>5, <3>1, <3>2, <3>3
    <3>5. ~ (j < i)
      BY <1>1, <2>2
    <3> QED
      BY <3>4, <3>5
  <2> QED
    BY <1>1, <2>1, <2>2
<1> QED
  BY <1>1, <1>2, <1>3, <1>4, <1>5, <1>6

LEMMA AppendFacts ==
    ASSUME NEW S, NEW q \in Seq(S), NEW x \in S
    PROVE  /\ Append(q, x) \in Seq(S)
           /\ Len(Append(q, x)) = Len(q) + 1
           /\ \A j \in 1 .. Len(q) : Append(q, x)[j] = q[j]
           /\ Append(q, x)[Len(q) + 1] = x
  OBVIOUS

\* What the type invariant says of one live stream.
LEMMA LiveFacts ==
    ASSUME TableTypeOK, NEW e \in Live
    PROVE  /\ e \in Entry
           /\ cams[e] \in CamRec
           /\ cams[e].server \in Server /\ cams[e].server \in listed \ FileServer
           /\ cams[e].camera \in Camera
           /\ cams[e].type \in InviteType
           /\ cams[e].nTranmit \in Int
           /\ cams[e].invites \in Seq(Call)
           /\ Len(cams[e].invites) \in Nat
  <1>1. cams[e] \in CamRec /\ e \in Entry
    BY DEF TableTypeOK, Live
  <1>2. cams[e].server \in listed \ FileServer
    BY DEF TableTypeOK
  <1> QED
    BY <1>1, <1>2 DEF CamRec

\* A joined or left stream is a stream.
LEMMA SendingFacts ==
    ASSUME TableTypeOK, NEW e \in Live, NEW n \in Int, NEW q \in Seq(Call)
    PROVE  Sending(cams[e], n, q) \in CamRec
  BY LiveFacts DEF Sending, CamRec

\* No record of a stream is the empty address.
LEMMA NoCamFacts == ~ (NoCam \in CamRec)
  BY TableAssumption DEF CamRec, InviteType

(***************************************************************************)
(* What the four changes of streams do, address by address.                *)
(***************************************************************************)
LEMMA JoinFacts ==
    ASSUME TableTypeOK, NEW c \in Call, NEW cam \in Camera, NEW e \in Forwarding(cam),
           JoinStream(c, cam, e)
    PROVE  /\ e \in Live
           /\ cams'[e] = Sending(cams[e], cams[e].nTranmit + 1, Append(cams[e].invites, c))
           /\ cams'[e] \in CamRec
           /\ \A f \in Entry \ {e} : cams'[f] = cams[f]
           /\ cams' \in [Entry -> CamRec \cup {NoCam}]
           /\ Live' = Live
  <1>1. e \in Live /\ e \in Entry
    BY DEF Forwarding, Live
  <1> DEFINE r == Sending(cams[e], cams[e].nTranmit + 1, Append(cams[e].invites, c))
  <1>2. r \in CamRec
    <2>1. cams[e].nTranmit \in Int /\ cams[e].invites \in Seq(Call)
      BY <1>1, LiveFacts
    <2>2. cams[e].nTranmit + 1 \in Int
      BY <2>1
    <2>3. Append(cams[e].invites, c) \in Seq(Call)
      BY <2>1
    <2> QED
      BY <1>1, <2>2, <2>3, SendingFacts
  <1>3. cams' = [cams EXCEPT ![e] = r]
    BY DEF JoinStream
  <1> HIDE DEF r
  <1>4. /\ cams'[e] = r
        /\ \A f \in Entry \ {e} : cams'[f] = cams[f]
        /\ cams' \in [Entry -> CamRec \cup {NoCam}]
    BY <1>1, <1>2, <1>3 DEF TableTypeOK
  <1>5. Live' = Live
    BY <1>1, <1>2, <1>4, NoCamFacts DEF Live
  <1>6. cams'[e] = Sending(cams[e], cams[e].nTranmit + 1, Append(cams[e].invites, c))
    BY <1>4, Zenon DEF r
  <1>7. cams'[e] \in CamRec
    BY <1>2, <1>4
  <1> QED
    BY <1>1, <1>4, <1>5, <1>6, <1>7, Zenon

LEMMA PlaceFacts ==
    ASSUME TableTypeOK, NEW c \in Call, NEW cam \in Camera, NEW type \in InviteType,
           NEW s \in LeastLoaded, NEW e \in Entry, PlaceStream(c, cam, type, s, e)
    PROVE  /\ e \in Entry \ Live
           /\ s \in Server /\ s \in listed \ FileServer /\ s \in Practicable
           /\ \A f \in Entry \ {e} : cams'[f] = cams[f]
           /\ cams' \in [Entry -> CamRec \cup {NoCam}]
           /\ Live' = Live \cup {e}
  <1>1. e \in Entry \ Live
    BY DEF PlaceStream
  <1>2. s \in Server /\ s \in listed \ FileServer /\ s \in Practicable
    BY DEF LeastLoaded, Practicable, TableTypeOK
  <1>3. cams'[e] = [server |-> s, camera |-> cam, type |-> type,
                    nTranmit |-> 1, invites |-> <<c>>]
    BY DEF PlaceStream, TableTypeOK
  <1>4. cams'[e] \in CamRec
    <2>1. <<c>> \in Seq(Call)
      OBVIOUS
    <2> QED
      BY <1>2, <1>3, <2>1 DEF CamRec
  <1>5. \A f \in Entry \ {e} : cams'[f] = cams[f]
    BY DEF PlaceStream, TableTypeOK
  <1>6. cams' \in [Entry -> CamRec \cup {NoCam}]
    BY <1>3, <1>4 DEF PlaceStream, TableTypeOK
  <1>7. Live' = Live \cup {e}
    BY <1>1, <1>4, <1>5, NoCamFacts DEF Live
  <1> QED
    BY <1>1, <1>2, <1>3, <1>4, <1>5, <1>6, <1>7

LEMMA PlaceFields ==
    ASSUME TableTypeOK, NEW c \in Call, NEW cam \in Camera, NEW type \in InviteType,
           NEW s \in LeastLoaded, NEW e \in Entry, PlaceStream(c, cam, type, s, e)
    PROVE  /\ cams'[e].server = s
           /\ cams'[e].camera = cam
           /\ cams'[e].type = type
           /\ cams'[e].nTranmit = 1
           /\ cams'[e].invites = <<c>>
  <1>1. cams'[e] = [server |-> s, camera |-> cam, type |-> type,
                    nTranmit |-> 1, invites |-> <<c>>]
    BY DEF PlaceStream, TableTypeOK
  <1> QED
    BY <1>1

LEMMA DeleteStreamFacts ==
    ASSUME TableTypeOK, NEW c \in Call, NEW e \in Live, NEW d \in BOOLEAN,
           DeleteStream(e, c, d)
    PROVE  /\ cams' \in [Entry -> CamRec \cup {NoCam}]
           /\ cams'[e] = NoCam
           /\ \A f \in Entry \ {e} : cams'[f] = cams[f]
           /\ Live' = Live \ {e}
  BY DEF DeleteStream, TableTypeOK, Live

LEMMA DeleteLegFacts ==
    ASSUME TableTypeOK, NEW c \in Call, NEW e \in Live, DeleteLeg(e, c)
    PROVE  /\ \E i \in 1 .. Len(cams[e].invites) :
                 /\ cams[e].invites[i] = c
                 /\ cams'[e] = Sending(cams[e], cams[e].nTranmit - 1,
                                       RemoveAt(cams[e].invites, i))
           /\ cams'[e] \in CamRec
           /\ \A f \in Entry \ {e} : cams'[f] = cams[f]
           /\ cams' \in [Entry -> CamRec \cup {NoCam}]
           /\ Live' = Live
  <1>1. e \in Entry
    BY DEF Live
  <1>2. PICK i \in 1 .. Len(cams[e].invites) :
          /\ cams[e].invites[i] = c
          /\ cams' = [cams EXCEPT ![e] = Sending(cams[e], cams[e].nTranmit - 1,
                                                 RemoveAt(cams[e].invites, i))]
    BY DEF DeleteLeg
  <1> DEFINE r == Sending(cams[e], cams[e].nTranmit - 1, RemoveAt(cams[e].invites, i))
  <1>3. r \in CamRec
    <2>1. cams[e].nTranmit \in Int /\ cams[e].invites \in Seq(Call)
      BY LiveFacts
    <2>2. cams[e].nTranmit - 1 \in Int
      BY <2>1
    <2>3. RemoveAt(cams[e].invites, i) \in Seq(Call)
      BY <2>1, RemoveAtFacts
    <2> QED
      BY <2>2, <2>3, SendingFacts
  <1>4. cams' = [cams EXCEPT ![e] = r]
    BY <1>2
  <1> HIDE DEF r
  <1>5. /\ cams'[e] = r
        /\ \A f \in Entry \ {e} : cams'[f] = cams[f]
        /\ cams' \in [Entry -> CamRec \cup {NoCam}]
    BY <1>1, <1>3, <1>4 DEF TableTypeOK
  <1>6. Live' = Live
    BY <1>1, <1>3, <1>5, NoCamFacts DEF Live
  <1>7. /\ cams[e].invites[i] = c
        /\ cams'[e] = Sending(cams[e], cams[e].nTranmit - 1, RemoveAt(cams[e].invites, i))
    BY <1>2, <1>5, Zenon DEF r
  <1>8. cams'[e] \in CamRec
    BY <1>3, <1>5
  <1> QED
    BY <1>5, <1>6, <1>7, <1>8, Zenon

LEMMA EraseFacts ==
    ASSUME TableTypeOK, NEW s \in Server, EraseRTPInfo(s)
    PROVE  /\ cams' \in [Entry -> CamRec \cup {NoCam}]
           /\ Live' = Live \ OnServer(s)
           /\ \A e \in Live' : cams'[e] = cams[e] /\ cams[e].server # s
  BY DEF EraseRTPInfo, TableTypeOK, Live, OnServer

LEMMA SendingFields ==
    ASSUME NEW r, NEW n, NEW q
    PROVE  /\ Sending(r, n, q).server = r.server
           /\ Sending(r, n, q).camera = r.camera
           /\ Sending(r, n, q).type = r.type
           /\ Sending(r, n, q).nTranmit = n
           /\ Sending(r, n, q).invites = q
  BY DEF Sending

(***************************************************************************)
(* Types and nTranmit.                                                     *)
(***************************************************************************)
LEMMA InitType == TableInit => TableTypeOK /\ NTranmitExact
  BY DEF TableInit, TableTypeOK, NTranmitExact, Live

LEMMA StepType ==
    ASSUME TableTypeOK, NTranmitExact, [TableNext]_tableVars
    PROVE  TableTypeOK' /\ NTranmitExact'
<1>1. CASE UNCHANGED tableVars
  BY <1>1 DEF tableVars, TableTypeOK, NTranmitExact, Live
<1>2. ASSUME NEW s \in Server, InsertRTPInfo(s)
      PROVE  TableTypeOK' /\ NTranmitExact'
  BY <1>2 DEF InsertRTPInfo, TableTypeOK, NTranmitExact, Live
<1>3. ASSUME NEW s \in Server, EraseRTPInfo(s)
      PROVE  TableTypeOK' /\ NTranmitExact'
  <2>1. /\ cams' \in [Entry -> CamRec \cup {NoCam}]
        /\ Live' = Live \ OnServer(s)
        /\ \A e \in Live' : cams'[e] = cams[e] /\ cams[e].server # s
    BY <1>3, EraseFacts
  <2>2. listed' = listed \ {s} /\ online' = online \ {s} /\ nTotal' \in [Server -> Int]
    BY <1>3 DEF EraseRTPInfo, TableTypeOK
  <2>3. \A e \in Live' : cams'[e].server \in listed' \ FileServer
    BY <2>1, <2>2 DEF TableTypeOK
  <2>4. TableTypeOK'
    BY <2>1, <2>2, <2>3 DEF TableTypeOK
  <2>5. NTranmitExact'
    BY <2>1 DEF NTranmitExact
  <2> QED
    BY <2>4, <2>5
<1>4. ASSUME NEW s \in Server, SetOnline(s) \/ SetOffline(s)
      PROVE  TableTypeOK' /\ NTranmitExact'
  BY <1>4 DEF SetOnline, SetOffline, TableTypeOK, NTranmitExact, Live
<1>5. ASSUME NEW c \in Call, NEW cam \in Camera, NEW e \in Forwarding(cam),
             JoinStream(c, cam, e)
      PROVE  TableTypeOK' /\ NTranmitExact'
  <2>1. /\ e \in Live
        /\ cams'[e] = Sending(cams[e], cams[e].nTranmit + 1, Append(cams[e].invites, c))
        /\ \A f \in Entry \ {e} : cams'[f] = cams[f]
        /\ cams' \in [Entry -> CamRec \cup {NoCam}]
        /\ Live' = Live
    BY <1>5, JoinFacts
  <2>2. /\ cams[e].server \in Server /\ cams[e].server \in listed \ FileServer
        /\ cams[e].invites \in Seq(Call)
    BY <2>1, LiveFacts
  <2>3. /\ cams'[e].server = cams[e].server
        /\ cams'[e].nTranmit = cams[e].nTranmit + 1
        /\ cams'[e].invites = Append(cams[e].invites, c)
    <3>1. cams'[e] = Sending(cams[e], cams[e].nTranmit + 1, Append(cams[e].invites, c))
      BY <2>1
    <3> QED
      BY <3>1 DEF Sending
  <2>4. listed' = listed /\ online' = online /\ nTotal' \in [Server -> Int]
    BY <1>5, <2>2 DEF JoinStream, TableTypeOK
  <2>5. TableTypeOK'
    <3>1. ASSUME NEW f \in Live' PROVE cams'[f].server \in listed' \ FileServer
      <4>1. CASE f = e
        BY <2>2, <2>3, <2>4, <4>1
      <4>2. CASE f # e
        BY <2>1, <2>4, <4>2 DEF Live, TableTypeOK
      <4> QED
        BY <4>1, <4>2
    <3> QED
      BY <2>1, <2>4, <3>1 DEF TableTypeOK
  <2>6. cams'[e].nTranmit = Len(cams'[e].invites) /\ cams'[e].nTranmit >= 1
    BY <2>1, <2>2, <2>3 DEF NTranmitExact
  <2>7. NTranmitExact'
    BY <2>1, <2>6 DEF NTranmitExact, Live
  <2> QED
    BY <2>5, <2>7
<1>6. ASSUME NEW c \in Call, NEW cam \in Camera, NEW type \in InviteType,
             NEW s \in LeastLoaded, NEW e \in Entry, PlaceStream(c, cam, type, s, e)
      PROVE  TableTypeOK' /\ NTranmitExact'
  <2>1. /\ s \in Server /\ s \in listed \ FileServer
        /\ \A f \in Entry \ {e} : cams'[f] = cams[f]
        /\ cams' \in [Entry -> CamRec \cup {NoCam}]
        /\ Live' = Live \cup {e}
    BY <1>6, PlaceFacts
  <2>2. cams'[e].server = s /\ cams'[e].nTranmit = 1 /\ cams'[e].invites = <<c>>
    BY <1>6, PlaceFields
  <2>3. listed' = listed /\ online' = online /\ nTotal' \in [Server -> Int]
    BY <1>6, <2>1 DEF PlaceStream, TableTypeOK
  <2>4. \A f \in Live' : cams'[f].server \in listed' \ FileServer
    BY <2>1, <2>2, <2>3 DEF Live, TableTypeOK
  <2>5. \A f \in Live' : cams'[f].nTranmit = Len(cams'[f].invites) /\ cams'[f].nTranmit >= 1
    <3>1. cams'[e].nTranmit = Len(cams'[e].invites) /\ cams'[e].nTranmit >= 1
      BY <2>2
    <3>2. \A f \in Live \ {e} : cams'[f] = cams[f]
      BY <2>1 DEF Live
    <3>3. Live' = Live \cup {e}
      BY <2>1
    <3> QED
      BY <3>1, <3>2, <3>3 DEF NTranmitExact
  <2> QED
    BY <2>1, <2>3, <2>4, <2>5 DEF TableTypeOK, NTranmitExact
<1>7. ASSUME NEW c \in Call, NEW e \in Live, NEW d \in BOOLEAN, DeleteStream(e, c, d)
      PROVE  TableTypeOK' /\ NTranmitExact'
  <2>1. /\ cams' \in [Entry -> CamRec \cup {NoCam}]
        /\ \A f \in Entry \ {e} : cams'[f] = cams[f]
        /\ Live' = Live \ {e}
    BY <1>7, DeleteStreamFacts
  <2>2. listed' = listed /\ online' = online
    BY <1>7 DEF DeleteStream
  <2>3. nTotal' \in [Server -> Int]
    <3>1. cams[e].server \in Server /\ cams[e].nTranmit \in Int
      BY LiveFacts
    <3> DEFINE left == nTotal[cams[e].server] - cams[e].nTranmit
    <3>2. left \in Int
      BY <3>1 DEF TableTypeOK
    <3>3. nTotal' = [nTotal EXCEPT ![cams[e].server] = IF left < 0 THEN 0 ELSE left]
      BY <1>7 DEF DeleteStream
    <3> HIDE DEF left
    <3> QED
      BY <3>2, <3>3 DEF TableTypeOK
  <2> QED
    BY <2>1, <2>2, <2>3 DEF Live, TableTypeOK, NTranmitExact
<1>8. ASSUME NEW c \in Call, NEW e \in Live, DeleteLeg(e, c)
      PROVE  TableTypeOK' /\ NTranmitExact'
  <2>1. /\ cams'[e] \in CamRec
        /\ \A f \in Entry \ {e} : cams'[f] = cams[f]
        /\ cams' \in [Entry -> CamRec \cup {NoCam}]
        /\ Live' = Live
    BY <1>8, DeleteLegFacts
  <2>2. PICK i \in 1 .. Len(cams[e].invites) :
          cams'[e] = Sending(cams[e], cams[e].nTranmit - 1, RemoveAt(cams[e].invites, i))
    BY <1>8, DeleteLegFacts
  <2>3. /\ cams[e].server \in Server /\ cams[e].server \in listed \ FileServer
        /\ cams[e].nTranmit \in Int
        /\ cams[e].invites \in Seq(Call)
    BY LiveFacts
  <2>4. /\ cams'[e].server = cams[e].server
        /\ cams'[e].nTranmit = cams[e].nTranmit - 1
        /\ cams'[e].invites = RemoveAt(cams[e].invites, i)
    BY <2>2, SendingFields
  <2>5. /\ listed' = listed /\ online' = online /\ nTotal' \in [Server -> Int]
        /\ cams[e].nTranmit > 1
    BY <1>8, <2>3 DEF DeleteLeg, TableTypeOK
  <2>6. Len(RemoveAt(cams[e].invites, i)) = Len(cams[e].invites) - 1
    BY <2>3, RemoveAtFacts
  <2>7. cams'[e].nTranmit = Len(cams'[e].invites) /\ cams'[e].nTranmit >= 1
    BY <2>3, <2>4, <2>5, <2>6 DEF NTranmitExact
  <2>8. NTranmitExact'
    BY <2>1, <2>7 DEF NTranmitExact, Live
  <2>9. \A f \in Live' : cams'[f].server \in listed' \ FileServer
    BY <2>1, <2>3, <2>4, <2>5 DEF Live, TableTypeOK
  <2> QED
    BY <2>1, <2>5, <2>8, <2>9 DEF TableTypeOK
<1> QED
  BY <1>1, <1>2, <1>3, <1>4, <1>5, <1>6, <1>7, <1>8
     DEF TableNext, GetPracticableRTPServer, ReduceRTPTotal

\* Every reachable table is well typed: streams sit on listed servers that
\* are no file servers.
THEOREM TableTypes == TableSpec => []TableTypeOK
<1>1. TableTypeOK /\ NTranmitExact /\ [TableNext]_tableVars
      => TableTypeOK' /\ NTranmitExact'
  BY StepType
<1> QED
  BY <1>1, InitType, PTL DEF TableSpec

\* A stream's nTranmit is the number of its calls, and it has one: the
\* branches of the code for a stream without calls are dead.
THEOREM NTranmitCorrect == TableSpec => []NTranmitExact
<1>1. TableTypeOK /\ NTranmitExact /\ [TableNext]_tableVars
      => TableTypeOK' /\ NTranmitExact'
  BY StepType
<1> QED
  BY <1>1, InitType, PTL DEF TableSpec

(***************************************************************************)
(* The fields of the stream a step writes.                                 *)
(***************************************************************************)
LEMMA JoinFields ==
    ASSUME TableTypeOK, NEW c \in Call, NEW cam \in Camera, NEW e \in Forwarding(cam),
           JoinStream(c, cam, e)
    PROVE  /\ cams'[e].server = cams[e].server
           /\ cams'[e].camera = cams[e].camera
           /\ cams'[e].type = cams[e].type
           /\ cams'[e].invites = Append(cams[e].invites, c)
  <1>1. cams'[e] = Sending(cams[e], cams[e].nTranmit + 1, Append(cams[e].invites, c))
    BY JoinFacts
  <1> QED
    BY <1>1 DEF Sending

LEMMA DeleteLegFields ==
    ASSUME TableTypeOK, NEW c \in Call, NEW e \in Live, DeleteLeg(e, c)
    PROVE  /\ cams'[e].server = cams[e].server
           /\ cams'[e].camera = cams[e].camera
           /\ cams'[e].type = cams[e].type
           /\ \E i \in 1 .. Len(cams[e].invites) :
                 cams'[e].invites = RemoveAt(cams[e].invites, i)
  <1>1. PICK i \in 1 .. Len(cams[e].invites) :
          cams'[e] = Sending(cams[e], cams[e].nTranmit - 1, RemoveAt(cams[e].invites, i))
    BY DeleteLegFacts
  <1>2. /\ cams'[e].server = cams[e].server
        /\ cams'[e].camera = cams[e].camera
        /\ cams'[e].type = cams[e].type
        /\ cams'[e].invites = RemoveAt(cams[e].invites, i)
    BY <1>1 DEF Sending
  <1> QED
    BY <1>2

(***************************************************************************)
(* nTotal.                                                                 *)
(***************************************************************************)
LegsCounted ==
    \A s \in Server : IsFiniteSet(Legs(s)) /\ nTotal[s] = Cardinality(Legs(s))

\* Legs are (stream, position) pairs, before and after a step.
LEMMA LegsMember ==
    ASSUME NEW s
    PROVE  /\ \A x : x \in Legs(s) <=>
                \E e \in Live : /\ cams[e].server = s
                                /\ \E i \in 1 .. Len(cams[e].invites) : x = <<e, i>>
           /\ \A x : x \in Legs(s)' <=>
                \E e \in Live' : /\ cams'[e].server = s
                                 /\ \E i \in 1 .. Len(cams'[e].invites) : x = <<e, i>>
  BY DEF Legs, OnServer

LEMMA InitCounted == TableInit => LegsCounted
<1> SUFFICES ASSUME TableInit, NEW s \in Server
             PROVE  IsFiniteSet(Legs(s)) /\ nTotal[s] = Cardinality(Legs(s))
  BY DEF LegsCounted
<1>1. Live = {}
  BY DEF TableInit, Live
<1>2. Legs(s) = {}
  BY <1>1, LegsMember
<1> QED
  BY <1>2, FS_EmptySet DEF TableInit

\* One more leg on one server.
LEMMA CountedAdd ==
    ASSUME TableTypeOK, LegsCounted, NEW s \in Server, NEW x, x \notin Legs(s),
           Legs(s)' = Legs(s) \cup {x},
           \A t \in Server \ {s} : Legs(t)' = Legs(t),
           nTotal' = [nTotal EXCEPT ![s] = @ + 1]
    PROVE  LegsCounted'
<1>1. IsFiniteSet(Legs(s)') /\ Cardinality(Legs(s)') = Cardinality(Legs(s)) + 1
  BY FS_AddElement DEF LegsCounted
<1>2. nTotal'[s] = Cardinality(Legs(s)')
  BY <1>1 DEF LegsCounted, TableTypeOK
<1>3. ASSUME NEW t \in Server \ {s}
      PROVE  IsFiniteSet(Legs(t)') /\ nTotal'[t] = Cardinality(Legs(t)')
  BY DEF LegsCounted, TableTypeOK
<1> QED
  BY <1>1, <1>2, <1>3 DEF LegsCounted

\* One leg less on one server.
LEMMA CountedRemove ==
    ASSUME TableTypeOK, LegsCounted, NEW s \in Server, NEW x \in Legs(s),
           Legs(s)' = Legs(s) \ {x},
           \A t \in Server \ {s} : Legs(t)' = Legs(t),
           nTotal' = [nTotal EXCEPT ![s] = @ - 1]
    PROVE  LegsCounted'
<1>1. IsFiniteSet(Legs(s)') /\ Cardinality(Legs(s)') = Cardinality(Legs(s)) - 1
  BY FS_RemoveElement DEF LegsCounted
<1>2. nTotal'[s] = Cardinality(Legs(s)')
  BY <1>1 DEF LegsCounted, TableTypeOK
<1>3. ASSUME NEW t \in Server \ {s}
      PROVE  IsFiniteSet(Legs(t)') /\ nTotal'[t] = Cardinality(Legs(t)')
  BY DEF LegsCounted, TableTypeOK
<1> QED
  BY <1>1, <1>2, <1>3 DEF LegsCounted

\* The legs of one stream are as many as its calls.
LEMMA StreamLegs ==
    ASSUME TableTypeOK, NEW e \in Live
    PROVE  LET own == {e} \X (1 .. Len(cams[e].invites))
           IN  /\ own \subseteq Legs(cams[e].server)
               /\ IsFiniteSet(own)
               /\ Cardinality(own) = Len(cams[e].invites)
<1> DEFINE n == Len(cams[e].invites)
           own == {e} \X (1 .. n)
<1>1. n \in Nat
  BY LiveFacts
<1>2. own \subseteq Legs(cams[e].server)
  BY DEF Legs, OnServer
<1> HIDE DEF n
<1>3. IsFiniteSet({e}) /\ Cardinality({e}) = 1
  BY FS_Singleton
<1>4. IsFiniteSet(1 .. n) /\ Cardinality(1 .. n) = n
  <2>1. IsFiniteSet(1 .. n) /\ Cardinality(1 .. n) = IF 1 > n THEN 0 ELSE n - 1 + 1
    BY <1>1, FS_Interval
  <2> QED
    BY <1>1, <2>1
<1>5. IsFiniteSet(own) /\ Cardinality(own) = n
  <2>1. IsFiniteSet(own) /\ Cardinality(own) = Cardinality({e}) * Cardinality(1 .. n)
    BY <1>3, <1>4, FS_Product, Zenon
  <2>2. Cardinality({e}) * Cardinality(1 .. n) = 1 * n
    BY <1>3, <1>4, Zenon
  <2>3. 1 * n = n
    BY <1>1
  <2> QED
    BY <2>1, <2>2, <2>3, Zenon
<1> QED
  BY <1>1, <1>2, <1>5 DEF n

LEMMA StepCounted ==
    ASSUME TableTypeOK, NTranmitExact, LegsCounted, [TableNext]_tableVars
    PROVE  LegsCounted'
<1>1. CASE UNCHANGED tableVars
  BY <1>1 DEF tableVars, LegsCounted, Legs, OnServer, Live
<1>2. ASSUME NEW s \in Server, InsertRTPInfo(s)
      PROVE  LegsCounted'
  <2>1. Legs(s) = {}
    BY <1>2, LegsMember DEF InsertRTPInfo, TableTypeOK
  <2>2. \A t \in Server : Legs(t)' = Legs(t)
    BY <1>2 DEF InsertRTPInfo, Legs, OnServer, Live
  <2>3. nTotal' = [nTotal EXCEPT ![s] = 0]
    BY <1>2 DEF InsertRTPInfo
  <2> QED
    BY <2>1, <2>2, <2>3, FS_EmptySet DEF LegsCounted, TableTypeOK
<1>3. ASSUME NEW s \in Server, EraseRTPInfo(s)
      PROVE  LegsCounted'
  <2>1. /\ Live' = Live \ OnServer(s)
        /\ \A e \in Live' : cams'[e] = cams[e] /\ cams[e].server # s
    BY <1>3, EraseFacts
  <2>2. Legs(s)' = {}
    BY <2>1, LegsMember
  <2>3. ASSUME NEW t \in Server \ {s} PROVE Legs(t)' = Legs(t)
    <3>1. \A e \in Live : cams[e].server = t => e \in Live'
      BY <2>1 DEF OnServer
    <3>2. \A x : x \in Legs(t)' <=> x \in Legs(t)
      BY <2>1, <3>1, LegsMember DEF OnServer
    <3> QED
      BY <3>2
  <2>4. nTotal' = [nTotal EXCEPT ![s] = 0]
    BY <1>3 DEF EraseRTPInfo
  <2> QED
    BY <2>2, <2>3, <2>4, FS_EmptySet DEF LegsCounted, TableTypeOK
<1>4. ASSUME NEW s \in Server, SetOnline(s) \/ SetOffline(s)
      PROVE  LegsCounted'
  BY <1>4 DEF SetOnline, SetOffline, LegsCounted, Legs, OnServer, Live
<1>5. ASSUME NEW c \in Call, NEW cam \in Camera, NEW e \in Forwarding(cam),
             JoinStream(c, cam, e)
      PROVE  LegsCounted'
  <2>live. e \in Live
    BY <1>5, JoinFacts
  <2>range. cams[e].server \in Server /\ Len(cams[e].invites) \in Nat
    BY <2>live, LiveFacts
  <2> PICK s \in Server : s = cams[e].server
    BY <2>range
  <2> PICK n \in Nat : n = Len(cams[e].invites)
    BY <2>range
  <2> DEFINE x == <<e, n + 1>>
  <2>1. /\ e \in Live
        /\ \A f \in Entry \ {e} : cams'[f] = cams[f]
        /\ Live' = Live
    BY <1>5, JoinFacts
  <2>2. s \in Server /\ n \in Nat /\ cams[e].invites \in Seq(Call)
    BY <2>1, LiveFacts
  <2>3. cams'[e].server = s
    BY <1>5, JoinFields
  <2>4. Len(cams'[e].invites) = n + 1
    <3>1. cams'[e].invites = Append(cams[e].invites, c)
      BY <1>5, JoinFields
    <3> QED
      BY <2>2, <3>1
  <2>5. \A f \in Live \ {e} : cams'[f] = cams[f]
    BY <2>1 DEF Live
  <2>6. x \notin Legs(s)
    BY <2>2, LegsMember
  <2>7. 1 .. (n + 1) = (1 .. n) \cup {n + 1}
    BY <2>2
  <2>8. Legs(s)' = Legs(s) \cup {x}
    <3>1. \A y : y \in Legs(s)' <=> y \in Legs(s) \cup {x}
      BY <2>1, <2>3, <2>4, <2>5, <2>7, LegsMember
    <3> QED
      BY <3>1
  <2>9. ASSUME NEW t \in Server \ {s} PROVE Legs(t)' = Legs(t)
    <3>1. \A y : y \in Legs(t)' <=> y \in Legs(t)
      BY <2>1, <2>3, <2>5, LegsMember
    <3> QED
      BY <3>1
  <2>10. nTotal' = [nTotal EXCEPT ![s] = @ + 1]
    BY <1>5 DEF JoinStream
  <2> HIDE DEF x
  <2> QED
    BY <2>2, <2>6, <2>8, <2>9, <2>10, CountedAdd
<1>6. ASSUME NEW c \in Call, NEW cam \in Camera, NEW type \in InviteType,
             NEW s \in LeastLoaded, NEW e \in Entry, PlaceStream(c, cam, type, s, e)
      PROVE  LegsCounted'
  <2> DEFINE x == <<e, 1>>
  <2>1. /\ s \in Server
        /\ e \notin Live
        /\ \A f \in Entry \ {e} : cams'[f] = cams[f]
        /\ Live' = Live \cup {e}
    <3> HIDE DEF x
    <3> QED
      BY <1>6, PlaceFacts
  <2>2. cams'[e].server = s
    BY <1>6, PlaceFields
  <2>3. 1 .. Len(cams'[e].invites) = {1}
    <3>1. cams'[e].invites = <<c>>
      BY <1>6, PlaceFields
    <3> QED
      BY <3>1
  <2>4. \A f \in Live : cams'[f] = cams[f]
    BY <2>1 DEF Live
  <2>5. x \notin Legs(s)
    BY <2>1, LegsMember
  <2>6. Legs(s)' = Legs(s) \cup {x}
    <3>1. \A y : y \in Legs(s)' <=> y \in Legs(s) \cup {x}
      BY <2>1, <2>2, <2>3, <2>4, LegsMember
    <3> QED
      BY <3>1
  <2>7. ASSUME NEW t \in Server \ {s} PROVE Legs(t)' = Legs(t)
    <3>1. \A y : y \in Legs(t)' <=> y \in Legs(t)
      BY <2>1, <2>2, <2>4, LegsMember
    <3> QED
      BY <3>1
  <2>8. nTotal' = [nTotal EXCEPT ![s] = @ + 1]
    BY <1>6 DEF PlaceStream
  <2> HIDE DEF x
  <2> QED
    BY <2>1, <2>5, <2>6, <2>7, <2>8, CountedAdd
<1>7. ASSUME NEW c \in Call, NEW e \in Live, NEW d \in BOOLEAN, DeleteStream(e, c, d)
      PROVE  LegsCounted'
  <2>range. cams[e].server \in Server /\ Len(cams[e].invites) \in Nat
    BY LiveFacts
  <2> PICK s \in Server : s = cams[e].server
    BY <2>range
  <2> PICK n \in Nat : n = Len(cams[e].invites)
    BY <2>range
  <2> DEFINE own == {e} \X (1 .. n)
  <2>1. s \in Server /\ n \in Nat /\ cams[e].nTranmit = n
    BY LiveFacts DEF NTranmitExact
  <2>2. own \subseteq Legs(s) /\ IsFiniteSet(own) /\ Cardinality(own) = n
    BY StreamLegs
  <2>3. /\ Live' = Live \ {e}
        /\ \A f \in Live' : cams'[f] = cams[f]
    BY <1>7, DeleteStreamFacts DEF Live
  <2>4. \A y : y \in own <=> \E i \in 1 .. n : y = <<e, i>>
    OBVIOUS
  <2>5. Legs(s)' = Legs(s) \ own
    <3>1. \A y : y \in Legs(s)' <=> y \in Legs(s) \ own
      BY <2>3, <2>4, LegsMember
    <3> QED
      BY <3>1
  <2>6. ASSUME NEW t \in Server \ {s} PROVE Legs(t)' = Legs(t)
    <3>1. \A y : y \in Legs(t)' <=> y \in Legs(t)
      BY <2>3, LegsMember
    <3> QED
      BY <3>1
  <2>7. IsFiniteSet(Legs(s)) /\ nTotal[s] = Cardinality(Legs(s))
    BY <2>1 DEF LegsCounted
  <2>8. nTotal' = [nTotal EXCEPT ![s] = IF nTotal[s] - n < 0 THEN 0 ELSE nTotal[s] - n]
    BY <1>7, <2>1 DEF DeleteStream
  <2> HIDE DEF own
  <2>9. /\ IsFiniteSet(Legs(s)')
        /\ Cardinality(Legs(s)') = Cardinality(Legs(s)) - n
        /\ Cardinality(Legs(s)) \in Nat
        /\ Cardinality(Legs(s)) >= n
    <3>1. Legs(s) \cap own = own
      BY <2>2
    <3>2. IsFiniteSet(Legs(s) \ own)
          /\ Cardinality(Legs(s) \ own) = Cardinality(Legs(s)) - Cardinality(Legs(s) \cap own)
      BY <2>7, FS_Difference
    <3>3. Cardinality(own) <= Cardinality(Legs(s))
      BY <2>2, <2>7, FS_Subset
    <3>4. Cardinality(Legs(s)) \in Nat
      BY <2>7, FS_CardinalityType
    <3> QED
      BY <2>1, <2>2, <2>5, <3>1, <3>2, <3>3, <3>4
  <2>10. nTotal'[s] = Cardinality(Legs(s)')
    BY <2>1, <2>7, <2>8, <2>9 DEF TableTypeOK
  <2>11. ASSUME NEW t \in Server \ {s}
         PROVE  IsFiniteSet(Legs(t)') /\ nTotal'[t] = Cardinality(Legs(t)')
    BY <2>6, <2>8 DEF LegsCounted, TableTypeOK
  <2> QED
    BY <2>9, <2>10, <2>11 DEF LegsCounted
<1>8. ASSUME NEW c \in Call, NEW e \in Live, DeleteLeg(e, c)
      PROVE  LegsCounted'
  <2>range. cams[e].server \in Server /\ Len(cams[e].invites) \in Nat
    BY LiveFacts
  <2> PICK s \in Server : s = cams[e].server
    BY <2>range
  <2> PICK n \in Nat : n = Len(cams[e].invites)
    BY <2>range
  <2> DEFINE x == <<e, n>>
  <2>1. /\ Live' = Live
        /\ \A f \in Live \ {e} : cams'[f] = cams[f]
    BY <1>8, DeleteLegFacts DEF Live
  <2>2. s \in Server /\ n \in Nat /\ n > 1 /\ cams[e].invites \in Seq(Call)
    BY <1>8, LiveFacts DEF DeleteLeg, NTranmitExact
  <2>3. cams'[e].server = s
    BY <1>8, DeleteLegFields
  <2>4. Len(cams'[e].invites) = n - 1
    <3>1. PICK i \in 1 .. n : cams'[e].invites = RemoveAt(cams[e].invites, i)
      BY <1>8, DeleteLegFields
    <3> QED
      BY <2>2, <3>1, RemoveAtFacts
  <2>5. x \in Legs(s)
    BY <2>2, LegsMember
  <2>6. nTotal' = [nTotal EXCEPT ![s] = @ - 1]
    BY <1>8 DEF DeleteLeg
  <2>7. \A i : i \in 1 .. (n - 1) <=> i \in 1 .. n /\ i # n
    BY <2>2
  <2>8. Legs(s)' = Legs(s) \ {x}
    <3>1. ASSUME NEW y, NEW f \in Live, NEW i
          PROVE  y = <<f, i>> /\ i \in 1 .. Len(cams'[f].invites)
                   <=> y = <<f, i>> /\ i \in 1 .. Len(cams[f].invites) /\ y # x
      <4>1. CASE f = e
        BY <2>4, <2>7, <4>1
      <4>2. CASE f # e
        BY <2>1, <4>2
      <4> QED
        BY <4>1, <4>2
    <3>2. \A f \in Live : cams'[f].server = cams[f].server
      BY <2>1, <2>3
    <3>3. ASSUME NEW y
          PROVE  y \in Legs(s)' <=> y \in Legs(s) \ {x}
      <4>1. y \in Legs(s) \ {x} <=>
              \E f \in Live : \E i : /\ cams[f].server = s
                                   /\ y = <<f, i>> /\ i \in 1 .. Len(cams[f].invites) /\ y # x
        BY LegsMember
      <4>2. y \in Legs(s)' <=>
              \E f \in Live : \E i : /\ cams'[f].server = s
                                   /\ y = <<f, i>> /\ i \in 1 .. Len(cams'[f].invites)
        BY <2>1, LegsMember
      <4> HIDE DEF x
      <4> QED
        BY <3>1, <3>2, <4>1, <4>2
    <3> QED
      BY <3>3
  <2>9. ASSUME NEW t \in Server \ {s} PROVE Legs(t)' = Legs(t)
    <3>1. \A y : y \in Legs(t)' <=> y \in Legs(t)
      BY <2>1, <2>3, LegsMember
    <3> QED
      BY <3>1
  <2> HIDE DEF x
  <2> QED
    BY <2>2, <2>5, <2>6, <2>8, <2>9, CountedRemove
<1> QED
  BY <1>1, <1>2, <1>3, <1>4, <1>5, <1>6, <1>7, <1>8
     DEF TableNext, GetPracticableRTPServer, ReduceRTPTotal

\* nTotal, by which GetPracticableRTPServer spreads new calls, is the number
\* of legs a server relays after any sequence of placements, joins, deletions
\* and reloads.
THEOREM NTotalCorrect == TableSpec => []NTotalExact
<1> DEFINE Inv == TableTypeOK /\ NTranmitExact /\ LegsCounted
<1>1. TableInit => Inv
  BY InitType, InitCounted
<1>2. Inv /\ [TableNext]_tableVars => Inv'
  BY StepType, StepCounted
<1>3. Inv => NTotalExact
  BY DEF LegsCounted, NTotalExact
<1> QED
  BY <1>1, <1>2, <1>3, PTL DEF TableSpec

\* So both counters the code keeps of its lists are right in every reachable
\* table.
THEOREM CountersCorrect == TableSpec => []CountersExact
<1>1. NTranmitExact /\ NTotalExact => CountersExact
  BY DEF CountersExact
<1> QED
  BY <1>1, NTranmitCorrect, NTotalCorrect, PTL

(***************************************************************************)
(* One live stream of a camera on a server.                                *)
(***************************************************************************)
LEMMA StepOneStream ==
    ASSUME TableTypeOK, OneLiveStreamPerServer, [TableNext]_tableVars
    PROVE  OneLiveStreamPerServer'
<1>1. CASE UNCHANGED tableVars
  BY <1>1 DEF tableVars, OneLiveStreamPerServer, Live
<1>2. ASSUME NEW s \in Server, InsertRTPInfo(s) \/ SetOnline(s) \/ SetOffline(s)
      PROVE  OneLiveStreamPerServer'
  BY <1>2 DEF InsertRTPInfo, SetOnline, SetOffline, OneLiveStreamPerServer, Live
<1>3. ASSUME NEW s \in Server, EraseRTPInfo(s)
      PROVE  OneLiveStreamPerServer'
  <2>1. \A e \in Live' : e \in Live /\ cams'[e] = cams[e]
    BY <1>3, EraseFacts
  <2> QED
    BY <2>1 DEF OneLiveStreamPerServer
<1>4. ASSUME NEW c \in Call, NEW cam \in Camera, NEW e \in Forwarding(cam),
             JoinStream(c, cam, e)
      PROVE  OneLiveStreamPerServer'
  <2>1. Live' = Live /\ \A f \in Live \ {e} : cams'[f] = cams[f]
    BY <1>4, JoinFacts DEF Live
  <2>2. /\ cams'[e].server = cams[e].server
        /\ cams'[e].camera = cams[e].camera
        /\ cams'[e].type = cams[e].type
    BY <1>4, JoinFields
  <2> QED
    BY <2>1, <2>2 DEF OneLiveStreamPerServer
<1>5. ASSUME NEW c \in Call, NEW cam \in Camera, NEW type \in InviteType,
             NEW s \in LeastLoaded, NEW e \in Entry, PlaceStream(c, cam, type, s, e)
      PROVE  OneLiveStreamPerServer'
  <2>1. /\ s \in Practicable
        /\ \A f \in Entry \ {e} : cams'[f] = cams[f]
        /\ Live' = Live \cup {e}
        /\ e \notin Live
    BY <1>5, PlaceFacts
  <2>2. cams'[e].server = s /\ cams'[e].camera = cam /\ cams'[e].type = type
    BY <1>5, PlaceFields
  <2>3. \A f \in Live : cams'[f] = cams[f]
    BY <2>1 DEF Live
  <2>4. ASSUME NEW f \in Live, type = "play", cams[f].type = "play", cams[f].camera = cam
        PROVE  cams[f].server # s
    BY <1>5, <2>1, <2>4 DEF PlaceStream, Forwarding
  <2>5. ASSUME NEW f \in Live', NEW g \in Live',
               cams'[f].type = "play", cams'[g].type = "play",
               cams'[f].camera = cams'[g].camera, cams'[f].server = cams'[g].server
        PROVE  f = g
    <3>1. CASE f # e /\ g # e
      BY <2>1, <2>3, <2>5, <3>1 DEF OneLiveStreamPerServer
    <3>2. CASE f = e /\ g # e
      BY <2>1, <2>2, <2>3, <2>4, <2>5, <3>2
    <3>3. CASE f # e /\ g = e
      BY <2>1, <2>2, <2>3, <2>4, <2>5, <3>3
    <3> QED
      BY <3>1, <3>2, <3>3
  <2> QED
    BY <2>5 DEF OneLiveStreamPerServer
<1>6. ASSUME NEW c \in Call, NEW e \in Live, NEW d \in BOOLEAN, DeleteStream(e, c, d)
      PROVE  OneLiveStreamPerServer'
  <2>1. \A f \in Live' : f \in Live /\ cams'[f] = cams[f]
    BY <1>6, DeleteStreamFacts DEF Live
  <2> QED
    BY <2>1 DEF OneLiveStreamPerServer
<1>7. ASSUME NEW c \in Call, NEW e \in Live, DeleteLeg(e, c)
      PROVE  OneLiveStreamPerServer'
  <2>1. Live' = Live /\ \A f \in Live \ {e} : cams'[f] = cams[f]
    BY <1>7, DeleteLegFacts DEF Live
  <2>2. /\ cams'[e].server = cams[e].server
        /\ cams'[e].camera = cams[e].camera
        /\ cams'[e].type = cams[e].type
    BY <1>7, DeleteLegFields
  <2> QED
    BY <2>1, <2>2 DEF OneLiveStreamPerServer
<1> QED
  BY <1>1, <1>2, <1>3, <1>4, <1>5, <1>6, <1>7
     DEF TableNext, GetPracticableRTPServer, ReduceRTPTotal

\* A camera is never played live through one server twice, even after the
\* server was offline while its camera was played through another.
THEOREM OneLiveStream == TableSpec => []OneLiveStreamPerServer
<1> DEFINE Inv == TableTypeOK /\ NTranmitExact /\ OneLiveStreamPerServer
<1>1. TableInit => Inv
  BY InitType DEF TableInit, OneLiveStreamPerServer, Live
<1>2. Inv /\ [TableNext]_tableVars => Inv'
  BY StepType, StepOneStream
<1> QED
  BY <1>1, <1>2, PTL DEF TableSpec

(***************************************************************************)
(* One leg of a call.                                                      *)
(***************************************************************************)
LEMMA StepOneLeg ==
    ASSUME TableTypeOK, OneLegPerCall, [TableNext]_tableVars
    PROVE  OneLegPerCall'
<1>1. CASE UNCHANGED tableVars
  BY <1>1 DEF tableVars, OneLegPerCall, Live
<1>2. ASSUME NEW s \in Server, InsertRTPInfo(s) \/ SetOnline(s) \/ SetOffline(s)
      PROVE  OneLegPerCall'
  BY <1>2 DEF InsertRTPInfo, SetOnline, SetOffline, OneLegPerCall, Live
<1>3. ASSUME NEW s \in Server, EraseRTPInfo(s)
      PROVE  OneLegPerCall'
  <2>1. \A e \in Live' : e \in Live /\ cams'[e] = cams[e]
    BY <1>3, EraseFacts
  <2> QED
    BY <2>1 DEF OneLegPerCall
<1>4. ASSUME NEW c \in Call, NEW cam \in Camera, NEW e \in Forwarding(cam),
             ~ InTable(c), JoinStream(c, cam, e)
      PROVE  OneLegPerCall'
  <2>1. e \in Live /\ Live' = Live /\ \A f \in Live \ {e} : cams'[f] = cams[f]
    BY <1>4, JoinFacts DEF Live
  <2>2. cams'[e].invites = Append(cams[e].invites, c) /\ cams[e].invites \in Seq(Call)
    BY <1>4, <2>1, JoinFields, LiveFacts
  <2>3. \A f \in Live : \A i \in 1 .. Len(cams[f].invites) : cams[f].invites[i] # c
    <3>1. \A f \in Live : cams[f].invites \in Seq(Call)
      BY LiveFacts
    <3> QED
      BY <1>4, <3>1 DEF InTable, Holds, ToSet
  <2>4. /\ Len(cams'[e].invites) = Len(cams[e].invites) + 1
        /\ \A i \in 1 .. Len(cams[e].invites) : cams'[e].invites[i] = cams[e].invites[i]
        /\ cams'[e].invites[Len(cams[e].invites) + 1] = c
        /\ Len(cams[e].invites) \in Nat
    BY <2>2
  <2>5. ASSUME NEW f \in Live', NEW i \in 1 .. Len(cams'[f].invites),
               NEW g \in Live', NEW j \in 1 .. Len(cams'[g].invites),
               cams'[f].invites[i] = cams'[g].invites[j]
        PROVE  f = g /\ i = j
    <3> DEFINE new(h, k) == h = e /\ k = Len(cams[e].invites) + 1
    <3>1. ~ new(f, i) => /\ i \in 1 .. Len(cams[f].invites)
                         /\ cams'[f].invites[i] = cams[f].invites[i]
      BY <2>1, <2>4
    <3>2. ~ new(g, j) => /\ j \in 1 .. Len(cams[g].invites)
                         /\ cams'[g].invites[j] = cams[g].invites[j]
      BY <2>1, <2>4
    <3>3. CASE ~ new(f, i) /\ ~ new(g, j)
      BY <2>1, <2>5, <3>1, <3>2, <3>3 DEF OneLegPerCall
    <3>4. CASE new(f, i) /\ ~ new(g, j)
      BY <2>1, <2>3, <2>4, <2>5, <3>2, <3>4
    <3>5. CASE ~ new(f, i) /\ new(g, j)
      BY <2>1, <2>3, <2>4, <2>5, <3>1, <3>5
    <3> QED
      BY <3>3, <3>4, <3>5
  <2> QED
    BY <2>5 DEF OneLegPerCall
<1>5. ASSUME NEW c \in Call, NEW cam \in Camera, NEW type \in InviteType,
             NEW s \in LeastLoaded, NEW e \in Entry,
             ~ InTable(c), PlaceStream(c, cam, type, s, e)
      PROVE  OneLegPerCall'
  <2>1. /\ \A f \in Entry \ {e} : cams'[f] = cams[f]
        /\ Live' = Live \cup {e}
        /\ e \notin Live
    BY <1>5, PlaceFacts
  <2>2. cams'[e].invites = <<c>>
    BY <1>5, PlaceFields
  <2>3. \A f \in Live : \A i \in 1 .. Len(cams[f].invites) : cams[f].invites[i] # c
    <3>1. \A f \in Live : cams[f].invites \in Seq(Call)
      BY LiveFacts
    <3> QED
      BY <1>5, <3>1 DEF InTable, Holds, ToSet
  <2>4. \A f \in Live : cams'[f] = cams[f]
    BY <2>1 DEF Live
  <2>5. Len(cams'[e].invites) = 1 /\ cams'[e].invites[1] = c
    BY <2>2
  <2>6. ASSUME NEW f \in Live', NEW i \in 1 .. Len(cams'[f].invites),
               NEW g \in Live', NEW j \in 1 .. Len(cams'[g].invites),
               cams'[f].invites[i] = cams'[g].invites[j]
        PROVE  f = g /\ i = j
    <3>1. CASE f # e /\ g # e
      BY <2>1, <2>4, <2>6, <3>1 DEF OneLegPerCall
    <3>2. CASE f = e /\ g # e
      BY <2>1, <2>3, <2>4, <2>5, <2>6, <3>2
    <3>3. CASE f # e /\ g = e
      BY <2>1, <2>3, <2>4, <2>5, <2>6, <3>3
    <3>4. CASE f = e /\ g = e
      <4>1. i \in 1 .. Len(cams'[e].invites) /\ j \in 1 .. Len(cams'[e].invites)
        BY <3>4
      <4>2. i \in 1 .. 1 /\ j \in 1 .. 1
        BY <2>5, <4>1
      <4> QED
        BY <3>4, <4>2
    <3> QED
      BY <3>1, <3>2, <3>3, <3>4
  <2> QED
    BY <2>6 DEF OneLegPerCall
<1>6. ASSUME NEW c \in Call, NEW e \in Live, NEW d \in BOOLEAN, DeleteStream(e, c, d)
      PROVE  OneLegPerCall'
  <2>1. \A f \in Live' : f \in Live /\ cams'[f] = cams[f]
    BY <1>6, DeleteStreamFacts DEF Live
  <2>2. ASSUME NEW f \in Live', NEW i \in 1 .. Len(cams'[f].invites),
               NEW g \in Live', NEW j \in 1 .. Len(cams'[g].invites),
               cams'[f].invites[i] = cams'[g].invites[j]
        PROVE  f = g /\ i = j
    BY <2>1, <2>2 DEF OneLegPerCall
  <2> QED
    BY <2>2 DEF OneLegPerCall
<1>7. ASSUME NEW c \in Call, NEW e \in Live, DeleteLeg(e, c)
      PROVE  OneLegPerCall'
  <2>1. Live' = Live /\ \A f \in Live \ {e} : cams'[f] = cams[f]
    BY <1>7, DeleteLegFacts DEF Live
  <2>2. PICK p \in 1 .. Len(cams[e].invites) :
          cams'[e].invites = RemoveAt(cams[e].invites, p)
    BY <1>7, DeleteLegFields
  <2>3. cams[e].invites \in Seq(Call) /\ Len(cams[e].invites) \in Nat
    BY LiveFacts
  <2>4. /\ Len(cams'[e].invites) = Len(cams[e].invites) - 1
        /\ \A i \in 1 .. (Len(cams[e].invites) - 1) :
              cams'[e].invites[i] =
                IF i < p THEN cams[e].invites[i] ELSE cams[e].invites[i + 1]
    BY <2>2, <2>3, RemoveAtFacts
  <2>5. ASSUME NEW f \in Live', NEW i \in 1 .. Len(cams'[f].invites),
               NEW g \in Live', NEW j \in 1 .. Len(cams'[g].invites),
               cams'[f].invites[i] = cams'[g].invites[j]
        PROVE  f = g /\ i = j
    <3> DEFINE old(h, k) == IF h = e /\ k >= p THEN k + 1 ELSE k
    <3>0. ASSUME NEW h \in Live', NEW k \in 1 .. Len(cams'[h].invites)
          PROVE  /\ old(h, k) \in 1 .. Len(cams[h].invites)
                 /\ cams'[h].invites[k] = cams[h].invites[old(h, k)]
      <4>1. CASE h # e
        BY <2>1, <4>1
      <4>2. CASE h = e
        <5>1. k \in 1 .. (Len(cams[e].invites) - 1)
          BY <2>4, <4>2
        <5>2. cams'[e].invites[k] = IF k < p THEN cams[e].invites[k] ELSE cams[e].invites[k + 1]
          BY <2>4, <5>1
        <5>3. CASE k < p
          BY <2>3, <4>2, <5>1, <5>2, <5>3
        <5>4. CASE k >= p
          <6>1. ~ (k < p) /\ k + 1 \in 1 .. Len(cams[e].invites)
            BY <2>3, <5>1, <5>4
          <6>2. old(h, k) = k + 1
            BY <4>2, <5>4
          <6> QED
            BY <4>2, <5>2, <6>1, <6>2
        <5> QED
          BY <5>1, <5>3, <5>4
      <4> QED
        BY <4>1, <4>2
    <3> HIDE DEF old
    <3>1. /\ old(f, i) \in 1 .. Len(cams[f].invites)
          /\ cams'[f].invites[i] = cams[f].invites[old(f, i)]
      BY <3>0
    <3>2. /\ old(g, j) \in 1 .. Len(cams[g].invites)
          /\ cams'[g].invites[j] = cams[g].invites[old(g, j)]
      BY <3>0
    <3>3. f = g /\ old(f, i) = old(g, j)
      <4>1. f \in Live /\ g \in Live
        BY <2>1
      <4>2. cams[f].invites[old(f, i)] = cams[g].invites[old(g, j)]
        BY <2>5, <3>1, <3>2
      <4>3. \A k \in 1 .. Len(cams[f].invites), n \in 1 .. Len(cams[g].invites) :
              cams[f].invites[k] = cams[g].invites[n] => f = g /\ k = n
        BY <4>1 DEF OneLegPerCall
      <4> QED
        BY <3>1, <3>2, <4>2, <4>3
    <3>4. i \in Int /\ j \in Int
      OBVIOUS
    <3> QED
      BY <3>3, <3>4 DEF old
  <2> QED
    BY <2>5 DEF OneLegPerCall
<1> QED
  BY <1>1, <1>2, <1>3, <1>4, <1>5, <1>6, <1>7
     DEF TableNext, GetPracticableRTPServer, ReduceRTPTotal

\* A Call-ID has one leg in the table, whatever streams were shared, left and
\* deleted before.
THEOREM OneLeg == TableSpec => []OneLegPerCall
<1> DEFINE Inv == TableTypeOK /\ NTranmitExact /\ OneLegPerCall
<1>1. TableInit => Inv
  BY InitType DEF TableInit, OneLegPerCall, Live
<1>2. Inv /\ [TableNext]_tableVars => Inv'
  BY StepType, StepOneLeg
<1> QED
  BY <1>1, <1>2, PTL DEF TableSpec

(***************************************************************************)
(* Which calls a change of the table may bring in or take out.             *)
(***************************************************************************)
LEMMA LegStays ==
    ASSUME NEW q \in Seq(Call), NEW i \in 1 .. Len(q), NEW x \in ToSet(q), x # q[i]
    PROVE  x \in ToSet(RemoveAt(q, i))
<1>1. PICK j \in 1 .. Len(q) : q[j] = x
  BY DEF ToSet
<1>2. /\ Len(q) \in Nat
      /\ Len(RemoveAt(q, i)) = Len(q) - 1
      /\ \A n \in 1 .. (Len(q) - 1) :
            RemoveAt(q, i)[n] = IF n < i THEN q[n] ELSE q[n + 1]
      /\ RemoveAt(q, i) \in Seq(Call)
  BY RemoveAtFacts
<1>3. j # i
  BY <1>1
<1>4. PICK n \in 1 .. (Len(q) - 1) : RemoveAt(q, i)[n] = x
  <2>1. CASE j < i
    BY <1>1, <1>2, <2>1
  <2>2. CASE j > i
    <3>1. j - 1 \in 1 .. (Len(q) - 1) /\ ~ (j - 1 < i) /\ (j - 1) + 1 = j
      BY <1>2, <2>2
    <3> QED
      BY <1>1, <1>2, <3>1
  <2> QED
    BY <1>3, <2>1, <2>2
<1> QED
  BY <1>2, <1>4 DEF ToSet

LEMMA LegsWere ==
    ASSUME NEW q \in Seq(Call), NEW i \in 1 .. Len(q), NEW x \in ToSet(RemoveAt(q, i))
    PROVE  x \in ToSet(q)
<1>1. /\ Len(q) \in Nat
      /\ Len(RemoveAt(q, i)) = Len(q) - 1
      /\ \A n \in 1 .. (Len(q) - 1) :
            RemoveAt(q, i)[n] = IF n < i THEN q[n] ELSE q[n + 1]
      /\ RemoveAt(q, i) \in Seq(Call)
  BY RemoveAtFacts
<1>2. PICK n \in 1 .. (Len(q) - 1) : RemoveAt(q, i)[n] = x
  BY <1>1 DEF ToSet
<1>3. q[n] = x \/ q[n + 1] = x
  BY <1>1, <1>2
<1>4. n \in 1 .. Len(q) /\ n + 1 \in 1 .. Len(q)
  BY <1>1, <1>2
<1> QED
  BY <1>3, <1>4 DEF ToSet

LEMMA LegGone ==
    ASSUME NEW q \in Seq(Call), NEW i \in 1 .. Len(q), NEW c, q[i] = c,
           \A j \in 1 .. Len(q) : q[j] = c => j = i
    PROVE  c \notin ToSet(RemoveAt(q, i))
<1> SUFFICES ASSUME c \in ToSet(RemoveAt(q, i)) PROVE FALSE
  OBVIOUS
<1>1. /\ Len(q) \in Nat
      /\ Len(RemoveAt(q, i)) = Len(q) - 1
      /\ \A n \in 1 .. (Len(q) - 1) :
            RemoveAt(q, i)[n] = IF n < i THEN q[n] ELSE q[n + 1]
      /\ RemoveAt(q, i) \in Seq(Call)
  BY RemoveAtFacts
<1>2. PICK n \in 1 .. (Len(q) - 1) : RemoveAt(q, i)[n] = c
  BY <1>1 DEF ToSet
<1>3. n \in 1 .. Len(q) /\ n + 1 \in 1 .. Len(q)
  BY <1>1
<1>4. CASE n < i
  BY <1>1, <1>2, <1>3, <1>4
<1>5. CASE ~ (n < i)
  <2>1. n + 1 = i
    BY <1>1, <1>2, <1>3, <1>5
  <2> QED
    BY <1>1, <1>5, <2>1
<1> QED
  BY <1>4, <1>5

\* ReduceRTPTotal that does not ask for the whole stream takes out the call it
\* was given and no other: a stream is only deleted when that is its last.
LEMMA DeletesOne ==
    ASSUME TableTypeOK, NTranmitExact, NEW c \in Call, NEW e \in Live,
           DeleteStream(e, c, FALSE) \/ DeleteLeg(e, c),
           NEW x \in Call, x # c, InTable(x)
    PROVE  InTable(x)'
<1>2. PICK f \in Live : Holds(f, x)
  BY DEF InTable
<1>3. cams[e].invites \in Seq(Call) /\ cams[e].nTranmit \in Int
  BY LiveFacts
<1>4. CASE DeleteStream(e, c, FALSE)
  <2>1. Len(cams[e].invites) \in Nat /\ Len(cams[e].invites) <= 1
    <3>1. cams[e].nTranmit <= 1
      BY <1>4 DEF DeleteStream
    <3>2. cams[e].nTranmit = Len(cams[e].invites)
      BY DEF NTranmitExact
    <3> QED
      BY <1>3, <3>1, <3>2
  <2>2. Holds(e, c)
    BY <1>4 DEF DeleteStream
  <2>3. ~ Holds(e, x)
    BY <1>3, <2>1, <2>2 DEF Holds, ToSet
  <2>4. f \in Live' /\ cams'[f] = cams[f]
    BY <1>2, <1>4, <2>3, DeleteStreamFacts DEF Live
  <2> QED
    BY <1>2, <2>4 DEF InTable, Holds
<1>5. CASE DeleteLeg(e, c)
  <2>1. f \in Live'
    BY <1>5, DeleteLegFacts
  <2>2. CASE f # e
    <3>1. cams'[f] = cams[f]
      BY <1>5, <2>2, DeleteLegFacts DEF Live
    <3> QED
      BY <1>2, <2>1, <3>1 DEF InTable, Holds
  <2>3. CASE f = e
    <3>1. PICK i \in 1 .. Len(cams[e].invites) :
            /\ cams[e].invites[i] = c
            /\ cams'[e] = Sending(cams[e], cams[e].nTranmit - 1,
                                  RemoveAt(cams[e].invites, i))
      BY <1>5, DeleteLegFacts
    <3>2. cams'[e].invites = RemoveAt(cams[e].invites, i)
      BY <3>1, SendingFields
    <3>3. x \in ToSet(cams[e].invites) /\ x # cams[e].invites[i]
      BY <1>2, <2>3, <3>1 DEF Holds
    <3>4. x \in ToSet(RemoveAt(cams[e].invites, i))
      BY <1>3, <3>3, LegStays
    <3> QED
      BY <2>1, <2>3, <3>2, <3>4 DEF InTable, Holds
  <2> QED
    BY <2>2, <2>3
<1> QED
  BY <1>4, <1>5

\* A call that comes in, and those that were there.
LEMMA JoinKeeps ==
    ASSUME TableTypeOK, NEW c \in Call, NEW cam \in Camera, NEW e \in Forwarding(cam),
           JoinStream(c, cam, e), NEW x \in Call, InTable(x) \/ x = c
    PROVE  InTable(x)'
<1>1. /\ e \in Live
      /\ Live' = Live
      /\ \A f \in Live \ {e} : cams'[f] = cams[f]
      /\ cams'[e].invites = Append(cams[e].invites, c)
  BY JoinFacts, JoinFields DEF Live
<1>2. cams[e].invites \in Seq(Call)
  BY <1>1, LiveFacts
<1>3. ASSUME Holds(e, x) \/ x = c
      PROVE  Holds(e, x)'
  <2>1. \A i \in 1 .. Len(cams[e].invites) : Append(cams[e].invites, c)[i] = cams[e].invites[i]
    BY <1>2
  <2>2. /\ Len(Append(cams[e].invites, c)) = Len(cams[e].invites) + 1
        /\ Append(cams[e].invites, c)[Len(cams[e].invites) + 1] = c
        /\ Append(cams[e].invites, c) \in Seq(Call)
    BY <1>2
  <2>3. x \in ToSet(Append(cams[e].invites, c))
    BY <1>2, <1>3, <2>1, <2>2 DEF Holds, ToSet
  <2> QED
    BY <1>1, <2>3 DEF Holds
<1>4. CASE x = c
  BY <1>1, <1>3, <1>4 DEF InTable
<1>5. CASE InTable(x)
  <2>1. PICK f \in Live : Holds(f, x)
    BY <1>5 DEF InTable
  <2>2. CASE f = e
    BY <1>1, <1>3, <2>1, <2>2 DEF InTable
  <2>3. CASE f # e
    BY <1>1, <2>1, <2>3 DEF InTable, Holds
  <2> QED
    BY <2>2, <2>3
<1> QED
  BY <1>4, <1>5

LEMMA PlaceKeeps ==
    ASSUME TableTypeOK, NEW c \in Call, NEW cam \in Camera, NEW type \in InviteType,
           NEW s \in LeastLoaded, NEW e \in Entry, PlaceStream(c, cam, type, s, e),
           NEW x \in Call, InTable(x) \/ x = c
    PROVE  InTable(x)'
<1>1. /\ e \notin Live
      /\ Live' = Live \cup {e}
      /\ \A f \in Live : cams'[f] = cams[f]
      /\ cams'[e].invites = <<c>>
  BY PlaceFacts, PlaceFields DEF Live
<1>2. Holds(e, c)'
  BY <1>1 DEF Holds, ToSet
<1> QED
  BY <1>1, <1>2 DEF InTable, Holds

\* A stream or a leg that is deleted brings no call in.
LEMMA DeletesOnly ==
    ASSUME TableTypeOK, NEW c \in Call, NEW e \in Live, NEW x \in Call,
           \/ \E d \in BOOLEAN : DeleteStream(e, c, d)
           \/ DeleteLeg(e, c),
           InTable(x)'
    PROVE  InTable(x)
<1>1. PICK f \in Live' : Holds(f, x)'
  BY DEF InTable
<1>2. ASSUME NEW d \in BOOLEAN, DeleteStream(e, c, d)
      PROVE  InTable(x)
  <2>1. f \in Live /\ f # e /\ cams'[f] = cams[f]
    BY <1>1, <1>2, DeleteStreamFacts DEF Live
  <2> QED
    BY <1>1, <2>1 DEF InTable, Holds
<1>3. CASE DeleteLeg(e, c)
  <2>1. f \in Live
    BY <1>1, <1>3, DeleteLegFacts
  <2>2. CASE f # e
    <3>1. cams'[f] = cams[f]
      BY <1>3, <2>1, <2>2, DeleteLegFacts DEF Live
    <3> QED
      BY <1>1, <2>1, <3>1 DEF InTable, Holds
  <2>3. CASE f = e
    <3>1. PICK i \in 1 .. Len(cams[e].invites) :
            cams'[e] = Sending(cams[e], cams[e].nTranmit - 1,
                               RemoveAt(cams[e].invites, i))
      BY <1>3, DeleteLegFacts
    <3>2. cams'[e].invites = RemoveAt(cams[e].invites, i)
      BY <3>1, SendingFields
    <3>3. cams[e].invites \in Seq(Call)
      BY LiveFacts
    <3>4. x \in ToSet(RemoveAt(cams[e].invites, i))
      BY <1>1, <2>3, <3>2 DEF Holds
    <3>5. x \in ToSet(cams[e].invites)
      BY <3>3, <3>4, LegsWere
    <3> QED
      BY <3>5 DEF InTable, Holds
  <2> QED
    BY <2>2, <2>3
<1> QED
  BY <1>2, <1>3

\* A call that is placed is the only one that comes in.
LEMMA PlacesOnly ==
    ASSUME TableTypeOK, NEW c \in Call, NEW x \in Call,
           GetPracticableRTPServer(c), InTable(x)'
    PROVE  InTable(x) \/ x = c
<1>1. PICK f \in Live' : Holds(f, x)'
  BY DEF InTable
<1>2. ASSUME NEW cam \in Camera, NEW e \in Forwarding(cam), JoinStream(c, cam, e)
      PROVE  InTable(x) \/ x = c
  <2>1. /\ e \in Live /\ f \in Live
        /\ cams'[e] = Sending(cams[e], cams[e].nTranmit + 1, Append(cams[e].invites, c))
    BY <1>1, <1>2, JoinFacts
  <2>2. CASE f # e
    <3>1. cams'[f] = cams[f]
      BY <1>2, <2>1, <2>2, JoinFacts DEF Live
    <3> QED
      BY <1>1, <2>1, <3>1 DEF InTable, Holds
  <2>3. CASE f = e
    <3>1. cams'[e].invites = Append(cams[e].invites, c)
      BY <1>2, JoinFields
    <3>2. cams[e].invites \in Seq(Call)
      BY <2>1, LiveFacts
    <3>3. x \in ToSet(Append(cams[e].invites, c))
      BY <1>1, <2>3, <3>1 DEF Holds
    <3>4. x \in ToSet(cams[e].invites) \/ x = c
      BY <3>2, <3>3 DEF ToSet
    <3> QED
      BY <2>1, <3>4 DEF InTable, Holds
  <2> QED
    BY <2>2, <2>3
<1>3. ASSUME NEW cam \in Camera, NEW type \in InviteType,
             NEW s \in LeastLoaded, NEW e \in Entry, PlaceStream(c, cam, type, s, e)
      PROVE  InTable(x) \/ x = c
  <2>1. CASE f # e
    <3>1. f \in Live /\ cams'[f] = cams[f]
      BY <1>1, <1>3, <2>1, PlaceFacts DEF Live
    <3> QED
      BY <1>1, <3>1 DEF InTable, Holds
  <2>2. CASE f = e
    <3>1. cams'[e].invites = <<c>>
      BY <1>3, PlaceFields
    <3>2. x \in ToSet(<<c>>)
      BY <1>1, <2>2, <3>1 DEF Holds
    <3> QED
      BY <3>2 DEF ToSet
  <2> QED
    BY <2>1, <2>2
<1> QED
  BY <1>2, <1>3 DEF GetPracticableRTPServer

\* What happens to the servers brings no call in.
LEMMA ServersOnly ==
    ASSUME TableTypeOK, NEW s \in Server, NEW x \in Call,
           InsertRTPInfo(s) \/ EraseRTPInfo(s) \/ SetOnline(s) \/ SetOffline(s),
           InTable(x)'
    PROVE  InTable(x)
<1>1. PICK f \in Live' : Holds(f, x)'
  BY DEF InTable
<1>2. CASE EraseRTPInfo(s)
  <2>1. f \in Live /\ cams'[f] = cams[f]
    BY <1>1, <1>2, EraseFacts
  <2> QED
    BY <1>1, <2>1 DEF InTable, Holds
<1>3. CASE InsertRTPInfo(s) \/ SetOnline(s) \/ SetOffline(s)
  <2>1. cams' = cams
    BY <1>3 DEF InsertRTPInfo, SetOnline, SetOffline
  <2>2. f \in Live /\ cams'[f] = cams[f]
    BY <1>1, <2>1 DEF Live
  <2> QED
    BY <1>1, <2>2 DEF InTable, Holds
<1> QED
  BY <1>2, <1>3

(***************************************************************************)
(* The table implements StreamPlacement.                                   *)
(***************************************************************************)
PlaceInv == TableTypeOK /\ NTranmitExact /\ LegsCounted /\ OneLegPerCall

LEMMA InitPlaceInv == TableInit => PlaceInv
  BY InitType, InitCounted DEF PlaceInv, TableInit, OneLegPerCall, Live

LEMMA StepPlaceInv == PlaceInv /\ [TableNext]_tableVars => PlaceInv'
  BY StepType, StepCounted, StepOneLeg DEF PlaceInv

(***************************************************************************)
(* Where a call is.                                                        *)
(***************************************************************************)
\* What Placement says, without the choice of StreamOf.
PlacedWhere ==
    \A c \in Call :
        /\ \A e \in Live : Holds(e, c) => Placement[c] = PlaceOf(e)
        /\ ~ InTable(c) => Placement[c] = NoPlace

LEMMA OneStream ==
    ASSUME PlaceInv, NEW c \in Call, NEW e \in Live, NEW f \in Live, Holds(e, c), Holds(f, c)
    PROVE  e = f
<1>1. cams[e].invites \in Seq(Call) /\ cams[f].invites \in Seq(Call)
  BY LiveFacts DEF PlaceInv
<1>2. PICK i \in 1 .. Len(cams[e].invites) : cams[e].invites[i] = c
  BY <1>1 DEF Holds, ToSet
<1>3. PICK j \in 1 .. Len(cams[f].invites) : cams[f].invites[j] = c
  BY <1>1 DEF Holds, ToSet
<1> QED
  BY <1>2, <1>3 DEF PlaceInv, OneLegPerCall

\* The call that is taken out has no other place in the table.
LEMMA CallGone ==
    ASSUME PlaceInv, NEW c \in Call, NEW e \in Live, NEW d \in BOOLEAN,
           DeleteStream(e, c, d) \/ DeleteLeg(e, c)
    PROVE  ~ InTable(c)'
<1> SUFFICES ASSUME NEW g \in Live', Holds(g, c)'
             PROVE  FALSE
  BY DEF InTable
<1>1. TableTypeOK
  BY DEF PlaceInv
<1>2. Holds(e, c)
  BY DEF DeleteStream, DeleteLeg
<1>3. CASE DeleteStream(e, c, d)
  <2>1. g \in Live /\ g # e /\ cams'[g] = cams[g]
    BY <1>1, <1>3, DeleteStreamFacts DEF Live
  <2>2. Holds(g, c)
    BY <2>1 DEF Holds
  <2> QED
    BY <1>2, <2>1, <2>2, OneStream
<1>4. CASE DeleteLeg(e, c)
  <2>1. PICK i \in 1 .. Len(cams[e].invites) :
          /\ cams[e].invites[i] = c
          /\ cams'[e] = Sending(cams[e], cams[e].nTranmit - 1, RemoveAt(cams[e].invites, i))
    BY <1>1, <1>4, DeleteLegFacts
  <2>2. cams'[e].invites = RemoveAt(cams[e].invites, i)
    BY <2>1, SendingFields
  <2>3. g \in Live
    BY <1>1, <1>4, DeleteLegFacts
  <2>4. g = e
    <3>1. g # e => Holds(g, c)
      BY <1>1, <1>4, <2>3, DeleteLegFacts DEF Live, Holds
    <3> QED
      BY <1>2, <2>3, <3>1, OneStream
  <2>5. c \in ToSet(RemoveAt(cams[e].invites, i))
    BY <2>2, <2>4 DEF Holds
  <2>6. \A j \in 1 .. Len(cams[e].invites) : cams[e].invites[j] = c => j = i
    BY <2>1 DEF PlaceInv, OneLegPerCall
  <2>7. cams[e].invites \in Seq(Call)
    BY <1>1, LiveFacts
  <2> QED
    BY <2>1, <2>5, <2>6, <2>7, LegGone
<1> QED
  BY <1>3, <1>4

LEMMA Placed == PlaceInv => PlacedWhere
<1> SUFFICES ASSUME PlaceInv, NEW c \in Call
             PROVE  /\ \A e \in Live : Holds(e, c) => Placement[c] = PlaceOf(e)
                    /\ ~ InTable(c) => Placement[c] = NoPlace
  BY DEF PlacedWhere
<1>1. ASSUME NEW e \in Live, Holds(e, c)
      PROVE  Placement[c] = PlaceOf(e)
  <2>1. InTable(c)
    BY <1>1 DEF InTable
  <2>2. StreamOf(c) \in Live /\ Holds(StreamOf(c), c)
    BY <1>1 DEF StreamOf
  <2>3. StreamOf(c) = e
    BY <1>1, <2>2, OneStream
  <2> QED
    BY <2>1, <2>3 DEF Placement
<1>2. ASSUME ~ InTable(c)
      PROVE  Placement[c] = NoPlace
  BY <1>2 DEF Placement
<1> QED
  BY <1>1, <1>2

LEMMA PlacedNext == (PlaceInv => PlacedWhere)'
  BY Placed, PTL

\* A place is not NoPlace, and its fields are those of the stream.
LEMMA PlaceOfFacts ==
    ASSUME TableTypeOK, NEW e \in Live
    PROVE  /\ PlaceOf(e).server = cams[e].server
           /\ PlaceOf(e).camera = cams[e].camera
           /\ PlaceOf(e).type = cams[e].type
           /\ PlaceOf(e) # NoPlace
  BY LiveFacts, PlaceAssumption DEF PlaceOf

\* The abstract specification sees the calls of the table where they are.
LEMMA PlacedCalls ==
    ASSUME PlaceInv
    PROVE  /\ Abstract!Placed = {c \in Call : InTable(c)}
           /\ \A c \in Call : \A s : (c \in Abstract!Placed /\ Placement[c].server = s)
                 <=> \E e \in Live : Holds(e, c) /\ cams[e].server = s
<1>1. PlacedWhere /\ TableTypeOK
  BY Placed DEF PlaceInv
<1>2. ASSUME NEW c \in Call
      PROVE  Placement[c] # NoPlace <=> InTable(c)
  BY <1>1, PlaceOfFacts DEF PlacedWhere, InTable
<1>3. Abstract!Placed = {c \in Call : InTable(c)}
  BY <1>2 DEF Abstract!Placed
<1>4. ASSUME NEW c \in Call, NEW s
      PROVE  (c \in Abstract!Placed /\ Placement[c].server = s)
             <=> \E e \in Live : Holds(e, c) /\ cams[e].server = s
  <2>1. ASSUME NEW e \in Live, Holds(e, c)
        PROVE  Placement[c].server = cams[e].server /\ c \in Abstract!Placed
    BY <1>1, <1>3, <2>1, PlaceOfFacts DEF PlacedWhere, InTable
  <2>2. c \in Abstract!Placed => \E e \in Live : Holds(e, c)
    BY <1>3 DEF InTable
  <2> QED
    BY <2>1, <2>2
<1> QED
  BY <1>3, <1>4

\* The load of the abstract specification is nTotal.
LEMMA LoadIsTotal ==
    ASSUME PlaceInv, NEW s \in Server
    PROVE  Abstract!Load(s) = nTotal[s]
<1> DEFINE S == Legs(s)
           T == {c \in Abstract!Placed : Placement[c].server = s}
           F == [x \in S |-> cams[x[1]].invites[x[2]]]
<1>1. ASSUME NEW x \in S
      PROVE  \E e \in Live : /\ cams[e].server = s
                             /\ \E i \in 1 .. Len(cams[e].invites) :
                                   x = <<e, i>> /\ F[x] = cams[e].invites[i]
  <2>1. PICK e \in Live : /\ cams[e].server = s
                          /\ \E i \in 1 .. Len(cams[e].invites) : x = <<e, i>>
    BY LegsMember
  <2>2. PICK i \in 1 .. Len(cams[e].invites) : x = <<e, i>>
    BY <2>1
  <2>3. F[x] = cams[e].invites[i]
    BY <2>2
  <2> QED
    BY <2>1, <2>2, <2>3
<1> HIDE DEF F, S
<1>2. F \in [S -> T]
  <2>1. ASSUME NEW x \in S
        PROVE  F[x] \in T
    <3>1. PICK e \in Live : /\ cams[e].server = s
                            /\ \E i \in 1 .. Len(cams[e].invites) : F[x] = cams[e].invites[i]
      BY <1>1
    <3>2. cams[e].invites \in Seq(Call)
      BY LiveFacts DEF PlaceInv
    <3>3. F[x] \in Call /\ Holds(e, F[x])
      BY <3>1, <3>2 DEF Holds, ToSet
    <3> QED
      BY <3>1, <3>3, PlacedCalls
  <2>2. F = [x \in S |-> F[x]]
    BY DEF F
  <2> QED
    BY <2>1, <2>2
<1>3. ASSUME NEW x \in S, NEW y \in S, F[x] = F[y]
      PROVE  x = y
  <2>1. PICK e \in Live : \E i \in 1 .. Len(cams[e].invites) :
           x = <<e, i>> /\ F[x] = cams[e].invites[i]
    BY <1>1
  <2>2. PICK i \in 1 .. Len(cams[e].invites) : x = <<e, i>> /\ F[x] = cams[e].invites[i]
    BY <2>1
  <2>3. PICK f \in Live : \E j \in 1 .. Len(cams[f].invites) :
           y = <<f, j>> /\ F[y] = cams[f].invites[j]
    BY <1>1
  <2>4. PICK j \in 1 .. Len(cams[f].invites) : y = <<f, j>> /\ F[y] = cams[f].invites[j]
    BY <2>3
  <2>5. e = f /\ i = j
    BY <1>3, <2>2, <2>4 DEF PlaceInv, OneLegPerCall
  <2> QED
    BY <2>2, <2>4, <2>5
<1>4. ASSUME NEW c \in T
      PROVE  \E x \in S : F[x] = c
  <2>1. c \in Call
    BY DEF Abstract!Placed
  <2>2. PICK e \in Live : Holds(e, c) /\ cams[e].server = s
    BY <2>1, PlacedCalls
  <2>3. cams[e].invites \in Seq(Call)
    BY LiveFacts DEF PlaceInv
  <2>4. PICK i \in 1 .. Len(cams[e].invites) : cams[e].invites[i] = c
    BY <2>2, <2>3 DEF Holds, ToSet
  <2>5. <<e, i>> \in S
    BY <2>2, LegsMember DEF S
  <2>6. F[<<e, i>>] = cams[e].invites[i]
    BY <2>5 DEF F
  <2> QED
    BY <2>4, <2>5, <2>6
<1>5. IsFiniteSet(S) /\ nTotal[s] = Cardinality(S)
  BY DEF PlaceInv, LegsCounted, S
<1>6. ExistsBijection(S, T)
  <2> HIDE DEF T
  <2>1. F \in Bijection(S, T)
    BY <1>2, <1>3, <1>4, Fun_IsBij
  <2> QED
    BY <2>1, Fun_ExistsBij
<1>7. Cardinality(T) = Cardinality(S)
  <2> HIDE DEF T
  <2> QED
    BY <1>5, <1>6, FS_Bijection
<1>8. Abstract!Load(s) = Cardinality(T)
  BY Zenon DEF Abstract!Load, Abstract!Cardinality, Cardinality
<1> HIDE DEF T
<1> QED
  BY <1>5, <1>7, <1>8

\* Who plays a camera for the abstract specification is in a stream that a
\* new call may share, and the other way round.
LEMMA PlayingForwards ==
    ASSUME PlaceInv, NEW cam \in Camera
    PROVE  /\ \A e \in Forwarding(cam) : \A d \in Call :
                Holds(e, d) => d \in Abstract!Playing(cam) /\ Placement[d].server = cams[e].server
           /\ Abstract!Playing(cam) # {} => Forwarding(cam) # {}
<1>1. PlacedWhere /\ TableTypeOK
  BY Placed DEF PlaceInv
<1>2. ASSUME NEW e \in Forwarding(cam), NEW d \in Call, Holds(e, d)
      PROVE  d \in Abstract!Playing(cam) /\ Placement[d].server = cams[e].server
  <2>1. e \in Live /\ cams[e].camera = cam /\ cams[e].type = "play" /\ cams[e].server \in Practicable
    BY DEF Forwarding
  <2>2. /\ Placement[d].server = cams[e].server
        /\ Placement[d].camera = cams[e].camera
        /\ Placement[d].type = cams[e].type
    BY <1>1, <1>2, <2>1, PlaceOfFacts DEF PlacedWhere
  <2>3. d \in Abstract!Placed
    BY <1>2, <2>1, PlacedCalls DEF InTable
  <2> QED
    BY <2>1, <2>2, <2>3 DEF Abstract!Playing
<1>3. ASSUME NEW d \in Abstract!Playing(cam)
      PROVE  Forwarding(cam) # {}
  <2>1. /\ d \in Abstract!Placed
        /\ Placement[d].camera = cam
        /\ Placement[d].type = "play"
        /\ Placement[d].server \in Practicable
    BY DEF Abstract!Playing
  <2>2. d \in Call /\ InTable(d)
    BY <2>1, PlacedCalls
  <2>3. PICK e \in Live : Holds(e, d)
    BY <2>2 DEF InTable
  <2>4. /\ Placement[d].server = cams[e].server
        /\ Placement[d].camera = cams[e].camera
        /\ Placement[d].type = cams[e].type
    BY <1>1, <2>2, <2>3, PlaceOfFacts DEF PlacedWhere
  <2> QED
    BY <2>1, <2>4 DEF Forwarding
<1> QED
  BY <1>2, <1>3

(***************************************************************************)
(* The steps.                                                              *)
(***************************************************************************)
LEMMA Stays ==
    ASSUME PlacedWhere, PlacedWhere', NEW x \in Call, NEW f \in Live,
           Holds(f, x), f \in Live', Holds(f, x)', PlaceOf(f)' = PlaceOf(f)
    PROVE  Placement'[x] = Placement[x]
  BY DEF PlacedWhere

LEMMA StaysOut ==
    ASSUME PlacedWhere, PlacedWhere', NEW x \in Call, ~ InTable(x), ~ InTable(x)'
    PROVE  Placement'[x] = Placement[x]
  BY DEF PlacedWhere

LEMMA SamePlace ==
    ASSUME NEW f, cams'[f] = cams[f]
    PROVE  PlaceOf(f)' = PlaceOf(f) /\ \A x : Holds(f, x)' <=> Holds(f, x)
  BY DEF PlaceOf, Holds

LEMMA SamePlacement ==
    ASSUME cams' = cams
    PROVE  Placement' = Placement
  BY DEF Placement, InTable, StreamOf, PlaceOf, Live, Holds

\* Functions of calls that agree on every call.
LEMMA SameFunction ==
    ASSUME NEW P, P = [x \in Call |-> P[x]], NEW Q, Q = [x \in Call |-> Q[x]],
           \A x \in Call : P[x] = Q[x]
    PROVE  P = Q
  OBVIOUS

LEMMA PlacementFunction ==
    /\ Placement = [x \in Call |-> Placement[x]]
    /\ Placement' = [x \in Call |-> Placement'[x]]
  BY DEF Placement

LEMMA ServerSteps ==
    ASSUME TableTypeOK, NEW s \in Server,
           InsertRTPInfo(s) \/ SetOnline(s) \/ SetOffline(s)
    PROVE  [Abstract!Next]_<<Practicable, Placement>>
<1>1. Placement' = Placement
  BY SamePlacement DEF InsertRTPInfo, SetOnline, SetOffline
<1>2. \/ Practicable' = Practicable
      \/ Practicable' = Practicable \cup {s}
      \/ Practicable' = Practicable \ {s}
  BY DEF InsertRTPInfo, SetOnline, SetOffline, Practicable, TableTypeOK
<1>3. \/ UNCHANGED <<Practicable, Placement>>
      \/ Abstract!Rise(s)
      \/ Abstract!Fall(s)
  BY <1>1, <1>2 DEF Abstract!Rise, Abstract!Fall
<1> QED
  BY <1>3 DEF Abstract!Next

LEMMA EraseSteps ==
    ASSUME PlaceInv, PlaceInv', NEW s \in Server, EraseRTPInfo(s)
    PROVE  Abstract!Withdraw(s)
<1>1. PlacedWhere /\ PlacedWhere' /\ TableTypeOK
  BY Placed, PlacedNext DEF PlaceInv
<1>2. /\ Live' = Live \ OnServer(s)
      /\ \A e \in Live' : cams'[e] = cams[e] /\ cams[e].server # s
  BY <1>1, EraseFacts
<1>3. Practicable' = Practicable \ {s}
  BY DEF EraseRTPInfo, Practicable
<1> DEFINE Q == [c \in Call |-> IF c \in Abstract!Placed /\ Placement[c].server = s
                                  THEN NoPlace ELSE Placement[c]]
<1>4. ASSUME NEW x \in Call
      PROVE  Placement'[x] = Q[x]
  <2>1. ASSUME NEW g \in Live', Holds(g, x)'
        PROVE  g \in Live /\ Holds(g, x) /\ cams[g].server # s
    BY <1>2, <2>1, SamePlace
  <2>2. CASE x \in Abstract!Placed /\ Placement[x].server = s
    <3>1. PICK f \in Live : Holds(f, x) /\ cams[f].server = s
      BY <2>2, PlacedCalls
    <3>2. ~ InTable(x)'
      BY <2>1, <3>1, OneStream DEF InTable
    <3> QED
      BY <1>1, <2>2, <3>2 DEF PlacedWhere
  <2>3. CASE ~ (x \in Abstract!Placed /\ Placement[x].server = s)
    <3>1. CASE InTable(x)
      <4>1. PICK f \in Live : Holds(f, x)
        BY <3>1 DEF InTable
      <4>2. cams[f].server # s
        BY <2>3, <4>1, PlacedCalls
      <4>3. f \in Live' /\ cams'[f] = cams[f]
        BY <1>2, <4>2 DEF OnServer
      <4> QED
        BY <1>1, <2>3, <4>1, <4>3, SamePlace, Stays
    <3>2. CASE ~ InTable(x)
      <4>1. ~ InTable(x)'
        BY <2>1, <3>2 DEF InTable
      <4> QED
        BY <1>1, <2>3, <3>2, <4>1, StaysOut
    <3> QED
      BY <3>1, <3>2
  <2> QED
    BY <2>2, <2>3
<1>5. Q = [x \in Call |-> Q[x]]
  OBVIOUS
<1>6. Placement' = Q
  <2> HIDE DEF Q
  <2> QED
    BY <1>4, <1>5, PlacementFunction, SameFunction
<1> QED
  BY <1>3, <1>6 DEF Abstract!Withdraw

\* A call that comes in changes nothing for the others.
LEMMA OthersKept ==
    ASSUME PlacedWhere, PlacedWhere', TableTypeOK, NEW c \in Call,
           GetPracticableRTPServer(c), Live \subseteq Live', NEW x \in Call, x # c,
           \A f \in Live : Holds(f, x) => Holds(f, x)' /\ PlaceOf(f)' = PlaceOf(f)
    PROVE  Placement'[x] = Placement[x]
<1>1. CASE InTable(x)
  <2>1. PICK f \in Live : Holds(f, x)
    BY <1>1 DEF InTable
  <2> QED
    BY <2>1, Stays
<1>2. CASE ~ InTable(x)
  <2>1. ~ InTable(x)'
    BY <1>2, PlacesOnly
  <2> QED
    BY <1>2, <2>1, StaysOut
<1> QED
  BY <1>1, <1>2

LEMMA JoinSteps ==
    ASSUME PlaceInv, PlaceInv', NEW c \in Call, ~ InTable(c), GetPracticableRTPServer(c),
           NEW cam \in Camera, NEW e \in Forwarding(cam), JoinStream(c, cam, e)
    PROVE  Abstract!Assign(c, cam, "play", cams[e].server)
<1> DEFINE s == cams[e].server
           r == [server |-> s, camera |-> cam, type |-> "play"]
           Q == [Placement EXCEPT ![c] = r]
<1>1. PlacedWhere /\ PlacedWhere' /\ TableTypeOK
  BY Placed, PlacedNext DEF PlaceInv
<1>2. /\ e \in Live
      /\ Live' = Live
      /\ \A f \in Live \ {e} : cams'[f] = cams[f]
  BY <1>1, JoinFacts DEF Live
<1>3. /\ cams'[e].server = cams[e].server
      /\ cams'[e].camera = cams[e].camera
      /\ cams'[e].type = cams[e].type
      /\ cams'[e].invites = Append(cams[e].invites, c)
  BY <1>1, JoinFields
<1>4. cams[e].camera = cam /\ cams[e].type = "play" /\ s \in Practicable
  BY DEF Forwarding
<1>5. cams[e].invites \in Seq(Call) /\ Len(cams[e].invites) >= 1
  BY <1>1, <1>2, LiveFacts DEF PlaceInv, NTranmitExact
<1>6. c \notin Abstract!Placed
  BY PlacedCalls
<1>7. \E d \in Abstract!Playing(cam) : Placement[d].server = s
  <2>1. cams[e].invites[1] \in Call /\ Holds(e, cams[e].invites[1])
    BY <1>5 DEF Holds, ToSet
  <2> QED
    BY <2>1, PlayingForwards
<1>8. PlaceOf(e)' = PlaceOf(e) /\ PlaceOf(e) = r
  BY <1>3, <1>4 DEF PlaceOf
<1>9. ASSUME NEW x \in Call, Holds(e, x) \/ x = c
      PROVE  Holds(e, x)'
  <2>1. \A i \in 1 .. Len(cams[e].invites) : Append(cams[e].invites, c)[i] = cams[e].invites[i]
    BY <1>5
  <2>2. /\ Len(Append(cams[e].invites, c)) = Len(cams[e].invites) + 1
        /\ Append(cams[e].invites, c)[Len(cams[e].invites) + 1] = c
        /\ Append(cams[e].invites, c) \in Seq(Call)
    BY <1>5
  <2>3. x \in ToSet(Append(cams[e].invites, c))
    BY <1>5, <1>9, <2>1, <2>2 DEF Holds, ToSet
  <2> QED
    BY <1>3, <2>3 DEF Holds
<1>10. ASSUME NEW x \in Call
       PROVE  Placement'[x] = Q[x]
  <2>1. CASE x = c
    <3>1. Placement'[c] = PlaceOf(e)'
      BY <1>1, <1>2, <1>9 DEF PlacedWhere
    <3>2. Q[c] = r
      BY DEF Placement
    <3> QED
      BY <1>8, <2>1, <3>1, <3>2
  <2>2. CASE x # c
    <3>1. \A f \in Live : Holds(f, x) => Holds(f, x)' /\ PlaceOf(f)' = PlaceOf(f)
      BY <1>2, <1>8, <1>9, SamePlace
    <3>2. Placement'[x] = Placement[x]
      BY <1>1, <1>2, <2>2, <3>1, OthersKept
    <3>3. Q[x] = Placement[x]
      BY <2>2 DEF Placement
    <3> QED
      BY <3>2, <3>3
  <2> QED
    BY <2>1, <2>2
<1>11. Q = [x \in Call |-> Q[x]]
  BY DEF Placement
<1>12. Placement' = Q
  <2> HIDE DEF Q
  <2> QED
    BY <1>10, <1>11, PlacementFunction, SameFunction
<1>13. UNCHANGED Practicable
  BY DEF JoinStream, Practicable
<1> QED
  BY <1>4, <1>6, <1>7, <1>12, <1>13 DEF Abstract!Assign

LEMMA PlaceSteps ==
    ASSUME PlaceInv, PlaceInv', NEW c \in Call, ~ InTable(c), GetPracticableRTPServer(c),
           NEW cam \in Camera, NEW type \in InviteType,
           NEW s \in LeastLoaded, NEW e \in Entry, PlaceStream(c, cam, type, s, e)
    PROVE  Abstract!Assign(c, cam, type, s)
<1> DEFINE r == [server |-> s, camera |-> cam, type |-> type]
           Q == [Placement EXCEPT ![c] = r]
<1>1. PlacedWhere /\ PlacedWhere' /\ TableTypeOK
  BY Placed, PlacedNext DEF PlaceInv
<1>2. /\ s \in Practicable
      /\ e \notin Live
      /\ Live' = Live \cup {e}
      /\ \A f \in Live : cams'[f] = cams[f]
  BY <1>1, PlaceFacts DEF Live
<1>3. /\ cams'[e].server = s
      /\ cams'[e].camera = cam
      /\ cams'[e].type = type
      /\ cams'[e].invites = <<c>>
  BY <1>1, PlaceFields
<1>4. c \notin Abstract!Placed
  BY PlacedCalls
<1>5. ~ (type = "play" /\ Abstract!Playing(cam) # {})
  BY PlayingForwards DEF PlaceStream
<1>6. \A t \in Practicable : Abstract!Load(s) <= Abstract!Load(t)
  <2>1. ASSUME NEW t \in Practicable
        PROVE  Abstract!Load(s) <= Abstract!Load(t)
    <3>1. nTotal[s] <= nTotal[t]
      BY DEF LeastLoaded
    <3>2. s \in Server /\ t \in Server
      BY <1>1, <1>2 DEF Practicable, TableTypeOK
    <3>3. Abstract!Load(s) = nTotal[s] /\ Abstract!Load(t) = nTotal[t]
      BY <3>2, LoadIsTotal
    <3> QED
      BY <3>1, <3>3
  <2> QED
    BY <2>1
<1>7. PlaceOf(e)' = r /\ Holds(e, c)'
  BY <1>3 DEF PlaceOf, Holds, ToSet
<1>8. ASSUME NEW x \in Call
      PROVE  Placement'[x] = Q[x]
  <2>1. CASE x = c
    <3>1. Placement'[c] = PlaceOf(e)'
      BY <1>1, <1>2, <1>7 DEF PlacedWhere
    <3>2. Q[c] = r
      BY DEF Placement
    <3> QED
      BY <1>7, <2>1, <3>1, <3>2
  <2>2. CASE x # c
    <3>1. \A f \in Live : Holds(f, x) => Holds(f, x)' /\ PlaceOf(f)' = PlaceOf(f)
      BY <1>2, SamePlace
    <3>2. Placement'[x] = Placement[x]
      BY <1>1, <1>2, <2>2, <3>1, OthersKept
    <3>3. Q[x] = Placement[x]
      BY <2>2 DEF Placement
    <3> QED
      BY <3>2, <3>3
  <2> QED
    BY <2>1, <2>2
<1>9. Q = [x \in Call |-> Q[x]]
  BY DEF Placement
<1>10. Placement' = Q
  <2> HIDE DEF Q
  <2> QED
    BY <1>8, <1>9, PlacementFunction, SameFunction
<1>11. UNCHANGED Practicable
  BY DEF PlaceStream, Practicable
<1> QED
  BY <1>2, <1>4, <1>5, <1>6, <1>10, <1>11 DEF Abstract!Assign

\* Calls that leave, and the others stay where they are.
LEMMA LeaveTogether ==
    ASSUME PlaceInv, PlaceInv', NEW e \in Live, NEW R \in SUBSET Call, R # {},
           \A x \in R : Holds(e, x) /\ ~ InTable(x)',
           \A x \in Call \ R : InTable(x) => Placement'[x] = Placement[x],
           \A x \in Call \ R : ~ InTable(x) => ~ InTable(x)',
           Practicable' = Practicable
    PROVE  R \in SUBSET Abstract!Placed /\ Abstract!Release(R)
<1> DEFINE Q == [c \in Call |-> IF c \in R THEN NoPlace ELSE Placement[c]]
<1>1. PlacedWhere /\ PlacedWhere'
  BY Placed, PlacedNext
<1>2. R \in SUBSET Abstract!Placed
  BY PlacedCalls DEF InTable
<1>3. \A c, d \in R : Placement[c] = Placement[d]
  BY <1>1 DEF PlacedWhere
<1>4. ASSUME NEW x \in Call
      PROVE  Placement'[x] = Q[x]
  <2>1. CASE x \in R
    BY <1>1, <2>1 DEF PlacedWhere
  <2>2. CASE x \notin R
    BY <1>1, <2>2, StaysOut
  <2> QED
    BY <2>1, <2>2
<1>5. Q = [x \in Call |-> Q[x]]
  OBVIOUS
<1>6. Placement' = Q
  <2> HIDE DEF Q
  <2> QED
    BY <1>4, <1>5, PlacementFunction, SameFunction
<1> QED
  BY <1>2, <1>3, <1>6 DEF Abstract!Release

LEMMA DeleteSteps ==
    ASSUME PlaceInv, PlaceInv', NEW c \in Call, NEW e \in Live, NEW d \in BOOLEAN, DeleteStream(e, c, d)
    PROVE  \E R \in SUBSET Abstract!Placed : Abstract!Release(R)
<1> DEFINE R == {x \in Call : Holds(e, x)}
<1>1. PlacedWhere /\ PlacedWhere' /\ TableTypeOK
  BY Placed, PlacedNext DEF PlaceInv
<1>2. /\ Live' = Live \ {e}
      /\ \A f \in Live \ {e} : cams'[f] = cams[f]
  BY <1>1, DeleteStreamFacts DEF Live
<1>3. c \in R
  BY DEF DeleteStream
<1>4. ASSUME NEW x \in R
      PROVE  ~ InTable(x)'
  <2> SUFFICES ASSUME NEW g \in Live', Holds(g, x)'
               PROVE  FALSE
    BY DEF InTable
  <2>1. g \in Live /\ g # e /\ Holds(g, x)
    BY <1>2, SamePlace
  <2> QED
    BY <2>1, OneStream
<1>5. ASSUME NEW x \in Call \ R, InTable(x)
      PROVE  Placement'[x] = Placement[x]
  <2>1. PICK f \in Live : Holds(f, x)
    BY <1>5 DEF InTable
  <2>2. f \in Live' /\ cams'[f] = cams[f]
    BY <1>2, <2>1
  <2> QED
    BY <1>1, <2>1, <2>2, SamePlace, Stays
<1>6. ASSUME NEW x \in Call \ R, ~ InTable(x)
      PROVE  ~ InTable(x)'
  BY <1>1, <1>6, DeletesOnly
<1>7. Practicable' = Practicable
  BY DEF DeleteStream, Practicable
<1>8. \A x \in R : Holds(e, x)
  OBVIOUS
<1> HIDE DEF R
<1>9. R \in SUBSET Abstract!Placed /\ Abstract!Release(R)
  <2>1. R \in SUBSET Call /\ R # {}
    BY <1>3 DEF R
  <2> QED
    BY <1>4, <1>5, <1>6, <1>7, <1>8, <2>1, LeaveTogether
<1> QED
  BY <1>9

LEMMA LegSteps ==
    ASSUME PlaceInv, PlaceInv', NEW c \in Call, NEW e \in Live, DeleteLeg(e, c)
    PROVE  \E R \in SUBSET Abstract!Placed : Abstract!Release(R)
<1>1. PlacedWhere /\ PlacedWhere' /\ TableTypeOK
  BY Placed, PlacedNext DEF PlaceInv
<1>2. /\ Live' = Live
      /\ \A f \in Live \ {e} : cams'[f] = cams[f]
  BY <1>1, DeleteLegFacts DEF Live
<1>3. PICK i \in 1 .. Len(cams[e].invites) :
         /\ cams[e].invites[i] = c
         /\ cams'[e] = Sending(cams[e], cams[e].nTranmit - 1, RemoveAt(cams[e].invites, i))
  BY <1>1, DeleteLegFacts
<1>4. /\ PlaceOf(e)' = PlaceOf(e)
      /\ cams'[e].invites = RemoveAt(cams[e].invites, i)
  BY <1>3, SendingFields DEF PlaceOf
<1>5. cams[e].invites \in Seq(Call)
  BY <1>1, LiveFacts
<1>6. Holds(e, c)
  BY DEF DeleteLeg
<1>7. ~ InTable(c)'
  BY CallGone
<1>8. ASSUME NEW x \in Call \ {c}, InTable(x)
      PROVE  Placement'[x] = Placement[x]
  <2>1. PICK f \in Live : Holds(f, x)
    BY <1>8 DEF InTable
  <2>2. CASE f # e
    <3>1. f \in Live' /\ cams'[f] = cams[f]
      BY <1>2, <2>2
    <3> QED
      BY <1>1, <2>1, <3>1, SamePlace, Stays
  <2>3. CASE f = e
    <3>1. x \in ToSet(cams[e].invites) /\ x # cams[e].invites[i]
      BY <1>3, <2>1, <2>3 DEF Holds
    <3>2. x \in ToSet(RemoveAt(cams[e].invites, i))
      BY <1>5, <3>1, LegStays
    <3>3. e \in Live' /\ Holds(e, x)'
      BY <1>2, <1>4, <3>2 DEF Holds
    <3> QED
      BY <1>1, <1>4, <2>1, <2>3, <3>3, Stays
  <2> QED
    BY <2>2, <2>3
<1>9. ASSUME NEW x \in Call \ {c}, ~ InTable(x)
      PROVE  ~ InTable(x)'
  BY <1>1, <1>9, DeletesOnly
<1>10. Practicable' = Practicable
  BY DEF DeleteLeg, Practicable
<1>11. {c} \in SUBSET Abstract!Placed /\ Abstract!Release({c})
  <2>1. /\ {c} \in SUBSET Call /\ {c} # {}
        /\ \A x \in {c} : Holds(e, x) /\ ~ InTable(x)'
    BY <1>6, <1>7
  <2> QED
    BY <1>8, <1>9, <1>10, <2>1, LeaveTogether
<1> QED
  BY <1>11

\* Every step of the table is a step of the abstract specification or none.
LEMMA TableStepsPlace ==
    ASSUME PlaceInv, PlaceInv', [TableNext]_tableVars
    PROVE  [Abstract!Next]_<<Practicable, Placement>>
<1>1. ASSUME UNCHANGED tableVars
      PROVE  UNCHANGED <<Practicable, Placement>>
  BY <1>1, SamePlacement DEF tableVars, Practicable
<1>2. ASSUME NEW s \in Server, InsertRTPInfo(s) \/ SetOnline(s) \/ SetOffline(s)
      PROVE  [Abstract!Next]_<<Practicable, Placement>>
  BY <1>2, ServerSteps DEF PlaceInv
<1>3. ASSUME NEW s \in Server, EraseRTPInfo(s)
      PROVE  Abstract!Next
  BY <1>3, EraseSteps DEF Abstract!Next
<1>4. ASSUME NEW c \in Call, GetPracticableRTPServer(c)
      PROVE  Abstract!Next
  <2>1. ~ InTable(c)
    BY <1>4 DEF GetPracticableRTPServer
  <2>2. ASSUME NEW cam \in Camera, NEW e \in Forwarding(cam), JoinStream(c, cam, e)
        PROVE  Abstract!Next
    <3>1. cams[e].server \in Server /\ "play" \in Abstract!Type
      BY LiveFacts DEF PlaceInv, Forwarding, Abstract!Type
    <3>2. Abstract!Assign(c, cam, "play", cams[e].server)
      BY <1>4, <2>1, <2>2, JoinSteps
    <3> QED
      BY <3>1, <3>2 DEF Abstract!Next
  <2>3. ASSUME NEW cam \in Camera, NEW type \in InviteType, NEW s \in LeastLoaded,
               NEW e \in Entry, PlaceStream(c, cam, type, s, e)
        PROVE  Abstract!Next
    <3>1. s \in Server /\ type \in Abstract!Type
      BY DEF PlaceInv, TableTypeOK, LeastLoaded, Practicable, InviteType, Abstract!Type
    <3>2. Abstract!Assign(c, cam, type, s)
      BY <1>4, <2>1, <2>3, PlaceSteps
    <3> QED
      BY <3>1, <3>2 DEF Abstract!Next
  <2> QED
    BY <1>4, <2>2, <2>3 DEF GetPracticableRTPServer
<1>5. ASSUME NEW c \in Call, ReduceRTPTotal(c)
      PROVE  Abstract!Next
  <2>1. PICK e \in Live : \/ \E d \in BOOLEAN : DeleteStream(e, c, d)
                          \/ DeleteLeg(e, c)
    BY <1>5 DEF ReduceRTPTotal
  <2>2. \E R \in SUBSET Abstract!Placed : Abstract!Release(R)
    BY <2>1, DeleteSteps, LegSteps
  <2> QED
    BY <2>2 DEF Abstract!Next
<1> QED
  BY <1>1, <1>2, <1>3, <1>4, <1>5 DEF TableNext

LEMMA InitPlace == TableInit => Abstract!Init
<1> SUFFICES ASSUME TableInit PROVE Abstract!Init
  OBVIOUS
<1>1. Practicable = {}
  BY DEF TableInit, Practicable
<1>2. \A c : ~ InTable(c)
  BY DEF TableInit, InTable, Live
<1>3. Placement = [c \in Call |-> NoPlace]
  BY <1>2 DEF Placement
<1> QED
  BY <1>1, <1>3 DEF Abstract!Init

\* RTPServerManager implements StreamPlacement: whatever the sequence of
\* placements, joins, single and whole deletions, outages and reloads, a call
\* is placed as the abstract specification says, from the loads there really
\* are, and leaves alone or with the calls of its stream.
THEOREM TableImplementsPlacement == TableSpec => ImplementsPlacement
<1>1. PlaceInv /\ PlaceInv' /\ [TableNext]_tableVars => [Abstract!Next]_<<Practicable, Placement>>
  BY TableStepsPlace
<1> QED
  BY <1>1, InitPlaceInv, StepPlaceInv, InitPlace, PTL DEF TableSpec, ImplementsPlacement, Abstract!Spec
=============================================================================

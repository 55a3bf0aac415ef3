-------------------------- MODULE MimicChildProofs --------------------------
(***************************************************************************)
(* The safety of a process of the mimic strategy, for any number of        *)
(* threads, descriptors, files and time zones.                             *)
(***************************************************************************)
EXTENDS MimicChild, FdMapProofs, Extrema

-----------------------------------------------------------------------------
(* localtime: whatever is under way for a thread carries the time that the   *)
(* thread asked for, and what it has been told names a zone that is kept.    *)

AnyTime == Time \cup {0}
AnyZone == Zone \cup {"none"}
Call    == [time : AnyTime, reentrant : BOOLEAN]
Asking  == [remote_end : Thread, time : AnyTime]
Told    == [time : AnyTime, fields : Fields, zone : AnyZone]
Name    == [in : {"g_timezones", "timezone_storage", "nowhere"}, zone : AnyZone]
AllTm   == Thread \cup {Static}
Filled  == [time : AnyTime, fields : Fields, tm_zone : Name]

CallTypes ==
  /\ pc \in [Thread -> {"idle", "asking", "reading", "done"}]
  /\ asked \in [Thread -> Call]
  /\ result \in [AllTm -> Filled]
  /\ local_end \in [Thread -> Seq(Told)]
  /\ queue \in Seq(Asking)

Under(t) == pc[t] \in {"reading", "done"}

QueueOK ==
  \A i \in DOMAIN queue : LET q == queue[i] IN
    Under(q.remote_end) /\ q.time = asked[q.remote_end].time

ArrivedOK ==
  \A t \in Thread : \A i \in DOMAIN local_end[t] :
    Under(t) /\ local_end[t][i].time = asked[t].time

(* What a thread that has called localtime_r finds in its own struct.        *)
ResultOK ==
  \A t \in Thread :
    pc[t] = "done" /\ asked[t].reentrant /\ result[t].fields # "nothing" =>
      /\ local_end[t] # <<>>
      /\ LET zone == Head(local_end[t]).zone IN
           IF zone = "none" THEN result[t].tm_zone = Null
             ELSE result[t].tm_zone = Kept(zone) /\ zone \in g_timezones

(* A struct that a call under way is to fill is as memset left it, and       *)
(* nobody else fills it.                                                     *)
InCall(t) == pc[t] \in {"asking", "reading"}

FillOK ==
  \A t \in Thread : InCall(t) =>
    /\ result[Tm(t)] = NoTime
    /\ \A u \in Thread \ {t} : InCall(u) => Tm(u) # Tm(t)

CallInv == CallTypes /\ QueueOK /\ ArrivedOK /\ ResultOK /\ FillOK

LEMMA QueueHolds ==
  ASSUME CallInv, NEW i \in DOMAIN queue
  PROVE  queue[i] \in Asking /\ queue[i].remote_end \in Thread
  <1>1. queue \in Seq(Asking)
    BY DEF CallInv, CallTypes
  <1>2. queue[i] \in Asking
    BY <1>1
  <1> QED BY <1>2 DEF Asking

LEMMA CallInit == ChildInit => CallInv
  BY DEF ChildInit, CallInv, CallTypes, QueueOK, ArrivedOK, ResultOK, FillOK, InCall, Call, Asking, Told,
         Name, AllTm, Filled, Fields, AnyTime, AnyZone, NoTime, NoCall, Null

(* Steps that are none of localtime's.                                       *)
LEMMA CallSame ==
  ASSUME CallInv, UNCHANGED <<callVars, local_end, queue, zoneVars>>
  PROVE  CallInv'
  BY DEF CallInv, CallTypes, QueueOK, ArrivedOK, ResultOK, FillOK, InCall, Tm, NoTime, Under, callVars,
         zoneVars, Kept

LEMMA CallStarts ==
  ASSUME CallInv, NEW t \in Thread, NEW time \in Time, NEW reentrant \in BOOLEAN,
         Localtime(t, time, reentrant)
  PROVE  CallInv'
  <1>1. /\ pc[t] = "idle" /\ pc' = [pc EXCEPT ![t] = "asking"]
        /\ asked' = [asked EXCEPT ![t] = [time |-> time, reentrant |-> reentrant]]
        /\ UNCHANGED <<local_end, queue, g_timezones>>
    BY DEF Localtime, socketVars, zoneVars
  <1>1a. PICK tm \in AllTm :
          /\ tm = IF reentrant THEN t ELSE Static
          /\ result' = [result EXCEPT ![tm] = NoTime]
          /\ Tm(t)' = tm
    <2>1. asked'[t].reentrant = reentrant
      BY <1>1 DEF CallInv, CallTypes
    <2>2. Tm(t)' = IF reentrant THEN t ELSE Static
      BY <2>1 DEF Tm
    <2> QED BY <2>2 DEF Localtime, AllTm
  <1>2. CallTypes'
    <2>1. NoTime \in Filled
      BY DEF NoTime, Null, Filled, Name, Fields, AnyTime, AnyZone
    <2> QED BY <1>1a, <1>1, <2>1 DEF CallInv, CallTypes, Call, AnyTime
  <1>3. \A u \in Thread : Under(u) => u # t /\ Under(u)' /\ asked'[u] = asked[u]
    BY <1>1 DEF CallInv, CallTypes, Under
  <1>4. QueueOK'
    <2>1. \A i \in DOMAIN queue : queue[i].remote_end \in Thread
      BY QueueHolds
    <2> QED BY <1>1, <1>3, <2>1 DEF CallInv, QueueOK
  <1>5. ArrivedOK'
    BY <1>1, <1>3 DEF CallInv, ArrivedOK
  <1>6. ASSUME NEW u \in Thread, u # t
        PROVE  /\ pc'[u] = pc[u] /\ asked'[u] = asked[u] /\ Tm(u)' = Tm(u)
               /\ asked[u].reentrant => result'[u] = result[u]
               /\ InCall(u) => Tm(u) # tm /\ result'[Tm(u)] = result[Tm(u)]
    <2>1. pc'[u] = pc[u] /\ asked'[u] = asked[u]
      BY <1>1, <1>6 DEF CallInv, CallTypes
    <2>2. Tm(u)' = Tm(u)
      BY <2>1 DEF Tm
    <2>3. asked[u].reentrant => result'[u] = result[u]
      BY <1>1a, <1>6, StaticAssumption DEF CallInv, CallTypes, AllTm
    <2>4. InCall(u) => Tm(u) # tm
      BY <1>1a, <1>6, StaticAssumption DEF InCall, Tm, Localtime, MayCall
    <2>5. Tm(u) \in AllTm
      BY DEF Tm, AllTm
    <2>6. InCall(u) => result'[Tm(u)] = result[Tm(u)]
      BY <1>1a, <2>4, <2>5 DEF CallInv, CallTypes
    <2> QED BY <2>1, <2>2, <2>3, <2>4, <2>6
  <1>7. ResultOK'
    <2> SUFFICES ASSUME NEW u \in Thread,
                        (pc[u] = "done" /\ asked[u].reentrant /\ result[u].fields # "nothing")'
                 PROVE  (/\ local_end[u] # <<>>
                         /\ LET zone == Head(local_end[u]).zone IN
                              IF zone = "none" THEN result[u].tm_zone = Null
                                ELSE result[u].tm_zone = Kept(zone) /\ zone \in g_timezones)'
      BY DEF ResultOK
    <2>1. u # t
      BY <1>1 DEF CallInv, CallTypes
    <2> QED BY <1>1, <1>6, <2>1 DEF CallInv, ResultOK, Kept, Null
  <1>8. FillOK'
    <2>1. result'[tm] = NoTime
      BY <1>1a DEF CallInv, CallTypes
    <2>2. \A u \in Thread : u # t => (InCall(u)' <=> InCall(u))
      BY <1>6 DEF InCall
    <2> QED BY <1>1a, <1>6, <2>1, <2>2 DEF CallInv, FillOK, NoTime, Null
  <1> QED BY <1>2, <1>4, <1>5, <1>7, <1>8 DEF CallInv

LEMMA RequestSent ==
  ASSUME CallInv, NEW t \in Thread, SendSandboxRequest(t)
  PROVE  CallInv'
  <1>1. /\ pc[t] = "asking" /\ pc' = [pc EXCEPT ![t] = "reading"]
        /\ queue' = Append(queue, [remote_end |-> t, time |-> asked[t].time])
        /\ UNCHANGED <<asked, result, local_end, g_timezones>>
    BY DEF SendSandboxRequest, SandboxRequest, ReplySocket, zoneVars
  <1>2. [remote_end |-> t, time |-> asked[t].time] \in Asking
    BY DEF CallInv, CallTypes, Call, Asking
  <1>3. CallTypes'
    BY <1>1, <1>2 DEF CallInv, CallTypes
  <1>4. \A u \in Thread : (Under(u) => Under(u)') /\ Under(t)'
    BY <1>1 DEF CallInv, CallTypes, Under
  <1>5. QueueOK'
    <2>1. PICK r \in Asking : r = [remote_end |-> t, time |-> asked[t].time]
      BY <1>2
    <2>2. queue \in Seq(Asking) /\ queue' = Append(queue, r)
      BY <1>1, <2>1 DEF CallInv, CallTypes
    <2>3. \A i \in DOMAIN queue' : (i \in DOMAIN queue /\ queue'[i] = queue[i]) \/ queue'[i] = r
      BY <2>2
    <2>4. \A i \in DOMAIN queue : queue[i].remote_end \in Thread
      BY QueueHolds
    <2> QED BY <1>1, <1>4, <2>1, <2>3, <2>4 DEF CallInv, QueueOK
  <1>6. ArrivedOK'
    BY <1>1, <1>4 DEF CallInv, ArrivedOK
  <1>7. ResultOK'
    BY <1>1 DEF CallInv, CallTypes, ResultOK, Kept
  <1>8. FillOK'
    BY <1>1 DEF CallInv, CallTypes, FillOK, InCall, Tm, NoTime
  <1> QED BY <1>3, <1>5, <1>6, <1>7, <1>8 DEF CallInv

LEMMA NothingRead ==
  ASSUME CallInv, NEW t \in Thread, SendFails(t) \/ ReadEndOfFile(t) \/ ReadFails(t)
  PROVE  CallInv'
  <1>1. /\ pc[t] \in {"asking", "reading"} /\ pc' = [pc EXCEPT ![t] = "done"]
        /\ UNCHANGED <<asked, result, local_end, queue, g_timezones>>
    BY DEF SendFails, ReadEndOfFile, ReadFails, socketVars, zoneVars
  <1>2. CallTypes'
    BY <1>1 DEF CallInv, CallTypes
  <1>3. \A u \in Thread : Under(u) => Under(u)'
    BY <1>1 DEF CallInv, CallTypes, Under
  <1>4. QueueOK'
    <2>1. \A i \in DOMAIN queue : queue[i].remote_end \in Thread
      BY QueueHolds
    <2> QED BY <1>1, <1>3, <2>1 DEF CallInv, QueueOK
  <1>5. ArrivedOK'
    BY <1>1, <1>3 DEF CallInv, ArrivedOK
  <1>6. ResultOK'
    <2>1. asked[t].reentrant => result[t].fields = "nothing"
      BY <1>1 DEF CallInv, FillOK, InCall, Tm, NoTime
    <2> QED BY <1>1, <2>1 DEF CallInv, CallTypes, ResultOK, Kept
  <1>7. FillOK'
    BY <1>1 DEF CallInv, CallTypes, FillOK, InCall, Tm, NoTime
  <1> QED BY <1>2, <1>4, <1>5, <1>6, <1>7 DEF CallInv

LEMMA ReplyRead ==
  ASSUME CallInv, NEW t \in Thread, ReadSandboxReply(t)
  PROVE  CallInv'
  <1>1. PICK reply : reply = Head(local_end[t])
    OBVIOUS
  <1>2. /\ pc[t] = "reading" /\ local_end[t] # <<>> /\ pc' = [pc EXCEPT ![t] = "done"]
        /\ UNCHANGED <<asked, local_end, queue>>
    BY DEF ReadSandboxReply, socketVars
  <1>3. reply \in Told /\ reply.time = asked[t].time
    <2>1. local_end[t] \in Seq(Told)
      BY DEF CallInv, CallTypes
    <2>2. 1 \in DOMAIN local_end[t] /\ reply = local_end[t][1] /\ reply \in Told
      BY <1>1, <1>2, <2>1
    <2> QED BY <2>2 DEF CallInv, ArrivedOK
  <1>4. PICK zone \in AnyZone : zone = reply.zone
    BY <1>3 DEF Told
  <1>1a. PICK tm \in AllTm : tm = Tm(t) /\ (asked[t].reentrant => tm = t)
    BY DEF Tm, AllTm
  <1>5. PICK filled \in Filled :
          /\ result' = [result EXCEPT ![tm] = filled]
          /\ filled.fields = reply.fields
          /\ asked[t].reentrant =>
               IF zone = "none" THEN filled.tm_zone = Null
                 ELSE filled.tm_zone = Kept(zone) /\ zone \in g_timezones'
    <2>1. PICK name : name = IF zone # "none" /\ asked[t].reentrant THEN Kept(zone)
                               ELSE IF zone # "none" THEN Stored ELSE Null
      OBVIOUS
    <2>2. zone # "none" /\ asked[t].reentrant => zone \in g_timezones'
      BY <1>1, <1>4 DEF ReadSandboxReply, Keeps
    <2>3. name \in Name
      BY <2>1 DEF Name, Kept, Stored, Null, AnyZone
    <2>4. PICK filled : filled = [time |-> IF reply.fields = "nothing" THEN 0 ELSE reply.time,
                                  fields |-> reply.fields, tm_zone |-> name]
      OBVIOUS
    <2>5. result' = [result EXCEPT ![tm] = filled]
      BY <1>1a, <1>1, <1>4, <2>1, <2>4 DEF ReadSandboxReply, Keeps
    <2>6. filled \in Filled
      BY <1>3, <2>3, <2>4 DEF Filled, Told, AnyTime
    <2>7. filled.fields = reply.fields /\ filled.tm_zone = name
      BY <2>4
    <2> QED BY <2>1, <2>2, <2>5, <2>6, <2>7
  <1>6. g_timezones \subseteq g_timezones'
    BY DEF ReadSandboxReply
  <1>7. CallTypes'
    BY <1>2, <1>5 DEF CallInv, CallTypes
  <1>8. \A u \in Thread : Under(u) => Under(u)'
    BY <1>2 DEF CallInv, CallTypes, Under
  <1>9. QueueOK'
    <2>1. \A i \in DOMAIN queue : queue[i].remote_end \in Thread
      BY QueueHolds
    <2> QED BY <1>2, <1>8, <2>1 DEF CallInv, QueueOK
  <1>10. ArrivedOK'
    BY <1>2, <1>8 DEF CallInv, ArrivedOK
  <1>11. ResultOK'
    <2>1. ASSUME NEW u \in Thread, u # t
          PROVE  pc'[u] = pc[u] /\ (asked[u].reentrant => result'[u] = result[u])
      BY <1>1a, <1>2, <1>5, <2>1, StaticAssumption DEF CallInv, CallTypes, Tm, AllTm
    <2>2. asked[t].reentrant => result'[t] = filled
      BY <1>1a, <1>5 DEF CallInv, CallTypes, AllTm
    <2> QED BY <1>1, <1>2, <1>4, <1>5, <1>6, <2>1, <2>2 DEF CallInv, ResultOK, Kept
  <1>12. FillOK'
    <2>1. \A u \in Thread : InCall(u)' => u # t /\ InCall(u)
      BY <1>2 DEF CallInv, CallTypes, InCall
    <2>2. \A u \in Thread : Tm(u)' = Tm(u) /\ Tm(u) \in AllTm
      BY <1>2 DEF Tm, AllTm
    <2>3. InCall(t)
      BY <1>2 DEF InCall
    <2>4. \A u \in Thread : InCall(u)' => result'[Tm(u)] = result[Tm(u)]
      BY <1>1a, <1>5, <2>1, <2>2, <2>3 DEF CallInv, CallTypes, FillOK
    <2> QED BY <2>1, <2>2, <2>4 DEF CallInv, FillOK, NoTime, Null
  <1> QED BY <1>7, <1>9, <1>10, <1>11, <1>12 DEF CallInv

LEMMA ServiceStep ==
  ASSUME CallInv, ServiceEnds \/ ServiceAnswers
  PROVE  CallInv'
  <1>1. CASE ServiceEnds
    BY <1>1 DEF ServiceEnds, CallInv, CallTypes, QueueOK, ArrivedOK, ResultOK, FillOK, InCall, Tm, NoTime,
                Under, callVars, zoneVars, Kept
  <1>2. ASSUME ServiceAnswers
        PROVE  CallInv'
    <2>1. PICK q \in Asking : q = Head(queue) /\ Under(q.remote_end) /\ q.time = asked[q.remote_end].time
      <3>1. queue \in Seq(Asking) /\ queue # <<>>
        BY <1>2 DEF ServiceAnswers, CallInv, CallTypes
      <3>2. 1 \in DOMAIN queue /\ Head(queue) = queue[1] /\ Head(queue) \in Asking
        BY <3>1
      <3> QED BY <3>2 DEF CallInv, QueueOK
    <2>2. PICK told \in Reply(q.time) :
            local_end' = [local_end EXCEPT ![q.remote_end] = Append(@, told)]
      BY <1>2, <2>1 DEF ServiceAnswers
    <2>2a. told \in Told /\ told.time = q.time
      BY <2>1 DEF Asking, Told, Reply, AnyZone
    <2>3. /\ local_end' = [local_end EXCEPT ![q.remote_end] = Append(@, told)]
          /\ queue' = Tail(queue) /\ queue # <<>>
          /\ UNCHANGED <<pc, asked, result, g_timezones>>
      BY <1>2, <2>1, <2>2 DEF ServiceAnswers, callVars, zoneVars
    <2>4. q.remote_end \in Thread /\ told.time = asked[q.remote_end].time
      BY <2>1, <2>2a DEF Asking
    <2>5. \A t \in Thread : /\ local_end[t] \in Seq(Told)
                            /\ local_end'[t] = IF t = q.remote_end THEN Append(local_end[t], told)
                                                 ELSE local_end[t]
      BY <2>3, <2>4 DEF CallInv, CallTypes
    <2>6. \A t \in Thread :
            /\ local_end'[t] \in Seq(Told)
            /\ local_end[t] # <<>> => local_end'[t] # <<>> /\ Head(local_end'[t]) = Head(local_end[t])
            /\ \A i \in DOMAIN local_end'[t] :
                 \/ i \in DOMAIN local_end[t] /\ local_end'[t][i] = local_end[t][i]
                 \/ t = q.remote_end /\ local_end'[t][i] = told
      <3> SUFFICES ASSUME NEW t \in Thread
                   PROVE  /\ local_end'[t] \in Seq(Told)
                          /\ local_end[t] # <<>> =>
                               local_end'[t] # <<>> /\ Head(local_end'[t]) = Head(local_end[t])
                          /\ \A i \in DOMAIN local_end'[t] :
                               \/ i \in DOMAIN local_end[t] /\ local_end'[t][i] = local_end[t][i]
                               \/ t = q.remote_end /\ local_end'[t][i] = told
        OBVIOUS
      <3>1. PICK before \in Seq(Told) : before = local_end[t]
        BY <2>5
      <3>2. /\ Append(before, told) \in Seq(Told) /\ Append(before, told) # <<>>
            /\ before # <<>> => Head(Append(before, told)) = Head(before)
            /\ \A i \in DOMAIN Append(before, told) :
                 \/ i \in DOMAIN before /\ Append(before, told)[i] = before[i]
                 \/ Append(before, told)[i] = told
        <4>1. Append(before, told) \in Seq(Told) /\ Len(Append(before, told)) = Len(before) + 1
          BY <2>2a
        <4>2. \A i \in 1 .. Len(before) : Append(before, told)[i] = before[i]
          OBVIOUS
        <4>3. Append(before, told)[Len(before) + 1] = told
          OBVIOUS
        <4>4. before # <<>> => Head(before) = before[1] /\ 1 \in 1 .. Len(before)
          OBVIOUS
        <4>5. Append(before, told) # <<>> /\ Head(Append(before, told)) = Append(before, told)[1]
          BY <4>1
        <4>6. DOMAIN Append(before, told) = 1 .. Len(before) + 1 /\ DOMAIN before = 1 .. Len(before)
          BY <4>1
        <4> QED BY <4>1, <4>2, <4>3, <4>4, <4>5, <4>6
      <3>3. CASE t = q.remote_end
        BY <2>5, <2>2a, <3>1, <3>2, <3>3
      <3>4. CASE t # q.remote_end
        BY <2>5, <3>1, <3>4
      <3> QED BY <3>3, <3>4
    <2>7. CallTypes'
      <3>1. local_end' \in [Thread -> Seq(Told)]
        BY <2>3, <2>6 DEF CallInv, CallTypes
      <3>2. queue' \in Seq(Asking)
        BY <2>3 DEF CallInv, CallTypes
      <3> QED BY <2>3, <3>1, <3>2 DEF CallInv, CallTypes
    <2>8. QueueOK'
      <3>1. \A i \in DOMAIN queue' : i + 1 \in DOMAIN queue /\ queue'[i] = queue[i + 1]
        BY <2>3 DEF CallInv, CallTypes
      <3> QED BY <2>3, <3>1 DEF CallInv, QueueOK, Under
    <2>9. ArrivedOK'
      BY <2>1, <2>3, <2>4, <2>6 DEF CallInv, ArrivedOK, Under
    <2>10. ResultOK'
      <3> SUFFICES ASSUME NEW t \in Thread,
                          pc[t] = "done" /\ asked[t].reentrant /\ result[t].fields # "nothing"
                   PROVE  /\ local_end'[t] # <<>>
                          /\ LET zone == Head(local_end'[t]).zone IN
                               IF zone = "none" THEN result[t].tm_zone = Null
                                 ELSE result[t].tm_zone = Kept(zone) /\ zone \in g_timezones
        BY <2>3 DEF ResultOK, Kept, Null
      <3>1. local_end[t] # <<>> => local_end'[t] # <<>> /\ Head(local_end'[t]) = Head(local_end[t])
        BY <2>6
      <3> QED BY <3>1 DEF CallInv, ResultOK
    <2>11. FillOK'
      BY <2>3 DEF CallInv, FillOK, InCall, Tm, NoTime
    <2> QED BY <2>7, <2>8, <2>9, <2>10, <2>11 DEF CallInv
  <1> QED BY <1>1, <1>2

LEMMA CallStep ==
  ASSUME CallInv, [Next]_vars
  PROVE  CallInv'
  <1>1. CASE FdNext /\ UNCHANGED childVars
    BY <1>1, CallSame DEF childVars, socketVars
  <1>2. CASE FdStorageInit \/ OpenUrandom \/ Confine
    BY <1>2, CallSame DEF FdStorageInit, OpenUrandom, Confine, socketVars
  <1>3. ASSUME NEW t \in Thread, CallSteps(t) \/ ReadFails(t)
        PROVE  CallInv'
    BY <1>3, RequestSent, NothingRead, ReplyRead DEF CallSteps
  <1>4. CASE UNCHANGED vars
    BY <1>4, CallSame DEF vars, childVars, socketVars
  <1> QED BY <1>1, <1>2, <1>3, <1>4, CallStarts, ServiceStep DEF Next

LEMMA CallAlways == Spec => []CallInv
  <1>1. Init => CallInv
    BY CallInit DEF Init
  <1>2. CallInv /\ [Next]_vars => CallInv'
    BY CallStep
  <1> QED BY <1>1, <1>2, PTL DEF Spec

(* What a step does to a struct that is not one a call under way fills.      *)
LEMMA OthersStand ==
  ASSUME CallInv, [Next]_vars, NEW t \in Thread, pc[t] = "done",
         asked[t].reentrant \/ ~(InLocaltime \/ InLocaltime')
  PROVE  result'[Tm(t)] = result[Tm(t)]
  <1>1. ASSUME NEW u \in Thread, NEW time \in Time, NEW reentrant \in BOOLEAN,
               Localtime(u, time, reentrant)
        PROVE  result'[Tm(t)] = result[Tm(t)]
    <2>1. /\ u # t /\ pc'[u] = "asking"
          /\ result' = [result EXCEPT ![Tm(u)'] = NoTime]
          /\ Tm(u)' = IF asked'[u].reentrant THEN u ELSE Static
      BY <1>1 DEF Localtime, Tm, CallInv, CallTypes
    <2>2. Tm(u)' # Tm(t)
      BY <2>1, StaticAssumption DEF Tm, InLocaltime
    <2> QED BY <2>1, <2>2 DEF CallInv, CallTypes, Tm, AllTm
  <1>2. ASSUME NEW u \in Thread, ReadSandboxReply(u)
        PROVE  result'[Tm(t)] = result[Tm(t)]
    <2>1. u # t /\ pc[u] = "reading" /\ \E f : result' = [result EXCEPT ![Tm(u)] = f]
      BY <1>2 DEF ReadSandboxReply
    <2>2. Tm(u) # Tm(t)
      BY <2>1, StaticAssumption DEF Tm, InLocaltime
    <2> QED BY <2>1, <2>2 DEF CallInv, CallTypes, Tm, AllTm
  <1>3. ASSUME NEW u \in Thread, SendSandboxRequest(u) \/ SendFails(u) \/ ReadEndOfFile(u) \/ ReadFails(u)
        PROVE  result' = result
    BY <1>3 DEF SendSandboxRequest, SendFails, ReadEndOfFile, ReadFails
  <1>4. CASE (FdNext /\ UNCHANGED childVars) \/ FdStorageInit \/ OpenUrandom \/ Confine \/ UNCHANGED vars
    BY <1>4 DEF FdStorageInit, OpenUrandom, Confine, childVars, vars, callVars
  <1>5. CASE ServiceAnswers \/ ServiceEnds
    BY <1>5 DEF ServiceAnswers, ServiceEnds, callVars
  <1> QED BY <1>1, <1>2, <1>3, <1>4, <1>5 DEF Next, CallSteps

(* Only a thread's own step ends its call, and it fills its struct from what *)
(* arrived at its own socket, or not at all.                                 *)
LEMMA OwnReturned ==
  ASSUME CallInv, [Next]_vars, NEW t \in Thread, Returned(t)
  PROVE  result'[Tm(t)].fields = "nothing" \/ result'[Tm(t)].time = asked[t].time
  <1>1. CASE SendFails(t) \/ ReadEndOfFile(t) \/ ReadFails(t)
    <2>1. result' = result /\ InCall(t)
      BY <1>1 DEF SendFails, ReadEndOfFile, ReadFails, InCall
    <2> QED BY <2>1 DEF CallInv, FillOK, NoTime
  <1>2. CASE ReadSandboxReply(t)
    <2>1. PICK reply : reply = Head(local_end[t])
      OBVIOUS
    <2>2. reply.time = asked[t].time
      <3>1. local_end[t] \in Seq(Told) /\ local_end[t] # <<>>
        BY <1>2 DEF CallInv, CallTypes, ReadSandboxReply
      <3>2. 1 \in DOMAIN local_end[t] /\ reply = local_end[t][1]
        BY <2>1, <3>1
      <3> QED BY <3>2 DEF CallInv, ArrivedOK
    <2>3. PICK filled : /\ result' = [result EXCEPT ![Tm(t)] = filled]
                        /\ filled.time = IF reply.fields = "nothing" THEN 0 ELSE reply.time
                        /\ filled.fields = reply.fields
      <3>0. PICK time : time = IF reply.fields = "nothing" THEN 0 ELSE reply.time
        OBVIOUS
      <3>1. PICK name :
              result' = [result EXCEPT ![Tm(t)] =
                [time |-> time, fields |-> reply.fields, tm_zone |-> name]]
        BY <1>2, <2>1, <3>0 DEF ReadSandboxReply
      <3>2. PICK filled : filled = [time |-> time, fields |-> reply.fields, tm_zone |-> name]
        OBVIOUS
      <3>3. filled.time = time /\ filled.fields = reply.fields
        BY <3>2
      <3> QED BY <3>0, <3>1, <3>2, <3>3
    <2>4. result'[Tm(t)] = filled
      BY <2>3 DEF CallInv, CallTypes, Tm, AllTm
    <2> QED BY <2>2, <2>3, <2>4
  <1>3. ASSUME NEW u \in Thread, u # t, CallSteps(u) \/ ReadFails(u)
        PROVE  FALSE
    BY <1>3 DEF CallSteps, SendSandboxRequest, SendFails, ReadSandboxReply, ReadEndOfFile, ReadFails,
                Returned, CallInv, CallTypes
  <1>4. ~SendSandboxRequest(t)
    BY DEF SendSandboxRequest, Returned, CallInv, CallTypes
  <1>5. ASSUME NEW u \in Thread, NEW time \in Time, NEW reentrant \in BOOLEAN,
               Localtime(u, time, reentrant)
        PROVE  FALSE
    BY <1>5 DEF Localtime, Returned, CallInv, CallTypes
  <1>6. CASE (FdNext /\ UNCHANGED childVars) \/ FdStorageInit \/ OpenUrandom \/ Confine \/ UNCHANGED vars
    BY <1>6 DEF FdStorageInit, OpenUrandom, Confine, childVars, vars, callVars, Returned
  <1>7. CASE ServiceAnswers \/ ServiceEnds
    BY <1>7 DEF ServiceAnswers, ServiceEnds, callVars, Returned
  <1> QED BY <1>1, <1>2, <1>3, <1>4, <1>5, <1>6, <1>7 DEF Next, CallSteps

(* No call returns the time that another asked for, and only a call of       *)
(* localtime changes what an earlier one has returned.                       *)
THEOREM TimesNeverCross == Spec => OwnTime
  <1>1. CallInv /\ [Next]_vars =>
          [\A t \in Thread :
             /\ Returned(t) => result'[Tm(t)].fields = "nothing" \/ result'[Tm(t)].time = asked[t].time
             /\ pc[t] = "done" /\ (asked[t].reentrant \/ ~(InLocaltime \/ InLocaltime')) =>
                  result'[Tm(t)] = result[Tm(t)]]_vars
    BY OwnReturned, OthersStand
  <1> QED BY <1>1, CallAlways, PTL DEF Spec, OwnTime

(* A name that localtime_r has returned stays what it was.                   *)
THEOREM ZonesStand == Spec => []ZoneStands
  <1>1. CallInv => ZoneStands
    <2> SUFFICES ASSUME CallInv, NEW t \in Thread, pc[t] = "done", asked[t].reentrant,
                        result[t].fields # "nothing"
                 PROVE  NameAt(result[t].tm_zone) = Head(local_end[t]).zone
      BY DEF ZoneStands
    <2>1. PICK zone : /\ zone = Head(local_end[t]).zone
                      /\ zone = "none" => result[t].tm_zone = Null
                      /\ zone # "none" => result[t].tm_zone = Kept(zone) /\ zone \in g_timezones
      BY DEF CallInv, ResultOK
    <2>2. CASE zone = "none"
      BY <2>1, <2>2 DEF NameAt, Null
    <2>3. CASE zone # "none"
      <3>1. PICK p : p = result[t].tm_zone /\ p.in = "g_timezones" /\ p.zone = zone
        BY <2>1, <2>3 DEF Kept
      <3>2. NameAt(p) = zone
        BY <2>1, <2>3, <3>1 DEF NameAt
      <3> QED BY <2>1, <3>1, <3>2
    <2> QED BY <2>2, <2>3
  <1> QED BY <1>1, CallAlways, PTL
-----------------------------------------------------------------------------
(* FdStorage: until the exec the process is as FdMap says; from then on      *)
(* /dev/urandom stays open under the number that FdStorage keeps.            *)

LEMMA LowestIsFree ==
  ASSUME Free # {}
  PROVE  Lowest(Free) \in Fd
  <1>1. Free \in SUBSET Nat
    BY DEF Free, Fd
  <1>2. \E f \in Free : \A g \in Free : f <= g
    BY <1>1, LeastExists
  <1>3. Lowest(Free) \in Free
    BY <1>2 DEF Lowest
  <1> QED BY <1>3 DEF Free

StorageInv ==
  /\ phase \notin {"constructors", "main"} => FdInv
  /\ phase \in {"constructors", "main"} => table = [f \in Fd |-> table[f]]
  /\ random \in {Untried, Urandom}
  /\ urandom_fd_ # kInvalidFd => urandom_fd_ \in Fd /\ table[urandom_fd_] = Urandom
  /\ (phase = "main") <=> (urandom_fd_ # kInvalidFd)
  /\ confined => phase = "main"

LEMMA StorageInit == Init => StorageInv
  BY FdInvInit DEF Init, FdInit, ChildInit, StorageInv

LEMMA TableIsFunction ==
  ASSUME StorageInv
  PROVE  table = [f \in Fd |-> table[f]]
  BY DEF StorageInv, FdInv

LEMMA BeforeProgram ==
  ASSUME StorageInv, FdNext, UNCHANGED childVars
  PROVE  StorageInv'
  <1>1. phase \notin {"constructors", "main"} /\ phase' \notin {"constructors", "main"}
    BY DEF FdNext, ReadTooMany, HandleFork, HandleForkFails, FlatpakSpawn, ParseFdMap, Assign,
           AssignFails, Exec
  <1>2. FdInv'
    BY <1>1, FdInvStep DEF StorageInv
  <1> QED BY <1>1, <1>2 DEF StorageInv, childVars, fdStorageVars

LEMMA StorageReady ==
  ASSUME StorageInv, FdStorageInit
  PROVE  StorageInv'
  <1>1. PICK f \in Fd : f = Lowest(Free)
    BY LowestIsFree DEF FdStorageInit
  <1>2. /\ phase' = "main" /\ urandom_fd_' = f
        /\ table' = [table EXCEPT ![f] = Urandom] /\ UNCHANGED <<random, confined>>
    BY <1>1 DEF FdStorageInit
  <1>3. f # kInvalidFd
    BY DEF Fd, kInvalidFd
  <1>4. table' = [g \in Fd |-> table'[g]] /\ table'[f] = Urandom
    BY <1>2, TableIsFunction
  <1> QED BY <1>2, <1>3, <1>4 DEF StorageInv

LEMMA RandomOpened ==
  ASSUME StorageInv, OpenUrandom
  PROVE  StorageInv'
  <1>1. ~OpenFails
    BY DEF OpenFails, StorageInv
  <1>2. /\ random' = Urandom
        /\ table' = [table EXCEPT ![Lowest(Free)] = Urandom]
    BY <1>1 DEF OpenUrandom, StorageInv
  <1>3. table' = [g \in Fd |-> table'[g]]
    BY <1>2, TableIsFunction
  <1>4. \A g \in Fd : table[g] = Urandom => table'[g] = Urandom
    BY <1>2, TableIsFunction
  <1>5. /\ phase' \in {"constructors", "main"} /\ (phase' = "main" <=> phase = "main")
        /\ UNCHANGED <<urandom_fd_, confined>>
    BY DEF OpenUrandom, BeforeMain, InMain, fdStorageVars
  <1> QED BY <1>2, <1>3, <1>4, <1>5 DEF StorageInv

LEMMA StorageSame ==
  ASSUME StorageInv, UNCHANGED <<fdVars, fdStorageVars, random>>, confined' => phase = "main"
  PROVE  StorageInv'
  <1>1. FdInv => FdInv'
    BY FdInvStep
  <1> QED BY <1>1 DEF StorageInv, fdVars, fdStorageVars

LEMMA StorageStep ==
  ASSUME StorageInv, [Next]_vars
  PROVE  StorageInv'
  <1>1. ASSUME NEW t \in Thread, NEW time \in Time, NEW reentrant \in BOOLEAN,
               Localtime(t, time, reentrant)
        PROVE  StorageInv'
    BY <1>1, StorageSame DEF Localtime, StorageInv
  <1>2. ASSUME NEW t \in Thread, CallSteps(t) \/ ReadFails(t)
        PROVE  StorageInv'
    BY <1>2, StorageSame DEF CallSteps, SendSandboxRequest, SendFails, ReadSandboxReply, ReadEndOfFile,
                            ReadFails, StorageInv
  <1>3. CASE ServiceAnswers
    BY <1>3, StorageSame DEF ServiceAnswers, StorageInv
  <1>4. CASE ServiceEnds
    BY <1>4, StorageSame DEF ServiceEnds, StorageInv
  <1>5. CASE Confine
    BY <1>5, StorageSame DEF Confine, InMain
  <1>6. CASE UNCHANGED vars
    BY <1>6, StorageSame DEF vars, childVars, StorageInv
  <1> QED BY <1>1, <1>2, <1>3, <1>4, <1>5, <1>6, BeforeProgram, StorageReady, RandomOpened DEF Next

LEMMA StorageAlways == Spec => []StorageInv
  <1>1. StorageInv /\ [Next]_vars => StorageInv'
    BY StorageStep
  <1> QED BY <1>1, StorageInit, PTL DEF Spec

(* /dev/urandom is never refused, before main or after the program has       *)
(* confined itself.                                                          *)
THEOREM RandomStaysAvailable == Spec => []RandomAvailable
  <1>1. StorageInv => RandomAvailable
    BY DEF StorageInv, RandomAvailable
  <1> QED BY <1>1, StorageAlways, PTL

(* The process that goes on to run finds its files as FdMap delivers them.   *)
THEOREM ProcessFilesDelivered == Spec => []OnlyTheFiles
  <1>1. StorageInv => OnlyTheFiles
    <2>1. CASE phase = "program"
      BY <2>1, FdInvImplies DEF StorageInv, OnlyTheFiles
    <2>2. CASE phase # "program"
      BY <2>2 DEF OnlyTheFiles, Delivered, NothingElse
    <2> QED BY <2>1, <2>2
  <1> QED BY <1>1, StorageAlways, PTL

-----------------------------------------------------------------------------
(* Who has the other end open.                                               *)

Asks(t) == \E i \in DOMAIN queue : queue[i].remote_end = t

EndsInv ==
  /\ remote_end \in [Thread -> SUBSET {"service"}]
  /\ \A t \in Thread : remote_end[t] # {} => service /\ Asks(t)

LEMMA EndsSame ==
  ASSUME EndsInv, UNCHANGED <<remote_end, queue, service>>
  PROVE  EndsInv'
  BY DEF EndsInv, Asks

LEMMA EndsSent ==
  ASSUME CallInv, EndsInv, NEW t \in Thread, SendSandboxRequest(t)
  PROVE  EndsInv'
  <1>1. PICK asking \in Asking : asking = SandboxRequest(t)
    BY DEF CallInv, CallTypes, SandboxRequest, ReplySocket, Asking, Call
  <1>2. queue \in Seq(Asking) /\ queue' = Append(queue, asking) /\ asking.remote_end = t
    BY <1>1 DEF CallInv, CallTypes, SendSandboxRequest, SandboxRequest, ReplySocket
  <1>3. /\ DOMAIN queue' = 1 .. Len(queue) + 1 /\ DOMAIN queue = 1 .. Len(queue)
        /\ Len(queue) \in Nat
        /\ \A i \in DOMAIN queue : queue'[i] = queue[i]
        /\ queue'[Len(queue) + 1] = asking
    BY <1>2
  <1>4. Asks(t)' /\ \A u : Asks(u) => Asks(u)'
    <2>1. Len(queue) + 1 \in DOMAIN queue' /\ \A i \in DOMAIN queue : i \in DOMAIN queue'
      BY <1>3
    <2> QED BY <1>2, <1>3, <2>1 DEF Asks
  <1>5. /\ service /\ service' = service
        /\ remote_end' = [remote_end EXCEPT ![t] = {"service"}]
    BY DEF SendSandboxRequest, Holders
  <1> QED BY <1>4, <1>5 DEF EndsInv

LEMMA EndsAnswered ==
  ASSUME CallInv, EndsInv, ServiceAnswers
  PROVE  EndsInv'
  <1>1. PICK r : r = Head(queue).remote_end
    OBVIOUS
  <1>2. queue \in Seq(Asking) /\ queue # <<>> /\ queue' = Tail(queue)
    BY DEF CallInv, CallTypes, ServiceAnswers
  <1>3. /\ queue[1] = Head(queue) /\ r \in Thread
        /\ \A i \in DOMAIN queue : i # 1 => i - 1 \in DOMAIN queue' /\ queue'[i - 1] = queue[i]
    <2>1. Head(queue) \in Asking /\ queue[1] = Head(queue)
      BY <1>2
    <2>2. \A i \in DOMAIN queue : i # 1 => i - 1 \in DOMAIN queue' /\ queue'[i - 1] = queue[i]
      BY <1>2
    <2> QED BY <1>1, <2>1, <2>2 DEF Asking
  <1>4. \A t : t # r /\ Asks(t) => Asks(t)'
    BY <1>1, <1>3 DEF Asks
  <1>5. /\ service' = service
        /\ remote_end' = [remote_end EXCEPT ![r] = remote_end[r] \ {"service"}]
    BY <1>1 DEF ServiceAnswers
  <1> QED BY <1>3, <1>4, <1>5 DEF EndsInv

LEMMA EndsStep ==
  ASSUME CallInv, EndsInv, [Next]_vars
  PROVE  EndsInv'
  <1>1. CASE (FdNext /\ UNCHANGED childVars) \/ FdStorageInit \/ OpenUrandom \/ Confine \/ UNCHANGED vars
    BY <1>1, EndsSame DEF FdStorageInit, OpenUrandom, Confine, childVars, vars, socketVars
  <1>2. ASSUME NEW t \in Thread, NEW time \in Time, NEW reentrant \in BOOLEAN,
               Localtime(t, time, reentrant)
        PROVE  EndsInv'
    BY <1>2, EndsSame DEF Localtime, socketVars
  <1>3. ASSUME NEW t \in Thread, SendFails(t) \/ ReadSandboxReply(t) \/ ReadEndOfFile(t) \/ ReadFails(t)
        PROVE  EndsInv'
    BY <1>3, EndsSame DEF SendFails, ReadSandboxReply, ReadEndOfFile, ReadFails, socketVars
  <1>4. CASE ServiceEnds
    BY <1>4 DEF ServiceEnds, EndsInv
  <1> QED BY <1>1, <1>2, <1>3, <1>4, EndsSent, EndsAnswered DEF Next, CallSteps

(* No thread reads for ever: its answer or the end of its socket is there,   *)
(* or the service has its question, however many threads ask at once.        *)
THEOREM NobodyEverStranded == Spec => []NobodyStranded
  <1>1. Init => EndsInv
    BY DEF Init, ChildInit, EndsInv
  <1>2. CallInv /\ EndsInv /\ [Next]_vars => EndsInv'
    BY EndsStep
  <1>3. EndsInv => NobodyStranded
    BY DEF EndsInv, NobodyStranded, Asks
  <1> QED BY <1>1, <1>2, <1>3, CallAlways, PTL DEF Spec
=============================================================================

------------------------ MODULE SupervisorRefinement ------------------------
(***************************************************************************)
(* Supervisor implements ProcessTable, for any number of stubs, pids and   *)
(* threads, as long as the kernels give away only numbers that the         *)
(* supervisor has done with.                                               *)
(*                                                                         *)
(* Besides the invariant of SupervisorProofs the refinement needs to know  *)
(* what the entry of each stub holds, by how far its request is (BooksOK), *)
(* and that the portal tells the truth (PortalTrue).                       *)
(***************************************************************************)
EXTENDS SupervisorProofs

Untaken == {"none", "asked", "taken", "dropped"}

Pending(s) == OnBooks(s) /\ request[s] \in {"queued", "called", "expired", "replied"}

Entry(s) == stub_pids_data[pid[s]]

(* A request on the books has an entry until it fails, which has the pid of *)
(* its process once the call is done and no pid before that.                *)
BooksOK ==
  \A s \in Stub :
    /\ Pending(s)            => Registered(pid[s]) /\ Entry(s).external = None
    /\ request[s] = "done"   => Registered(pid[s]) /\ Entry(s).external = ext[s] /\ ext[s] # None
    /\ request[s] = "failed" => ~Registered(pid[s]) \/ HandedOn(s)

(* An error is only sent for a process that was refused, SpawnStarted only  *)
(* for one that has started.                                                *)
MessageTrue(m) ==
  /\ m.type = "reply" /\ m.ext = None => child[m.of] = "refused"
  /\ m.type = "started" => child[m.of] \in {"started", "exited"}

PortalTrue ==
  /\ \A i \in 1..Len(inbox) : MessageTrue(inbox[i])
  /\ bus = "handle" => MessageTrue(job)

(* A call expires once, and its timeout is handled once.                    *)
ExpiredOnce ==
  /\ \A i \in 1..Len(inbox) :
       inbox[i].type = "timeout" =>
         /\ request[inbox[i].of] = "expired"
         /\ \A j \in 1..Len(inbox) :
              inbox[j].type = "timeout" /\ inbox[j].of = inbox[i].of => j = i
  /\ \A s \in Stub :
       InHand("timeout", s) => request[s] = "expired" /\ ~InInbox("timeout", s)

(* What the books say, by how far the request is.                           *)
KnownShape ==
  \A s \in Stub :
    /\ ~OnBooks(s)          => Books[s] = "absent"
    /\ Pending(s)           => Books[s] = "pending"
    /\ request[s] = "failed" => Books[s] = "removed"
    /\ request[s] = "done"   => Books[s] = IF Entry(s).internal = s THEN "started" ELSE "known"

(* The bus thread registers a request that it has queued.                   *)
LEMMA RegisteringOK ==
  ASSUME IInv, NEW s \in Stub, Registering(s)
  PROVE  request[s] = "queued"
  BY DEF IInv, JobOK, Registering

(* No two stubs that the supervisor has to do with have the same pid.       *)
LEMMA OwnPid ==
  ASSUME IInv, NEW s \in Stub, NEW x \in Stub, s # x, pid[s] # None, ~Over(s), ~Over(x)
  PROVE  pid[s] # pid[x]
  BY DEF IInv, PidsDistinct, StubGone

(* The invariants give the books that shape.                                *)
LEMMA KnownShapeOK == TypeOK /\ IInv /\ BooksOK => KnownShape
<1> SUFFICES ASSUME TypeOK, IInv, BooksOK, NEW s \in Stub
             PROVE  /\ ~OnBooks(s)          => Known(s) = "absent"
                    /\ Pending(s)           => Known(s) = "pending"
                    /\ request[s] = "failed" => Known(s) = "removed"
                    /\ request[s] = "done"   => Known(s) = IF Entry(s).internal = s
                                                           THEN "started" ELSE "known"
  BY DEF KnownShape, Books
<1>1. ~OnBooks(s) => Known(s) = "absent"
  BY DEF Known
<1>2. request[s] \in {"failed", "done"} => OnBooks(s)
  BY RegisteringOK DEF OnBooks
<1>3. request[s] = "failed" => Known(s) = "removed"
  BY <1>2 DEF BooksOK, Known
<1>4. ASSUME OnBooks(s), request[s] # "failed" PROVE ~HandedOn(s)
  <2> SUFFICES ASSUME NEW x \in Stub, x # s, OnBooks(x), request[x] # "failed" PROVE pid[x] # pid[s]
    BY DEF HandedOn
  <2>1. ~Over(s) /\ ~Over(x)
    BY <1>4 DEF OnBooks, Over
  <2>2. pid[x] # None
    BY DEF OnBooks, IInv, PidsGiven
  <2> QED
    BY <2>1, <2>2, OwnPid
<1>5. Pending(s) => Known(s) = "pending"
  BY <1>4 DEF BooksOK, Known, Pending, Entry
<1>6. ASSUME request[s] = "done"
      PROVE  Known(s) = IF Entry(s).internal = s THEN "started" ELSE "known"
  <2>1. /\ Registered(pid[s]) /\ Entry(s).external = ext[s] /\ ext[s] # None
        /\ pid[s] \in StubPid
    BY <1>6 DEF BooksOK, IInv, PidsGiven, TypeOK
  <2>2. Entry(s).internal \in {None, s}
    <3>1. Entry(s).internal \in Stub \cup {None}
      BY <2>1 DEF TypeOK, Registered, StubPidData, Entry
    <3>2. Entry(s).internal # None =>
            pid[Entry(s).internal] = pid[s] /\ request[Entry(s).internal] = "done"
      BY <2>1 DEF IInv, EntriesOK, Entry
    <3> QED
      BY <1>6, <2>1, <3>1, <3>2, OwnPid, NoneAssumption DEF Over
  <2> QED
    BY <1>2, <1>4, <1>6, <2>1, <2>2, NoneAssumption DEF Known, Entry
<1> QED
  BY <1>1, <1>3, <1>5, <1>6

-----------------------------------------------------------------------------
(* What steps do to entries and requests.                                   *)

(* Writing the entry of one stub leaves those of the others alone.          *)
LEMMA OneWritten ==
  ASSUME TypeOK, IInv, NEW x \in Stub, pid[x] # None, ~Over(x), UNCHANGED pid, NEW e,
         stub_pids_data' = [stub_pids_data EXCEPT ![pid[x]] = e]
  PROVE  /\ stub_pids_data'[pid'[x]] = e
         /\ \A s \in Stub : pid[s] # pid[x] /\ pid[s] # None =>
              stub_pids_data'[pid'[s]] = stub_pids_data[pid[s]]
         /\ \A s \in Stub : s # x /\ pid[s] # None /\ ~Over(s) =>
              stub_pids_data'[pid'[s]] = stub_pids_data[pid[s]]
  BY OwnPid DEF TypeOK

(* Only the bus thread writes entries, in four places; as no exit status is *)
(* ever recorded, no thread in waitpid takes one away.                      *)
LEMMA EntriesKept ==
  ASSUME TypeOK, NotifyExitInvalid, IInv, [Next]_vars,
         ~RegisterStub, ~HandleSpawnReply, ~HandleSpawnReplyError, ~HandleSpawnStarted
  PROVE  UNCHANGED stub_pids_data
<1>1. CASE HandleSpawnExited
  <2>1. job.ext \in ExternalPid
    BY <1>1, JobOf DEF IInv, HandleSpawnExited
  <2> QED
    BY <1>1, <2>1 DEF HandleSpawnExited, FindsStubPidData, NotifyExitInvalid, TypeOK
<1>2. ASSUME NEW t \in Waiter, NEW p \in StubPid, GetExitStatus(t, p) PROVE UNCHANGED stub_pids_data
  BY <1>2 DEF GetExitStatus, Exited, NotifyExitInvalid
<1>3. ASSUME NEW t \in Waiter, NEW p \in StubPid, EvaluatePredicate(t, p)
      PROVE  UNCHANGED stub_pids_data
  BY <1>3 DEF EvaluatePredicate, Exited, NotifyExitInvalid
<1>4. ASSUME NEW t \in Waiter, WakeUp(t) PROVE UNCHANGED stub_pids_data
  <2>1. app[t].pid \in StubPid
    BY <1>4 DEF WakeUp, TypeOK, Thread
  <2> QED
    BY <1>3, <1>4, <2>1 DEF WakeUp
<1>5. CASE UNCHANGED vars
  BY <1>5 DEF vars
<1> QED
  BY <1>1, <1>2, <1>3, <1>4, <1>5
  DEF Next, StubStep, BusStep, PortalStep, CallEnds, AppStep, WaiterContinues, KillerContinues,
      OpenSpawnRequest, SendSpawnRequest, StubFails, ReadExitReply, HandleSpawnRequest,
      RejectSpawnRequest, SendSpawn, FulfillSpawnRequest, SendSpawnSignal, DispatchReply,
      DispatchEvent, DispatchSignalled, HandlerAborts, PortalSpawns, PortalRefuses,
      CallTimesOut, PortalStarted, PortalExited, PortalSignalled, Fork, WaitForExitStatus,
      SpuriousWakeUp, KernelWaitpid, SendSignal, CallSpawnSignal, SendSignalReturns,
      KernelKill, tableVars

(* A request moves one step at a time; only RegisterStub puts it on the     *)
(* books.                                                                   *)
RequestMoves(s) ==
  /\ OnBooks(s)' = OnBooks(s)
  /\ \/ request'[s] = request[s]
     \/ ~OnBooks(s) /\ request'[s] \in Untaken \cup {"queued"}
     \/ request[s] = "called" /\ request'[s] \in {"replied", "expired"}
     \/ request[s] = "queued" /\ request'[s] = "called"

LEMMA RequestStep ==
  ASSUME TypeOK, IInv, [Next]_vars,
         ~RegisterStub, ~HandleSpawnReply, ~HandleSpawnReplyError
  PROVE  \A s \in Stub : RequestMoves(s)
<1> USE DEF IInv
<1>1. ASSUME UNCHANGED request,
             \/ UNCHANGED <<bus, job>>
             \/ bus # "register" /\ bus' # "register"
      PROVE  \A s \in Stub : RequestMoves(s)
  BY <1>1 DEF RequestMoves, OnBooks, Registering
<1>2. ASSUME NEW x \in Stub, NEW v, request' = [request EXCEPT ![x] = v],
             \/ bus' = bus /\ job' = job
             \/ bus # "register" /\ bus' # "register",
             \/ request[x] \in Untaken /\ v \in Untaken
             \/ request[x] = "called" /\ v \in {"replied", "expired"}
             \/ request[x] = "queued" /\ v = "called" /\ bus # "register"
      PROVE  \A s \in Stub : RequestMoves(s)
  <2>1. request'[x] = v /\ \A s \in Stub : s # x => request'[s] = request[s]
    BY <1>2 DEF TypeOK
  <2>2. \A s \in Stub : Registering(s)' <=> Registering(s)
    BY <1>2 DEF Registering
  <2>3. Registering(x) => request[x] = "queued"
    BY RegisteringOK
  <2> QED
    BY <1>2, <2>1, <2>2, <2>3 DEF RequestMoves, OnBooks, Untaken, Registering
<1>3. ASSUME NEW x \in Stub,
             \/ OpenSpawnRequest(x) \/ HandleSpawnRequest(x) \/ RejectSpawnRequest(x)
             \/ SendSpawn(x) \/ CallTimesOut(x)
      PROVE  \A s \in Stub : RequestMoves(s)
  <2>1. CASE OpenSpawnRequest(x)
    <3>1. /\ request[x] = "none" /\ request' = [request EXCEPT ![x] = "asked"]
          /\ bus' = bus /\ job' = job
      BY <2>1 DEF OpenSpawnRequest, PidsGiven
    <3> QED
      BY <1>2, <3>1 DEF Untaken
  <2>2. CASE HandleSpawnRequest(x) \/ RejectSpawnRequest(x)
    BY <1>2, <2>2 DEF HandleSpawnRequest, RejectSpawnRequest, Untaken
  <2>3. CASE SendSpawn(x)
    <3>1. /\ request[x] = "queued" /\ request' = [request EXCEPT ![x] = "called"]
          /\ UNCHANGED <<bus, job>> /\ bus # "register"
      BY <2>3 DEF SendSpawn
    <3> QED
      BY <1>2, <3>1
  <2>4. CASE CallTimesOut(x)
    <3>1. /\ request[x] = "called" /\ request' = [request EXCEPT ![x] = "expired"]
          /\ bus' = bus /\ job' = job
      BY <2>4 DEF CallTimesOut
    <3> QED
      BY <1>2, <3>1
  <2> QED
    BY <1>3, <2>1, <2>2, <2>3, <2>4
<1>4. ASSUME NEW ok \in BOOLEAN, FulfillSpawnRequest(ok) PROVE \A s \in Stub : RequestMoves(s)
  <2>1. bus = "fulfill" /\ job.of \in Stub /\ request[job.of] = "taken"
    BY <1>4, JobOf DEF FulfillSpawnRequest
  <2>2. \/ bus' = "idle" /\ request' = [request EXCEPT ![job.of] = "dropped"]
        \/ /\ bus' = "register" /\ job' = job
           /\ request' = [request EXCEPT ![job.of] = "queued"]
    BY <1>4 DEF FulfillSpawnRequest
  <2>3. CASE bus' = "idle" /\ request' = [request EXCEPT ![job.of] = "dropped"]
    BY <1>2, <2>1, <2>3 DEF Untaken
  <2>4. CASE bus' = "register" /\ job' = job /\ request' = [request EXCEPT ![job.of] = "queued"]
    BY <2>1, <2>4 DEF RequestMoves, OnBooks, Registering, TypeOK
  <2> QED
    BY <2>2, <2>3, <2>4
<1>5. CASE DispatchReply
  <2>1. Head(inbox).of \in Stub
    BY <1>5, HeadOK DEF DispatchReply, Message
  <2> QED
    BY <1>1, <1>2, <1>5, <2>1 DEF DispatchReply, AnswersPendingCall
<1>6. CASE UNCHANGED vars
  BY <1>1, <1>6 DEF vars
<1> HIDE DEF IInv
<1> QED
  BY <1>1, <1>3, <1>4, <1>5, <1>6
  DEF Next, StubStep, BusStep, PortalStep, CallEnds, AppStep, WaiterContinues, KillerContinues,
      SendSpawnRequest, StubFails, ReadExitReply, SendSpawnSignal, DispatchEvent,
      DispatchSignalled, HandleSpawnStarted, HandleSpawnExited, HandlerAborts, PortalSpawns,
      PortalRefuses, PortalStarted, PortalExited, PortalSignalled, Fork, GetExitStatus,
      EvaluatePredicate, WaitForExitStatus, WakeUp, SpuriousWakeUp, KernelWaitpid, SendSignal,
      CallSpawnSignal, SendSignalReturns, KernelKill

-----------------------------------------------------------------------------
(* The two invariants.                                                      *)

(* A stub whose request is on the books has its pid for good.               *)
LEMMA PidsKept ==
  ASSUME TypeOK, IInv, Settles, NEW s \in Stub, request[s] \notin {"none", "asked"}
  PROVE  pid[s] \in StubPid /\ pid'[s] = pid[s]
  BY DEF TypeOK, IInv, PidsGiven, Settles

(* The four steps that write an entry; each is about one stub.              *)
LEMMA RegisterEntry ==
  ASSUME TypeOK, IInv, RegisterStub
  PROVE  /\ job.of \in Stub /\ request[job.of] = "queued" /\ pid[job.of] \in StubPid
         /\ \E e \in StubPidData : /\ e.external = None /\ e.internal = None
                                   /\ stub_pids_data' = [stub_pids_data EXCEPT ![pid[job.of]] = e]
         /\ bus = "register" /\ bus' = "idle"
         /\ UNCHANGED <<pid, request, child, ext>>
<1> DEFINE p == pid[job.of]
           data == IF Registered(p) THEN stub_pids_data[p] ELSE NewStubPidData
           entry == [data EXCEPT !.notify_exit = None]
<1>1. job.of \in Stub /\ request[job.of] = "queued"
  BY JobOf DEF IInv, RegisterStub
<1>2. p \in StubPid
  BY <1>1 DEF IInv, PidsGiven, TypeOK
<1>3. stub_pids_data' = [stub_pids_data EXCEPT ![p] = entry]
  BY DEF RegisterStub, CommunicationFd
<1>4. \A e \in ExternalPid : external_to_stub_pids[e] # p
  BY <1>1, <1>2, OwnPid, NoneAssumption DEF IInv, MappingsOK, Over
<1>5. /\ data \in StubPidData
      /\ data.external = None
      /\ data.internal = None
  <2>1. CASE Registered(p)
    <3>1. data = stub_pids_data[p] /\ data \in StubPidData
      BY <1>2, <2>1 DEF TypeOK, Registered
    <3> HIDE DEF data
    <3>2. data.external = None
      BY <1>2, <1>4, <2>1, <3>1 DEF IInv, TablesMatch, StubPidData
    <3>3. data.internal = None
      BY <1>2, <2>1, <3>1, <3>2 DEF IInv, EntriesOK
    <3> QED
      BY <3>1, <3>2, <3>3
  <2>2. CASE ~Registered(p)
    BY <2>2 DEF NewStubPidData, StubPidData
  <2> QED
    BY <2>1, <2>2
<1> HIDE DEF data
<1>6. entry \in StubPidData /\ entry.external = None /\ entry.internal = None
  BY <1>5 DEF StubPidData
<1> HIDE DEF entry
<1> QED
  BY <1>1, <1>2, <1>3, <1>6 DEF RegisterStub, stubVars, portalVars

(* A reply with a pid finds the entry and writes the pid of the process.    *)
LEMMA ReplyEntry ==
  ASSUME TypeOK, IInv, BooksOK, HandleSpawnReply
  PROVE  /\ job.of \in Stub /\ request[job.of] = "replied" /\ pid[job.of] \in StubPid
         /\ ext[job.of] # None
         /\ \E e \in StubPidData :
              /\ e.external = ext[job.of] /\ e.internal = None
              /\ stub_pids_data' = [stub_pids_data EXCEPT ![pid[job.of]] = e]
         /\ request' = [request EXCEPT ![job.of] = "done"]
         /\ bus = "handle" /\ bus' = "idle"
         /\ UNCHANGED <<pid, child, ext>>
<1> DEFINE p == pid[job.of]
           entry == [stub_pids_data[p] EXCEPT !.external = job.ext]
<1>1. /\ job.of \in Stub /\ request[job.of] = "replied"
      /\ job.ext # None /\ job.ext \in ExternalPid /\ job.ext = ext[job.of]
  BY JobOf DEF IInv, HandleSpawnReply, SpawnFailed
<1>2. p \in StubPid
  BY <1>1 DEF IInv, PidsGiven, TypeOK
<1>3. Registered(p) /\ stub_pids_data[p].external = None
  BY <1>1, RegisteringOK DEF BooksOK, Pending, OnBooks, Entry
<1>4. stub_pids_data' = [stub_pids_data EXCEPT ![p] = entry]
  BY <1>3 DEF HandleSpawnReply, SetExternal
<1>5. stub_pids_data[p] \in StubPidData
  BY <1>2, <1>3 DEF TypeOK, Registered
<1>6. stub_pids_data[p].internal = None
  BY <1>2, <1>3 DEF IInv, EntriesOK
<1>7. entry \in StubPidData /\ entry.external = ext[job.of] /\ entry.internal = None
  BY <1>1, <1>5, <1>6 DEF StubPidData
<1> HIDE DEF entry
<1> QED
  BY <1>1, <1>2, <1>4, <1>7 DEF HandleSpawnReply, stubVars, portalVars

(* SpawnStarted is about a stub whose call is done, or finds no entry.      *)
LEMMA StartedEntry ==
  ASSUME TypeOK, IInv, BooksOK, HandleSpawnStarted
  PROVE  /\ \/ UNCHANGED stub_pids_data
            \/ /\ job.of \in Stub /\ request[job.of] = "done" /\ pid[job.of] \in StubPid
               /\ \E e \in StubPidData :
                    /\ e.external = ext[job.of] /\ e.internal = job.of
                    /\ stub_pids_data' = [stub_pids_data EXCEPT ![pid[job.of]] = e]
         /\ bus = "handle" /\ bus' = "idle"
         /\ UNCHANGED <<pid, request, child, ext>>
<1> DEFINE p == external_to_stub_pids[job.ext]
           entry == [stub_pids_data[p] EXCEPT !.internal = job.of]
<1>1. job.of \in Stub /\ job.ext \in ExternalPid /\ job.ext = ext[job.of]
  BY JobOf DEF IInv, HandleSpawnStarted
<1>2. UNCHANGED <<pid, request, child, ext>> /\ bus = "handle" /\ bus' = "idle"
  BY DEF HandleSpawnStarted, stubVars, portalVars
<1>3. CASE ~FindsStubPidData(job.ext)
  BY <1>2, <1>3 DEF HandleSpawnStarted
<1>4. CASE FindsStubPidData(job.ext)
  <2>1. p \in StubPid /\ Registered(p)
    BY <1>1, <1>4 DEF FindsStubPidData, TypeOK
  <2>2. stub_pids_data[p].external = job.ext
    BY <1>1, <1>4 DEF IInv, TablesMatch, FindAsserts
  <2>3. pid[job.of] = p /\ request[job.of] = "done"
    <3>1. PICK s \in Stub : pid[s] = p /\ ext[s] = job.ext /\ request[s] = "done"
      BY <1>1, <2>1, NoneAssumption DEF IInv, MappingsOK
    <3>2. bus = "handle" /\ About(job, ext[s])
      BY <3>1 DEF HandleSpawnStarted, About
    <3>3. job.of = s
      BY <3>1, <3>2 DEF IInv, OrderOK, LearnedOnly, Learned
    <3> QED
      BY <3>1, <3>3
  <2>4. stub_pids_data' = [stub_pids_data EXCEPT ![p] = entry]
    BY <1>4 DEF HandleSpawnStarted, EntryOf, InternalPid
  <2>5. stub_pids_data[p] \in StubPidData
    BY <2>1 DEF Registered, TypeOK
  <2>6. entry \in StubPidData /\ entry.external = ext[job.of] /\ entry.internal = job.of
    BY <1>1, <2>2, <2>5 DEF StubPidData
  <2> HIDE DEF entry
  <2> QED
    BY <1>1, <1>2, <2>1, <2>3, <2>4, <2>6
<1> QED
  BY <1>3, <1>4

(* An error takes away the entry of a request that has failed.              *)
LEMMA ErrorEntry ==
  ASSUME TypeOK, IInv, PortalTrue, ExpiredOnce, HandleSpawnReplyError
  PROVE  /\ job.of \in Stub /\ pid[job.of] \in StubPid
         /\ request[job.of] \in {"replied", "expired"}
         /\ job.of \in FailedRequests
         /\ stub_pids_data' = [stub_pids_data EXCEPT ![pid[job.of]] = None]
         /\ request' = [request EXCEPT ![job.of] = "failed"]
         /\ bus = "handle" /\ bus' = "idle"
         /\ UNCHANGED <<pid, child, ext>>
<1>1. /\ job.of \in Stub
      /\ \/ job.type = "reply" /\ request[job.of] = "replied"
         \/ job.type = "timeout" /\ request[job.of] = "expired"
  BY JobOf DEF IInv, HandleSpawnReplyError, ExpiredOnce, InHand
<1>2. pid[job.of] \in StubPid
  BY <1>1 DEF IInv, PidsGiven, TypeOK
<1>3. job.of \in FailedRequests
  BY <1>1 DEF HandleSpawnReplyError, SpawnFailed, PortalTrue, MessageTrue, FailedRequests
<1> QED
  BY <1>1, <1>2, <1>3 DEF HandleSpawnReplyError, Erase, stubVars, portalVars

(* BooksOK holds of the stub an entry was written for, and of the others:   *)
(* one that failed may have had the pid before.                             *)
LEMMA BooksWritten ==
  ASSUME TypeOK, IInv, BooksOK, UNCHANGED <<pid, ext>>,
         NEW x \in Stub, NEW e \in StubPidData \cup {None}, NEW v,
         pid[x] \in StubPid, ~Over(x), bus = "register" => job.of = x, bus' = "idle",
         stub_pids_data' = [stub_pids_data EXCEPT ![pid[x]] = e],
         request' = [request EXCEPT ![x] = v],
         \/ v = "queued" /\ e \in StubPidData /\ e.external = None
         \/ v = "done" /\ e \in StubPidData /\ e.external = ext[x] /\ ext[x] # None
         \/ v = "failed" /\ e = None
  PROVE  BooksOK'
<1>1. /\ stub_pids_data'[pid'[x]] = e
      /\ \A s \in Stub : pid[s] # pid[x] /\ pid[s] # None =>
           stub_pids_data'[pid'[s]] = stub_pids_data[pid[s]]
      /\ \A s \in Stub : s # x /\ pid[s] # None /\ ~Over(s) =>
           stub_pids_data'[pid'[s]] = stub_pids_data[pid[s]]
  BY OneWritten, NoneAssumption
<1>2. request'[x] = v /\ \A s \in Stub : s # x => request'[s] = request[s]
  BY DEF TypeOK
<1>3. OnBooks(x)' /\ \A s \in Stub : s # x => OnBooks(s)' = OnBooks(s)
  BY <1>2 DEF OnBooks, Registering
<1>4. e # None => Registered(pid[x])'
  BY <1>1 DEF Registered
<1>5. ASSUME NEW s \in Stub, s # x, request[s] = "failed"
      PROVE  ~Registered(pid[s])' \/ HandedOn(s)'
  <2>1. pid[s] # None
    BY <1>5, NoneAssumption DEF IInv, PidsGiven
  <2>2. CASE pid[s] = pid[x]
    <3>1. CASE e = None
      BY <1>1, <2>2, <3>1 DEF Registered
    <3>2. CASE e # None
      BY <1>2, <1>3, <1>5, <2>2, <3>2, EntryAssumption DEF HandedOn
    <3> QED
      BY <3>1, <3>2
  <2>3. CASE pid[s] # pid[x]
    <3>1. Registered(pid[s])' <=> Registered(pid[s])
      BY <1>1, <2>1, <2>3 DEF Registered
    <3>2. HandedOn(s) => HandedOn(s)'
      BY <1>2, <1>3, <2>3 DEF HandedOn
    <3> QED
      BY <1>5, <3>1, <3>2 DEF BooksOK
  <2> QED
    BY <2>2, <2>3
<1>6. ASSUME NEW s \in Stub, s # x
      PROVE  /\ Pending(s)' => Registered(pid[s])' /\ Entry(s)'.external = None
             /\ request'[s] = "done"   => /\ Registered(pid[s])'
                                          /\ Entry(s)'.external = ext'[s] /\ ext'[s] # None
             /\ request'[s] = "failed" => ~Registered(pid[s])' \/ HandedOn(s)'
  <2>1. Pending(s) \/ request[s] = "done" => pid[s] # None /\ ~Over(s)
    BY NoneAssumption DEF IInv, PidsGiven, Pending, Over
  <2>2. Pending(s)' = Pending(s)
    BY <1>2, <1>3, <1>6 DEF Pending
  <2> QED
    BY <1>1, <1>2, <1>5, <1>6, <2>1, <2>2 DEF BooksOK, Registered, Entry
<1>7. /\ Pending(x)' => Registered(pid[x])' /\ Entry(x)'.external = None
      /\ request'[x] = "done"   => /\ Registered(pid[x])'
                                   /\ Entry(x)'.external = ext'[x] /\ ext'[x] # None
      /\ request'[x] = "failed" => ~Registered(pid[x])' \/ HandedOn(x)'
  BY <1>1, <1>2, EntryAssumption DEF Registered, Entry, Pending
<1> QED
  BY <1>6, <1>7 DEF BooksOK, Entry

(* Every step keeps entries and requests in step.                           *)
LEMMA BooksStep ==
  ASSUME ~ReuseHeld, TypeOK, NotifyExitInvalid, IInv, BooksOK, PortalTrue, ExpiredOnce,
         [Next]_vars
  PROVE  BooksOK'
<1>1. Settles
  BY SettleStep
<1>2. CASE RegisterStub
  <2>1. PICK e \in StubPidData : /\ e.external = None
                                 /\ stub_pids_data' = [stub_pids_data EXCEPT ![pid[job.of]] = e]
    BY <1>2, RegisterEntry
  <2>2. PICK x \in Stub : x = job.of
    BY <1>2, RegisterEntry
  <2>3. request' = [request EXCEPT ![x] = "queued"] /\ ~Over(x)
    BY <1>2, <2>2, RegisterEntry DEF TypeOK, Over
  <2> QED
    BY <1>2, <2>1, <2>2, <2>3, RegisterEntry, BooksWritten
<1>3. CASE HandleSpawnReply
  <2>1. PICK e \in StubPidData : /\ e.external = ext[job.of]
                                 /\ stub_pids_data' = [stub_pids_data EXCEPT ![pid[job.of]] = e]
    BY <1>3, ReplyEntry
  <2> QED
    BY <1>3, <2>1, ReplyEntry, BooksWritten DEF Over
<1>4. CASE HandleSpawnReplyError
  BY <1>4, ErrorEntry, BooksWritten DEF Over
<1>5. CASE HandleSpawnStarted
  <2>1. CASE UNCHANGED stub_pids_data
    BY <1>5, <2>1, StartedEntry
    DEF BooksOK, Registered, Entry, Pending, OnBooks, Registering, HandedOn
  <2>2. CASE ~UNCHANGED stub_pids_data
    <3>1. PICK e \in StubPidData : /\ e.external = ext[job.of]
                                   /\ stub_pids_data' = [stub_pids_data EXCEPT ![pid[job.of]] = e]
      BY <1>5, <2>2, StartedEntry
    <3>2. /\ job.of \in Stub /\ request[job.of] = "done" /\ pid[job.of] \in StubPid
          /\ UNCHANGED <<pid, ext>> /\ bus = "handle" /\ bus' = "idle"
          /\ request' = request
      BY <1>5, <2>2, StartedEntry
    <3>3. request' = [request EXCEPT ![job.of] = "done"] /\ ext[job.of] # None
      BY <3>2 DEF TypeOK, BooksOK
    <3> QED
      BY <3>1, <3>2, <3>3, BooksWritten DEF Over
  <2> QED
    BY <2>1, <2>2
<1>6. CASE ~RegisterStub /\ ~HandleSpawnReply /\ ~HandleSpawnReplyError /\ ~HandleSpawnStarted
  <2>1. UNCHANGED stub_pids_data /\ \A s \in Stub : RequestMoves(s)
    BY <1>6, EntriesKept, RequestStep
  <2>2. ASSUME NEW s \in Stub, OnBooks(s)'
        PROVE  OnBooks(s) /\ pid'[s] = pid[s]
    <3>1. OnBooks(s)
      BY <2>1, <2>2 DEF RequestMoves
    <3> QED
      BY <1>1, <3>1, PidsKept DEF OnBooks
  <2>3. ASSUME NEW s \in Stub
        PROVE  /\ Pending(s)' => Registered(pid[s])' /\ Entry(s)'.external = None
               /\ request'[s] = "done"   => /\ Registered(pid[s])'
                                            /\ Entry(s)'.external = ext'[s] /\ ext'[s] # None
    <3>1. Pending(s)' => Pending(s)
      BY <2>1, <2>2 DEF RequestMoves, Pending, OnBooks
    <3>2. request'[s] = "done" => request[s] = "done"
      BY <2>1 DEF RequestMoves, Untaken
    <3>3. Pending(s)' => pid'[s] = pid[s]
      BY <2>2 DEF Pending
    <3>4. request[s] = "done" => pid'[s] = pid[s] /\ ext'[s] = ext[s] /\ ext[s] # None
      BY <1>1, PidsKept DEF Settles, BooksOK
    <3> QED
      BY <2>1, <3>1, <3>2, <3>3, <3>4 DEF BooksOK, Registered, Entry
  <2>4. ASSUME NEW s \in Stub, request'[s] = "failed"
        PROVE  ~Registered(pid[s])' \/ HandedOn(s)'
    <3>1. request[s] = "failed"
      BY <2>1, <2>4 DEF RequestMoves, Untaken
    <3>2. pid'[s] = pid[s]
      BY <1>1, <3>1, PidsKept
    <3>3. ASSUME NEW x \in Stub, x # s, pid[x] = pid[s], OnBooks(x), request[x] # "failed"
          PROVE  HandedOn(s)'
      <4>1. OnBooks(x)' /\ request'[x] # "failed"
        BY <2>1, <3>3 DEF RequestMoves
      <4>2. pid'[x] = pid[x]
        BY <2>2, <4>1
      <4> QED
        BY <3>2, <3>3, <4>1, <4>2 DEF HandedOn
    <3> QED
      BY <2>1, <3>1, <3>2, <3>3 DEF BooksOK, Registered, HandedOn
  <2> QED
    BY <2>3, <2>4 DEF BooksOK, Entry
<1> QED
  BY <1>2, <1>3, <1>4, <1>5, <1>6

(* Every step keeps timeouts single: only CallTimesOut sends one, and a     *)
(* call expires once.                                                       *)
LEMMA ExpiredOnceStep ==
  ASSUME TypeOK, IInv, ExpiredOnce, [Next]_vars
  PROVE  ExpiredOnce'
<1> DEFINE Expires(s) == request[s] = "expired" => request'[s] = "expired"
<1>1. \A i \in 1..Len(inbox) :
        /\ inbox[i] \in Message
        /\ inbox[i].type = "timeout" =>
             inbox[i].of \in Stub /\ InInbox("timeout", inbox[i].of)
  <2>1. \A i \in 1..Len(inbox) : inbox[i] \in Message
    BY ElementOfSeq DEF TypeOK
  <2> QED
    BY <2>1 DEF Message, InInbox
<1>2. ASSUME UNCHANGED inbox, \A s \in Stub : Expires(s),
             UNCHANGED <<bus, job>> \/ bus' # "handle"
      PROVE  ExpiredOnce'
  BY <1>1, <1>2 DEF ExpiredOnce, InHand, InInbox
<1>3. ASSUME NEW m \in Message, inbox' = Append(inbox, m), UNCHANGED <<bus, job>>,
             \A s \in Stub : Expires(s),
             m.type = "timeout" => request[m.of] = "called" /\ request'[m.of] = "expired"
      PROVE  ExpiredOnce'
  <2>1. /\ Len(inbox) \in Nat
        /\ \A i \in 1..Len(inbox') :
             \/ i \in 1..Len(inbox) /\ inbox'[i] = inbox[i]
             \/ i = Len(inbox) + 1 /\ inbox'[i] = m
    BY <1>3, Sent, LenProperties DEF TypeOK
  <2>2. ASSUME NEW i \in 1..Len(inbox'), inbox'[i].type = "timeout"
        PROVE  /\ request'[inbox'[i].of] = "expired"
               /\ \A j \in 1..Len(inbox') :
                    inbox'[j].type = "timeout" /\ inbox'[j].of = inbox'[i].of => j = i
    BY <1>1, <1>3, <2>1, <2>2 DEF ExpiredOnce
  <2>3. ASSUME NEW s \in Stub, InHand("timeout", s)'
        PROVE  request'[s] = "expired" /\ ~InInbox("timeout", s)'
    <3>1. InHand("timeout", s) /\ request[s] = "expired" /\ ~InInbox("timeout", s)
      BY <1>3, <2>3 DEF InHand, ExpiredOnce
    <3> QED
      BY <1>3, <2>1, <3>1 DEF InInbox
  <2> QED
    BY <2>2, <2>3 DEF ExpiredOnce
<1>4. ASSUME NEW s \in Stub, CallTimesOut(s) PROVE ExpiredOnce'
  <2> DEFINE m == [type |-> "timeout", of |-> s, ext |-> None]
  <2>1. m \in Message /\ m.type = "timeout" /\ m.of = s
    BY DEF Message
  <2>2. request[s] = "called" /\ request' = [request EXCEPT ![s] = "expired"]
    BY <1>4 DEF CallTimesOut
  <2>3. inbox' = Append(inbox, m) /\ UNCHANGED <<bus, job>>
    BY <1>4 DEF CallTimesOut, Send
  <2> HIDE DEF m
  <2> QED
    BY <1>3, <2>1, <2>2, <2>3 DEF TypeOK
<1>5. ASSUME NEW m \in Message, m.type # "timeout", inbox' = Append(inbox, m),
             UNCHANGED <<bus, job, request>>
      PROVE  ExpiredOnce'
  BY <1>3, <1>5
<1>6. ASSUME NEW s \in Stub, NEW e \in ExternalPid, PortalSpawns(s, e) PROVE ExpiredOnce'
  <2>1. [type |-> "reply", of |-> s, ext |-> e] \in Message
    BY DEF Message
  <2> QED
    BY <1>5, <1>6, <2>1 DEF PortalSpawns, Send
<1>7. ASSUME NEW s \in Stub, PortalRefuses(s) PROVE ExpiredOnce'
  <2>1. [type |-> "reply", of |-> s, ext |-> None] \in Message
    BY DEF Message
  <2> QED
    BY <1>5, <1>7, <2>1 DEF PortalRefuses, Send
<1>8. ASSUME NEW s \in Stub, NEW type \in {"started", "exited"}, child[s] \in ProcessRunning,
             Send(type, s, ext[s]), UNCHANGED <<bus, job, request>>
      PROVE  ExpiredOnce'
  <2>1. [type |-> type, of |-> s, ext |-> ext[s]] \in Message
    BY <1>8, NoneAssumption DEF Message, TypeOK
  <2> QED
    BY <1>5, <1>8, <2>1 DEF Send
<1>9. ASSUME NEW s \in Stub, PortalStarted(s) \/ PortalExited(s) PROVE ExpiredOnce'
  BY <1>8, <1>9 DEF PortalStarted, PortalExited, ProcessRunning
<1>10. ASSUME NEW t \in Killer, PortalSignalled(t) PROVE ExpiredOnce'
  <2>1. [type |-> "signalled", of |-> t, ext |-> None] \in Message
    BY DEF Message, Thread
  <2> QED
    BY <1>5, <1>10, <2>1 DEF PortalSignalled, Send
<1>11. CASE DispatchReply \/ DispatchEvent \/ DispatchSignalled
  <2>1. /\ 1 \in 1..Len(inbox) /\ Head(inbox) = inbox[1] /\ Len(inbox) \in Nat
        /\ \A i \in 1..Len(inbox') : i + 1 \in 1..Len(inbox) /\ inbox'[i] = inbox[i + 1]
    BY <1>11, Taken, LenProperties DEF DispatchReply, DispatchEvent, DispatchSignalled, TypeOK
  <2>2. bus = "idle" /\ (bus' = "handle" => job' = inbox[1])
    BY <1>11, <2>1 DEF DispatchReply, DispatchEvent, DispatchSignalled
  <2>3. \A s \in Stub : Expires(s)
    BY <1>11, <2>1 DEF DispatchReply, DispatchEvent, DispatchSignalled, AnswersPendingCall, TypeOK
  <2>4. ASSUME NEW i \in 1..Len(inbox'), inbox'[i].type = "timeout"
        PROVE  /\ request'[inbox'[i].of] = "expired"
               /\ \A j \in 1..Len(inbox') :
                    inbox'[j].type = "timeout" /\ inbox'[j].of = inbox'[i].of => j = i
    <3>1. i + 1 \in 1..Len(inbox) /\ inbox'[i] = inbox[i + 1]
      BY <2>1
    <3>2. request'[inbox'[i].of] = "expired"
      BY <1>1, <2>3, <2>4, <3>1 DEF ExpiredOnce
    <3>3. ASSUME NEW j \in 1..Len(inbox'), inbox'[j].type = "timeout", inbox'[j].of = inbox'[i].of
          PROVE  j = i
      <4>1. j + 1 \in 1..Len(inbox) /\ inbox'[j] = inbox[j + 1]
        BY <2>1
      <4>2. j + 1 = i + 1
        BY <2>4, <3>1, <3>3, <4>1 DEF ExpiredOnce
      <4> QED
        BY <4>2
    <3> QED
      BY <3>2, <3>3
  <2>5. ASSUME NEW s \in Stub, InHand("timeout", s)'
        PROVE  request'[s] = "expired" /\ ~InInbox("timeout", s)'
    <3>1. inbox[1].type = "timeout" /\ inbox[1].of = s
      BY <2>2, <2>5 DEF InHand
    <3>2. request'[s] = "expired"
      BY <2>1, <2>3, <3>1 DEF ExpiredOnce
    <3>3. ASSUME NEW i \in 1..Len(inbox'), inbox'[i].type = "timeout", inbox'[i].of = s
          PROVE  FALSE
      <4>1. i + 1 \in 1..Len(inbox) /\ inbox'[i] = inbox[i + 1]
        BY <2>1
      <4>2. i + 1 = 1
        BY <2>1, <3>1, <3>3, <4>1 DEF ExpiredOnce
      <4> QED
        BY <4>2
    <3> QED
      BY <3>2, <3>3 DEF InInbox
  <2> QED
    BY <2>4, <2>5 DEF ExpiredOnce
<1>12. CASE HandleSpawnReplyError
  <2>1. bus = "handle" /\ bus' = "idle" /\ UNCHANGED inbox
    BY <1>12 DEF HandleSpawnReplyError
  <2>2. /\ job.of \in Stub /\ request' = [request EXCEPT ![job.of] = "failed"]
        /\ request[job.of] = "replied" \/ ~InInbox("timeout", job.of)
    BY <1>12, JobOf DEF IInv, HandleSpawnReplyError, ExpiredOnce, InHand
  <2>3. ASSUME NEW i \in 1..Len(inbox), inbox[i].type = "timeout"
        PROVE  request'[inbox[i].of] = "expired"
    BY <1>1, <2>2, <2>3 DEF ExpiredOnce, TypeOK
  <2> QED
    BY <2>1, <2>3 DEF ExpiredOnce, InHand
<1>13. CASE RegisterStub \/ HandleSpawnReply
  <2>1. UNCHANGED inbox /\ bus' = "idle"
    BY <1>13 DEF RegisterStub, HandleSpawnReply
  <2>2. \A s \in Stub : Expires(s)
    BY <1>13, JobOf DEF IInv, RegisterStub, HandleSpawnReply, TypeOK
  <2> QED
    BY <1>2, <2>1, <2>2
<1>14. ASSUME ~RegisterStub, ~HandleSpawnReply, ~HandleSpawnReplyError PROVE \A s \in Stub : Expires(s)
  <2>1. ASSUME NEW s \in Stub, request[s] = "expired" PROVE request'[s] = "expired"
    <3>1. OnBooks(s)
      BY <2>1, RegisteringOK DEF OnBooks
    <3> QED
      BY <1>14, <2>1, <3>1, RequestStep DEF RequestMoves
  <2> QED
    BY <2>1
<1>15. CASE UNCHANGED vars
  BY <1>2, <1>15 DEF vars
<1> HIDE DEF Expires
<1> QED
  BY <1>2, <1>4, <1>6, <1>7, <1>9, <1>10, <1>11, <1>12, <1>13, <1>14, <1>15
  DEF Next, StubStep, BusStep, PortalStep, CallEnds, AppStep, WaiterContinues, KillerContinues,
      OpenSpawnRequest, SendSpawnRequest, StubFails, ReadExitReply, HandleSpawnRequest,
      RejectSpawnRequest, SendSpawn, FulfillSpawnRequest, SendSpawnSignal, HandleSpawnStarted,
      HandleSpawnExited, HandlerAborts, Fork, GetExitStatus, EvaluatePredicate,
      WaitForExitStatus, WakeUp, SpuriousWakeUp, KernelWaitpid, SendSignal, CallSpawnSignal,
      SendSignalReturns, KernelKill

(* A process stays refused, and stays one that has started.                 *)
ChildKept(s) ==
  /\ child[s] = "refused" => child'[s] = "refused"
  /\ child[s] \in {"started", "exited"} => child'[s] \in {"started", "exited"}

LEMMA ChildStays ==
  ASSUME TypeOK, IInv, [Next]_vars
  PROVE  \A s \in Stub : ChildKept(s)
<1>1. CASE UNCHANGED child
  BY <1>1 DEF ChildKept
<1>2. ASSUME NEW x \in Stub, SendSpawn(x) PROVE \A s \in Stub : ChildKept(s)
  BY <1>2 DEF SendSpawn, IInv, PidsGiven, TypeOK, ChildKept
<1>3. ASSUME NEW x \in Stub, PortalRefuses(x) \/ PortalStarted(x) PROVE \A s \in Stub : ChildKept(s)
  BY <1>3 DEF PortalRefuses, PortalStarted, TypeOK, ChildKept
<1>4. ASSUME NEW x \in Stub, PortalExited(x) PROVE \A s \in Stub : ChildKept(s)
  BY <1>4 DEF PortalExited, ProcessRunning, TypeOK, ChildKept
<1>5. ASSUME NEW x \in Stub, NEW e \in ExternalPid, PortalSpawns(x, e)
      PROVE  \A s \in Stub : ChildKept(s)
  BY <1>5 DEF PortalSpawns, TypeOK, ChildKept
<1>6. CASE UNCHANGED vars
  BY <1>1, <1>6 DEF vars
<1> QED
  BY <1>1, <1>2, <1>3, <1>4, <1>5, <1>6
  DEF Next, StubStep, BusStep, PortalStep, CallEnds, AppStep, WaiterContinues, KillerContinues,
      OpenSpawnRequest, SendSpawnRequest, StubFails, ReadExitReply, HandleSpawnRequest,
      RejectSpawnRequest, FulfillSpawnRequest, RegisterStub, SendSpawnSignal, DispatchReply,
      DispatchEvent, DispatchSignalled, HandleSpawnReplyError, HandleSpawnReply,
      HandleSpawnStarted, HandleSpawnExited, HandlerAborts, CallTimesOut, PortalSignalled,
      Fork, GetExitStatus, EvaluatePredicate, WaitForExitStatus, WakeUp, SpuriousWakeUp,
      KernelWaitpid, SendSignal, CallSpawnSignal, SendSignalReturns, KernelKill, portalVars

(* Every step keeps the portal's messages true.                             *)
LEMMA PortalTrueStep ==
  ASSUME TypeOK, IInv, PortalTrue, [Next]_vars
  PROVE  PortalTrue'
<1>1. \A s \in Stub : ChildKept(s)
  BY ChildStays
<1>2. ASSUME NEW m \in Message, MessageTrue(m) PROVE MessageTrue(m)'
  <2>1. m.type \in {"reply", "started"} => m.of \in Stub
    BY DEF Message
  <2> QED
    BY <1>1, <1>2, <2>1 DEF MessageTrue, ChildKept
<1>3. ASSUME NEW i \in 1..Len(inbox)
      PROVE  \E m \in Message : m = inbox[i] /\ MessageTrue(m) /\ MessageTrue(m)'
  <2>1. inbox[i] \in Message /\ MessageTrue(inbox[i])
    BY ElementOfSeq DEF TypeOK, PortalTrue
  <2>2. PICK m \in Message : m = inbox[i]
    BY <2>1
  <2> QED
    BY <1>2, <2>1, <2>2
<1>4. Len(inbox) \in Nat
  BY LenProperties DEF TypeOK
<1> DEFINE InboxTrue == \A i \in 1..Len(inbox) : MessageTrue(inbox[i])
           JobTrue   == bus = "handle" => MessageTrue(job)
<1>5. ASSUME UNCHANGED inbox PROVE InboxTrue'
  BY <1>3, <1>5 DEF MessageTrue
<1>6. ASSUME inbox # <<>>, inbox' = Tail(inbox) PROVE InboxTrue'
  <2>1. /\ Len(inbox') = Len(inbox) - 1
        /\ \A i \in 1..Len(inbox') : inbox'[i] = inbox[i + 1]
    BY <1>6, HeadTailProperties DEF TypeOK
  <2>2. ASSUME NEW i \in 1..Len(inbox') PROVE MessageTrue(inbox[i])'
    <3>1. i + 1 \in 1..Len(inbox) /\ inbox'[i] = inbox[i + 1]
      BY <1>4, <2>1
    <3>2. PICK m \in Message : m = inbox[i + 1] /\ MessageTrue(m)'
      BY <1>3, <3>1
    <3> QED
      BY <3>1, <3>2 DEF MessageTrue
  <2> QED
    BY <2>2
<1>7. ASSUME NEW m \in Message, inbox' = Append(inbox, m), MessageTrue(m)' PROVE InboxTrue'
  <2>1. /\ Len(inbox') = Len(inbox) + 1
        /\ \A i \in 1..Len(inbox) : inbox'[i] = inbox[i]
        /\ inbox'[Len(inbox) + 1] = m
    BY <1>7, AppendProperties DEF TypeOK
  <2>2. ASSUME NEW i \in 1..Len(inbox') PROVE MessageTrue(inbox[i])'
    <3>1. CASE i \in 1..Len(inbox)
      BY <1>3, <2>1, <3>1 DEF MessageTrue
    <3>2. CASE i = Len(inbox) + 1
      BY <1>7, <2>1, <3>2 DEF MessageTrue
    <3> QED
      BY <1>4, <2>1, <3>1, <3>2
  <2> QED
    BY <2>2
<1>8. ASSUME UNCHANGED <<bus, job>> PROVE JobTrue'
  <2> SUFFICES ASSUME bus = "handle" PROVE MessageTrue(job)'
    BY <1>8
  <2>1. job \in Message /\ MessageTrue(job)
    BY DEF IInv, JobOK, PortalTrue
  <2>2. PICK m \in Message : m = job
    BY <2>1
  <2> QED
    BY <1>2, <1>8, <2>1, <2>2 DEF MessageTrue
<1>9. bus' # "handle" => JobTrue'
  OBVIOUS
<1>10. CASE DispatchReply \/ DispatchEvent
  <2>1. inbox # <<>> /\ inbox' = Tail(inbox)
    BY <1>10 DEF DispatchReply, DispatchEvent
  <2>2. PICK m \in Message : m = Head(inbox) /\ MessageTrue(m)'
    <3>1. Head(inbox) = inbox[1] /\ 1 \in 1..Len(inbox)
      BY <2>1, HeadTailProperties, LenProperties, EmptySeq DEF TypeOK
    <3> QED
      BY <1>3, <3>1
  <2>3. job' = m \/ bus' # "handle"
    BY <1>10, <2>2 DEF DispatchReply, DispatchEvent
  <2>4. JobTrue'
    BY <2>2, <2>3 DEF MessageTrue
  <2> QED
    BY <1>6, <2>1, <2>4 DEF PortalTrue
<1>11. CASE DispatchSignalled
  BY <1>6, <1>8, <1>11 DEF DispatchSignalled, PortalTrue
<1>12. ASSUME NEW s \in Stub, NEW e \in ExternalPid, PortalSpawns(s, e) PROVE PortalTrue'
  <2> DEFINE m == [type |-> "reply", of |-> s, ext |-> e]
  <2>1. m \in Message /\ MessageTrue(m)'
    BY NoneAssumption DEF Message, MessageTrue
  <2> QED
    BY <1>7, <1>8, <1>12, <2>1 DEF PortalSpawns, Send, PortalTrue
<1>13. ASSUME NEW s \in Stub, PortalRefuses(s) PROVE PortalTrue'
  <2> DEFINE m == [type |-> "reply", of |-> s, ext |-> None]
  <2>1. m \in Message /\ MessageTrue(m)'
    BY <1>13 DEF PortalRefuses, Message, MessageTrue, TypeOK
  <2> QED
    BY <1>7, <1>8, <1>13, <2>1 DEF PortalRefuses, Send, PortalTrue
<1>14. ASSUME NEW s \in Stub, PortalStarted(s) PROVE PortalTrue'
  <2> DEFINE m == [type |-> "started", of |-> s, ext |-> ext[s]]
  <2>1. m \in Message /\ MessageTrue(m)'
    BY <1>14, NoneAssumption DEF PortalStarted, Message, MessageTrue, TypeOK, ProcessRunning
  <2> QED
    BY <1>7, <1>8, <1>14, <2>1 DEF PortalStarted, Send, PortalTrue
<1>15. ASSUME NEW s \in Stub, PortalExited(s) PROVE PortalTrue'
  <2> DEFINE m == [type |-> "exited", of |-> s, ext |-> ext[s]]
  <2>1. m \in Message /\ MessageTrue(m)'
    BY <1>15, NoneAssumption DEF PortalExited, Message, MessageTrue, TypeOK, ProcessRunning
  <2> QED
    BY <1>7, <1>8, <1>15, <2>1 DEF PortalExited, Send, PortalTrue
<1>16. ASSUME NEW s \in Stub, CallTimesOut(s) PROVE PortalTrue'
  <2> DEFINE m == [type |-> "timeout", of |-> s, ext |-> None]
  <2>1. m \in Message /\ MessageTrue(m)'
    BY DEF Message, MessageTrue
  <2> QED
    BY <1>7, <1>8, <1>16, <2>1 DEF CallTimesOut, Send, PortalTrue
<1>17. ASSUME NEW t \in Killer, PortalSignalled(t) PROVE PortalTrue'
  <2> DEFINE m == [type |-> "signalled", of |-> t, ext |-> None]
  <2>1. m \in Message /\ MessageTrue(m)'
    BY DEF Message, MessageTrue, Thread
  <2> QED
    BY <1>7, <1>8, <1>17, <2>1 DEF PortalSignalled, Send, PortalTrue
<1>18. ASSUME UNCHANGED inbox, UNCHANGED <<bus, job>> \/ bus' # "handle" PROVE PortalTrue'
  BY <1>5, <1>8, <1>9, <1>18 DEF PortalTrue
<1>19. CASE UNCHANGED vars
  BY <1>18, <1>19 DEF vars
<1> HIDE DEF InboxTrue, JobTrue
<1> QED
  BY <1>10, <1>11, <1>12, <1>13, <1>14, <1>15, <1>16, <1>17, <1>18, <1>19
  DEF Next, StubStep, BusStep, PortalStep, CallEnds, AppStep, WaiterContinues, KillerContinues,
      OpenSpawnRequest, SendSpawnRequest, StubFails, ReadExitReply, HandleSpawnRequest,
      RejectSpawnRequest, SendSpawn, FulfillSpawnRequest, RegisterStub, SendSpawnSignal,
      HandleSpawnReplyError, HandleSpawnReply, HandleSpawnStarted, HandleSpawnExited,
      HandlerAborts, Fork, GetExitStatus, EvaluatePredicate, WaitForExitStatus, WakeUp,
      SpuriousWakeUp, KernelWaitpid, SendSignal, CallSpawnSignal, SendSignalReturns, KernelKill

(* No process runs for a request that was dropped.                          *)
DroppedOK == \A s \in Stub : request[s] = "dropped" => child[s] = "none"

LEMMA DroppedStep ==
  ASSUME TypeOK, IInv, DroppedOK, [Next]_vars
  PROVE  DroppedOK'
<1>1. CASE UNCHANGED <<request, child>>
  BY <1>1 DEF DroppedOK
<1>2. ASSUME NEW x \in Stub, NEW v, request' = [request EXCEPT ![x] = v], UNCHANGED child,
             v = "dropped" => child[x] = "none"
      PROVE  DroppedOK'
  BY <1>2 DEF DroppedOK, TypeOK
<1>3. ASSUME NEW x \in Stub, OpenSpawnRequest(x) \/ CallTimesOut(x) PROVE DroppedOK'
  BY <1>2, <1>3 DEF OpenSpawnRequest, CallTimesOut, portalVars
<1>4. ASSUME NEW x \in Stub, HandleSpawnRequest(x) \/ RejectSpawnRequest(x) PROVE DroppedOK'
  BY <1>2, <1>4 DEF HandleSpawnRequest, RejectSpawnRequest, portalVars, IInv, PidsGiven
<1>5. ASSUME NEW x \in Stub, SendSpawn(x) PROVE DroppedOK'
  BY <1>5 DEF SendSpawn, DroppedOK, TypeOK
<1>6. ASSUME NEW ok \in BOOLEAN, FulfillSpawnRequest(ok) PROVE DroppedOK'
  BY <1>1, <1>2, <1>6, JobOf DEF FulfillSpawnRequest, portalVars, IInv, PidsGiven
<1>7. CASE RegisterStub \/ HandleSpawnReply \/ HandleSpawnReplyError
  BY <1>1, <1>2, <1>7, JobOf DEF IInv, RegisterStub, HandleSpawnReply, HandleSpawnReplyError, portalVars
<1>8. CASE DispatchReply
  <2>1. Head(inbox).of \in Stub
    BY <1>8, HeadOK DEF IInv, DispatchReply, Message
  <2> QED
    BY <1>1, <1>2, <1>8, <2>1 DEF DispatchReply, portalVars
<1>9. ASSUME NEW x \in Stub, PortalRefuses(x) \/ PortalStarted(x) \/ PortalExited(x)
                             \/ \E e \in ExternalPid : PortalSpawns(x, e)
      PROVE  DroppedOK'
  <2>1. child[x] # "none" /\ UNCHANGED request /\ \A s \in Stub : s # x => child'[s] = child[s]
    BY <1>9 DEF PortalRefuses, PortalStarted, PortalExited, PortalSpawns, ProcessRunning, TypeOK
  <2> QED
    BY <2>1 DEF DroppedOK
<1>10. CASE UNCHANGED vars
  BY <1>1, <1>10 DEF vars
<1> QED
  BY <1>1, <1>3, <1>4, <1>5, <1>6, <1>7, <1>8, <1>9, <1>10
  DEF Next, StubStep, BusStep, PortalStep, CallEnds, AppStep, WaiterContinues, KillerContinues,
      SendSpawnRequest, StubFails, ReadExitReply, SendSpawnSignal, DispatchEvent,
      DispatchSignalled, HandleSpawnStarted, HandleSpawnExited, HandlerAborts,
      PortalSignalled, Fork, GetExitStatus, EvaluatePredicate, WaitForExitStatus, WakeUp,
      SpuriousWakeUp, KernelWaitpid, SendSignal, CallSpawnSignal, SendSignalReturns,
      KernelKill, portalVars

-----------------------------------------------------------------------------
(* The simulation: each step is one of ProcessTable's or leaves the books.  *)

(* The books change at one stub, or not at all.                             *)
LEMMA BooksSame == (\A s \in Stub : Books'[s] = Books[s]) => UNCHANGED Books
  BY DEF Books

(* A change at one stub is an update of the function.                       *)
LEMMA BooksUpdate ==
  ASSUME NEW x \in Stub, NEW v, Books'[x] = v, \A s \in Stub : s # x => Books'[s] = Books[s]
  PROVE  Books' = [Books EXCEPT ![x] = v]
  BY DEF Books

(* Steps that write no entry leave the books alone.                         *)
LEMMA BooksKept ==
  ASSUME TypeOK, NotifyExitInvalid, IInv, KnownShape, KnownShape', [Next]_vars,
         ~RegisterStub, ~HandleSpawnReply, ~HandleSpawnReplyError, ~HandleSpawnStarted
  PROVE  UNCHANGED Books
<1>1. UNCHANGED stub_pids_data /\ Settles /\ \A s \in Stub : RequestMoves(s)
  BY EntriesKept, RequestStep, SettleStep
<1>2. ASSUME NEW s \in Stub PROVE Books'[s] = Books[s]
  <2>1. RequestMoves(s)
    BY <1>1
  <2>2. CASE ~OnBooks(s)
    BY <2>1, <2>2 DEF RequestMoves, KnownShape
  <2>3. CASE Pending(s)
    <3>1. Pending(s)'
      BY <2>1, <2>3 DEF RequestMoves, Pending
    <3> QED
      BY <2>3, <3>1 DEF KnownShape
  <2>4. CASE OnBooks(s) /\ request[s] = "failed"
    BY <2>1, <2>4 DEF RequestMoves, KnownShape
  <2>5. CASE OnBooks(s) /\ request[s] = "done"
    <3>1. request'[s] = "done"
      BY <2>1, <2>5 DEF RequestMoves
    <3>2. Entry(s)'.internal = Entry(s).internal
      BY <1>1, <2>5, PidsKept DEF Entry
    <3> QED
      BY <2>5, <3>1, <3>2 DEF KnownShape, Entry
  <2> QED
    BY <2>2, <2>3, <2>4, <2>5 DEF TypeOK, OnBooks, Pending
<1> QED
  BY <1>2, BooksSame

(* A step that writes the entry of one stub changes the books there only.   *)
LEMMA BooksElsewhere ==
  ASSUME TypeOK, IInv, KnownShape, KnownShape', UNCHANGED pid,
         NEW x \in Stub, NEW e, NEW v, pid[x] \in StubPid, ~Over(x),
         bus = "register" => job.of = x, bus' = "idle",
         stub_pids_data' = [stub_pids_data EXCEPT ![pid[x]] = e],
         request' = [request EXCEPT ![x] = v]
  PROVE  /\ request'[x] = v /\ Entry(x)' = e
         /\ \A s \in Stub : s # x => Books'[s] = Books[s]
<1>1. /\ stub_pids_data'[pid'[x]] = e
      /\ \A s \in Stub : s # x /\ pid[s] # None /\ ~Over(s) =>
           stub_pids_data'[pid'[s]] = stub_pids_data[pid[s]]
  BY OneWritten, NoneAssumption
<1>2. request'[x] = v /\ \A s \in Stub : s # x => request'[s] = request[s]
  BY DEF TypeOK
<1>3. ASSUME NEW s \in Stub, s # x PROVE Books'[s] = Books[s]
  <2>1. request'[s] = request[s] /\ OnBooks(s)' = OnBooks(s) /\ Pending(s)' = Pending(s)
    BY <1>2, <1>3 DEF OnBooks, Pending, Registering
  <2>2. request[s] = "done" => Entry(s)' = Entry(s)
    BY <1>1, <1>3, NoneAssumption DEF IInv, PidsGiven, Entry, Over
  <2>3. \/ ~OnBooks(s) \/ Pending(s)
        \/ request[s] \in {"failed", "done"}
    BY DEF TypeOK, OnBooks, Pending
  <2> QED
    BY <2>1, <2>2, <2>3 DEF KnownShape
<1> QED
  BY <1>1, <1>2, <1>3 DEF Entry

(* Every step of the supervisor is one of the process table, or none.       *)
LEMMA Simulation ==
  ASSUME ~ReuseHeld, TypeOK, NotifyExitInvalid, IInv, BooksOK, PortalTrue, ExpiredOnce,
         DroppedOK, KnownShape, KnownShape', [Next]_vars
  PROVE  Table!Next \/ UNCHANGED Table!vars
<1> USE DEF Table!vars
<1>1. CASE RegisterStub
  <2>0. PICK x \in Stub : x = job.of
    BY <1>1, RegisterEntry
  <2>1. /\ x \in Stub /\ request[x] = "queued" /\ pid[x] \in StubPid
        /\ UNCHANGED <<pid, request, child, ext>>
        /\ bus = "register" /\ job.of = x /\ bus' = "idle"
    BY <1>1, <2>0, RegisterEntry
  <2>1a. request' = [request EXCEPT ![x] = "queued"] /\ ~Over(x)
    BY <2>1 DEF TypeOK, Over
  <2>2. PICK e \in StubPidData : stub_pids_data' = [stub_pids_data EXCEPT ![pid[x]] = e]
    BY <1>1, <2>0, RegisterEntry
  <2>3. request'[x] = "queued" /\ \A s \in Stub : s # x => Books'[s] = Books[s]
    BY <2>1, <2>1a, <2>2, BooksElsewhere
  <2>4. Books[x] = "absent" /\ Books'[x] = "pending"
    BY <2>1, <2>3 DEF KnownShape, OnBooks, Pending, Registering
  <2>5. Books' = [Books EXCEPT ![x] = "pending"]
    BY <2>1, <2>3, <2>4, BooksUpdate
  <2>6. UNCHANGED <<FailedRequests, StartedProcesses>>
    BY <2>1 DEF FailedRequests, StartedProcesses, TypeOK
  <2> QED
    BY <2>1, <2>4, <2>5, <2>6 DEF Table!Next, Table!Add
<1>2. CASE HandleSpawnReply
  <2>0. PICK x \in Stub : x = job.of
    BY <1>2, ReplyEntry
  <2>1. /\ x \in Stub /\ request[x] = "replied" /\ pid[x] \in StubPid /\ ext[x] # None
        /\ request' = [request EXCEPT ![x] = "done"]
        /\ UNCHANGED <<pid, child, ext>>
        /\ bus = "handle" /\ bus' = "idle" /\ ~Over(x)
    BY <1>2, <2>0, ReplyEntry DEF Over
  <2>2. PICK e \in StubPidData : /\ e.internal = None
                                 /\ stub_pids_data' = [stub_pids_data EXCEPT ![pid[x]] = e]
    BY <1>2, <2>0, ReplyEntry
  <2>3. /\ request'[x] = "done" /\ Entry(x)' = e
        /\ \A s \in Stub : s # x => Books'[s] = Books[s]
    BY <2>1, <2>2, BooksElsewhere
  <2>4. Books[x] = "pending" /\ Books'[x] = "known"
    BY <2>1, <2>2, <2>3, NoneAssumption DEF KnownShape, OnBooks, Pending, Registering
  <2>5. Books' = [Books EXCEPT ![x] = "known"]
    BY <2>1, <2>3, <2>4, BooksUpdate
  <2>6. UNCHANGED <<FailedRequests, StartedProcesses>>
    BY <2>1 DEF FailedRequests, StartedProcesses, TypeOK
  <2>7. x \notin FailedRequests
    BY <2>1 DEF IInv, PidsGiven, ProcessRunning, ProcessEnded, FailedRequests
  <2> QED
    BY <2>1, <2>4, <2>5, <2>6, <2>7 DEF Table!Next, Table!Learn
<1>3. CASE HandleSpawnReplyError
  <2> DEFINE x == job.of
  <2>1. /\ x \in Stub /\ pid[x] \in StubPid
        /\ request[x] \in {"replied", "expired"}
        /\ x \in FailedRequests
        /\ stub_pids_data' = [stub_pids_data EXCEPT ![pid[x]] = None]
        /\ request' = [request EXCEPT ![x] = "failed"]
        /\ bus = "handle" /\ bus' = "idle" /\ ~Over(x)
        /\ UNCHANGED <<pid, child, ext>>
    BY <1>3, ErrorEntry DEF Over
  <2>2. request'[x] = "failed" /\ \A s \in Stub : s # x => Books'[s] = Books[s]
    BY <2>1, BooksElsewhere
  <2>3. Books[x] = "pending" /\ Books'[x] = "removed"
    BY <2>1, <2>2 DEF KnownShape, OnBooks, Pending, Registering
  <2>4. Books' = [Books EXCEPT ![x] = "removed"]
    BY <2>1, <2>2, <2>3, BooksUpdate
  <2>5. UNCHANGED <<FailedRequests, StartedProcesses>>
    BY <2>1 DEF FailedRequests, StartedProcesses, TypeOK
  <2> QED
    BY <2>1, <2>3, <2>4, <2>5 DEF Table!Next, Table!Remove
<1>4. CASE HandleSpawnStarted
  <2>1. UNCHANGED <<pid, request, child, ext>> /\ bus = "handle" /\ bus' = "idle"
    BY <1>4, StartedEntry
  <2>2. UNCHANGED <<FailedRequests, StartedProcesses>>
    BY <2>1 DEF FailedRequests, StartedProcesses
  <2>3. CASE UNCHANGED stub_pids_data
    <3>1. UNCHANGED Books
      BY <2>1, <2>3, BooksSame DEF Books, Known, Registered, OnBooks, Registering, HandedOn
    <3> QED
      BY <2>1, <2>2, <3>1
  <2>4. CASE ~UNCHANGED stub_pids_data
    <3>0. PICK x \in Stub : x = job.of
      BY <1>4, <2>4, StartedEntry
    <3>1. request[x] = "done" /\ pid[x] \in StubPid
      BY <1>4, <2>4, <3>0, StartedEntry
    <3>2. PICK e \in StubPidData : /\ e.internal = x
                                   /\ stub_pids_data' = [stub_pids_data EXCEPT ![pid[x]] = e]
      BY <1>4, <2>4, <3>0, StartedEntry
    <3>3. request' = [request EXCEPT ![x] = "done"] /\ ~Over(x)
      BY <2>1, <3>1 DEF TypeOK, Over
    <3>4. /\ request'[x] = "done" /\ Entry(x)' = e
          /\ \A s \in Stub : s # x => Books'[s] = Books[s]
      <4>1. pid[x] \in StubPid /\ UNCHANGED pid /\ (bus = "register" => job.of = x) /\ bus' = "idle"
        BY <2>1, <3>1
      <4>2. stub_pids_data' = [stub_pids_data EXCEPT ![pid[x]] = e]
        BY <3>2
      <4> QED
        BY <3>3, <4>1, <4>2, BooksElsewhere
    <3>5. Books'[x] = "started" /\ Books[x] \in {"known", "started"}
      BY <3>1, <3>2, <3>4 DEF KnownShape
    <3>6. Books' = [Books EXCEPT ![x] = "started"]
      BY <3>1, <3>4, <3>5, BooksUpdate
    <3>7. x \in StartedProcesses
      BY <1>4, <3>0, <3>1 DEF HandleSpawnStarted, PortalTrue, MessageTrue, StartedProcesses
    <3>8. CASE Books[x] = "known"
      BY <2>1, <2>2, <3>1, <3>6, <3>7, <3>8 DEF Table!Next, Table!Start
    <3>9. CASE Books[x] = "started"
      <4>1. UNCHANGED Books
        BY <3>1, <3>4, <3>5, <3>9, BooksSame
      <4> QED
        BY <2>1, <2>2, <4>1
    <3> QED
      BY <3>5, <3>8, <3>9
  <2> QED
    BY <2>3, <2>4
<1>5. CASE ~RegisterStub /\ ~HandleSpawnReply /\ ~HandleSpawnReplyError /\ ~HandleSpawnStarted
  <2>1. UNCHANGED Books /\ \A s \in Stub : RequestMoves(s)
    BY <1>5, BooksKept, RequestStep
  <2>2. ASSUME NEW x \in Stub, child[x] = "requested"
        PROVE  /\ \/ Books[x] = "pending"
                  \/ Books[x] = "removed" /\ request[x] = "failed"
               /\ ext[x] = None
    <3>1. ext[x] = None /\ request[x] \notin {"none", "asked", "taken", "queued", "dropped", "done"}
      BY <2>2 DEF IInv, PidsGiven, DroppedOK, BooksOK, ProcessRunning, ProcessEnded
    <3> QED
      BY <3>1, RegisteringOK DEF KnownShape, TypeOK, Pending, OnBooks
  <2>3. ASSUME NEW x \in Stub, NEW e \in ExternalPid, PortalSpawns(x, e) PROVE Table!Next
    <3>1. /\ Books[x] \in {"pending", "removed"} /\ ext[x] = None
          /\ ext' = [ext EXCEPT ![x] = e]
      BY <2>2, <2>3 DEF PortalSpawns
    <3>1a. ASSUME NEW s \in Stub, ext[s] = e PROVE Books[s] = "removed"
      <4>1. child[s] \in ProcessEnded /\ Over(s)
        BY <2>3, <3>1a DEF PortalSpawns
      <4>2. request[s] = "failed"
        BY <4>1 DEF Over, IInv, PidsGiven, DroppedOK, ProcessEnded
      <4> QED
        BY <4>2 DEF KnownShape
    <3>2. UNCHANGED <<FailedRequests, StartedProcesses>>
      BY <2>3 DEF PortalSpawns, FailedRequests, StartedProcesses, TypeOK
    <3> QED
      BY <2>1, <3>1, <3>1a, <3>2 DEF Table!Next, Table!Spawn
  <2>4. ASSUME NEW x \in Stub, PortalRefuses(x) PROVE Table!Next \/ UNCHANGED Table!vars
    <3>1. UNCHANGED <<ext, StartedProcesses>> /\ FailedRequests' = FailedRequests \cup {x}
      BY <2>4 DEF PortalRefuses, FailedRequests, StartedProcesses, TypeOK
    <3>2. Books[x] = "pending" \/ x \in FailedRequests
      BY <2>2, <2>4 DEF PortalRefuses, FailedRequests
    <3> QED
      BY <2>1, <3>1, <3>2 DEF Table!Next, Table!Fail
  <2>5. ASSUME NEW x \in Stub, CallTimesOut(x) PROVE Table!Next
    <3>1. UNCHANGED <<ext, StartedProcesses>> /\ FailedRequests' = FailedRequests \cup {x}
      BY <2>5 DEF CallTimesOut, FailedRequests, StartedProcesses, TypeOK, portalVars
    <3>2. Books[x] = "pending"
      BY <2>5, RegisteringOK DEF CallTimesOut, KnownShape, Pending, OnBooks
    <3> QED
      BY <2>1, <3>1, <3>2 DEF Table!Next, Table!Fail
  <2>6. ASSUME NEW x \in Stub, PortalStarted(x) PROVE Table!Next
    <3>1. UNCHANGED <<ext, FailedRequests>> /\ StartedProcesses' = StartedProcesses \cup {x}
      BY <2>6 DEF PortalStarted, FailedRequests, StartedProcesses, TypeOK
    <3>2. ext[x] # None
      BY <2>6 DEF PortalStarted, IInv, PidsGiven, ProcessRunning
    <3> QED
      BY <2>1, <3>1, <3>2 DEF Table!Next, Table!Begin
  <2>7. ASSUME NEW x \in Stub, PortalExited(x) \/ SendSpawn(x) PROVE UNCHANGED Table!vars
    <3>1. CASE PortalExited(x)
      BY <2>1, <3>1 DEF PortalExited, FailedRequests, StartedProcesses, TypeOK, ProcessRunning
    <3>2. CASE SendSpawn(x)
      <4>1. child[x] = "none"
        BY <3>2 DEF SendSpawn, IInv, PidsGiven
      <4> QED
        BY <2>1, <3>2, <4>1 DEF SendSpawn, FailedRequests, StartedProcesses, TypeOK
    <3> QED
      BY <2>7, <3>1, <3>2
  <2>8. CASE DispatchReply
    <3>1. Head(inbox).of \in Stub
      BY <2>8, HeadOK DEF IInv, DispatchReply, Message
    <3>2. UNCHANGED <<FailedRequests, StartedProcesses>>
      BY <2>8, <3>1 DEF DispatchReply, AnswersPendingCall, FailedRequests, StartedProcesses,
        TypeOK, portalVars
    <3> QED
      BY <2>1, <2>8, <3>2 DEF DispatchReply, portalVars
  <2>9. ASSUME UNCHANGED <<child, ext>>,
               \A s \in Stub : \/ request'[s] = request[s]
                               \/ {request[s], request'[s]} \cap {"expired", "failed"} = {}
        PROVE  UNCHANGED Table!vars
    <3>1. UNCHANGED <<FailedRequests, StartedProcesses>>
      BY <2>9 DEF FailedRequests, StartedProcesses
    <3> QED
      BY <2>1, <2>9, <3>1
  <2>10. CASE UNCHANGED <<child, ext, request>>
    BY <2>9, <2>10
  <2>11. ASSUME NEW x \in Stub, OpenSpawnRequest(x) \/ HandleSpawnRequest(x) \/ RejectSpawnRequest(x)
         PROVE  UNCHANGED Table!vars
    <3>1. UNCHANGED <<child, ext>> /\ \A s \in Stub : s # x => request'[s] = request[s]
      BY <2>11 DEF OpenSpawnRequest, HandleSpawnRequest, RejectSpawnRequest, portalVars, TypeOK
    <3>2. {request[x], request'[x]} \cap {"expired", "failed"} = {}
      BY <2>11 DEF OpenSpawnRequest, HandleSpawnRequest, RejectSpawnRequest, TypeOK,
        IInv, PidsGiven
    <3> QED
      BY <2>9, <3>1, <3>2
  <2>12. ASSUME NEW ok \in BOOLEAN, FulfillSpawnRequest(ok) PROVE UNCHANGED Table!vars
    <3>1. job.of \in Stub /\ request[job.of] = "taken"
      BY <2>12, JobOf DEF IInv, FulfillSpawnRequest
    <3> QED
      BY <2>9, <2>10, <2>12, <3>1 DEF FulfillSpawnRequest, portalVars, TypeOK
  <2>13. CASE UNCHANGED vars
    BY <2>10, <2>13 DEF vars
  <2> HIDE DEF Table!vars
  <2> QED
    BY <1>5, <2>3, <2>4, <2>5, <2>6, <2>7, <2>8, <2>10, <2>11, <2>12, <2>13
    DEF Next, StubStep, BusStep, PortalStep, CallEnds, AppStep, WaiterContinues,
        KillerContinues, SendSpawnRequest, StubFails, ReadExitReply, SendSpawnSignal,
        DispatchEvent, DispatchSignalled, HandleSpawnExited, HandlerAborts, PortalSignalled,
        Fork, GetExitStatus, EvaluatePredicate, WaitForExitStatus, WakeUp, SpuriousWakeUp,
        KernelWaitpid, SendSignal, CallSpawnSignal, SendSignalReturns, KernelKill, portalVars
<1> QED
  BY <1>1, <1>2, <1>3, <1>4, <1>5

(* The first states of the two modules agree.                               *)
LEMMA InitSimulation ==
  ASSUME Init
  PROVE  Table!Init /\ BooksOK /\ PortalTrue /\ ExpiredOnce /\ DroppedOK
<1>1. FailedRequests = {} /\ StartedProcesses = {} /\ Books = [s \in Stub |-> "absent"]
  BY DEF Init, FailedRequests, StartedProcesses, Books, Known, OnBooks
<1>2. BooksOK /\ PortalTrue /\ ExpiredOnce /\ DroppedOK
  BY EmptySeq DEF Init, BooksOK, Pending, OnBooks, PortalTrue, ExpiredOnce, InHand, DroppedOK
<1> QED
  BY <1>1, <1>2 DEF Init, Table!Init

(* As long as the kernels give away only numbers that the supervisor has    *)
(* done with, every behaviour of the supervisor is one of the process       *)
(* table: whatever the order of requests, replies, timeouts and signals,    *)
(* entries are added, completed and removed as ProcessTable says.           *)
THEOREM SupervisorKeepsTheBooks == ASSUME ~ReuseHeld PROVE Spec => KeepsTheBooks
<1> DEFINE RInv == BooksOK /\ PortalTrue /\ ExpiredOnce /\ DroppedOK
<1>1. TypeOK /\ NotifyExitInvalid /\ IInv /\ RInv /\ [Next]_vars => RInv'
  BY BooksStep, PortalTrueStep, ExpiredOnceStep, DroppedStep
<1>2. TypeOK /\ NotifyExitInvalid /\ IInv /\ RInv /\ KnownShape /\ KnownShape' /\ [Next]_vars
        => [Table!Next]_(Table!vars)
  BY Simulation
<1>3. Init => Table!Init /\ RInv
  BY InitSimulation
<1>4. TypeOK /\ IInv /\ RInv => KnownShape
  BY KnownShapeOK
<1> QED
  BY <1>1, <1>2, <1>3, <1>4, InvCorrect, TypeCorrect, ExitStatusUnreachable, PTL
  DEF Spec, KeepsTheBooks, Table!Spec
=============================================================================

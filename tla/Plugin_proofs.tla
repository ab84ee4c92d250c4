----------------------------- MODULE Plugin_proofs -----------------------------
(***************************************************************************)
(* Proofs about Plugin, with Runtime and ModelsFile: the types; that what  *)
(* is on disk is whole when it is used; and that one scheduler works on    *)
(* the database and unloading leaves nothing behind.                       *)
(***************************************************************************)
EXTENDS Plugin, TLAPS

-------------------------------------------------------------------------------
(***************************************************************************)
(* Types.                                                                  *)
(***************************************************************************)
CallType ==
  [at : {"idle", "waiting", "recovering", "queued", "preparing", "handshake", "reviving",
         "resuming"},
   on : Triplets \cup {None}]

LEMMA BootIsCoroutine == Boot \in Coroutines /\ Calls \subseteq Coroutines
BY DEF Coroutines

LEMMA NoneIsNobody == None \notin Coroutines /\ None \notin Triplets
BY PluginAssumption DEF Coroutines, Triplets

\* What Goes does.
LEMMA OneGoes ==
  ASSUME TypeOK, NEW c \in Coroutines, NEW s, NEW g, Goes(c, s, g)
  PROVE  /\ calls'[c].at = s /\ calls'[c].on = g
         /\ \A d \in Coroutines : d # c => calls'[d] = calls[d]
         /\ [at |-> s, on |-> g] \in CallType => calls' \in [Coroutines -> CallType]
BY DEF TypeOK, Goes, CallType

LEMMA BuiltTypes ==
  /\ Unbuilt \in TripletType
  /\ [Built EXCEPT !.apart = Apart] \in TripletType
BY DEF Unbuilt, Built, Apart, TripletType, Processes

LEMMA InitTypes == Init => TypeOK
<1> SUFFICES ASSUME Init PROVE TypeOK
  OBVIOUS
<1>1. RuntimeTypeOK
  <2> RuntimeInit
    BY DEF Init
  <2>1. archive \in Archives \cup {"none"} /\ answer = "none" /\ job = Idle
    BY RuntimeAssumption DEF RuntimeInit
  <2>2. /\ partial \in BOOLEAN /\ executable \in BOOLEAN /\ interrupted \in BOOLEAN
        /\ tree \in [Parts -> {"absent", "partial", "whole"}]
    BY DEF RuntimeInit
  <2>3. url \in 0..Urls /\ left \in SUBSET Parts
    BY RuntimeAssumption DEF RuntimeInit
  <2> QED
    BY <2>1, <2>2, <2>3 DEF RuntimeTypeOK
<1>2. ModelsTypeOK
  BY DEF Init, ModelsInit, ModelsTypeOK
<1>3. triplet \in [Triplets -> TripletType] /\ calls \in [Coroutines -> CallType]
  <2>1. Resting \in CallType
    BY DEF Resting, CallType
  <2> QED
    BY <2>1, BuiltTypes DEF Init
<1>4. loads \in 0..MaxLoads
  BY PluginAssumption DEF Init
<1> QED
  BY <1>1, <1>2, <1>3, <1>4 DEF Init, TypeOK, CallType

LEMMA RuntimeStepTypes ==
  ASSUME RuntimeTypeOK,
         RuntimeStep \/ InstallBegins \/ ResolveBegins \/ RuntimeCrash
           \/ (\E a \in Downloads : ArchivePlaced(a)) \/ UNCHANGED runtimeVars
  PROVE  RuntimeTypeOK'
<1> USE RuntimeAssumption DEF RuntimeTypeOK, InstallSteps, ResolveSteps
<1>1. CASE FetchWrites \/ FetchFails \/ FetchRaises
  <2>1. url' \in 0..Urls
    BY <1>1 DEF FetchWrites, FetchFails, FetchRaises
  <2>2. job' \in {Idle} \cup InstallSteps
    BY <1>1 DEF FetchWrites, FetchFails, FetchRaises
  <2>3. partial' \in BOOLEAN
    BY <1>1 DEF FetchWrites, FetchFails, FetchRaises
  <2>4. UNCHANGED <<archive, tree, executable, left, answer, interrupted>>
    BY <1>1 DEF FetchWrites, FetchFails, FetchRaises
  <2> QED
    BY <2>1, <2>2, <2>3, <2>4
<1>2. ASSUME NEW a \in Archives, NEW s \in {"unpacking", "extracting"}, Unpack(a, s)
      PROVE  job' = s /\ left' \in SUBSET Parts /\ interrupted' \in BOOLEAN
  <2>1. Content(a) \in SUBSET Parts
    BY DEF Content, Parts
  <2>2. job' = s /\ left' = Content(a)
    BY <1>2 DEF Unpack
  <2>3. interrupted' \in BOOLEAN
    BY <1>2, Zenon DEF Unpack
  <2> QED
    BY <2>1, <2>2, <2>3
<1>3. ASSUME NEW a \in Downloads, FetchReplaces(a) PROVE RuntimeTypeOK'
  <2>1. a \in Archives /\ Unpack(a, "unpacking")
    BY <1>3 DEF FetchReplaces
  <2>2. job' = "unpacking" /\ left' \in SUBSET Parts /\ interrupted' \in BOOLEAN
    BY <1>2, <2>1
  <2>3. partial' = FALSE /\ url' = 0 /\ archive' = a /\ UNCHANGED <<tree, executable, answer>>
    BY <1>3 DEF FetchReplaces
  <2>4. archive' \in Archives \cup {"none"} /\ url' \in 0..Urls
    BY <2>1, <2>3
  <2>5. tree' \in [Parts -> {"absent", "partial", "whole"}]
    BY <2>3
  <2>6. partial' \in BOOLEAN /\ executable' \in BOOLEAN
    BY <2>3
  <2>7. job' \in {Idle} \cup InstallSteps \cup ResolveSteps
    BY <2>2
  <2>8. answer' \in {"none", "bundled", "path", "error"}
    BY <2>3
  <2> QED
    BY <2>2, <2>4, <2>5, <2>6, <2>7, <2>8, Zenon
<1>4. ASSUME NEW p \in Parts, ExtractOpens(p) \/ ExtractCloses(p) PROVE RuntimeTypeOK'
  <2>1. tree' \in [Parts -> {"absent", "partial", "whole"}]
    BY <1>4 DEF ExtractOpens, ExtractCloses
  <2>2. executable' \in BOOLEAN
    <3>1. executable' = executable \/ executable' = (executable /\ p # "node")
      BY <1>4, Zenon DEF ExtractOpens, ExtractCloses
    <3>2. (executable /\ p # "node") \in BOOLEAN
      OBVIOUS
    <3> QED
      BY <3>1, <3>2
  <2> QED
    BY <1>4, <2>1, <2>2 DEF ExtractOpens, ExtractCloses
<1>5. CASE ExtractEnds \/ ExtractRaises
  BY <1>5 DEF ExtractEnds, ExtractRaises
<1>6. CASE Marks \/ Discards
  BY <1>6 DEF Marks, Discards
<1>7. CASE Decides
  BY <1>7 DEF Decides, BundledAnswers, ManifestErrors, FallbackAnswer
<1>8. CASE InstallBegins
  BY <1>2, <1>8 DEF InstallBegins, FirstStep, CanFetch
<1>9. CASE ResolveBegins
  BY <1>2, <1>9 DEF ResolveBegins
<1>10. CASE RuntimeCrash \/ UNCHANGED runtimeVars
  BY <1>10 DEF RuntimeCrash, runtimeVars
<1>11. ASSUME NEW a \in Downloads, ArchivePlaced(a) PROVE RuntimeTypeOK'
  BY <1>11 DEF ArchivePlaced
<1> QED
  BY <1>1, <1>3, <1>4, <1>5, <1>6, <1>7, <1>8, <1>9, <1>10, <1>11 DEF RuntimeStep

LEMMA SetupOverTypes ==
  ASSUME RuntimeTypeOK, ModelsTypeOK, SetupOver
  PROVE  RuntimeTypeOK' /\ ModelsTypeOK'
BY DEF RuntimeTypeOK, ModelsTypeOK, SetupOver

LEMMA ModelsStepTypes ==
  ASSUME ModelsTypeOK,
         ModelsStep \/ (\E power \in BOOLEAN : ModelsCrash(power)) \/ UNCHANGED modelsVars
  PROVE  ModelsTypeOK'
BY DEF ModelsTypeOK, ModelsStep, BindingFails, WriteBegins, WriteFlushes, WriteSyncs,
   WriteReplaces, WriteRaises, ModelsCrash, modelsVars

\* The types of Plugin's own variables.
PluginTypes ==
  /\ phase \in {"down", "installing", "loading", "up", "stopping", "leaving", "killing"}
  /\ {leaving, service, scheduler, registry} \subseteq Triplets \cup {None}
  /\ triplet \in [Triplets -> TripletType]
  /\ calls \in [Coroutines -> CallType]
  /\ setup \in Coroutines \cup {None}
  /\ row \in BOOLEAN
  /\ loads \in 0..MaxLoads

LEMMA TypesSplit == TypeOK <=> RuntimeTypeOK /\ ModelsTypeOK /\ PluginTypes
BY DEF TypeOK, PluginTypes, CallType

LEMMA CallsTyped ==
  ASSUME TypeOK, NEW c \in Coroutines, NEW g \in Triplets \cup {None},
         \/ Goes(c, "idle", g) \/ Goes(c, "waiting", g) \/ Goes(c, "recovering", g)
         \/ Goes(c, "queued", g) \/ Goes(c, "preparing", g) \/ Goes(c, "handshake", g)
         \/ Goes(c, "reviving", g) \/ Goes(c, "resuming", g)
  PROVE  calls' \in [Coroutines -> CallType]
BY OneGoes DEF CallType

LEMMA WaitingTypes ==
  ASSUME TypeOK, NEW c \in Coroutines, CallServed(c) \/ CallWaits(c) \/ CreationFails(c)
  PROVE  PluginTypes'
<1> PluginTypes
  BY TypesSplit
<1>1. CASE CallServed(c)
  <2>1. calls' \in [Coroutines -> CallType]
    BY <1>1, CallsTyped DEF CallServed, Launches, Resumes, PluginTypes
  <2> QED
    BY <1>1, <2>1 DEF CallServed, Launches, Resumes, PluginTypes
<1>2. CASE CallWaits(c)
  <2>1. calls' \in [Coroutines -> CallType]
    BY <1>2, CallsTyped DEF CallWaits
  <2> QED
    BY <1>2, <2>1 DEF CallWaits, PluginTypes
<1>3. CASE CreationFails(c)
  <2>1. calls' \in [Coroutines -> CallType]
    BY <1>3, CallsTyped DEF CreationFails
  <2> QED
    BY <1>3, <2>1 DEF CreationFails, PhaseAfter, PluginTypes
<1> QED
  BY <1>1, <1>2, <1>3

\* Publishing keeps the types, apart from triplet, row and loads.
LEMMA PublishesTyped ==
  ASSUME TypeOK, NEW c \in Coroutines, NEW g \in Triplets, Publishes(c, g)
  PROVE  /\ phase' \in {"down", "installing", "loading", "up", "stopping", "leaving", "killing"}
         /\ {service', scheduler', registry'} \subseteq Triplets \cup {None}
         /\ calls' \in [Coroutines -> CallType]
         /\ setup' \in Coroutines \cup {None}
<1>1. calls' \in [Coroutines -> CallType]
  BY CallsTyped DEF Publishes, Launches, Resumes
<1> QED
  BY <1>1 DEF Publishes, Launches, Resumes, PhaseAfter, TypeOK

LEMMA CreationTypes ==
  ASSUME TypeOK, NEW c \in Coroutines, NEW g \in Triplets,
         CreationPublishes(c, g) \/ CreationRecovers(c, g)
  PROVE  PluginTypes'
<1> PluginTypes
  BY TypesSplit
<1>1. triplet' \in [Triplets -> TripletType]
  BY BuiltTypes DEF CreationPublishes, CreationRecovers, PluginTypes
<1>2. CASE CreationPublishes(c, g)
  BY <1>1, <1>2, PublishesTyped DEF CreationPublishes, PluginTypes
<1>3. CASE CreationRecovers(c, g)
  <2>1. calls' \in [Coroutines -> CallType]
    BY <1>3, CallsTyped DEF CreationRecovers
  <2> QED
    BY <1>1, <1>3, <2>1 DEF CreationRecovers, PhaseAfter, PluginTypes
<1> QED
  BY <1>2, <1>3

\* The fields of a triplet that steps write: its flags, and its processes.
LEMMA FlagsTyped ==
  ASSUME NEW T \in TripletType
  PROVE  /\ [T EXCEPT !.observer = "stopped"] \in TripletType
         /\ [T EXCEPT !.shut = TRUE] \in TripletType
         /\ [T EXCEPT !.closed = TRUE, !.observer = "stopped"] \in TripletType
         /\ [T EXCEPT !.registry = "closed"] \in TripletType
BY ZenonT(60) DEF TripletType

LEMMA WorkerTyped ==
  ASSUME NEW T \in TripletType, NEW w \in Processes
  PROVE  /\ [T EXCEPT !.worker = w] \in TripletType
         /\ [T EXCEPT !.resumed = w] \in TripletType
         /\ [T EXCEPT !.registry = "closed", !.apart = "lost", !.worker = w] \in TripletType
BY ZenonT(60) DEF TripletType

LEMMA CommandTyped ==
  ASSUME NEW T \in TripletType, NEW w \in Processes, NEW a \in {"none", "bundled", "path"}
  PROVE  /\ [T EXCEPT !.worker = w, !.command = a] \in TripletType
         /\ [T EXCEPT !.resumed = w, !.command = a] \in TripletType
BY ZenonT(60) DEF TripletType

LEMMA BothTyped ==
  ASSUME NEW T \in TripletType, NEW w \in Processes, NEW v \in Processes
  PROVE  /\ [T EXCEPT !.worker = w, !.resumed = v] \in TripletType
         /\ \A m \in BOOLEAN :
              [T EXCEPT !.worker = w, !.resumed = v, !.missed = m] \in TripletType
BY ZenonT(60) DEF TripletType

LEMMA StrayTyped ==
  ASSUME NEW w \in Processes, NEW v \in Processes
  PROVE  [Unbuilt EXCEPT !.registry = "closed", !.worker = w, !.resumed = v] \in TripletType
BY ZenonT(60) DEF TripletType, Unbuilt

LEMMA RecoveryTypes ==
  ASSUME TypeOK, NEW c \in Coroutines, RecoveryEnds(c) \/ RecoveryRaises(c),
         calls[c].on \in Triplets
  PROVE  PluginTypes'
<1> DEFINE g == calls[c].on
<1> PluginTypes /\ g \in Triplets /\ triplet[g] \in TripletType
  BY TypesSplit DEF PluginTypes
<1>1. CASE RecoveryEnds(c)
  <2>1. triplet' \in [Triplets -> TripletType] /\ row' \in BOOLEAN
    BY <1>1, WorkerTyped DEF RecoveryEnds, PluginTypes, Processes
  <2> QED
    BY <1>1, <2>1, PublishesTyped DEF RecoveryEnds, PluginTypes
<1>2. CASE RecoveryRaises(c)
  <2>1. PICK w \in Processes :
          triplet' = [triplet EXCEPT ![g].registry = "closed", ![g].apart = "lost",
                                     ![g].worker = w]
    BY <1>2 DEF RecoveryRaises, TripletType, Processes
  <2>2. triplet' \in [Triplets -> TripletType]
    BY <2>1, WorkerTyped DEF PluginTypes
  <2>3. calls' \in [Coroutines -> CallType]
    BY <1>2, CallsTyped DEF RecoveryRaises
  <2> QED
    BY <1>2, <2>2, <2>3 DEF RecoveryRaises, PhaseAfter, PluginTypes
<1> QED
  BY <1>1, <1>2

LEMMA LaunchTypes ==
  ASSUME TypeOK, NEW c \in Coroutines, calls[c].on \in Triplets,
         LaunchPrepares(c) \/ LaunchRefused(c) \/ LaunchEnds(c) \/ ResumeEnds(c)
  PROVE  PluginTypes'
<1> DEFINE g == calls[c].on
<1> PluginTypes /\ g \in Triplets /\ triplet[g] \in TripletType
  BY TypesSplit DEF PluginTypes
<1>1. CASE LaunchPrepares(c)
  <2>1. calls' \in [Coroutines -> CallType]
    BY <1>1, CallsTyped DEF LaunchPrepares
  <2> QED
    BY <1>1, <2>1 DEF LaunchPrepares, PluginTypes
<1>2. CASE LaunchRefused(c)
  <2>1. calls' \in [Coroutines -> CallType]
    BY <1>2, CallsTyped DEF LaunchRefused
  <2> QED
    BY <1>2, <2>1 DEF LaunchRefused, PluginTypes
<1>3. CASE LaunchEnds(c)
  <2>1. calls' \in [Coroutines -> CallType]
    BY <1>3, CallsTyped DEF LaunchEnds
  <2>2. triplet' \in [Triplets -> TripletType] /\ row' \in BOOLEAN
    BY <1>3, WorkerTyped DEF LaunchEnds, PluginTypes, Processes
  <2> QED
    BY <1>3, <2>1, <2>2 DEF LaunchEnds, PluginTypes
<1>4. CASE ResumeEnds(c)
  <2>1. calls' \in [Coroutines -> CallType]
    BY <1>4, CallsTyped DEF ResumeEnds
  <2>2. triplet' \in [Triplets -> TripletType] /\ row' \in BOOLEAN
    BY <1>4, WorkerTyped DEF ResumeEnds, PluginTypes, Processes
  <2> QED
    BY <1>4, <2>1, <2>2 DEF ResumeEnds, PluginTypes
<1> QED
  BY <1>1, <1>2, <1>3, <1>4

LEMMA SetupTypes ==
  ASSUME TypeOK, WorkerStarts \/ SetupFails, calls[setup].on \in Triplets
  PROVE  PluginTypes'
<1> DEFINE g == calls[setup].on
<1> PluginTypes /\ setup \in Coroutines /\ triplet[g] \in TripletType
  BY TypesSplit DEF PluginTypes, WorkerStarts, SetupFails
<1>1. CASE WorkerStarts
  <2>1. calls' \in [Coroutines -> CallType]
    BY <1>1, CallsTyped DEF WorkerStarts, PluginTypes
  <2>2. PICK a \in {"none", "bundled", "path"} :
          \/ triplet' = [triplet EXCEPT ![g].worker = "starting", ![g].command = a]
          \/ triplet' = [triplet EXCEPT ![g].resumed = "starting", ![g].command = a]
    <3>1. triplet[g].command \in {"none", "bundled", "path"}
      BY DEF TripletType
    <3>2. answer \in {"none", "bundled", "path"}
      BY <1>1 DEF WorkerStarts, TypeOK, RuntimeTypeOK
    <3> QED
      BY <1>1, <3>1, <3>2 DEF WorkerStarts, PluginTypes
  <2>3. triplet' \in [Triplets -> TripletType]
    <3>1. "starting" \in Processes
      BY DEF Processes
    <3>2. /\ [triplet[g] EXCEPT !.worker = "starting", !.command = a] \in TripletType
          /\ [triplet[g] EXCEPT !.resumed = "starting", !.command = a] \in TripletType
      BY <3>1, CommandTyped
    <3> QED
      BY <2>2, <3>2 DEF PluginTypes
  <2> QED
    BY <1>1, <2>1, <2>3 DEF WorkerStarts, SetupOver, PluginTypes
<1>2. CASE SetupFails
  <2>1. calls' \in [Coroutines -> CallType]
    BY <1>2, CallsTyped DEF SetupFails, PluginTypes
  <2> QED
    BY <1>2, <2>1 DEF SetupFails, SetupOver, PluginTypes
<1> QED
  BY <1>1, <1>2

LEMMA WorkerTypes ==
  ASSUME TypeOK, NEW g \in Triplets, WorkerFinishes(g) \/ ObserverDies(g)
  PROVE  PluginTypes'
<1> PluginTypes /\ triplet[g] \in TripletType
  BY TypesSplit DEF PluginTypes
<1>1. triplet' \in [Triplets -> TripletType]
  BY FlagsTyped, WorkerTyped DEF WorkerFinishes, ObserverDies, PluginTypes, Processes
<1>2. row' \in BOOLEAN
  <2>1. CASE WorkerFinishes(g)
    <3> DEFINE settled ==
          Observing(g) /\ "running" \notin {triplet'[g].worker, triplet'[g].resumed}
    <3>1. row' = (row /\ ~settled)
      BY <2>1 DEF WorkerFinishes
    <3> HIDE DEF settled
    <3> QED
      BY <3>1
  <2>2. CASE ObserverDies(g)
    BY <2>2 DEF ObserverDies, PluginTypes
  <2> QED
    BY <2>1, <2>2
<1>3. UNCHANGED <<phase, leaving, service, scheduler, registry, calls, setup, loads>>
  BY DEF WorkerFinishes, ObserverDies
<1> QED
  BY <1>1, <1>2, <1>3 DEF PluginTypes

\* The workers of a scheduler that is shut down: collected, and ended.
LEMMA Collected ==
  ASSUME TypeOK, leaving \in Triplets, NEW m \in BOOLEAN, NEW D,
         D = [triplet EXCEPT ![leaving].worker = Doomed(@), ![leaving].resumed = Doomed(@),
                             ![leaving].missed = m]
  PROVE  /\ D \in [Triplets -> TripletType]
         /\ \A h \in Triplets : h # leaving => D[h] = triplet[h]
         /\ D[leaving] = [triplet[leaving] EXCEPT !.worker = Doomed(@), !.resumed = Doomed(@),
                                                  !.missed = m]
<1> DEFINE w == Doomed(triplet[leaving].worker)
           v == Doomed(triplet[leaving].resumed)
           T == [triplet[leaving] EXCEPT !.worker = w, !.resumed = v, !.missed = m]
<1>1. triplet \in [Triplets -> TripletType] /\ triplet[leaving] \in TripletType
  BY DEF TypeOK
<1>2. w \in Processes /\ v \in Processes
  BY <1>1 DEF TripletType, Processes, Doomed
<1>3. D = [triplet EXCEPT ![leaving] = T]
  BY <1>1 DEF TripletType
<1>4. T \in TripletType
  BY <1>1, <1>2, BothTyped
<1>5. T = [triplet[leaving] EXCEPT !.worker = Doomed(@), !.resumed = Doomed(@), !.missed = m]
  BY <1>1 DEF TripletType
<1> HIDE DEF T
<1> QED
  BY <1>1, <1>3, <1>4, <1>5

LEMMA Reaped ==
  ASSUME TypeOK, leaving \in Triplets, NEW D,
         D = [triplet EXCEPT ![leaving].worker = Ended(@), ![leaving].resumed = Ended(@)]
  PROVE  /\ D \in [Triplets -> TripletType]
         /\ \A h \in Triplets : h # leaving => D[h] = triplet[h]
         /\ D[leaving] = [triplet[leaving] EXCEPT !.worker = Ended(@), !.resumed = Ended(@)]
<1> DEFINE w == Ended(triplet[leaving].worker)
           v == Ended(triplet[leaving].resumed)
           T == [triplet[leaving] EXCEPT !.worker = w, !.resumed = v]
<1>1. triplet \in [Triplets -> TripletType] /\ triplet[leaving] \in TripletType
  BY DEF TypeOK
<1>2. w \in Processes /\ v \in Processes
  BY <1>1 DEF TripletType, Processes, Ended
<1>3. D = [triplet EXCEPT ![leaving] = T]
  BY <1>1 DEF TripletType
<1>4. T \in TripletType
  BY <1>1, <1>2, BothTyped
<1>5. T = [triplet[leaving] EXCEPT !.worker = Ended(@), !.resumed = Ended(@)]
  BY <1>1 DEF TripletType
<1> HIDE DEF T
<1> QED
  BY <1>1, <1>3, <1>4, <1>5

\* Closing the published registry changes nothing else of the triplets.
LEMMA GoneTypes ==
  ASSUME TypeOK, NEW t \in [Triplets -> TripletType], Gone(t), row' \in BOOLEAN
  PROVE  /\ PluginTypes'
         /\ \A h \in Triplets : /\ triplet'[h].apart = t[h].apart
                                /\ triplet'[h].observer = t[h].observer
                                /\ triplet'[h].worker = t[h].worker
                                /\ triplet'[h].resumed = t[h].resumed
                                /\ triplet'[h].missed = t[h].missed
<1>1. PluginTypes /\ \A h \in Triplets : t[h] \in TripletType
  BY TypesSplit
<1>2. \A h \in Triplets : [t[h] EXCEPT !.registry = "closed"] \in TripletType
  BY <1>1, FlagsTyped
<1>3. \A h \in Triplets : triplet'[h] \in {t[h], [t[h] EXCEPT !.registry = "closed"]}
  BY DEF Gone
<1>4. triplet' \in [Triplets -> TripletType]
  BY <1>1, <1>2 DEF Gone
<1>5. PluginTypes'
  BY <1>1, <1>4 DEF Gone, PluginTypes
<1> QED
  BY <1>1, <1>3, <1>5 DEF TripletType

LEMMA UnloadTypes ==
  ASSUME TypeOK, UnloadBegins \/ ServiceStops \/ SchedulerCollects \/ SchedulerStops,
         phase \in {"leaving", "killing"} => leaving \in Triplets
  PROVE  PluginTypes'
<1> PluginTypes /\ \A g \in Triplets : triplet[g] \in TripletType
  BY TypesSplit DEF PluginTypes
<1>1. CASE UnloadBegins
  <2>1. triplet' \in [Triplets -> TripletType]
    BY <1>1, FlagsTyped DEF UnloadBegins, PluginTypes
  <2> QED
    BY <1>1, <2>1 DEF UnloadBegins, PluginTypes
<1>2. CASE ServiceStops
  <2>1. triplet' \in [Triplets -> TripletType]
    <3> DEFINE one == [triplet EXCEPT ![service].worker = IF @ = "starting" THEN "none" ELSE @]
    <3>1. one \in [Triplets -> TripletType]
      <4>1. CASE service \in Triplets
        <5>1. PICK w \in Processes : one = [triplet EXCEPT ![service].worker = w]
          BY <4>1 DEF TripletType, Processes
        <5>2. [triplet[service] EXCEPT !.worker = w] \in TripletType
          BY <4>1, WorkerTyped
        <5> HIDE DEF one
        <5> QED
          BY <4>1, <5>1, <5>2 DEF PluginTypes
      <4>2. CASE service \notin Triplets
        BY <4>2 DEF PluginTypes
      <4> QED
        BY <4>1, <4>2
    <3>2. triplet' = [one EXCEPT ![scheduler].closed = TRUE, ![scheduler].observer = "stopped"]
      BY <1>2 DEF ServiceStops
    <3> HIDE DEF one
    <3>3. \A g \in Triplets :
            [one[g] EXCEPT !.closed = TRUE, !.observer = "stopped"] \in TripletType
      BY <3>1, FlagsTyped
    <3> QED
      BY <3>1, <3>2, <3>3
  <2>2. calls' \in [Coroutines -> CallType]
    <3>1. Resting \in CallType
      BY DEF Resting, CallType
    <3> QED
      BY <1>2, <3>1 DEF ServiceStops, PluginTypes
  <2> QED
    BY <1>2, <2>1, <2>2 DEF ServiceStops, PluginTypes
<1>3. CASE SchedulerCollects
  <2> DEFINE m == \E c \in Coroutines : calls[c] = [at |-> "resuming", on |-> leaving]
             D == [triplet EXCEPT ![leaving].worker = Doomed(@), ![leaving].resumed = Doomed(@),
                                  ![leaving].missed = m]
  <2>1. D \in [Triplets -> TripletType]
    <3>1. leaving \in Triplets /\ m \in BOOLEAN
      BY <1>3 DEF SchedulerCollects
    <3> HIDE DEF m
    <3> QED
      BY <3>1, Collected
  <2>2. CASE Gone(D) /\ UNCHANGED row
    <3>1. row' \in BOOLEAN
      BY <2>2 DEF PluginTypes
    <3> HIDE DEF D
    <3> QED
      BY <2>1, <2>2, <3>1, GoneTypes
  <2>3. CASE /\ triplet' = D /\ phase' = "killing"
             /\ UNCHANGED <<leaving, service, scheduler, registry, calls, setup, row, loads>>
    BY <2>1, <2>3 DEF PluginTypes
  <2> QED
    BY <1>3, <2>2, <2>3 DEF SchedulerCollects
<1>4. CASE SchedulerStops
  <2> DEFINE D == [triplet EXCEPT ![leaving].worker = Ended(@), ![leaving].resumed = Ended(@)]
             kept == triplet[leaving].resumed = "running"
  <2>1. Gone(D) /\ row' = (row /\ kept) /\ leaving \in Triplets
    BY <1>4 DEF SchedulerStops
  <2>2. D \in [Triplets -> TripletType]
    BY <2>1, Reaped
  <2>3. row' \in BOOLEAN
    BY <2>1
  <2> HIDE DEF D
  <2> QED
    BY <2>1, <2>2, <2>3, GoneTypes
<1> QED
  BY <1>1, <1>2, <1>3, <1>4

LEMMA LoadTypes ==
  ASSUME TypeOK, Load \/ Crash
  PROVE  PluginTypes'
<1> PluginTypes /\ \A g \in Triplets : triplet[g] \in TripletType
  BY TypesSplit DEF PluginTypes
<1>1. CASE Load
  BY <1>1, PluginAssumption DEF Load, PluginTypes
<1>2. CASE Crash
  <2>1. Resting \in CallType
    BY DEF Resting, CallType
  <2>2. triplet' \in [Triplets -> TripletType]
    <3>1. PICK power \in {FALSE, Power} :
            triplet' = [g \in Triplets |->
              IF triplet[g].registry = "none" THEN Unbuilt
              ELSE [Unbuilt EXCEPT !.registry = "closed",
                                   !.worker = Left(triplet[g].worker, power),
                                   !.resumed = Left(triplet[g].resumed, power)]]
      BY <1>2 DEF Crash
    <3>2. \A w : Left(w, power) \in Processes
      BY DEF Left, Processes
    <3>3. \A g \in Triplets :
            [Unbuilt EXCEPT !.registry = "closed", !.worker = Left(triplet[g].worker, power),
                            !.resumed = Left(triplet[g].resumed, power)] \in TripletType
      BY <3>2, StrayTyped
    <3> QED
      BY <3>1, <3>3, BuiltTypes
  <2> QED
    BY <1>2, <2>1, <2>2 DEF Crash, PluginTypes
<1> QED
  BY <1>1, <1>2

-------------------------------------------------------------------------------
(***************************************************************************)
(* models.json.                                                            *)
(***************************************************************************)
\* Only a file that was dumped and synced is renamed.
ModelsInv ==
  /\ models # "torn" /\ durable
  /\ writing \in {"flushed", "synced"} => temporary = "entry"

LEMMA ModelsInvKept ==
  ASSUME ModelsInv,
         \/ ModelsStep \/ (\E power \in BOOLEAN : ModelsCrash(power)) \/ SetupOver
         \/ UNCHANGED modelsVars
  PROVE  ModelsInv'
<1> USE DEF ModelsInv
<1>1. CASE ModelsStep
  BY <1>1 DEF ModelsStep, BindingFails, WriteBegins, WriteFlushes, WriteSyncs, WriteReplaces,
     WriteRaises
<1>2. CASE \E power \in BOOLEAN : ModelsCrash(power)
  BY <1>2 DEF ModelsCrash
<1>3. CASE SetupOver
  BY <1>3 DEF SetupOver
<1>4. CASE UNCHANGED modelsVars
  BY <1>4 DEF modelsVars
<1> QED
  BY <1>1, <1>2, <1>3, <1>4

-------------------------------------------------------------------------------
(***************************************************************************)
(* The runtime.                                                            *)
(***************************************************************************)
\* As long as no extraction of a Pi package was interrupted, the package is
\* absent, or all of the runtime is there; and whoever goes on with a runtime
\* that is ready knows that it is executable.
RuntimeInv ==
  /\ Extracting => archive # "none" /\ left \subseteq Content(archive)
  /\ Extracting /\ archive # "other" => interrupted
  /\ Extracting /\ ~interrupted => tree["pi"] = "absent"
  /\ ~interrupted => tree["pi"] = "absent" \/ Whole
  /\ job = "fetching" => ~Ready
  /\ job = "discarding" => Ready /\ executable
  /\ job = "deciding" /\ Ready /\ ~interrupted => executable
  /\ job # Idle => answer = "none"
  /\ BundledIsWhole

\* The runtime can be used, as far as anybody knows.
Usable == Ready /\ ~interrupted => executable

LEMMA PartsAre == Parts = {"node", "pi"}
BY DEF Parts

LEMMA ExtractKeeps ==
  ASSUME RuntimeTypeOK, RuntimeInv, Extracting,
         (\E p \in Parts : ExtractOpens(p) \/ ExtractCloses(p)) \/ ExtractEnds \/ ExtractRaises
  PROVE  RuntimeInv' /\ (job' = Idle => Usable')
<1> USE PartsAre DEF Idle
<1>1. ASSUME NEW p \in Parts, ExtractOpens(p) PROVE RuntimeInv' /\ job' # Idle
  <2>1. /\ p \in left /\ left' = left \ {p}
        /\ tree' = [tree EXCEPT ![p] = "partial"]
        /\ UNCHANGED <<archive, job, answer, interrupted>>
        /\ job' # Idle /\ answer = "none"
    BY <1>1 DEF ExtractOpens, RuntimeInv, Extracting
  <2>2. ~interrupted => p = "node" /\ tree'["pi"] = "absent"
    BY <2>1 DEF RuntimeInv, RuntimeTypeOK, Content
  <2> QED
    BY <2>1, <2>2 DEF RuntimeInv, RuntimeTypeOK, Extracting, BundledIsWhole
<1>2. ASSUME NEW p \in Parts, ExtractCloses(p) PROVE RuntimeInv' /\ job' # Idle
  <2>1. /\ p \in Content(archive)
        /\ tree' = [tree EXCEPT ![p] = "whole"]
        /\ UNCHANGED <<archive, job, answer, interrupted, left>>
        /\ job' # Idle /\ answer = "none"
    BY <1>2 DEF ExtractCloses, RuntimeInv, Extracting
  <2>2. ~interrupted => p = "node" /\ tree'["pi"] = "absent"
    BY <2>1 DEF RuntimeInv, RuntimeTypeOK, Content
  <2> QED
    BY <2>1, <2>2 DEF RuntimeInv, RuntimeTypeOK, Extracting, BundledIsWhole
<1>3. CASE ExtractEnds
  <2>1. /\ \A p \in Content(archive) : tree[p] = "whole"
        /\ job' \in {"marking", "chmodding"}
        /\ interrupted' = (interrupted /\ archive = "other")
        /\ UNCHANGED <<archive, tree, answer>>
        /\ answer = "none"
    BY <1>3 DEF ExtractEnds, RuntimeInv, Extracting
  <2>2. ~interrupted' => tree["pi"] = "absent" \/ Whole
    BY <2>1 DEF RuntimeInv, Content, Whole
  <2> QED
    BY <2>1, <2>2 DEF RuntimeInv, Extracting, BundledIsWhole, Whole
<1>4. CASE ExtractRaises
  <2>1. /\ answer' \in {"error", "none"} /\ job' = Idle
        /\ UNCHANGED <<archive, tree, executable, interrupted>>
    BY <1>4 DEF ExtractRaises, RuntimeInv, Extracting
  <2>2. Usable'
    BY <2>1 DEF RuntimeInv, Usable, Ready
  <2> QED
    BY <2>1, <2>2 DEF RuntimeInv, Extracting, BundledIsWhole, Whole
<1> QED
  BY <1>1, <1>2, <1>3, <1>4

LEMMA BeginsKeeps ==
  ASSUME RuntimeTypeOK, RuntimeInv, NEW a \in Archives, archive' = a, ~Ready,
         NEW s \in {"unpacking", "extracting"}, Unpack(a, s), answer = "none",
         UNCHANGED <<tree, executable, answer>>
  PROVE  RuntimeInv'
<1>1. /\ job' = s /\ left' = Content(a)
      /\ interrupted' = (interrupted \/ a # "other")
  BY DEF Unpack
<1>2. ~interrupted => tree["pi"] = "absent"
  BY PartsAre DEF RuntimeInv, Ready, Whole
<1>3. a # "none"
  BY DEF Archives
<1> QED
  BY <1>1, <1>2, <1>3 DEF RuntimeInv, Extracting, BundledIsWhole, Whole

LEMMA RuntimeStepKeeps ==
  ASSUME RuntimeTypeOK, RuntimeInv, RuntimeStep
  PROVE  RuntimeInv' /\ job # Idle /\ (job' = Idle => Usable')
<1> USE DEF Idle
<1>1. CASE FetchWrites \/ FetchFails \/ FetchRaises
  <2>1. /\ job = "fetching" /\ job' \in {"fetching", "marking", Idle}
        /\ UNCHANGED <<archive, tree, executable, left, answer, interrupted>>
    BY <1>1 DEF FetchWrites, FetchFails, FetchRaises
  <2> QED
    BY <2>1 DEF RuntimeInv, Extracting, BundledIsWhole, Whole, Ready, Usable
<1>2. ASSUME NEW a \in Downloads, FetchReplaces(a) PROVE RuntimeInv' /\ job = "fetching" /\ job' # Idle
  <2>1. /\ a \in Archives /\ archive' = a /\ Unpack(a, "unpacking") /\ job = "fetching"
        /\ UNCHANGED <<tree, executable, answer>>
    BY <1>2, RuntimeAssumption DEF FetchReplaces
  <2>2. ~Ready /\ answer = "none" /\ job' # Idle
    BY <2>1 DEF RuntimeInv, Unpack
  <2> QED
    BY <2>1, <2>2, BeginsKeeps
<1>3. CASE (\E p \in Parts : ExtractOpens(p) \/ ExtractCloses(p)) \/ ExtractEnds \/ ExtractRaises
  <2>1. Extracting
    BY <1>3 DEF ExtractOpens, ExtractCloses, ExtractEnds, ExtractRaises
  <2> QED
    BY <1>3, <2>1, ExtractKeeps DEF Extracting
<1>4. CASE Marks
  <2>1. /\ job \in {"marking", "chmodding"} /\ job' \in {"deciding", "discarding", Idle}
        /\ executable' = (executable \/ tree["node"] # "absent")
        /\ job' = "discarding" => Ready
        /\ UNCHANGED <<archive, partial, tree, left, url, answer, interrupted>>
    BY <1>4 DEF Marks
  <2>2. Ready => executable'
    BY <2>1, PartsAre DEF Ready
  <2> QED
    BY <2>1, <2>2 DEF RuntimeInv, Extracting, BundledIsWhole, Whole, Ready, Usable
<1>5. CASE Discards
  <2>1. /\ job = "discarding" /\ job' = Idle
        /\ UNCHANGED <<tree, executable, left, answer, interrupted>>
    BY <1>5 DEF Discards
  <2> QED
    BY <2>1 DEF RuntimeInv, Extracting, BundledIsWhole, Whole, Ready, Usable
<1>6. CASE Decides
  <2>1. /\ job = "deciding" /\ job' = Idle
        /\ UNCHANGED <<archive, tree, executable, left, interrupted>>
        /\ answer' = "bundled" => Ready
    BY <1>6 DEF Decides, BundledAnswers, ManifestErrors, FallbackAnswer
  <2>2. ~interrupted /\ Ready => Whole /\ executable
    BY <2>1, PartsAre DEF RuntimeInv, Ready
  <2> QED
    BY <2>1, <2>2 DEF RuntimeInv, Extracting, BundledIsWhole, Whole, Ready, Usable
<1> QED
  BY <1>1, <1>2, <1>3, <1>4, <1>5, <1>6 DEF RuntimeStep

-------------------------------------------------------------------------------
(***************************************************************************)
(* The life of the plugin.                                                 *)
(***************************************************************************)
\* What the three attributes are in each phase.
Services ==
  /\ phase \in {"installing", "loading"} => service = None
  /\ phase \in {"up", "stopping"} => service # None
  /\ phase # "down" /\ service # None => scheduler = service /\ registry = service
  /\ phase \in {"leaving", "killing"} => leaving # None /\ registry # None
  /\ phase \in {"leaving", "killing", "down"} /\ service # None => triplet[service].apart # "no"

\* Who builds a triplet, and that nobody else does.
Builders ==
  /\ \A c, d \in Coroutines :
       calls[c].at = "recovering" /\ calls[d].at = "recovering" => c = d
  /\ LockHeld => service = None
  /\ calls[Boot].at = IF phase = "loading" THEN "recovering" ELSE "idle"
  /\ phase = "installing" => \A c \in Coroutines : calls[c].at = "idle"

\* Who works with a triplet, and who prepares a worker.
Workings ==
  /\ \A c \in Coroutines : calls[c].at \in {"idle", "waiting"} <=> calls[c].on = None
  /\ \A c \in Coroutines : calls[c].at \in {"preparing", "reviving"} => setup = c
  /\ setup # None => calls[setup].at \in {"preparing", "reviving", "recovering"}

\* Whose restart goes on: a worker that a resume started has not answered yet.
Restarts ==
  \A g \in Triplets : triplet[g].resumed = "starting" =>
    \E c \in Coroutines : calls[c] = [at |-> "resuming", on |-> g]

\* Somebody may resolve a command.
Active == phase # "down" \/ \E c \in Coroutines : calls[c].at # "idle"

\* The runtime belongs to the installation or to whoever prepares a worker.
Disk ==
  /\ job \in ResolveSteps => setup # None
  /\ answer # "none" => setup # None
  /\ Active /\ job = Idle => Usable

\* Triplet g is the one that is being recovered at load, or the published one.
Home(g) ==
  \/ phase = "loading" /\ calls[Boot].on = g
  \/ phase \in {"up", "stopping"} /\ service = g

\* A triplet that is out of work, but for the worker of a resume that was missed.
Cold(t) ==
  /\ t.observer # "running" /\ t.worker \notin Live
  /\ t.resumed \in Live => t.missed

\* The triplet of a scheduler that is being shut down observes nothing and starts
\* nothing; then its workers are collected, and only a resume starts another.
Leaving(g, t) ==
  /\ leaving = g /\ t.observer # "running"
  /\ \/ phase = "leaving" /\ t.worker # "starting"
     \/ /\ phase = "killing" /\ t.worker \notin {"starting", "running"}
        /\ t.resumed \in {"starting", "running"} => t.missed

\* Triplets that were not built or lost apart.
Warmth ==
  \A g \in Triplets : triplet[g].apart = "no" =>
    Home(g) \/ Leaving(g, triplet[g]) \/ Cold(triplet[g])

\* A restart that goes on although its triplet is no longer published: the workers
\* are not collected yet, or it was missed.
Overtaken(c) ==
  /\ calls[c].at = "resuming"
  /\ \/ phase = "leaving" /\ leaving = calls[c].on
     \/ triplet[calls[c].on].missed

\* Nobody else works with a triplet that is no longer published.
Users ==
  \A c \in Coroutines :
    calls[c].on # None /\ triplet[calls[c].on].apart = "no" => Home(calls[c].on) \/ Overtaken(c)

LifeInv == Services /\ Builders /\ Workings /\ Restarts /\ Warmth /\ Users

IInv == TypeOK /\ ModelsInv /\ RuntimeInv /\ Disk /\ LifeInv

LEMMA InitIInv == Init => IInv
<1> SUFFICES ASSUME Init PROVE IInv
  OBVIOUS
<1>1. TypeOK
  BY InitTypes
<1>2. ModelsInv
  BY DEF Init, ModelsInit, ModelsInv
<1>3. RuntimeInv
  BY PartsAre DEF Init, RuntimeInit, RuntimeInv, Extracting, BundledIsWhole, Whole, Idle
<1>4. /\ phase = "down" /\ setup = None /\ service = None
      /\ job = Idle /\ answer = "none"
      /\ \A c \in Coroutines : calls[c].at = "idle" /\ calls[c].on = None
      /\ \A g \in Triplets : /\ triplet[g].observer = "none" /\ triplet[g].worker = "none"
                            /\ triplet[g].resumed = "none"
  BY DEF Init, RuntimeInit, Resting, Unbuilt
<1>5. Disk
  BY <1>4 DEF Disk, Active, ResolveSteps, Idle
<1>6. LifeInv
  BY <1>4, BootIsCoroutine
     DEF LifeInv, Services, Builders, LockHeld, Workings, Restarts, Warmth, Cold, Live, Users
<1> QED
  BY <1>1, <1>2, <1>3, <1>5, <1>6 DEF IInv

LEMMA DiskStays ==
  ASSUME Disk, RuntimeInv, ModelsInv, DiskUnchanged, Active' => Active,
         setup' = setup \/ setup' # None
  PROVE  Disk' /\ RuntimeInv' /\ ModelsInv'
<1>1. UNCHANGED <<archive, partial, tree, executable, left, job, url, answer, interrupted>>
  BY DEF DiskUnchanged, runtimeVars
<1>2. RuntimeInv'
  BY <1>1 DEF RuntimeInv, Extracting, BundledIsWhole, Whole, Ready
<1>3. Disk'
  BY <1>1 DEF Disk, Usable, Ready
<1>4. ModelsInv'
  BY DEF DiskUnchanged, modelsVars, ModelsInv
<1> QED
  BY <1>2, <1>3, <1>4

\* A coroutine that goes on from "idle" does so in a phase of an object in use.
LEMMA ArrivesActive ==
  ASSUME NEW c \in Coroutines, Arrives(c)
  PROVE  phase # "down"
BY DEF Arrives

\* A call that goes on while the plugin stays where it is: the locks, the users
\* and the homes of triplets.
LEMMA GoesOn ==
  ASSUME IInv, NEW c \in Coroutines, c # Boot, calls[c].at # "idle",
         NEW s \in {"idle", "queued", "preparing", "handshake", "resuming"},
         NEW g \in Triplets \cup {None},
         Goes(c, s, g), s = "idle" <=> g = None,
         g # None => g = calls[c].on /\ calls[c].at # "resuming",
         UNCHANGED <<phase, leaving, service, scheduler, registry>>,
         triplet' \in [Triplets -> TripletType],
         \A h \in Triplets : /\ triplet'[h].apart = triplet[h].apart
                             /\ triplet'[h].missed = triplet[h].missed
  PROVE  Services' /\ Builders' /\ Users' /\ (\A h \in Triplets : Home(h) <=> Home(h)')
         /\ Active
<1> TypeOK /\ LifeInv
  BY DEF IInv
<1>1. /\ calls'[c].at = s /\ calls'[c].on = g
      /\ \A d \in Coroutines : d # c => calls'[d] = calls[d]
  BY OneGoes
<1>2. phase # "installing"
  BY DEF LifeInv, Builders
<1>3. Services'
  <2>1. service # None => triplet'[service].apart = triplet[service].apart
    BY DEF TypeOK
  <2> QED
    BY <2>1 DEF LifeInv, Services
<1>4. Builders'
  <2>1. \A d \in Coroutines : calls'[d].at = "recovering" => d # c /\ calls[d].at = "recovering"
    BY <1>1
  <2>2. \A d, e \in Coroutines :
          calls'[d].at = "recovering" /\ calls'[e].at = "recovering" => d = e
    BY <2>1 DEF LifeInv, Builders
  <2>3. LockHeld' => service' = None
    BY <2>1 DEF LifeInv, Builders, LockHeld
  <2>4. calls'[Boot].at = IF phase' = "loading" THEN "recovering" ELSE "idle"
    BY <1>1, BootIsCoroutine DEF LifeInv, Builders
  <2> QED
    BY <1>2, <2>2, <2>3, <2>4 DEF Builders
<1>5. \A h \in Triplets : Home(h) <=> Home(h)'
  BY <1>1, BootIsCoroutine DEF Home
<1>6. Users'
  <2> SUFFICES ASSUME NEW d \in Coroutines, calls'[d].on # None,
                      triplet'[calls'[d].on].apart = "no"
               PROVE (Home(calls[d].on)' \/ Overtaken(d)') /\ calls'[d].on = calls[d].on
    BY DEF Users, Home
  <2>1. calls'[d].on = calls[d].on
    BY <1>1
  <2>2. calls[d].on \in Triplets
    BY <2>1 DEF TypeOK
  <2>3. Home(calls[d].on) \/ Overtaken(d)
    BY <2>1, <2>2 DEF LifeInv, Users
  <2>4. Home(calls[d].on) => Home(calls[d].on)'
    BY <1>1, BootIsCoroutine DEF Home
  <2>5. Overtaken(d) => Overtaken(d)'
    BY <1>1, <2>1, <2>2 DEF Overtaken
  <2> QED
    BY <2>1, <2>3, <2>4, <2>5
<1>7. Active
  BY DEF Active
<1> QED
  BY <1>3, <1>4, <1>5, <1>6, <1>7

\* Workings, when c goes on and perhaps begins or ends the preparation of a worker.
LEMMA GoesWorks ==
  ASSUME IInv, NEW c \in Coroutines, NEW g \in Triplets \cup {None},
         NEW s \in {"idle", "waiting", "recovering", "queued", "preparing", "handshake",
                    "reviving", "resuming"},
         Goes(c, s, g), s \in {"idle", "waiting"} <=> g = None,
         \/ setup' = setup /\ setup # c /\ s \notin {"preparing", "reviving"}
         \/ setup' = c /\ setup = None /\ s \in {"preparing", "reviving", "recovering"}
         \/ setup' = None /\ setup = c /\ s \notin {"preparing", "reviving"}
  PROVE  Workings'
<1> TypeOK /\ Workings
  BY DEF IInv, LifeInv
<1>1. /\ calls'[c].at = s /\ calls'[c].on = g
      /\ \A d \in Coroutines : d # c => calls'[d] = calls[d]
  BY OneGoes
<1>2. \A d \in Coroutines : calls'[d].at \in {"idle", "waiting"} <=> calls'[d].on = None
  BY <1>1 DEF Workings
<1>3. \A d \in Coroutines : calls'[d].at \in {"preparing", "reviving"} => setup' = d
  BY <1>1, NoneIsNobody DEF Workings
<1>4. setup' # None => calls'[setup'].at \in {"preparing", "reviving", "recovering"}
  BY <1>1 DEF Workings, TypeOK
<1> QED
  BY <1>2, <1>3, <1>4 DEF Workings

\* Restarts, when c goes on: only c's own restart begins or ends.
LEMMA GoesRestarts ==
  ASSUME IInv, NEW c \in Coroutines, NEW s, NEW g, Goes(c, s, g),
         \A h \in Triplets : triplet'[h].resumed = "starting" =>
           \/ triplet[h].resumed = "starting" /\ ~(calls[c].at = "resuming" /\ calls[c].on = h)
           \/ s = "resuming" /\ g = h
  PROVE  Restarts'
<1> TypeOK /\ Restarts
  BY DEF IInv, LifeInv
<1> SUFFICES ASSUME NEW h \in Triplets, triplet'[h].resumed = "starting"
             PROVE  \E d \in Coroutines : calls'[d] = [at |-> "resuming", on |-> h]
  BY DEF Restarts
<1>1. CASE triplet[h].resumed = "starting" /\ ~(calls[c].at = "resuming" /\ calls[c].on = h)
  <2>1. PICK d \in Coroutines : calls[d] = [at |-> "resuming", on |-> h]
    BY <1>1 DEF Restarts
  <2>2. d # c
    BY <1>1, <2>1
  <2> QED
    BY <2>1, <2>2, OneGoes
<1>2. CASE s = "resuming" /\ g = h
  BY <1>2 DEF Goes, TypeOK
<1> QED
  BY <1>1, <1>2

\* The triplet a call works with.
LEMMA UserOf ==
  ASSUME IInv, NEW c \in Coroutines, calls[c].at \notin {"idle", "waiting"}
  PROVE  /\ calls[c].on \in Triplets
         /\ triplet[calls[c].on] \in TripletType
         /\ triplet[calls[c].on].apart = "no" => Home(calls[c].on) \/ Overtaken(c)
         /\ c = Boot => calls[c].at = "recovering"
<1> TypeOK /\ LifeInv
  BY DEF IInv
<1>1. calls[c].on \in Triplets
  BY NoneIsNobody DEF TypeOK, LifeInv, Workings
<1>2. triplet[calls[c].on].apart = "no" => Home(calls[c].on) \/ Overtaken(c)
  BY <1>1, NoneIsNobody DEF LifeInv, Users
<1>3. c = Boot => calls[c].at = "recovering"
  BY DEF LifeInv, Builders
<1> QED
  BY <1>1, <1>2, <1>3 DEF TypeOK

\* Warmth, when the homes stay and one triplet changes.
LEMMA HomeKeeps ==
  ASSUME IInv, NEW g \in Triplets, NEW T, triplet' = [triplet EXCEPT ![g] = T],
         UNCHANGED <<phase, leaving>>, \A h \in Triplets : Home(h) <=> Home(h)',
         T.apart = "no" => Home(g) \/ Leaving(g, T) \/ Cold(T)
  PROVE  Warmth'
<1> TypeOK /\ Warmth
  BY DEF IInv, LifeInv
<1> SUFFICES ASSUME NEW h \in Triplets, triplet'[h].apart = "no"
             PROVE  Home(h)' \/ Leaving(h, triplet[h])' \/ Cold(triplet[h])'
  BY DEF Warmth
<1>1. CASE h = g
  <2>1. triplet'[h] = T
    BY <1>1 DEF TypeOK
  <2> QED
    BY <1>1, <2>1 DEF Leaving, Cold
<1>2. CASE h # g
  <2>1. triplet'[h] = triplet[h]
    BY <1>2 DEF TypeOK
  <2> QED
    BY <2>1 DEF Warmth, Leaving, Cold
<1> QED
  BY <1>1, <1>2

\* A call that finds a service, waits, or fails to build a triplet.
LEMMA WaitingKeeps ==
  ASSUME IInv, NEW c \in Coroutines, CallServed(c) \/ CallWaits(c) \/ CreationFails(c)
  PROVE  LifeInv' /\ Disk' /\ RuntimeInv' /\ ModelsInv'
<1> TypeOK /\ LifeInv
  BY DEF IInv
<1>1. /\ UNCHANGED <<leaving, service, scheduler, registry, triplet>> /\ DiskUnchanged
      /\ setup = None
      /\ calls[c].at \in {"idle", "waiting"}
      /\ calls[c].at = "idle" => Arrives(c)
  BY DEF CallServed, CallWaits, CreationFails, Looks, Builds, Free
<1>2. c = Boot => CreationFails(c) /\ phase = "installing"
  BY <1>1 DEF LifeInv, Services, Builders, LockHeld, Arrives, CallServed, CallWaits
<1>3. phase' = IF c = Boot THEN "down" ELSE phase
  BY <1>2 DEF CallServed, CallWaits, CreationFails, PhaseAfter
<1>4. c # Boot /\ calls[c].at = "idle" =>
        phase \in {"loading", "up", "stopping", "leaving", "killing"}
  BY <1>1 DEF Arrives
<1>5. PICK s \in {"idle", "waiting", "queued", "reviving"}, g \in Triplets \cup {None} :
        /\ Goes(c, s, g)
        /\ s \in {"queued", "reviving"} => g = service /\ service # None /\ c # Boot
        /\ s \in {"idle", "waiting"} => g = None
        /\ c = Boot => s = "idle"
        /\ setup' = IF s = "reviving" THEN c ELSE None
  <2>1. CASE CallServed(c)
    <3>1. c # Boot /\ service # None /\ service \in Triplets \cup {None}
      BY <1>2, <2>1 DEF CallServed, CreationFails, Builds, TypeOK
    <3>2. \/ Goes(c, "idle", None) /\ UNCHANGED setup
          \/ Goes(c, "queued", service) /\ UNCHANGED setup
          \/ Goes(c, "reviving", service) /\ setup' = c
      BY <2>1 DEF CallServed, Launches, Resumes
    <3> QED
      BY <1>1, <3>1, <3>2
  <2>2. CASE CallWaits(c) \/ CreationFails(c)
    BY <1>1, <1>2, <2>2 DEF CallWaits, CreationFails
  <2> QED
    BY <2>1, <2>2
<1>6. /\ calls'[c].at = s /\ calls'[c].on = g
      /\ \A d \in Coroutines : d # c => calls'[d] = calls[d]
  BY <1>5, OneGoes
<1>7. Services'
  BY <1>1, <1>2, <1>3 DEF LifeInv, Services
<1>8. Builders'
  <2>1. \A d \in Coroutines : calls'[d].at = "recovering" => d # c /\ calls[d].at = "recovering"
    BY <1>5, <1>6
  <2>2. \A d, e \in Coroutines :
          calls'[d].at = "recovering" /\ calls'[e].at = "recovering" => d = e
    BY <2>1 DEF LifeInv, Builders
  <2>3. LockHeld' => service' = None
    BY <1>1, <2>1 DEF LifeInv, Builders, LockHeld
  <2>4. calls'[Boot].at = IF phase' = "loading" THEN "recovering" ELSE "idle"
    BY <1>2, <1>3, <1>5, <1>6, BootIsCoroutine DEF LifeInv, Builders
  <2>5. phase' = "installing" => \A d \in Coroutines : calls'[d].at = "idle"
    BY <1>1, <1>3, <1>4, <1>6 DEF LifeInv, Builders
  <2> QED
    BY <2>2, <2>3, <2>4, <2>5 DEF Builders
<1>9. Workings'
  <2>1. s \in {"idle", "waiting"} <=> g = None
    BY <1>5, NoneIsNobody
  <2>2. setup # c
    BY <1>1, NoneIsNobody
  <2> QED
    BY <1>1, <1>5, <2>1, <2>2, GoesWorks
<1>10. Restarts'
  BY <1>1, <1>5, GoesRestarts
<1>11. Warmth'
  <2> SUFFICES ASSUME NEW h \in Triplets, triplet[h].apart = "no"
               PROVE  Home(h)' \/ Leaving(h, triplet[h])' \/ Cold(triplet[h])
    BY <1>1 DEF Warmth, Cold
  <2>1. Home(h) => Home(h)'
    BY <1>1, <1>2, <1>3, <1>6, BootIsCoroutine DEF LifeInv, Services, Home
  <2>2. Leaving(h, triplet[h]) => Leaving(h, triplet[h])'
    BY <1>1, <1>2, <1>3 DEF Leaving
  <2> QED
    BY <2>1, <2>2 DEF LifeInv, Warmth
<1>12. Users'
  <2> SUFFICES ASSUME NEW d \in Coroutines, calls'[d].on # None,
                      triplet[calls'[d].on].apart = "no"
               PROVE \/ phase' = "loading" /\ calls'[Boot].on = calls'[d].on
                     \/ phase' \in {"up", "stopping"} /\ service = calls'[d].on
                     \/ Overtaken(d)'
    BY <1>1 DEF Users, Home
  <2>1. CASE d = c
    <3>1. g = service /\ s \in {"queued", "reviving"} /\ c # Boot
      BY <2>1, <1>5, <1>6
    <3>2. phase \notin {"leaving", "killing", "down", "installing", "loading"}
      BY <2>1, <3>1, <1>5, <1>6 DEF LifeInv, Services
    <3> QED
      BY <1>1, <1>3, <1>6, <2>1, <3>1, <3>2 DEF TypeOK, Home
  <2>2. CASE d # c
    <3>1. calls'[d] = calls[d] /\ calls[d].at # "idle"
      BY <2>2, <1>6 DEF LifeInv, Workings
    <3>2. c # Boot /\ phase' = phase
      BY <3>1, <1>2, <1>3 DEF LifeInv, Builders
    <3>3. Home(calls[d].on) \/ Overtaken(d)
      BY <3>1 DEF LifeInv, Users
    <3>4. Overtaken(d) => Overtaken(d)'
      BY <1>1, <3>1, <3>2 DEF Overtaken
    <3> QED
      BY <3>1, <3>2, <3>3, <3>4, <1>6, BootIsCoroutine DEF Home
  <2> QED
    BY <2>1, <2>2
<1>13. Active' => Active
  <2>1. c # Boot /\ calls[c].at = "idle" => phase # "down"
    BY <1>4
  <2> QED
    BY <1>2, <1>3, <1>6, <2>1 DEF Active
<1>14. setup' = setup \/ setup' # None
  BY <1>1, <1>5, NoneIsNobody
<1> QED
  BY <1>1, <1>7, <1>8, <1>9, <1>10, <1>11, <1>12, <1>13, <1>14, DiskStays DEF IInv, LifeInv

LEMMA LaunchKeeps ==
  ASSUME IInv, NEW c \in Coroutines, LaunchPrepares(c) \/ LaunchRefused(c) \/ LaunchEnds(c)
  PROVE  LifeInv' /\ Disk' /\ RuntimeInv' /\ ModelsInv'
<1> DEFINE g == calls[c].on
<1> TypeOK /\ LifeInv
  BY DEF IInv
<1>1. /\ setup = None /\ DiskUnchanged
      /\ calls[c].at \in {"queued", "handshake"}
      /\ UNCHANGED <<phase, leaving, service, scheduler, registry>>
  BY DEF LaunchPrepares, LaunchRefused, LaunchEnds, Free
<1>2. /\ g \in Triplets /\ c # Boot /\ triplet[g] \in TripletType
      /\ triplet[g].apart = "no" => Home(g)
  BY <1>1, UserOf DEF Overtaken
<1>3. PICK w \in Processes :
        triplet' = [triplet EXCEPT ![g] = [triplet[g] EXCEPT !.worker = w]]
  BY <1>2 DEF LaunchPrepares, LaunchRefused, LaunchEnds, TypeOK, TripletType, Processes
<1> DEFINE T == [triplet[g] EXCEPT !.worker = w]
<1>4. T \in TripletType
  BY <1>2, WorkerTyped DEF Processes
<1>5. T.apart = triplet[g].apart /\ T.missed = triplet[g].missed /\ T.resumed = triplet[g].resumed
  BY <1>2 DEF TripletType
<1> HIDE DEF T
<1>6. triplet' = [triplet EXCEPT ![g] = T]
  BY <1>3 DEF T
<1>7. /\ triplet' \in [Triplets -> TripletType]
      /\ \A h \in Triplets : /\ triplet'[h].apart = triplet[h].apart
                             /\ triplet'[h].missed = triplet[h].missed
                             /\ triplet'[h].resumed = triplet[h].resumed
  BY <1>4, <1>5, <1>6 DEF TypeOK
<1>8. PICK s \in {"idle", "preparing"}, k \in {g, None} :
        /\ Goes(c, s, k)
        /\ s = "idle" <=> k = None
        /\ setup' = IF s = "preparing" THEN c ELSE setup
  BY <1>2, NoneIsNobody DEF LaunchPrepares, LaunchRefused, LaunchEnds
<1>9. /\ Services' /\ Builders' /\ Users' /\ Active
      /\ \A h \in Triplets : Home(h) <=> Home(h)'
  BY <1>1, <1>2, <1>7, <1>8, GoesOn
<1>10. Workings'
  BY <1>1, <1>2, <1>8, NoneIsNobody, GoesWorks
<1>11. Restarts'
  BY <1>1, <1>7, <1>8, GoesRestarts
<1>12. Warmth'
  BY <1>1, <1>2, <1>5, <1>6, <1>9, HomeKeeps
<1>13. setup' = setup \/ setup' # None
  BY <1>8, NoneIsNobody
<1> QED
  BY <1>1, <1>9, <1>10, <1>11, <1>12, <1>13, DiskStays DEF IInv, LifeInv

\* The restart may end after its scheduler was shut down: then it was missed.
LEMMA ResumeKeeps ==
  ASSUME IInv, NEW c \in Coroutines, ResumeEnds(c)
  PROVE  LifeInv' /\ Disk' /\ RuntimeInv' /\ ModelsInv'
<1> DEFINE g == calls[c].on
<1> TypeOK /\ LifeInv
  BY DEF IInv
<1>1. /\ setup = None /\ DiskUnchanged /\ calls[c].at = "resuming"
      /\ UNCHANGED <<phase, leaving, service, scheduler, registry, setup>>
      /\ Goes(c, "idle", None)
  BY DEF ResumeEnds, Free
<1>2. /\ g \in Triplets /\ c # Boot /\ triplet[g] \in TripletType
      /\ triplet[g].apart = "no" => Home(g) \/ Overtaken(c)
  BY <1>1, UserOf
<1>3. PICK v \in {"none", "running"} :
        triplet' = [triplet EXCEPT ![g] = [triplet[g] EXCEPT !.resumed = v]]
  BY <1>2 DEF ResumeEnds, TypeOK, TripletType
<1> DEFINE T == [triplet[g] EXCEPT !.resumed = v]
<1>4. T \in TripletType
  BY <1>2, WorkerTyped DEF Processes
<1>5. /\ T.apart = triplet[g].apart /\ T.missed = triplet[g].missed /\ T.resumed = v
      /\ T.observer = triplet[g].observer /\ T.worker = triplet[g].worker
  BY <1>2 DEF TripletType
<1> HIDE DEF T
<1>6. triplet' = [triplet EXCEPT ![g] = T]
  BY <1>3 DEF T
<1>7. /\ triplet' \in [Triplets -> TripletType]
      /\ \A h \in Triplets : /\ triplet'[h].apart = triplet[h].apart
                             /\ triplet'[h].missed = triplet[h].missed
                             /\ h # g => triplet'[h].resumed = triplet[h].resumed
                             /\ h = g => triplet'[h].resumed # "starting"
  BY <1>3, <1>4, <1>5, <1>6 DEF TypeOK
<1>8. /\ Services' /\ Builders' /\ Users' /\ Active
      /\ \A h \in Triplets : Home(h) <=> Home(h)'
  BY <1>1, <1>2, <1>7, GoesOn
<1>9. Workings'
  BY <1>1, NoneIsNobody, GoesWorks
<1>10. Restarts'
  BY <1>1, <1>7, GoesRestarts
<1>11. T.apart = "no" => Home(g) \/ Leaving(g, T) \/ Cold(T)
  <2> SUFFICES ASSUME triplet[g].apart = "no", ~Home(g)
               PROVE  Leaving(g, T) \/ Cold(T)
    BY <1>5
  <2>1. Overtaken(c)
    BY <1>2
  <2>2. CASE Leaving(g, triplet[g])
    BY <1>5, <2>1, <2>2 DEF Leaving, Overtaken
  <2>3. CASE Cold(triplet[g])
    BY <1>5, <2>1, <2>3 DEF Leaving, Cold, Live, Overtaken
  <2> QED
    BY <1>2, <2>2, <2>3 DEF LifeInv, Warmth
<1>12. Warmth'
  BY <1>1, <1>2, <1>6, <1>8, <1>11, HomeKeeps
<1> QED
  BY <1>1, <1>8, <1>9, <1>10, <1>12, DiskStays DEF IInv, LifeInv

LEMMA WorkerStartsKeeps ==
  ASSUME IInv, WorkerStarts
  PROVE  LifeInv' /\ Disk'
<1> DEFINE g == calls[setup].on
           revives == calls[setup].at = "reviving"
<1> TypeOK /\ LifeInv
  BY DEF IInv
<1>1. /\ setup \in Coroutines /\ calls[setup].at \in {"preparing", "reviving", "recovering"}
      /\ setup' = None /\ SetupOver /\ job = Idle
      /\ UNCHANGED <<phase, leaving, service, scheduler, registry>>
  BY DEF WorkerStarts, SetupOver, LifeInv, Workings, TypeOK
<1>2. /\ g \in Triplets /\ triplet[g] \in TripletType
      /\ triplet[g].apart = "no" => Home(g)
      /\ setup = Boot => calls[setup].at = "recovering"
  BY <1>1, UserOf DEF Overtaken
<1>3. PICK T \in TripletType :
        /\ triplet' = [triplet EXCEPT ![g] = T]
        /\ T.apart = triplet[g].apart /\ T.missed = triplet[g].missed
        /\ ~revives => T.resumed = triplet[g].resumed
  <2>1. PICK a \in {"none", "bundled", "path"} :
          IF revives
          THEN triplet' = [triplet EXCEPT ![g] =
                 [triplet[g] EXCEPT !.resumed = "starting", !.command = a]]
          ELSE triplet' = [triplet EXCEPT ![g] =
                 [triplet[g] EXCEPT !.worker = "starting", !.command = a]]
    <3>1. triplet[g].command \in {"none", "bundled", "path"}
      BY <1>2 DEF TripletType
    <3>2. answer \in {"none", "bundled", "path"}
      BY DEF WorkerStarts, TypeOK, RuntimeTypeOK
    <3> QED
      BY <1>2, <3>1, <3>2 DEF WorkerStarts, TypeOK
  <2>2. CASE revives
    <3> DEFINE T == [triplet[g] EXCEPT !.resumed = "starting", !.command = a]
    <3>1. T \in TripletType
      BY <1>2, CommandTyped DEF Processes
    <3>2. T.apart = triplet[g].apart /\ T.missed = triplet[g].missed
      BY <1>2 DEF TripletType
    <3> QED
      BY <2>1, <2>2, <3>1, <3>2
  <2>3. CASE ~revives
    <3> DEFINE T == [triplet[g] EXCEPT !.worker = "starting", !.command = a]
    <3>1. T \in TripletType
      BY <1>2, CommandTyped DEF Processes
    <3>2. /\ T.apart = triplet[g].apart /\ T.missed = triplet[g].missed
          /\ T.resumed = triplet[g].resumed
      BY <1>2 DEF TripletType
    <3> QED
      BY <2>1, <2>3, <3>1, <3>2
  <2> QED
    BY <2>2, <2>3
<1>4. /\ triplet' \in [Triplets -> TripletType]
      /\ \A h \in Triplets : /\ triplet'[h].apart = triplet[h].apart
                             /\ triplet'[h].missed = triplet[h].missed
                             /\ h # g \/ ~revives => triplet'[h].resumed = triplet[h].resumed
  BY <1>3 DEF TypeOK
<1>5. /\ Services' /\ Builders' /\ Users' /\ Workings' /\ Restarts' /\ Active
      /\ \A h \in Triplets : Home(h) <=> Home(h)'
  <2>1. CASE calls[setup].at \in {"preparing", "reviving"}
    <3>1. PICK s \in {"handshake", "resuming"} :
            Goes(setup, s, g) /\ (revives => s = "resuming") /\ setup # Boot
      BY <1>2, <2>1 DEF WorkerStarts
    <3>2. g # None
      BY <1>2, NoneIsNobody
    <3>3. Restarts'
      BY <1>1, <1>4, <2>1, <3>1, GoesRestarts
    <3> QED
      BY <1>1, <1>2, <1>4, <2>1, <3>1, <3>2, <3>3, GoesOn, GoesWorks
  <2>2. CASE calls[setup].at = "recovering"
    <3>1. UNCHANGED calls
      BY <2>2 DEF WorkerStarts
    <3>2. Services'
      <4>1. service # None => triplet'[service].apart = triplet[service].apart
        BY <1>4 DEF TypeOK
      <4> QED
        BY <1>1, <4>1 DEF LifeInv, Services
    <3>3. Builders'
      BY <1>1, <3>1 DEF LifeInv, Builders, LockHeld
    <3>4. \A h \in Triplets : Home(h) <=> Home(h)'
      BY <1>1, <3>1 DEF Home
    <3>5. Users'
      <4>1. \A d \in Coroutines :
              calls[d].on # None => /\ triplet'[calls[d].on].apart = triplet[calls[d].on].apart
                                    /\ Home(calls[d].on) => Home(calls[d].on)'
                                    /\ Overtaken(d) => Overtaken(d)'
        BY <1>1, <1>4, <3>1 DEF TypeOK, Home, Overtaken
      <4> QED
        BY <1>1, <3>1, <4>1 DEF LifeInv, Users, Home
    <3>6. Workings'
      BY <1>1, <2>2, <3>1, NoneIsNobody DEF LifeInv, Workings
    <3>7. Restarts'
      BY <1>4, <2>2, <3>1 DEF LifeInv, Restarts
    <3>8. Active
      BY <1>1 DEF Active
    <3> QED
      BY <3>2, <3>3, <3>4, <3>5, <3>6, <3>7, <3>8
  <2> QED
    BY <1>1, <2>1, <2>2
<1>6. Warmth'
  BY <1>1, <1>2, <1>3, <1>5, HomeKeeps
<1>7. Disk'
  BY <1>1, <1>5 DEF IInv, Disk, SetupOver, Usable, Ready, ResolveSteps, Idle
<1> QED
  BY <1>5, <1>6, <1>7 DEF LifeInv

LEMMA SetupFailsKeeps ==
  ASSUME IInv, SetupFails
  PROVE  LifeInv' /\ Disk'
<1> DEFINE g == calls[setup].on
<1> TypeOK /\ LifeInv
  BY DEF IInv
<1>1. /\ setup \in Coroutines /\ calls[setup].at \in {"preparing", "reviving", "recovering"}
      /\ setup' = None /\ SetupOver /\ job = Idle
      /\ UNCHANGED <<phase, leaving, service, scheduler, registry, triplet>>
  BY DEF SetupFails, SetupOver, LifeInv, Workings, TypeOK
<1>2. g \in Triplets /\ (setup = Boot => calls[setup].at = "recovering")
  BY <1>1, UserOf
<1>3. /\ Services' /\ Builders' /\ Users' /\ Workings' /\ Restarts' /\ Active
      /\ \A h \in Triplets : Home(h) <=> Home(h)'
  <2>1. CASE calls[setup].at \in {"preparing", "reviving"}
    <3>1. Goes(setup, "idle", None) /\ setup # Boot
      BY <1>2, <2>1 DEF SetupFails
    <3> QED
      BY <1>1, <2>1, <3>1, GoesOn, GoesWorks, GoesRestarts DEF TypeOK
  <2>2. CASE calls[setup].at = "recovering"
    <3>1. UNCHANGED calls
      BY <2>2 DEF SetupFails
    <3>2. \A h : Home(h) <=> Home(h)'
      BY <1>1, <3>1 DEF Home
    <3>3. Services' /\ Builders' /\ Users'
      BY <1>1, <3>1, <3>2 DEF LifeInv, Services, Builders, LockHeld, Users, Home, Overtaken
    <3>4. Workings' /\ Restarts' /\ Active
      BY <1>1, <2>2, <3>1, NoneIsNobody DEF LifeInv, Workings, Restarts, Active
    <3> QED
      BY <3>2, <3>3, <3>4
  <2> QED
    BY <1>1, <2>1, <2>2
<1>4. Warmth'
  BY <1>1, <1>3 DEF LifeInv, Warmth, Leaving, Cold
<1>5. Disk'
  BY <1>1, <1>3 DEF IInv, Disk, SetupOver, Usable, Ready, ResolveSteps, Idle
<1> QED
  BY <1>3, <1>4, <1>5 DEF LifeInv

\* The setup's other steps, a step of the runtime, and an archive that is placed.
LEMMA LifeStays ==
  ASSUME LifeInv, UNCHANGED pluginVars
  PROVE  LifeInv' /\ (Active <=> Active')
BY DEF pluginVars, LifeInv, Services, Builders, LockHeld, Workings, Restarts, Warmth, Leaving,
   Cold, Home, Users, Overtaken, Active

LEMMA SetupOverKeeps ==
  ASSUME RuntimeInv, SetupOver
  PROVE  RuntimeInv'
BY DEF RuntimeInv, SetupOver, Extracting, BundledIsWhole, Whole, Ready

LEMMA SetupStepKeeps ==
  ASSUME IInv, SetupWrites \/ SetupResolves
  PROVE  LifeInv' /\ Disk' /\ RuntimeInv' /\ ModelsInv'
<1> TypeOK /\ LifeInv /\ RuntimeInv /\ Disk /\ ModelsInv
  BY DEF IInv
<1>1. CASE SetupWrites
  <2>1. UNCHANGED pluginVars /\ UNCHANGED runtimeVars /\ ModelsStep
    BY <1>1 DEF SetupWrites
  <2>2. RuntimeInv'
    BY <2>1 DEF runtimeVars, RuntimeInv, Extracting, BundledIsWhole, Whole, Ready
  <2>3. Disk'
    BY <2>1, LifeStays DEF runtimeVars, pluginVars, Disk, Usable, Ready
  <2> QED
    BY <2>1, <2>2, <2>3, LifeStays, ModelsInvKept
<1>2. CASE SetupResolves
  <2>1. /\ UNCHANGED pluginVars /\ UNCHANGED modelsVars /\ ResolveBegins
        /\ setup # None /\ answer = "none" /\ job = Idle
    BY <1>2 DEF SetupResolves, NeedsCommand, ResolveBegins
  <2>2. setup \in Coroutines /\ calls[setup].at # "idle"
    BY <2>1 DEF TypeOK, LifeInv, Workings
  <2>3. Usable
    BY <2>1, <2>2 DEF Disk, Active
  <2>4. RuntimeInv'
    <3>1. CASE ~Ready /\ archive # "none"
      <4>1. archive \in Archives /\ RuntimeTypeOK
        BY <3>1 DEF TypeOK, RuntimeTypeOK
      <4>2. archive' = archive /\ Unpack(archive, "extracting") /\ UNCHANGED <<tree, executable, answer>>
        BY <2>1, <3>1 DEF ResolveBegins
      <4> QED
        BY <2>1, <3>1, <4>1, <4>2, BeginsKeeps
    <3>2. CASE ~(~Ready /\ archive # "none")
      <4>1. /\ job' = "deciding"
            /\ UNCHANGED <<archive, partial, tree, executable, left, answer, interrupted>>
        BY <2>1, <3>2 DEF ResolveBegins
      <4> QED
        BY <2>1, <2>3, <4>1 DEF RuntimeInv, Usable, Extracting, BundledIsWhole, Whole, Ready, Idle
    <3> QED
      BY <3>1, <3>2
  <2>5. Disk'
    <3>1. setup' = setup /\ answer' = answer /\ job' # Idle
      BY <2>1 DEF pluginVars, ResolveBegins, Unpack, Idle
    <3> QED
      BY <2>1, <3>1 DEF Disk
  <2> QED
    BY <2>1, <2>4, <2>5, LifeStays, ModelsInvKept
<1> QED
  BY <1>1, <1>2

LEMMA DiskStepKeeps ==
  ASSUME IInv, DiskStep \/ UserStep
  PROVE  LifeInv' /\ Disk' /\ RuntimeInv' /\ ModelsInv'
<1> TypeOK /\ LifeInv /\ RuntimeInv /\ Disk /\ ModelsInv
  BY DEF IInv
<1>1. UNCHANGED pluginVars /\ UNCHANGED modelsVars
  BY DEF DiskStep, UserStep
<1>2. CASE DiskStep
  <2>1. RuntimeStep /\ RuntimeTypeOK
    BY <1>2 DEF DiskStep, TypeOK
  <2>2. RuntimeInv' /\ job # Idle /\ (job' = Idle => Usable')
    BY <2>1, RuntimeStepKeeps
  <2>3. /\ job' \in ResolveSteps => job \in ResolveSteps
        /\ answer' # answer => job \in ResolveSteps
    BY <2>1, <2>2 DEF RuntimeStep, FetchWrites, FetchFails, FetchRaises, FetchReplaces, Unpack,
       ExtractOpens, ExtractCloses, ExtractEnds, ExtractRaises, Extracting, Marks, Discards,
       Decides, ResolveSteps, Idle
  <2>4. Disk'
    BY <1>1, <2>2, <2>3 DEF Disk, pluginVars
  <2> QED
    BY <1>1, <2>2, <2>4, LifeStays, ModelsInvKept
<1>3. CASE UserStep
  <2>1. PICK a \in Archives : ArchivePlaced(a)
    BY <1>3, RuntimeAssumption DEF UserStep
  <2>2. /\ job = Idle
        /\ UNCHANGED <<partial, tree, executable, left, job, url, answer, interrupted>>
    BY <2>1 DEF ArchivePlaced
  <2>3. RuntimeInv'
    BY <2>2 DEF RuntimeInv, Extracting, BundledIsWhole, Whole, Ready, Idle
  <2>4. Disk'
    BY <1>1, <2>2, LifeStays DEF Disk, Usable, Ready, pluginVars
  <2> QED
    BY <1>1, <2>3, <2>4, LifeStays, ModelsInvKept
<1> QED
  BY <1>2, <1>3

LEMMA WorkerKeeps ==
  ASSUME IInv, NEW g \in Triplets, WorkerFinishes(g) \/ ObserverDies(g)
  PROVE  LifeInv' /\ Disk' /\ RuntimeInv' /\ ModelsInv'
<1> TypeOK /\ LifeInv /\ triplet[g] \in TripletType
  BY DEF IInv, TypeOK
<1>1. /\ UNCHANGED <<phase, leaving, service, scheduler, registry, calls, setup>>
      /\ DiskUnchanged
  BY DEF WorkerFinishes, ObserverDies
<1>2. \A h \in Triplets :
        /\ triplet'[h].apart = triplet[h].apart
        /\ triplet'[h].missed = triplet[h].missed
        /\ triplet'[h].observer \in {triplet[h].observer, "stopped"}
        /\ triplet'[h].worker \in {triplet[h].worker, "none"}
        /\ triplet'[h].resumed \in {triplet[h].resumed, "none"}
  BY DEF WorkerFinishes, ObserverDies, TypeOK, TripletType
<1>3. \A h : Home(h) <=> Home(h)'
  BY <1>1 DEF Home
<1>4. service # None => service \in Triplets
  BY DEF TypeOK
<1>5. \A c \in Coroutines : calls[c].on # None => calls[c].on \in Triplets
  BY DEF TypeOK
<1>6. Services' /\ Builders' /\ Workings' /\ Restarts'
  BY <1>1, <1>2, <1>4 DEF LifeInv, Services, Builders, LockHeld, Workings, Restarts
<1>7. Users'
  BY <1>1, <1>2, <1>5 DEF LifeInv, Users, Home, Overtaken
<1>8. Warmth'
  <2> SUFFICES ASSUME NEW h \in Triplets, triplet[h].apart = "no"
               PROVE  Home(h)' \/ Leaving(h, triplet[h])' \/ Cold(triplet[h])'
    BY <1>2 DEF Warmth
  <2>1. Leaving(h, triplet[h]) => Leaving(h, triplet[h])'
    BY <1>1, <1>2 DEF Leaving
  <2>2. Cold(triplet[h]) => Cold(triplet[h])'
    BY <1>2 DEF Cold, Live
  <2> QED
    BY <1>3, <2>1, <2>2 DEF LifeInv, Warmth
<1>9. Active' => Active
  BY <1>1 DEF Active
<1> QED
  BY <1>1, <1>6, <1>7, <1>8, <1>9, DiskStays DEF IInv, LifeInv

\* Where a coroutine that builds a triplet comes from: initialize() itself, or a
\* call while the object is on its way out.
LEMMA Builder ==
  ASSUME IInv, NEW c \in Coroutines, Builds(c)
  PROVE  /\ service = None /\ setup = None /\ job = Idle
         /\ calls[c].at \in {"idle", "waiting"} /\ calls[c].on = None
         /\ \A d \in Coroutines : calls[d].at # "recovering"
         /\ IF c = Boot THEN phase = "installing" ELSE phase \in {"leaving", "killing", "down"}
         /\ Active
<1> TypeOK /\ LifeInv
  BY DEF IInv
<1>1. /\ service = None /\ setup = None /\ job = Idle
      /\ calls[c].at \in {"idle", "waiting"}
      /\ calls[c].at = "idle" => Arrives(c)
      /\ \A d \in Coroutines : calls[d].at # "recovering"
  BY DEF Builds, Looks, Free, LockHeld
<1>2. calls[c].on = None
  BY <1>1 DEF LifeInv, Workings
<1>3. phase \notin {"up", "stopping", "loading"}
  BY <1>1, BootIsCoroutine DEF LifeInv, Services, Builders
<1>4. CASE c = Boot
  BY <1>1, <1>2, <1>3, <1>4 DEF Arrives, LifeInv, Builders, Active
<1>5. CASE c # Boot
  <2>1. phase # "installing"
    BY <1>1, <1>5 DEF Arrives, LifeInv, Builders
  <2>2. Active
    BY <1>1, <1>5 DEF Arrives, Active
  <2> QED
    BY <1>1, <1>2, <1>3, <1>5, <2>1, <2>2 DEF TypeOK
<1> QED
  BY <1>4, <1>5

LEMMA CreationKeeps ==
  ASSUME IInv, NEW c \in Coroutines, NEW g \in Triplets,
         CreationPublishes(c, g) \/ CreationRecovers(c, g)
  PROVE  LifeInv' /\ Disk' /\ RuntimeInv' /\ ModelsInv'
<1> TypeOK /\ LifeInv
  BY DEF IInv
<1>1. /\ service = None /\ setup = None /\ job = Idle
      /\ calls[c].at \in {"idle", "waiting"} /\ calls[c].on = None
      /\ \A d \in Coroutines : calls[d].at # "recovering"
      /\ IF c = Boot THEN phase = "installing" ELSE phase \in {"leaving", "killing", "down"}
      /\ Active
  BY Builder DEF CreationPublishes, CreationRecovers
<1>2. /\ DiskUnchanged /\ UNCHANGED leaving
      /\ triplet' = [triplet EXCEPT ![g] = [Built EXCEPT !.apart = Apart]]
  BY DEF CreationPublishes, CreationRecovers
<1>3. /\ triplet'[g].apart = IF c = Boot THEN "no" ELSE "late"
      /\ \A h \in Triplets : h # g => triplet'[h] = triplet[h]
  BY <1>1, <1>2 DEF TypeOK, Built, Unbuilt, Apart
<1>4. c # Boot => phase' = phase
  BY DEF CreationPublishes, CreationRecovers, Publishes, PhaseAfter
<1>5. \A h \in Triplets : h # g /\ triplet[h].apart = "no" =>
        Leaving(h, triplet[h]) \/ Cold(triplet[h])
  BY <1>1 DEF LifeInv, Warmth, Home
<1>6. \A d \in Coroutines :
        calls[d].on # None /\ triplet[calls[d].on].apart = "no" => Overtaken(d)
  BY <1>1 DEF LifeInv, Users, Home
<1>7. PICK s \in {"idle", "queued", "reviving", "recovering"}, k \in {g, None} :
        /\ Goes(c, s, k) /\ (s = "idle" <=> k = None)
        /\ \/ /\ service' = g /\ scheduler' = g /\ registry' = g
              /\ IF c = Boot THEN s = "idle" ELSE s \in {"queued", "reviving"}
              /\ phase' = (IF c = Boot THEN "up" ELSE phase)
              /\ setup' = (IF s = "reviving" THEN c ELSE setup)
           \/ /\ UNCHANGED <<service, scheduler, registry>>
              /\ s = "recovering"
              /\ phase' = (IF c = Boot THEN "loading" ELSE phase)
              /\ setup' \in {c, setup}
  BY <1>1, NoneIsNobody
     DEF CreationPublishes, CreationRecovers, Publishes, Launches, Resumes, PhaseAfter
<1>8. /\ calls'[c].at = s /\ calls'[c].on = k
      /\ \A d \in Coroutines : d # c => calls'[d] = calls[d]
  BY <1>7, OneGoes
<1>9. Services'
  <2>1. /\ leaving' = leaving /\ g # None
        /\ phase \in {"leaving", "killing"} => leaving # None /\ registry # None
    BY <1>2, NoneIsNobody DEF LifeInv, Services
  <2>2. CASE service' = g /\ scheduler' = g /\ registry' = g
    <3>1. phase' = IF c = Boot THEN "up" ELSE phase
      BY <1>7, <1>1, <2>1, <2>2
    <3> QED
      BY <1>1, <1>3, <2>1, <2>2, <3>1 DEF Services
  <2>3. CASE service' = None /\ registry' = registry
    <3>1. phase' = IF c = Boot THEN "loading" ELSE phase
      BY <1>7, <2>1, <2>3
    <3> QED
      BY <1>1, <2>1, <2>3, <3>1 DEF Services
  <2> QED
    BY <1>1, <1>7, <2>2, <2>3
<1>10. Builders'
  <2>1. \A d \in Coroutines : calls'[d].at = "recovering" => d = c /\ s = "recovering"
    BY <1>1, <1>8
  <2>2. LockHeld' => service' = None
    BY <1>1, <1>7, <2>1 DEF LockHeld
  <2>3. calls'[Boot].at = IF phase' = "loading" THEN "recovering" ELSE "idle"
    BY <1>1, <1>7, <1>8, BootIsCoroutine DEF LifeInv, Builders
  <2>4. phase' # "installing"
    BY <1>1, <1>7
  <2> QED
    BY <2>1, <2>2, <2>3, <2>4 DEF Builders
<1>11. Workings'
  <2>1. s \in {"idle", "waiting"} <=> k = None
    BY <1>7
  <2>2. \/ setup' = setup /\ setup # c /\ s \notin {"preparing", "reviving"}
        \/ setup' = c /\ setup = None /\ s \in {"preparing", "reviving", "recovering"}
    BY <1>1, <1>7, NoneIsNobody
  <2> QED
    BY <1>7, <2>1, <2>2, GoesWorks
<1>12. Warmth'
  <2> SUFFICES ASSUME NEW h \in Triplets, triplet'[h].apart = "no"
               PROVE  Home(h)' \/ Leaving(h, triplet[h])' \/ Cold(triplet[h])'
    BY DEF Warmth
  <2>1. CASE h = g
    BY <1>3, <1>7, <1>8, <2>1, NoneIsNobody DEF Home
  <2>2. CASE h # g
    <3>1. triplet'[h] = triplet[h] /\ (Leaving(h, triplet[h]) \/ Cold(triplet[h]))
      BY <1>3, <1>5, <2>2
    <3>2. Leaving(h, triplet[h]) => c # Boot
      BY <1>1 DEF Leaving
    <3> QED
      BY <1>2, <1>4, <3>1, <3>2 DEF Leaving, Cold
  <2> QED
    BY <2>1, <2>2
<1>13. Users'
  <2> SUFFICES ASSUME NEW d \in Coroutines, calls'[d].on # None,
                      triplet'[calls'[d].on].apart = "no"
               PROVE \/ phase' = "loading" /\ calls'[Boot].on = calls'[d].on
                     \/ phase' \in {"up", "stopping"} /\ service' = calls'[d].on
                     \/ Overtaken(d)'
    BY DEF Users, Home
  <2>1. CASE d = c
    BY <1>3, <1>7, <1>8, <2>1
  <2>2. CASE d # c
    <3>1. calls'[d] = calls[d] /\ calls[d].on \in Triplets
      BY <1>8, <2>2 DEF TypeOK
    <3>2. calls[d].at # "idle" /\ c # Boot
      BY <1>1, <3>1, NoneIsNobody DEF LifeInv, Workings, Builders
    <3>3. calls[d].on # g /\ triplet'[calls[d].on] = triplet[calls[d].on]
      BY <1>3, <3>1, <3>2
    <3>4. Overtaken(d)
      BY <1>6, <3>1, <3>3
    <3> QED
      BY <1>2, <1>4, <3>1, <3>2, <3>3, <3>4 DEF Overtaken
  <2> QED
    BY <2>1, <2>2
<1>14. Restarts'
  <2>1. triplet'[g].resumed = "none"
    BY <1>1, <1>2 DEF TypeOK, Built, Unbuilt
  <2> QED
    BY <1>1, <1>3, <1>7, <2>1, GoesRestarts
<1>15. setup' = setup \/ setup' # None
  BY <1>7, NoneIsNobody
<1> QED
  BY <1>1, <1>2, <1>9, <1>10, <1>11, <1>12, <1>13, <1>14, <1>15, DiskStays DEF IInv, LifeInv

LEMMA RecoveryKeeps ==
  ASSUME IInv, NEW c \in Coroutines, RecoveryEnds(c) \/ RecoveryRaises(c)
  PROVE  LifeInv' /\ Disk' /\ RuntimeInv' /\ ModelsInv'
<1> DEFINE g == calls[c].on
<1> TypeOK /\ LifeInv
  BY DEF IInv
<1>1. /\ setup = None /\ DiskUnchanged /\ leaving' = leaving
      /\ calls[c].at = "recovering"
  BY DEF RecoveryEnds, RecoveryRaises, Free
<1>2. /\ g \in Triplets /\ triplet[g] \in TripletType
      /\ triplet[g].apart = "no" => Home(g)
  BY <1>1, UserOf DEF Overtaken
<1>3. /\ service = None /\ (c = Boot <=> phase = "loading")
      /\ phase \in {"loading", "leaving", "killing", "down"}
      /\ \A d \in Coroutines : calls[d].at = "recovering" => d = c
  BY <1>1, BootIsCoroutine DEF LifeInv, Builders, LockHeld, Services, TypeOK
<1>4. /\ \A h \in Triplets : h # g => triplet'[h] = triplet[h]
      /\ RecoveryEnds(c) => triplet'[g].apart = triplet[g].apart
      /\ RecoveryRaises(c) => triplet'[g].apart = "lost"
      /\ triplet'[g].missed = triplet[g].missed /\ triplet'[g].resumed = triplet[g].resumed
  <2>1. CASE RecoveryEnds(c)
    <3>1. PICK w \in {triplet[g].worker, "running", "none"} :
            triplet' = [triplet EXCEPT ![g] = [triplet[g] EXCEPT !.worker = w]]
      BY <1>2, <2>1 DEF RecoveryEnds, TypeOK, TripletType
    <3>2. LET T == [triplet[g] EXCEPT !.worker = w] IN
            /\ T.apart = triplet[g].apart
            /\ T.missed = triplet[g].missed /\ T.resumed = triplet[g].resumed
      BY <1>2 DEF TripletType
    <3>3. \A h \in Triplets : h # g => triplet'[h] = triplet[h]
      BY <3>1 DEF TypeOK
    <3>4. /\ triplet'[g].apart = triplet[g].apart
          /\ triplet'[g].missed = triplet[g].missed /\ triplet'[g].resumed = triplet[g].resumed
      BY <1>2, <3>1, <3>2 DEF TypeOK
    <3>5. ~RecoveryRaises(c)
      BY <1>2, <1>3, <2>1, NoneIsNobody DEF RecoveryEnds, RecoveryRaises, Publishes
    <3> QED
      BY <3>3, <3>4, <3>5
  <2>2. CASE RecoveryRaises(c)
    <3>1. PICK w : triplet' = [triplet EXCEPT ![g] =
                     [triplet[g] EXCEPT !.registry = "closed", !.apart = "lost", !.worker = w]]
      BY <1>2, <2>2 DEF RecoveryRaises, TypeOK
    <3>2. LET T == [triplet[g] EXCEPT !.registry = "closed", !.apart = "lost", !.worker = w] IN
            /\ T.apart = "lost"
            /\ T.missed = triplet[g].missed /\ T.resumed = triplet[g].resumed
      BY <1>2 DEF TripletType
    <3>3. ~RecoveryEnds(c)
      BY <1>2, <1>3, <2>2, NoneIsNobody DEF RecoveryEnds, RecoveryRaises, Publishes
    <3> QED
      BY <1>2, <3>1, <3>2, <3>3 DEF TypeOK
  <2> QED
    BY <2>1, <2>2
<1>5. PICK s \in {"idle", "queued", "reviving"}, k \in {g, None} :
        /\ Goes(c, s, k) /\ (s = "idle" <=> k = None)
        /\ setup' = (IF s = "reviving" THEN c ELSE None)
        /\ \/ /\ RecoveryEnds(c)
              /\ service' = g /\ scheduler' = g /\ registry' = g
              /\ IF c = Boot THEN s = "idle" ELSE s \in {"queued", "reviving"}
              /\ phase' = (IF c = Boot THEN "up" ELSE phase)
           \/ /\ RecoveryRaises(c)
              /\ UNCHANGED <<service, scheduler, registry>>
              /\ s = "idle"
              /\ phase' = (IF c = Boot THEN "down" ELSE phase)
  BY <1>1, <1>2, NoneIsNobody
     DEF RecoveryEnds, RecoveryRaises, Publishes, Launches, Resumes, PhaseAfter
<1>6. /\ calls'[c].at = s /\ calls'[c].on = k
      /\ \A d \in Coroutines : d # c => calls'[d] = calls[d]
  BY <1>5, <1>2, OneGoes
<1>7. Services'
  <2>1. c # Boot => triplet[g].apart # "no"
    BY <1>2, <1>3 DEF Home
  <2> QED
    BY <1>1, <1>2, <1>3, <1>4, <1>5, <2>1, NoneIsNobody DEF LifeInv, Services
<1>8. Builders'
  <2>1. \A d \in Coroutines : calls'[d].at # "recovering"
    BY <1>3, <1>5, <1>6
  <2>2. calls'[Boot].at = IF phase' = "loading" THEN "recovering" ELSE "idle"
    BY <1>3, <1>5, <1>6, BootIsCoroutine DEF LifeInv, Builders
  <2>3. phase' # "installing"
    BY <1>3, <1>5
  <2> QED
    BY <2>1, <2>2, <2>3 DEF Builders, LockHeld
<1>9. Workings'
  BY <1>1, <1>2, <1>5, NoneIsNobody, GoesWorks
<1>10. Warmth'
  <2> SUFFICES ASSUME NEW h \in Triplets, triplet'[h].apart = "no"
               PROVE  Home(h)' \/ Leaving(h, triplet[h])' \/ Cold(triplet[h])'
    BY DEF Warmth
  <2>1. CASE h = g
    <3>1. RecoveryEnds(c) /\ c = Boot
      BY <1>2, <1>3, <1>4, <1>5, <2>1 DEF Home
    <3>2. phase' = "up" /\ service' = g
      BY <3>1, <1>5, <1>4, <2>1
    <3> QED
      BY <3>2, <2>1 DEF Home
  <2>2. CASE h # g
    <3>1. triplet'[h] = triplet[h] /\ ~Home(h)
      BY <1>3, <1>4, <2>2, NoneIsNobody DEF Home
    <3>2. Leaving(h, triplet[h]) \/ Cold(triplet[h])
      BY <3>1 DEF LifeInv, Warmth
    <3> QED
      BY <1>1, <1>3, <1>5, <3>1, <3>2 DEF Leaving, Cold
  <2> QED
    BY <2>1, <2>2
<1>11. Users'
  <2> SUFFICES ASSUME NEW d \in Coroutines, calls'[d].on # None,
                      triplet'[calls'[d].on].apart = "no"
               PROVE \/ phase' = "loading" /\ calls'[Boot].on = calls'[d].on
                     \/ phase' \in {"up", "stopping"} /\ service' = calls'[d].on
                     \/ Overtaken(d)'
    BY DEF Users, Home
  <2>1. calls'[d].on \in Triplets /\ calls'[d].on = calls[d].on
    BY <1>2, <1>5, <1>6 DEF TypeOK
  <2>2. triplet[calls[d].on].apart = "no" /\ (calls[d].on = g => RecoveryEnds(c))
    BY <1>4, <1>5, <2>1
  <2>3. Home(calls[d].on) \/ Overtaken(d)
    BY <2>1, <2>2 DEF LifeInv, Users
  <2>4. CASE Home(calls[d].on)
    <3>1. c = Boot /\ calls[d].on = g
      BY <1>3, <2>1, <2>4, NoneIsNobody DEF Home
    <3>2. RecoveryEnds(c) /\ triplet'[g].apart = "no"
      BY <2>1, <2>2, <3>1
    <3> QED
      BY <1>4, <1>5, <2>1, <3>1, <3>2
  <2>5. CASE Overtaken(d)
    <3>1. d # c /\ calls'[d] = calls[d]
      BY <1>1, <1>6, <2>5 DEF Overtaken
    <3>2. triplet'[calls[d].on].missed = triplet[calls[d].on].missed
      BY <1>4, <2>1
    <3>3. phase = "leaving" => phase' = "leaving" /\ leaving' = leaving
      BY <1>1, <1>3, <1>5
    <3> QED
      BY <2>5, <3>1, <3>2, <3>3 DEF Overtaken
  <2> QED
    BY <2>3, <2>4, <2>5
<1>12. Active' => Active
  BY <1>1 DEF Active
<1>13. Restarts'
  BY <1>1, <1>4, <1>5, GoesRestarts
<1>14. setup' = setup \/ setup' # None
  BY <1>1, <1>5, NoneIsNobody
<1> QED
  BY <1>1, <1>7, <1>8, <1>9, <1>10, <1>11, <1>12, <1>13, <1>14, DiskStays DEF IInv, LifeInv

LEMMA UnloadBeginsKeeps ==
  ASSUME IInv, UnloadBegins
  PROVE  LifeInv' /\ Disk' /\ RuntimeInv' /\ ModelsInv'
<1> TypeOK /\ LifeInv
  BY DEF IInv
<1>1. /\ phase = "up" /\ phase' = "stopping" /\ DiskUnchanged
      /\ UNCHANGED <<leaving, service, scheduler, registry, calls, setup>>
  BY DEF UnloadBegins
<1>2. service \in Triplets
  BY <1>1, NoneIsNobody DEF TypeOK, LifeInv, Services
<1>3. \A h \in Triplets : /\ triplet'[h].apart = triplet[h].apart
                          /\ triplet'[h].observer = triplet[h].observer
                          /\ triplet'[h].worker = triplet[h].worker
                          /\ triplet'[h].resumed = triplet[h].resumed
                          /\ triplet'[h].missed = triplet[h].missed
  BY <1>2 DEF UnloadBegins, TypeOK, TripletType
<1>4. \A h : Home(h) => Home(h)'
  BY <1>1 DEF Home
<1>5. \A c \in Coroutines : calls[c].on # None => calls[c].on \in Triplets
  BY DEF TypeOK
<1>6. Services' /\ Builders' /\ Workings' /\ Restarts'
  BY <1>1, <1>3 DEF LifeInv, Services, Builders, LockHeld, Workings, Restarts
<1>7. Users'
  <2> SUFFICES ASSUME NEW d \in Coroutines, calls[d].on # None,
                      triplet'[calls[d].on].apart = "no"
               PROVE service = calls[d].on \/ Overtaken(d)'
    BY <1>1 DEF Users, Home
  <2>1. Home(calls[d].on) \/ Overtaken(d)
    BY <1>3, <1>5 DEF LifeInv, Users
  <2>2. Overtaken(d) => Overtaken(d)'
    BY <1>1, <1>3, <1>5 DEF Overtaken
  <2> QED
    BY <1>1, <2>1, <2>2 DEF Home
<1>8. Warmth'
  BY <1>1, <1>3, <1>4 DEF LifeInv, Warmth, Leaving, Cold
<1>9. Active
  BY <1>1 DEF Active
<1> QED
  BY <1>1, <1>6, <1>7, <1>8, <1>9, DiskStays DEF IInv, LifeInv

LEMMA ServiceStopsKeeps ==
  ASSUME IInv, ServiceStops
  PROVE  LifeInv' /\ Disk' /\ RuntimeInv' /\ ModelsInv'
<1> TypeOK /\ LifeInv
  BY DEF IInv
<1>1. /\ phase = "stopping" /\ phase' = "leaving" /\ DiskUnchanged
      /\ service' = None /\ leaving' = scheduler /\ setup = None
      /\ UNCHANGED <<scheduler, registry, setup>>
  BY DEF ServiceStops, Free
<1>2. /\ service \in Triplets /\ scheduler = service /\ registry = service
      /\ \A c \in Coroutines : calls[c].at \notin {"recovering", "preparing", "reviving"}
      /\ calls[Boot].at = "idle"
  BY <1>1, NoneIsNobody DEF TypeOK, LifeInv, Services, Builders, LockHeld, Workings
<1>3. \A c \in Coroutines :
        /\ calls'[c] = Resting \/ calls'[c] = calls[c]
        /\ calls[c].at = "resuming" => calls'[c] = calls[c]
        /\ calls'[c].on # None =>
             calls'[c] = calls[c] /\ (calls[c].on = service => calls[c].at = "resuming")
  <2> SUFFICES ASSUME NEW c \in Coroutines
               PROVE  /\ calls'[c] = Resting \/ calls'[c] = calls[c]
                      /\ calls[c].at = "resuming" => calls'[c] = calls[c]
                      /\ calls'[c].on # None =>
                           calls'[c] = calls[c] /\ (calls[c].on = service => calls[c].at = "resuming")
    OBVIOUS
  <2>1. calls'[c] = IF c \in LaunchesOf(service) THEN Resting ELSE calls[c]
    BY DEF ServiceStops
  <2>2. Resting.on = None
    BY DEF Resting
  <2>3. calls[c].on = service /\ calls[c].at # "resuming" => c \in LaunchesOf(service)
    <3>1. ASSUME calls[c].on = service, calls[c].at # "resuming"
          PROVE  calls[c].at \in {"queued", "handshake"}
      BY <1>2, <3>1, NoneIsNobody DEF TypeOK, LifeInv, Workings
    <3>2. c \in Calls \/ c = Boot
      BY DEF Coroutines
    <3> QED
      BY <1>2, <3>1, <3>2 DEF LaunchesOf
  <2>4. calls[c].at = "resuming" => c \notin LaunchesOf(service)
    BY DEF LaunchesOf
  <2> QED
    BY <2>1, <2>2, <2>3, <2>4
<1>4. \A h \in Triplets : h # service => triplet'[h] = triplet[h]
  BY <1>2 DEF ServiceStops, TypeOK
<1>5. /\ triplet'[service].observer = "stopped" /\ triplet'[service].worker # "starting"
      /\ triplet'[service].resumed = triplet[service].resumed
  <2>1. PICK w \in Processes \ {"starting"} :
          triplet' = [triplet EXCEPT ![service] =
             [triplet[service] EXCEPT !.worker = w, !.closed = TRUE, !.observer = "stopped"]]
    <3> DEFINE w == IF triplet[service].worker = "starting" THEN "none"
                    ELSE triplet[service].worker
    <3>1. triplet[service].worker \in Processes
      BY <1>2 DEF TypeOK, TripletType
    <3>2. w \in Processes \ {"starting"}
      BY <3>1 DEF Processes
    <3>3. triplet' = [triplet EXCEPT ![service] =
             [triplet[service] EXCEPT !.worker = w, !.closed = TRUE, !.observer = "stopped"]]
      BY <1>2 DEF ServiceStops, TypeOK, TripletType
    <3> QED
      BY <3>2, <3>3
  <2>2. LET T == [triplet[service] EXCEPT !.worker = w, !.closed = TRUE, !.observer = "stopped"]
        IN  T.observer = "stopped" /\ T.worker = w /\ T.resumed = triplet[service].resumed
    BY <1>2 DEF TypeOK, TripletType
  <2> QED
    BY <1>2, <2>1, <2>2 DEF TypeOK
<1>6. Services'
  BY <1>1, <1>2, NoneIsNobody DEF Services
<1>7. Builders'
  BY <1>1, <1>2, <1>3, BootIsCoroutine DEF Builders, LockHeld, Resting
<1>8. Workings'
  BY <1>1, <1>2, <1>3 DEF LifeInv, Workings, Resting
<1>9. Warmth'
  <2> SUFFICES ASSUME NEW h \in Triplets, triplet'[h].apart = "no"
               PROVE  Leaving(h, triplet[h])' \/ Cold(triplet[h])'
    BY DEF Warmth
  <2>1. CASE h = service
    BY <1>1, <1>2, <1>5, <2>1 DEF Leaving
  <2>2. CASE h # service
    <3>1. triplet'[h] = triplet[h] /\ ~Home(h)
      BY <1>1, <1>4, <2>2 DEF Home
    <3> QED
      BY <1>1, <3>1 DEF LifeInv, Warmth, Leaving, Cold
  <2> QED
    BY <2>1, <2>2
<1>10. Users'
  <2> SUFFICES ASSUME NEW d \in Coroutines, calls'[d].on # None,
                      triplet'[calls'[d].on].apart = "no"
               PROVE Overtaken(d)'
    BY DEF Users
  <2>1. calls'[d] = calls[d] /\ calls[d].on \in Triplets
    BY <1>3 DEF TypeOK
  <2>2. CASE calls[d].on = service
    BY <1>1, <1>2, <1>3, <2>1, <2>2 DEF Overtaken
  <2>3. CASE calls[d].on # service
    <3>1. triplet'[calls[d].on] = triplet[calls[d].on] /\ ~Home(calls[d].on)
      BY <1>1, <1>4, <2>1, <2>3 DEF Home
    <3>2. Overtaken(d)
      BY <2>1, <3>1 DEF LifeInv, Users
    <3> QED
      BY <1>1, <2>1, <3>1, <3>2 DEF Overtaken
  <2> QED
    BY <2>2, <2>3
<1>11. Active
  BY <1>1 DEF Active
<1>12. Restarts'
  <2>1. \A h \in Triplets : triplet'[h].resumed = triplet[h].resumed
    BY <1>4, <1>5
  <2> SUFFICES ASSUME NEW h \in Triplets, triplet'[h].resumed = "starting"
               PROVE  \E d \in Coroutines : calls'[d] = [at |-> "resuming", on |-> h]
    BY DEF Restarts
  <2>2. PICK d \in Coroutines : calls[d] = [at |-> "resuming", on |-> h]
    BY <2>1 DEF LifeInv, Restarts
  <2>3. calls'[d] = calls[d]
    BY <1>3, <2>2
  <2> QED
    BY <2>2, <2>3
<1> QED
  BY <1>1, <1>6, <1>7, <1>8, <1>9, <1>10, <1>11, <1>12, DiskStays DEF IInv, LifeInv

\* What is left of a restart that the collection of the workers has missed.
LEMMA SchedulerCollectsKeeps ==
  ASSUME IInv, SchedulerCollects
  PROVE  LifeInv' /\ Disk' /\ RuntimeInv' /\ ModelsInv'
<1> DEFINE m == \E c \in Coroutines : calls[c] = [at |-> "resuming", on |-> leaving]
           D == [triplet EXCEPT ![leaving].worker = Doomed(@), ![leaving].resumed = Doomed(@),
                                ![leaving].missed = m]
           old == triplet[leaving]
<1> TypeOK /\ LifeInv
  BY DEF IInv
<1>1. /\ phase = "leaving" /\ DiskUnchanged /\ UNCHANGED <<service, calls, setup>>
      /\ leaving \in Triplets /\ registry \in Triplets /\ old \in TripletType /\ m \in BOOLEAN
  BY NoneIsNobody DEF SchedulerCollects, Gone, TypeOK, LifeInv, Services
<1> HIDE DEF m
<1>2. /\ D \in [Triplets -> TripletType]
      /\ \A h \in Triplets : h # leaving => D[h] = triplet[h]
      /\ D[leaving] = [old EXCEPT !.worker = Doomed(@), !.resumed = Doomed(@), !.missed = m]
  BY <1>1, Collected
<1>3. /\ D[leaving].worker = Doomed(old.worker) /\ D[leaving].resumed = Doomed(old.resumed)
      /\ D[leaving].missed = m
      /\ D[leaving].apart = old.apart /\ D[leaving].observer = old.observer
  BY <1>1, <1>2 DEF TripletType
<1>4. \/ phase' = "down" /\ D[leaving].worker # "closing" /\ D[leaving].resumed # "closing"
         /\ Gone(D) /\ UNCHANGED row
      \/ phase' = "killing" /\ UNCHANGED <<leaving, registry, scheduler>> /\ triplet' = D
  BY DEF SchedulerCollects, Gone, m
<1>5. \A h \in Triplets : /\ triplet'[h].apart = D[h].apart
                          /\ triplet'[h].observer = D[h].observer
                          /\ triplet'[h].worker = D[h].worker
                          /\ triplet'[h].resumed = D[h].resumed
                          /\ triplet'[h].missed = D[h].missed
  <2>1. CASE Gone(D) /\ UNCHANGED row
    <3>1. row' \in BOOLEAN
      BY <2>1 DEF TypeOK
    <3> HIDE DEF D
    <3> QED
      BY <1>2, <2>1, <3>1, GoneTypes
  <2> QED
    BY <1>4, <2>1
<1> HIDE DEF D
<1>6. \A h \in Triplets : triplet'[h].apart = triplet[h].apart
  BY <1>2, <1>3, <1>5
<1>7. Services'
  <2>1. service # None => service \in Triplets
    BY DEF TypeOK
  <2> QED
    BY <1>1, <1>4, <1>6, <2>1 DEF LifeInv, Services
<1>8. Builders' /\ Workings'
  BY <1>1, <1>4 DEF LifeInv, Services, Builders, LockHeld, Workings
<1>9. Restarts'
  <2>1. \A h \in Triplets : triplet'[h].resumed = "starting" => triplet[h].resumed = "starting"
    BY <1>2, <1>3, <1>5 DEF Doomed
  <2> QED
    BY <1>1, <2>1 DEF LifeInv, Restarts
<1>10. old.resumed = "starting" => m
  BY <1>1 DEF LifeInv, Restarts, m
<1>11. Warmth'
  <2> SUFFICES ASSUME NEW h \in Triplets, triplet'[h].apart = "no"
               PROVE  Leaving(h, triplet[h])' \/ Cold(triplet[h])'
    BY DEF Warmth
  <2>1. Leaving(h, triplet[h]) \/ Cold(triplet[h])
    BY <1>1, <1>6 DEF LifeInv, Warmth, Home
  <2>2. CASE h = leaving
    <3>1. old.observer # "running" /\ old.worker # "starting"
      BY <1>1, <2>1, <2>2 DEF Leaving, Cold, Live
    <3>2. /\ triplet'[h].observer # "running"
          /\ triplet'[h].worker \notin {"starting", "running"}
          /\ triplet'[h].resumed \in {"starting", "running"} => triplet'[h].missed
      BY <1>3, <1>5, <1>10, <2>2, <3>1 DEF Doomed
    <3>3. CASE phase' = "down"
      BY <1>3, <1>4, <1>5, <2>2, <3>2, <3>3 DEF Cold, Live
    <3>4. CASE phase' = "killing"
      BY <1>4, <2>2, <3>2, <3>4 DEF Leaving
    <3> QED
      BY <1>4, <3>3, <3>4
  <2>3. CASE h # leaving
    <3>1. Cold(triplet[h])
      BY <2>1, <2>3 DEF Leaving
    <3> QED
      BY <1>2, <1>5, <2>3, <3>1 DEF Cold
  <2> QED
    BY <2>2, <2>3
<1>12. Users'
  <2> SUFFICES ASSUME NEW d \in Coroutines, calls[d].on # None,
                      triplet'[calls[d].on].apart = "no"
               PROVE  Overtaken(d)'
    BY <1>1 DEF Users
  <2>1. calls[d].on \in Triplets /\ calls[d] \in CallType
    BY DEF TypeOK, CallType
  <2>2. Overtaken(d)
    BY <1>1, <1>6, <2>1 DEF LifeInv, Users, Home
  <2>3. CASE calls[d].on = leaving
    <3>1. calls[d] = [at |-> "resuming", on |-> leaving]
      BY <2>1, <2>2, <2>3 DEF Overtaken, CallType
    <3>2. m
      BY <3>1 DEF m
    <3> QED
      BY <1>1, <1>3, <1>5, <2>1, <2>2, <2>3, <3>2 DEF Overtaken
  <2>4. CASE calls[d].on # leaving
    BY <1>1, <1>2, <1>5, <2>1, <2>2, <2>4 DEF Overtaken
  <2> QED
    BY <2>3, <2>4
<1>13. Active
  BY <1>1 DEF Active
<1> QED
  BY <1>1, <1>7, <1>8, <1>9, <1>11, <1>12, <1>13, DiskStays DEF IInv, LifeInv

LEMMA SchedulerStopsKeeps ==
  ASSUME IInv, SchedulerStops
  PROVE  LifeInv' /\ Disk' /\ RuntimeInv' /\ ModelsInv'
<1> DEFINE D == [triplet EXCEPT ![leaving].worker = Ended(@), ![leaving].resumed = Ended(@)]
           old == triplet[leaving]
<1> TypeOK /\ LifeInv
  BY DEF IInv
<1>1. /\ phase = "killing" /\ phase' = "down" /\ DiskUnchanged
      /\ UNCHANGED <<service, calls, setup>> /\ Gone(D)
  BY DEF SchedulerStops, Gone
<1>2. leaving \in Triplets /\ registry \in Triplets /\ old \in TripletType
  BY <1>1, NoneIsNobody DEF TypeOK, LifeInv, Services
<1>3. /\ D \in [Triplets -> TripletType]
      /\ \A h \in Triplets : h # leaving => D[h] = triplet[h]
      /\ D[leaving] = [old EXCEPT !.worker = Ended(@), !.resumed = Ended(@)]
  BY <1>2, Reaped
<1> HIDE DEF D
<1>4. /\ D[leaving].worker = Ended(old.worker) /\ D[leaving].resumed = Ended(old.resumed)
      /\ D[leaving].missed = old.missed
      /\ D[leaving].apart = old.apart /\ D[leaving].observer = old.observer
  BY <1>2, <1>3 DEF TripletType
<1>5. \A h \in Triplets : /\ triplet'[h].apart = triplet[h].apart
                          /\ triplet'[h].observer = triplet[h].observer
                          /\ triplet'[h].missed = triplet[h].missed
                          /\ triplet'[h].worker = D[h].worker
                          /\ triplet'[h].resumed = D[h].resumed
  <2> DEFINE kept == old.resumed = "running"
  <2>1. row' = (row /\ kept)
    BY DEF SchedulerStops
  <2>2. row' \in BOOLEAN
    BY <2>1
  <2>3. \A h \in Triplets : /\ triplet'[h].apart = D[h].apart
                            /\ triplet'[h].observer = D[h].observer
                            /\ triplet'[h].missed = D[h].missed
                            /\ triplet'[h].worker = D[h].worker
                            /\ triplet'[h].resumed = D[h].resumed
    BY <1>1, <1>3, <2>2, GoneTypes
  <2> QED
    BY <1>3, <1>4, <2>3
<1>6. service # None => service \in Triplets
  BY DEF TypeOK
<1>7. Services' /\ Builders' /\ Workings'
  BY <1>1, <1>5, <1>6 DEF LifeInv, Services, Builders, LockHeld, Workings
<1>8. Restarts'
  <2>1. \A h \in Triplets : triplet'[h].resumed = "starting" => triplet[h].resumed = "starting"
    BY <1>3, <1>4, <1>5 DEF Ended
  <2> QED
    BY <1>1, <2>1 DEF LifeInv, Restarts
<1>9. Users'
  <2> SUFFICES ASSUME NEW d \in Coroutines, calls[d].on # None,
                      triplet'[calls[d].on].apart = "no"
               PROVE  Overtaken(d)'
    BY <1>1 DEF Users
  <2>1. calls[d].on \in Triplets
    BY DEF TypeOK
  <2>2. Overtaken(d)
    BY <1>1, <1>5, <2>1 DEF LifeInv, Users, Home
  <2> QED
    BY <1>1, <1>5, <2>1, <2>2 DEF Overtaken
<1>10. Warmth'
  <2> SUFFICES ASSUME NEW h \in Triplets, triplet'[h].apart = "no"
               PROVE  Cold(triplet[h])'
    BY DEF Warmth
  <2>1. Leaving(h, triplet[h]) \/ Cold(triplet[h])
    BY <1>1, <1>5 DEF LifeInv, Warmth, Home
  <2>2. CASE h = leaving
    BY <1>1, <1>4, <1>5, <2>1, <2>2 DEF Leaving, Cold, Live, Ended
  <2>3. CASE h # leaving
    <3>1. Cold(triplet[h])
      BY <2>1, <2>3 DEF Leaving
    <3> QED
      BY <1>3, <1>5, <2>3, <3>1 DEF Cold
  <2> QED
    BY <2>2, <2>3
<1>11. Active
  BY <1>1 DEF Active
<1> QED
  BY <1>1, <1>7, <1>8, <1>9, <1>10, <1>11, DiskStays DEF IInv, LifeInv

LEMMA LoadKeeps ==
  ASSUME IInv, Load
  PROVE  LifeInv' /\ Disk' /\ RuntimeInv' /\ ModelsInv'
<1> TypeOK /\ LifeInv /\ RuntimeInv
  BY DEF IInv
<1>1. /\ phase = "down" /\ phase' = "installing" /\ setup = None /\ job = Idle
      /\ \A c \in Coroutines : calls[c].at = "idle"
      /\ InstallBegins /\ service' = None
      /\ UNCHANGED <<triplet, calls, setup>> /\ UNCHANGED modelsVars
  BY DEF Load, Free
<1>2. answer = "none"
  BY <1>1 DEF IInv, Disk
<1>3. RuntimeInv' /\ job' \in InstallSteps /\ answer' = answer
  <2>1. CASE ~Ready /\ archive # "none"
    <3>1. archive \in Archives /\ RuntimeTypeOK
      BY <2>1 DEF TypeOK, RuntimeTypeOK
    <3>2. /\ archive' = archive /\ Unpack(archive, "unpacking")
          /\ UNCHANGED <<tree, executable, answer>>
      BY <1>1, <2>1 DEF InstallBegins
    <3>3. job' = "unpacking"
      BY <3>2 DEF Unpack
    <3> QED
      BY <1>2, <2>1, <3>1, <3>2, <3>3, BeginsKeeps DEF InstallSteps
  <2>2. CASE ~(~Ready /\ archive # "none")
    <3>1. /\ job' = FirstStep
          /\ UNCHANGED <<archive, partial, tree, executable, left, answer, interrupted>>
      BY <1>1, <2>2 DEF InstallBegins
    <3>2. job' \in {"fetching", "marking"} /\ (job' = "fetching" => ~Ready)
      BY <3>1 DEF FirstStep
    <3> QED
      BY <1>2, <3>1, <3>2
         DEF RuntimeInv, Extracting, BundledIsWhole, Whole, Ready, InstallSteps
  <2> QED
    BY <2>1, <2>2
<1>4. Services' /\ Builders' /\ Workings' /\ Restarts'
  BY <1>1, BootIsCoroutine DEF LifeInv, Services, Builders, LockHeld, Workings, Restarts
<1>5. Users'
  BY <1>1 DEF LifeInv, Users, Workings
<1>6. Warmth'
  BY <1>1 DEF LifeInv, Warmth, Home, Leaving, Cold
<1>7. Disk'
  BY <1>1, <1>2, <1>3 DEF Disk, InstallSteps, ResolveSteps, Idle
<1> QED
  BY <1>1, <1>3, <1>4, <1>5, <1>6, <1>7, ModelsInvKept DEF IInv, LifeInv

LEMMA CrashKeeps ==
  ASSUME IInv, Crash
  PROVE  LifeInv' /\ Disk' /\ RuntimeInv' /\ ModelsInv'
<1> TypeOK /\ LifeInv /\ RuntimeInv
  BY DEF IInv
<1>1. /\ phase' = "down" /\ setup' = None /\ service' = None /\ job' = Idle /\ answer' = "none"
      /\ \A c \in Coroutines : calls'[c].at = "idle" /\ calls'[c].on = None
      /\ UNCHANGED <<archive, tree, executable, interrupted>>
      /\ \E power \in BOOLEAN : ModelsCrash(power)
  BY PluginAssumption DEF Crash, RuntimeCrash, Resting
<1>2. \A h \in Triplets : /\ triplet'[h].observer = "none"
                          /\ triplet'[h].worker \in {"none", "stray"}
                          /\ triplet'[h].resumed \in {"none", "stray"}
  <2>1. PICK power \in {FALSE, Power} :
          triplet' = [h \in Triplets |->
            IF triplet[h].registry = "none" THEN Unbuilt
            ELSE [Unbuilt EXCEPT !.registry = "closed",
                                 !.worker = Left(triplet[h].worker, power),
                                 !.resumed = Left(triplet[h].resumed, power)]]
    BY DEF Crash
  <2>2. \A w : Left(w, power) \in {"none", "stray"}
    BY DEF Left
  <2> QED
    BY <2>1, <2>2 DEF Unbuilt
<1>3. RuntimeInv'
  BY <1>1 DEF RuntimeInv, Extracting, BundledIsWhole, Whole, Idle
<1>4. Disk'
  BY <1>1 DEF Disk, Active, ResolveSteps, Idle
<1>5. LifeInv'
  BY <1>1, <1>2, BootIsCoroutine
     DEF LifeInv, Services, Builders, LockHeld, Workings, Restarts, Users, Warmth, Cold, Live
<1> QED
  BY <1>1, <1>3, <1>4, <1>5, ModelsInvKept DEF IInv

-------------------------------------------------------------------------------
(***************************************************************************)
(* Every step of Plugin, and the theorems.                                 *)
(***************************************************************************)
LEMMA CoroutineKeeps ==
  ASSUME IInv, NEW c \in Coroutines,
         \/ CallServed(c) \/ CallWaits(c) \/ CreationFails(c)
         \/ \E g \in Triplets : CreationPublishes(c, g) \/ CreationRecovers(c, g)
         \/ RecoveryEnds(c) \/ RecoveryRaises(c)
         \/ LaunchPrepares(c) \/ LaunchRefused(c) \/ LaunchEnds(c) \/ ResumeEnds(c)
  PROVE  IInv'
<1> TypeOK
  BY DEF IInv
<1>1. LifeInv' /\ Disk' /\ RuntimeInv' /\ ModelsInv'
  BY WaitingKeeps, CreationKeeps, RecoveryKeeps, LaunchKeeps, ResumeKeeps
<1>2. PluginTypes'
  <2>1. CASE CallServed(c) \/ CallWaits(c) \/ CreationFails(c)
    BY <2>1, WaitingTypes
  <2>2. CASE \E g \in Triplets : CreationPublishes(c, g) \/ CreationRecovers(c, g)
    BY <2>2, CreationTypes
  <2>3. CASE RecoveryEnds(c) \/ RecoveryRaises(c)
    <3>1. calls[c].on \in Triplets
      BY <2>3, UserOf DEF RecoveryEnds, RecoveryRaises
    <3> QED
      BY <2>3, <3>1, RecoveryTypes
  <2>4. CASE LaunchPrepares(c) \/ LaunchRefused(c) \/ LaunchEnds(c) \/ ResumeEnds(c)
    <3>1. calls[c].on \in Triplets
      BY <2>4, UserOf DEF LaunchPrepares, LaunchRefused, LaunchEnds, ResumeEnds
    <3> QED
      BY <2>4, <3>1, LaunchTypes
  <2> QED
    BY <2>1, <2>2, <2>3, <2>4
<1>3. DiskUnchanged
  BY DEF CallServed, CallWaits, CreationFails, CreationPublishes, CreationRecovers,
     RecoveryEnds, RecoveryRaises, LaunchPrepares, LaunchRefused, LaunchEnds, ResumeEnds
<1>4. RuntimeTypeOK' /\ ModelsTypeOK'
  BY <1>3, TypesSplit, RuntimeStepTypes, ModelsStepTypes DEF DiskUnchanged
<1>5. TypeOK'
  BY <1>2, <1>4 DEF TypeOK, PluginTypes, CallType
<1> QED
  BY <1>1, <1>5 DEF IInv

LEMMA SetupKeeps ==
  ASSUME IInv, SetupStep
  PROVE  IInv'
<1> TypeOK /\ RuntimeTypeOK /\ ModelsTypeOK /\ PluginTypes
  BY TypesSplit DEF IInv
<1>1. CASE SetupWrites
  <2>1. UNCHANGED pluginVars /\ UNCHANGED runtimeVars /\ ModelsStep
    BY <1>1 DEF SetupWrites
  <2>2. RuntimeTypeOK' /\ ModelsTypeOK' /\ PluginTypes'
    BY <2>1, RuntimeStepTypes, ModelsStepTypes DEF pluginVars, PluginTypes
  <2> QED
    BY <1>1, <2>2, SetupStepKeeps DEF IInv, TypeOK, PluginTypes, CallType
<1>2. CASE SetupResolves
  <2>1. UNCHANGED pluginVars /\ UNCHANGED modelsVars /\ ResolveBegins
    BY <1>2 DEF SetupResolves
  <2>2. RuntimeTypeOK' /\ ModelsTypeOK' /\ PluginTypes'
    BY <2>1, RuntimeStepTypes, ModelsStepTypes DEF pluginVars, PluginTypes
  <2> QED
    BY <1>2, <2>2, SetupStepKeeps DEF IInv, TypeOK, PluginTypes, CallType
<1>3. CASE WorkerStarts \/ SetupFails
  <2>1. setup # None /\ SetupOver
    BY <1>3 DEF WorkerStarts, SetupFails
  <2>2. calls[setup].on \in Triplets
    <3>1. setup \in Coroutines /\ calls[setup].at \in {"preparing", "reviving", "recovering"}
      BY <2>1 DEF PluginTypes, IInv, LifeInv, Workings
    <3> QED
      BY <3>1, UserOf
  <2>3. RuntimeTypeOK' /\ ModelsTypeOK' /\ PluginTypes'
    BY <1>3, <2>1, <2>2, SetupOverTypes, SetupTypes
  <2>4. RuntimeInv' /\ ModelsInv'
    BY <2>1, SetupOverKeeps, ModelsInvKept DEF IInv
  <2>5. LifeInv' /\ Disk'
    BY <1>3, WorkerStartsKeeps, SetupFailsKeeps
  <2> QED
    BY <2>3, <2>4, <2>5 DEF IInv, TypeOK, PluginTypes, CallType
<1> QED
  BY <1>1, <1>2, <1>3 DEF SetupStep

\* The steps that are no coroutine's: unloading, loading, the workers' ends, the
\* disk and the death of the host.
LEMMA OthersKeep ==
  ASSUME IInv,
         \/ Load \/ DiskStep \/ UserStep
         \/ (\E g \in Triplets : WorkerFinishes(g) \/ ObserverDies(g))
         \/ UnloadBegins \/ ServiceStops \/ SchedulerCollects \/ SchedulerStops \/ Crash
  PROVE  IInv'
<1> TypeOK /\ RuntimeTypeOK /\ ModelsTypeOK /\ PluginTypes
  BY TypesSplit DEF IInv
<1>1. LifeInv' /\ Disk' /\ RuntimeInv' /\ ModelsInv'
  BY LoadKeeps, DiskStepKeeps, WorkerKeeps, UnloadBeginsKeeps, ServiceStopsKeeps,
     SchedulerCollectsKeeps, SchedulerStopsKeeps, CrashKeeps
<1>2. PluginTypes'
  <2>1. CASE DiskStep \/ UserStep
    BY <2>1 DEF DiskStep, UserStep, pluginVars, PluginTypes
  <2>2. CASE \E g \in Triplets : WorkerFinishes(g) \/ ObserverDies(g)
    BY <2>2, WorkerTypes
  <2>3. phase \in {"leaving", "killing"} => leaving \in Triplets
    BY DEF TypeOK, IInv, LifeInv, Services
  <2> QED
    BY <2>1, <2>2, <2>3, LoadTypes, UnloadTypes
<1>3. RuntimeTypeOK'
  <2>1. \/ RuntimeStep \/ InstallBegins \/ RuntimeCrash
        \/ (\E a \in Downloads : ArchivePlaced(a)) \/ UNCHANGED runtimeVars
    BY DEF Load, DiskStep, UserStep, WorkerFinishes, ObserverDies, UnloadBegins, ServiceStops,
       SchedulerCollects, SchedulerStops, Gone, Crash, DiskUnchanged
  <2> QED
    BY <2>1, RuntimeStepTypes
<1>4. ModelsTypeOK'
  <2>1. (\E power \in BOOLEAN : ModelsCrash(power)) \/ UNCHANGED modelsVars
    BY PluginAssumption DEF Load, DiskStep, UserStep, WorkerFinishes, ObserverDies, UnloadBegins,
       ServiceStops, SchedulerCollects, SchedulerStops, Gone, Crash, DiskUnchanged
  <2> QED
    BY <2>1, ModelsStepTypes
<1> QED
  BY <1>1, <1>2, <1>3, <1>4 DEF IInv, TypeOK, PluginTypes, CallType

LEMMA NextIInv ==
  ASSUME IInv, [Next]_vars
  PROVE  IInv'
<1>1. CASE CoroutineStep
  BY <1>1, CoroutineKeeps DEF CoroutineStep
<1>2. CASE SetupStep
  BY <1>2, SetupKeeps
<1>3. CASE \/ Load \/ DiskStep \/ UserStep
           \/ (\E g \in Triplets : WorkerFinishes(g) \/ ObserverDies(g))
           \/ UnloadBegins \/ ServiceStops \/ SchedulerCollects \/ SchedulerStops \/ Crash
  BY <1>3, OthersKeep
<1>4. CASE UNCHANGED vars
  <2>1. UNCHANGED pluginVars /\ UNCHANGED runtimeVars /\ UNCHANGED modelsVars
    BY <1>4 DEF vars
  <2>2. LifeInv' /\ Disk' /\ RuntimeInv' /\ ModelsInv'
    BY <2>1, LifeStays, DiskStays DEF IInv, DiskUnchanged, pluginVars
  <2>3. RuntimeTypeOK' /\ ModelsTypeOK'
    BY <2>1, TypesSplit, RuntimeStepTypes, ModelsStepTypes DEF IInv
  <2>4. PluginTypes'
    BY <2>1, TypesSplit DEF IInv, pluginVars, PluginTypes
  <2> QED
    BY <2>2, <2>3, <2>4 DEF IInv, TypeOK, PluginTypes, CallType
<1> QED
  BY <1>1, <1>2, <1>3, <1>4 DEF Next

THEOREM PluginInvCorrect == Spec => []IInv
<1>1. Init => IInv
  BY InitIInv
<1>2. IInv /\ [Next]_vars => IInv'
  BY NextIInv
<1> QED
  BY <1>1, <1>2, PTL DEF Spec

\* Every variable of the plugin, of the runtime on disk and of models.json keeps
\* its type, for any set of calls and any number of triplets and URLs.
THEOREM PluginTypeCorrect == Spec => []TypeOK
<1>1. IInv => TypeOK
  BY DEF IInv
<1> QED
  BY <1>1, PluginInvCorrect, PTL

\* models.json is never left half written, whenever write_models_json fails, the
\* host dies or its power goes: only a file that was synced is renamed.
THEOREM ModelsStayReadable == Spec => []ModelsReadable
<1>1. IInv => ModelsReadable
  BY DEF IInv, ModelsInv, ModelsReadable
<1> QED
  BY <1>1, PluginInvCorrect, PTL

\* resolve() gives the bundled runtime to a worker only if all of it is there and
\* executable, unless an extraction was interrupted, whatever the network, the
\* archive and the disk do.
THEOREM BundleIsUsable == Spec => []BundledIsWhole
<1>1. IInv => BundledIsWhole
  BY DEF IInv, RuntimeInv
<1> QED
  BY <1>1, PluginInvCorrect, PTL

\* The vendor archive is removed only when all it held is on the disk, unless an
\* extraction was interrupted.
THEOREM ArchiveIsKept == Spec => ArchiveKept
<1> DEFINE Kept == archive # "none" /\ archive' = "none" /\ ~interrupted => Whole
<1>1. IInv /\ [Next]_vars => [Kept]_runtimeVars
  <2> SUFFICES ASSUME IInv, [Next]_vars, archive # "none", archive' = "none", ~interrupted
               PROVE  Whole
    BY DEF Kept
  <2>1. CASE Discards
    BY <2>1, PartsAre DEF Discards, IInv, RuntimeInv, Ready
  <2>2. CASE RuntimeStep /\ ~Discards
    <3>1. PICK a \in Downloads : FetchReplaces(a)
      BY <2>2 DEF RuntimeStep, FetchWrites, FetchFails, FetchRaises, ExtractOpens, ExtractCloses,
         ExtractEnds, ExtractRaises, Marks, Decides
    <3> QED
      BY <3>1, RuntimeAssumption DEF FetchReplaces, Archives
  <2>3. CASE InstallBegins \/ ResolveBegins \/ SetupOver \/ RuntimeCrash \/ UNCHANGED runtimeVars
    BY <2>3 DEF InstallBegins, ResolveBegins, SetupOver, RuntimeCrash, runtimeVars
  <2>4. CASE UserStep
    BY <2>4 DEF UserStep, ArchivePlaced
  <2>5. \/ RuntimeStep \/ UserStep
        \/ InstallBegins \/ ResolveBegins \/ SetupOver \/ RuntimeCrash \/ UNCHANGED runtimeVars
    BY DEF Next, Load, CoroutineStep, SetupStep, DiskStep, Crash, DiskUnchanged, vars,
       CallServed, CallWaits, CreationFails, CreationPublishes, CreationRecovers, RecoveryEnds,
       RecoveryRaises, LaunchPrepares, LaunchRefused, LaunchEnds, ResumeEnds, SetupWrites,
       SetupResolves, WorkerStarts, SetupFails, WorkerFinishes, ObserverDies, UnloadBegins,
       ServiceStops, SchedulerCollects, SchedulerStops, Gone
  <2> QED
    BY <2>1, <2>2, <2>3, <2>4, <2>5
<1> QED
  BY <1>1, PluginInvCorrect, PTL DEF Spec, ArchiveKept

\* However calls overlap with initialize() and terminate(), two schedulers never
\* work on the database at once, apart from those built while it was unloaded.
THEOREM SchedulerIsOne == Spec => []OneScheduler
<1>1. IInv => OneScheduler
  <2> SUFFICES ASSUME IInv, NEW g \in Triplets, NEW h \in Triplets, Observing(g), Observing(h),
                      triplet[g].apart = "no", triplet[h].apart = "no"
               PROVE  g = h
    BY DEF OneScheduler
  <2>1. Home(g) /\ Home(h)
    BY DEF IInv, LifeInv, Warmth, Leaving, Cold, Observing
  <2> QED
    BY <2>1 DEF Home
<1> QED
  BY <1>1, PluginInvCorrect, PTL

\* Once the plugin is unloaded no scheduler observes and no worker it started runs
\* or is about to, whatever launches, resumes and recovery were under way.  What
\* unloading does not end is excepted: triplets built meanwhile, those lost in
\* recovery, and the worker of a resume that was restarting it when shutdown
\* collected the workers.
THEOREM UnloadIsComplete == Spec => []UnloadLeavesNothing
<1>1. IInv => UnloadLeavesNothing
  BY DEF IInv, LifeInv, Warmth, Home, Leaving, Cold, UnloadLeavesNothing
<1> QED
  BY <1>1, PluginInvCorrect, PTL
===============================================================================
